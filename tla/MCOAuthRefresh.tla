-------------------------- MODULE MCOAuthRefresh --------------------------
(* The schedules scaled down to a few ticks.                               *)
EXTENDS OAuthRefresh

MCBackoffs == <<1, 3>>     \* below the sweep interval, and above it
MCLadder == <<1, 2, 3>>    \* the last rung holds
MCShortBackoffs == <<1>>
MCShortLadder == <<1, 2>>
===========================================================================
