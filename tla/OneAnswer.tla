----------------------------- MODULE OneAnswer -----------------------------
(***************************************************************************)
(* What the gateway promises one client, however many members, accounts    *)
(* and keys it tries behind the request: it asks one upstream at a time    *)
(* and no more of them than its budget, nobody else once the client has    *)
(* read a first frame, and it answers exactly once. RelayWalk implements   *)
(* it.                                                                     *)
(***************************************************************************)
EXTENDS Naturals

CONSTANT Budget      \* the upstream calls one request may cost

VARIABLES
  asked,   \* upstream calls made
  stage,   \* "idle" between calls, "asking" during one, then "answered" or "failed"
  heard    \* the client has read a frame

vars == <<asked, stage, heard>>

Init == asked = 0 /\ stage = "idle" /\ heard = FALSE

Ask ==
  /\ stage = "idle" /\ ~heard /\ asked < Budget
  /\ stage' = "asking" /\ asked' = asked + 1
  /\ UNCHANGED heard

\* The upstream failed, or what it said is set aside; nobody has heard of it.
Drop ==
  /\ stage = "asking" /\ ~heard
  /\ stage' = "idle"
  /\ UNCHANGED <<asked, heard>>

\* The first frame commits the request to the upstream that sent it.
Speak ==
  /\ stage = "asking" /\ ~heard
  /\ heard' = TRUE
  /\ UNCHANGED <<asked, stage>>

\* An answer exists only if somebody was asked for it.
Finish ==
  /\ stage \in {"idle", "asking"}
  /\ \/ stage' = "answered" /\ asked > 0
     \/ stage' = "failed"
  /\ UNCHANGED <<asked, heard>>

Next == Ask \/ Drop \/ Speak \/ Finish

Spec == Init /\ [][Next]_vars
===========================================================================
