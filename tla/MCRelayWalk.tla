---------------------------- MODULE MCRelayWalk ----------------------------
(* Two members on one account and a third on another, and what upstreams   *)
(* may answer.                                                             *)
EXTENDS RelayWalk

CONSTANTS k1, k2, k3

MCQuotaLadder == <<1, 2>>

MCChain == <<{k1, k2}, {k1}, {k3}>>
MCTwoKeys == <<{k1, k2}, {k3}>>

MCDefault == {DefaultPolicy}

Answered(class, fc) ==
  [class |-> class,
   rest |-> [class |-> fc, retry |-> 0, reset |-> Null, policy |-> NoPolicy]]

\* A throttle, an unserved model, a refused request, and a class the operator stops on.
MCRefusals ==
  {Answered("ratelimit", "RATE_LIMIT_TEMPORARY"), Answered("target", Unclassified),
   Answered("request", "REQUEST_INVALID"),
   [Answered("auth", "AUTH_INVALID") EXCEPT !.rest.policy.action = "stop"]}
===========================================================================
