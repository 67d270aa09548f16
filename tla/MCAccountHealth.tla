-------------------------- MODULE MCAccountHealth --------------------------
(* The ladders scaled down to a few ticks, and the inputs of each run.     *)
EXTENDS AccountHealth

MCQuotaLadder == <<1, 2>>

MCDefault == {DefaultPolicy}

Directive(fc) == [class |-> fc, retry |-> 0, reset |-> Null, policy |-> NoPolicy]

\* A rejected token, a throttle that names its wait, a spent allowance, an outage,
\* a target that was never reached.
MCFailures ==
  {Directive("AUTH_INVALID"),
   [Directive("RATE_LIMIT_TEMPORARY") EXCEPT !.retry = 2],
   Directive("QUOTA_EXHAUSTED"), Directive("SERVER_TRANSIENT"),
   Directive("TARGET_UNREACHABLE")}

\* A rejected token, and an account the call never reached.
MCOrTarget == {Directive("AUTH_INVALID"), Directive("TARGET_UNREACHABLE")}

\* A class the operator made rotate.
MCRotate == {[Directive("SERVER_TRANSIENT") EXCEPT !.policy.action = "rotate"]}

MCAuth == {Directive("AUTH_INVALID")}

MCNoWindow == {}
MCOneTick == {1}
============================================================================
