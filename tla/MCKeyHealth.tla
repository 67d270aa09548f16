---------------------------- MODULE MCKeyHealth ----------------------------
(* The ladders scaled down to a few ticks, and the inputs of each run.     *)
EXTENDS KeyHealth

MCQuotaLadder == <<1, 2>>

MCDefault == {DefaultPolicy}

Directive(fc) == [class |-> fc, retry |-> 0, reset |-> Null, policy |-> NoPolicy]

\* A rejected credential, a throttle that names its wait, a spent allowance that
\* names its reset, an outage, and a class the operator made rotate.
MCAuth == {Directive("AUTH_INVALID")}
MCRests ==
  {Directive("AUTH_INVALID"),
   [Directive("RATE_LIMIT_TEMPORARY") EXCEPT !.retry = 2],
   [Directive("QUOTA_EXHAUSTED") EXCEPT !.reset = 4],   \* beyond the month
   [Directive("SERVER_TRANSIENT") EXCEPT !.policy.action = "rotate"]}
MCTwoRests == {r \in MCRests : r.class \in {"QUOTA_EXHAUSTED", "SERVER_TRANSIENT"}}

MCNoWindow == {}
MCOneTick == {1}
============================================================================
