---------------------------- MODULE ParkLadder ----------------------------
(***************************************************************************)
(* One credential failing again and again under one budget: every call of  *)
(* UpstreamKey.RecordFailure advances the run and asks RestUntil for the   *)
(* rest that run earns. The budget, the vendor's statement and the class   *)
(* are chosen once, from bounded sets, and the run grows past the last     *)
(* step of every ladder.                                                   *)
(***************************************************************************)
EXTENDS ParkWindow

CONSTANTS
  WindowCfgs,    \* KeyParkWindows an operator may have stored
  PolicyCfgs,    \* FailureClassPolicy an operator or a signature may state
  Retries,       \* Retry-After waits, 0 for none
  Resets,        \* stated resets relative to the failure, Null for none
  MaxStrikes     \* bound: how long the run is followed

VARIABLES budget, cfg, rest, class, run

vars == <<budget, cfg, rest, class, run>>

\* The classes a classified failure reaches RecordFailure's park with.
Parking == {fc \in FailureClass : ImplicatesCredential(KeyClassOf(fc))}

Init ==
  /\ cfg \in WindowCfgs
  /\ \E fc \in Parking \cup {Unclassified}, own \in PolicyCfgs, over \in PolicyCfgs,
        retry \in Retries, reset \in Resets :
       /\ class \in IF fc = Unclassified
                    THEN {c \in KeyClass : ImplicatesCredential(c)}
                    ELSE {KeyClassOf(fc)}
       \* A call with no classification carries no vendor statement (a probe).
       /\ fc = Unclassified => own = NoPolicy /\ retry = 0 /\ reset = Null
       \* A stated reset is read before the header: Classify never gives both.
       /\ reset # Null => retry = 0
       /\ rest = [class |-> fc, retry |-> retry, reset |-> reset, policy |-> own]
       /\ budget = HealthFor(cfg, [f \in DOMAIN cfg |-> 0],
                             [f \in FailureClass |-> NoPolicy],
                             [f \in FailureClass |-> IF f = fc THEN over ELSE NoPolicy])
  /\ run = 1

\* The credential fails once more in the same way; past the bound, as at the bound.
Strike ==
  /\ run' = IF run < MaxStrikes THEN run + 1 ELSE run
  /\ UNCHANGED <<budget, cfg, rest, class>>

Next == Strike

Spec == Init /\ [][Next]_vars

Earned == RestUntil(budget, rest, class, run)

---------------------------------------------------------------------------
TypeOK ==
  /\ budget \in Policy
  /\ rest \in Rest
  /\ class \in KeyClass
  /\ run \in 1..MaxStrikes
  /\ Earned \in Nat \cup {Null}

\* A longer run never earns a shorter rest: the ladders only escalate, and the
\* shift guard of backoff never turns an overflow into a small window.
NeverDeescalates == [][Earned' >= Earned]_vars

\* "A park that can be configured never to expire buries an account nothing then
\* heals" (upstream_key_health.go:23-25): whatever was configured or stated, the
\* rest ends inside the class's own ceiling, or the ladder's.
Ladder(c) ==
  CASE c = "auth" -> AuthMax [] c = "ratelimit" -> RateMax
    [] c = "billing" -> BillMax [] c = "quota" -> QuotaCeiling
    [] OTHER -> MaxTransientCfg
RestHeldInCeiling ==
  LET held == ClassWindow(PolicyFor(budget, rest).ceiling, RestCeilingFor(class))
  IN  Earned <= IF rest.reset # Null \/ rest.retry > 0 THEN held
                ELSE IF Ladder(class) > held THEN Ladder(class) ELSE held

\* "a header naming one second is a queue guess, not a promise"
\* (settings_routing_rest.go:51-52): a wait the vendor named never returns a
\* credential sooner than the first step of its ladder, unless an operator's own
\* ceiling for the class is shorter than that step.
RetryAfterKeepsFloor ==
  LET ceiling == ClassWindow(PolicyFor(budget, rest).ceiling, RestCeilingFor(class))
      first   == WindowFor(budget, [rest EXCEPT !.retry = 0], class, 1)
  IN  (rest.retry > 0 /\ Earned # Null /\ first <= ceiling) => Earned >= first

\* "A reset the upstream stated wins over everything the gateway could compute"
\* (settings_routing_rest.go:23-26): neither the run nor a cooldown shortens or
\* stretches a believable reset.
StatedResetWins ==
  LET ceiling == ClassWindow(PolicyFor(budget, rest).ceiling, RestCeilingFor(class))
  IN  (rest.reset \in 0..ceiling /\ Earned # Null) => Earned = rest.reset

\* The doubling ladders against their reference: start at the base, double at
\* every strike up to the fifteenth (keyLadderMaxN), stop at the ceiling.
DoublingReference(base, ceiling) ==
  LET f[n \in 1..MaxStrikes] ==
        LET twice == IF n = 1 THEN base ELSE 2 * f[n - 1]
        IN  IF twice > ceiling THEN ceiling ELSE twice
  IN  f
BackoffMatchesReference ==
  LET step == IF run > 15 THEN 15 ELSE run
  IN  /\ class = "auth" => WindowFor(budget, rest, class, run)
                             = DoublingReference(budget.auth, AuthMax)[step]
      /\ class = "billing" => WindowFor(budget, rest, class, run)
                                = DoublingReference(budget.bill, BillMax)[step]

---------------------------------------------------------------------------
(* What the repository says and the code does not do.                      *)

\* "a window an operator configured is a decision the class ceiling must not
\* overrule" (settings_routing_rest.go:45-47): with no vendor statement and no
\* class override, the configured transient window is the rest. The documented
\* default of SERVER_TRANSIENT carries a cooldown of its own, so it is not.
ConfiguredWindowIsTheRest ==
  (/\ cfg.transient > 0 /\ class = "transient"
   /\ rest.retry = 0 /\ rest.reset = Null /\ rest.policy = NoPolicy
   /\ \A fc \in FailureClass : budget.classes[fc] = NoPolicy)
  => Earned = budget.transient

\* "The first failure parks the key for its class's window, so a dead credential
\* stops serving immediately" (upstream_key_health.go:112-114). A reset that is
\* already past (a body that dates the last renewal, a skewed clock) parks it for
\* no time at all.
FirstFailureWithholds == Earned # Null => Earned > 0
===========================================================================
