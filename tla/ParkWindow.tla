---------------------------- MODULE ParkWindow ----------------------------
(***************************************************************************)
(* How one classified upstream failure becomes a rest: the ladders of      *)
(* internal/domain/upstream_key_health.go, the budget a provider resolves  *)
(* (settings_routing_health.go, settings_routing_policy.go) and the        *)
(* precedence rule of RestUntil (settings_routing_rest.go).                *)
(*                                                                         *)
(* Durations are whole units (seconds in MCParkWindow). A rest is relative *)
(* to the instant of the failure: Null is the zero time.Time ("park        *)
(* nothing"), 0 an instant that is not in the future.                      *)
(***************************************************************************)
EXTENDS Integers, Sequences

CONSTANTS
  AuthBase, AuthMax,      \* keyAuthBase, keyAuthMax
  RateBase, RateMax,      \* keyRateLimitBase, keyRateLimitMax
  BillBase, BillMax,      \* keyBillingBase, keyBillingMax
  TransientFlat,          \* keyTransientCooldown, also restCeilingTransient
  QuotaLadder,            \* quotaLadder, its last rung is keyQuotaCeiling
  QuotaRest,              \* restCeilingQuota and MaxFailureClassSeconds
  MaxAuthCfg, MaxRateCfg, MaxTransientCfg, MaxBillCfg  \* MaxKeyPark*

Null == -1

Positive == Nat \ {0}

ASSUME LadderAssumption ==
  /\ {AuthBase, RateBase, BillBase, TransientFlat} \subseteq Positive
  /\ {AuthMax, RateMax, BillMax, QuotaRest} \subseteq Positive
  /\ {MaxAuthCfg, MaxRateCfg, MaxTransientCfg, MaxBillCfg} \subseteq Positive
  /\ QuotaLadder \in Seq(Positive) /\ Len(QuotaLadder) > 0
  \* A month is the longest rest there is: every other ceiling is inside it.
  /\ {AuthMax, RateMax, BillMax, TransientFlat, MaxTransientCfg}
       \subseteq 1..QuotaRest
  /\ \A i \in 1..Len(QuotaLadder) : QuotaLadder[i] <= QuotaRest

---------------------------------------------------------------------------
(* The parking classes and the finer classes a recogniser stamps.          *)

KeyClass == {"auth", "ratelimit", "transient", "request", "target",
             "billing", "quota", "gate"}

ImplicatesCredential(c) ==
  c \in {"auth", "ratelimit", "transient", "billing", "quota"}

FailureClass == {"RATE_LIMIT_TEMPORARY", "QUOTA_EXHAUSTED", "AUTH_INVALID",
                 "BILLING_EXHAUSTED", "SERVER_TRANSIENT", "UNKNOWN",
                 "TARGET_UNREACHABLE", "GATE_BLOCKED", "REQUEST_INVALID"}

Unclassified == ""

KeyClassOf(fc) ==
  CASE fc = "RATE_LIMIT_TEMPORARY" -> "ratelimit"
    [] fc = "QUOTA_EXHAUSTED"      -> "quota"
    [] fc = "AUTH_INVALID"         -> "auth"
    [] fc = "BILLING_EXHAUSTED"    -> "billing"
    [] fc = "TARGET_UNREACHABLE"   -> "target"
    [] fc = "GATE_BLOCKED"         -> "gate"
    [] fc = "REQUEST_INVALID"      -> "request"
    [] OTHER                       -> "transient"

\* A class policy as an operator or a signature may state it; "" and 0 inherit.
Action == {"park", "rotate", "stop"}
ClassPolicy == [action : Action \cup {""}, ceiling : Nat, cooldown : Nat]
NoPolicy == [action |-> "", ceiling |-> 0, cooldown |-> 0]

\* domain.RestDirective: what the classifier recognised about one failure.
Rest == [class  : FailureClass \cup {Unclassified},
         retry  : Nat,                    \* RetryAfter, 0 when none was named
         reset  : Nat \cup {Null},        \* ResetAt, relative
         policy : ClassPolicy]            \* the signature's own policy

\* domain.KeyParkWindows, 0 for unset, and the resolved budget over them. Only
\* the flat window needs a bound of its own: every other one is a ladder's base.
Windows == [auth : Nat, rate : Nat, transient : Nat, bill : Nat, quota : Nat]
Policy == [auth : Positive, rate : Positive, transient : 1..QuotaRest,
           bill : Positive, quota : Positive,
           classes : [FailureClass -> ClassPolicy]]

---------------------------------------------------------------------------
(* The ladders.                                                            *)

\* 1 << (n - 1) for the fifteen steps keyLadderMaxN allows.
Doubling == <<1, 2, 4, 8, 16, 32, 64, 128, 256, 512, 1024, 2048, 4096, 8192,
              16384>>

Clamp(n, low, high) == IF n < low THEN low ELSE IF n > high THEN high ELSE n

Backoff(base, n, ceiling) ==
  LET window == base * Doubling[Clamp(n, 1, Len(Doubling))]
  IN  IF window <= 0 \/ window > ceiling THEN ceiling ELSE window

QuotaStep(n, ceiling) ==
  LET window == QuotaLadder[Clamp(n, 1, Len(QuotaLadder))]
  IN  IF ceiling > 0 /\ ceiling < window THEN ceiling ELSE window

QuotaCeiling == QuotaLadder[Len(QuotaLadder)]

---------------------------------------------------------------------------
(* The budget one provider resolves.                                       *)

SecondsWindow(seconds, def, max) ==
  IF seconds < 1 THEN def ELSE IF seconds > max THEN max ELSE seconds

Over(own, over) == IF over # 0 THEN over ELSE own

MergedWindows(w, over) ==
  [auth      |-> Over(w.auth, over.auth),
   rate      |-> Over(w.rate, over.rate),
   transient |-> Over(w.transient, over.transient),
   bill      |-> Over(w.bill, over.bill),
   quota     |-> Over(w.quota, over.quota)]

MergedPolicy(p, over) ==
  [action   |-> IF over.action # "" THEN over.action ELSE p.action,
   ceiling  |-> Over(p.ceiling, over.ceiling),
   cooldown |-> Over(p.cooldown, over.cooldown)]

\* RoutingSettings.HealthFor: the provider's override over the group's entry.
HealthFor(group, override, groupClasses, overrideClasses) ==
  LET w == MergedWindows(group, override)
  IN  [auth      |-> SecondsWindow(w.auth, AuthBase, MaxAuthCfg),
       rate      |-> SecondsWindow(w.rate, RateBase, MaxRateCfg),
       transient |-> SecondsWindow(w.transient, TransientFlat, MaxTransientCfg),
       bill      |-> SecondsWindow(w.bill, BillBase, MaxBillCfg),
       quota     |-> SecondsWindow(w.quota, QuotaCeiling, QuotaCeiling),
       classes   |-> [fc \in FailureClass |->
                       MergedPolicy(groupClasses[fc], overrideClasses[fc])]]

DefaultPolicy ==
  [auth |-> AuthBase, rate |-> RateBase, transient |-> TransientFlat,
   bill |-> BillBase, quota |-> QuotaCeiling,
   classes |-> [fc \in FailureClass |-> NoPolicy]]

DefaultClassPolicy(fc) ==
  CASE fc = "RATE_LIMIT_TEMPORARY" -> [NoPolicy EXCEPT !.action = "park", !.ceiling = RateMax]
    [] fc = "QUOTA_EXHAUSTED"      -> [NoPolicy EXCEPT !.action = "park", !.ceiling = QuotaRest]
    [] fc = "AUTH_INVALID"         -> [NoPolicy EXCEPT !.action = "park", !.ceiling = AuthMax]
    [] fc = "BILLING_EXHAUSTED"    -> [NoPolicy EXCEPT !.action = "park", !.ceiling = BillMax]
    [] fc \in {"SERVER_TRANSIENT", "UNKNOWN"} ->
         [action |-> "park", ceiling |-> TransientFlat, cooldown |-> TransientFlat]
    [] fc = "TARGET_UNREACHABLE"   -> [NoPolicy EXCEPT !.action = "rotate"]
    [] OTHER                       -> [NoPolicy EXCEPT !.action = "stop"]

---------------------------------------------------------------------------
(* One failure of parking class c, the n-th of its run, under budget p.    *)

\* KeyHealthPolicy.WindowFor with RetryAfterHint = r.retry (WithRest).
WindowFor(p, r, c, n) ==
  CASE c = "auth"      -> Backoff(p.auth, n, AuthMax)
    [] c = "ratelimit" -> IF r.retry > 0 THEN Clamp(r.retry, p.rate, RateMax)
                                         ELSE Backoff(p.rate, n, RateMax)
    [] c = "billing"   -> Backoff(p.bill, n, BillMax)
    [] c = "quota"     -> QuotaStep(n, p.quota)
    [] OTHER           -> p.transient

PolicyFor(p, r) ==
  IF r.class = Unclassified
  THEN NoPolicy
  ELSE MergedPolicy(MergedPolicy(DefaultClassPolicy(r.class), r.policy),
                    p.classes[r.class])

DefaultActionFor(c) ==
  CASE c \in {"target", "gate"} -> "rotate"
    [] c = "request"            -> "stop"
    [] OTHER                    -> "park"

ActionFor(p, r, c) ==
  LET a == PolicyFor(p, r).action IN IF a = "" THEN DefaultActionFor(c) ELSE a

RestCeilingFor(c) ==
  CASE c = "ratelimit" -> RateMax
    [] c = "auth"      -> AuthMax
    [] c = "billing"   -> BillMax
    [] c = "quota"     -> QuotaRest
    [] OTHER           -> TransientFlat

\* FailureClassPolicy.Ceiling and .Cooldown through classWindowSeconds.
ClassWindow(seconds, def) ==
  IF seconds < 1 THEN def ELSE IF seconds > QuotaRest THEN QuotaRest ELSE seconds

MinDuration(wait, ceiling) ==
  IF ceiling > 0 /\ wait > ceiling THEN ceiling ELSE wait

\* Faulty variant: the header alone decides.
RaisedToNothing(wait, floor) == wait

RaisedTo(wait, floor) == IF wait < floor THEN floor ELSE wait

\* The rest the failure earns, Null when the class parks nothing.
RestUntil(p, r, c, n) ==
  LET policy   == PolicyFor(p, r)
      ceiling  == ClassWindow(policy.ceiling, RestCeilingFor(c))
      cooldown == ClassWindow(policy.cooldown, 0)
      floor    == WindowFor(p, r, c, 1)
  IN  IF ActionFor(p, r, c) # "park" THEN Null
      ELSE IF r.reset # Null THEN MinDuration(r.reset, ceiling)
      ELSE IF r.retry > 0
           THEN MinDuration(RaisedTo(r.retry, floor), ceiling)
      ELSE IF cooldown > 0 THEN MinDuration(cooldown, ceiling)
      ELSE WindowFor(p, r, c, n)
===========================================================================
