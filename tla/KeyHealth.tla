----------------------------- MODULE KeyHealth -----------------------------
(***************************************************************************)
(* The stored health of one account's credentials and everybody who writes *)
(* it: relay calls (internal/dataplane/selection*.go), connectivity probes *)
(* (service/endpoint_probe_use.go) and the panel's key actions             *)
(* (service/endpoint_keys.go, endpoint_key_bulk*.go).                      *)
(*                                                                         *)
(* Every one of them loads the account, decides on that snapshot, and      *)
(* writes later: an upstream call, a fifteen-second probe or another       *)
(* request may run in between. plan[a] is the snapshot actor a holds. Only *)
(* the write itself is atomic, one SQL statement (RecordKeyHealth,         *)
(* updateKey) or one transaction (ApplyKeyChanges).                        *)
(*                                                                         *)
(* Instants are relative: what is left of a window, 0 once it elapsed,     *)
(* Null for SQL NULL. Tick moves every stored and every held window.       *)
(***************************************************************************)
EXTENDS ParkWindow, FiniteSets

CONSTANTS
  Keys,            \* the credentials the account ever holds
  InitialKeys,     \* those it holds at the start; the others may be added
  KeyBacked,       \* UpstreamAuthType.UsesStoredKey
  Calls, Probers, Operators,
  OperatorOps,     \* the panel actions the operators use
  Policies,        \* the budgets the settings may resolve to
  Rests,           \* what a failed call may have been classified as
  ProbeClasses,    \* how a refused probe may be classified (FailureClass)
  ProbeDelays,     \* how long a probe may have taken (connectivityProbeTimeout)
  DisableWindows,  \* the windows a bulk disable may state
  MaxErrs,         \* bound: strikes counted before failures stop
  NoPlan, NoKey

Actors == Calls \cup Probers \cup Operators

\* "absent" is a row not inserted yet, "gone" one deleted: ids are never reused.
Status == {"active", "error", "disabled", "absent", "gone"}
Window == Nat \cup {Null}

Row == [status : Status, errs : Nat, auth : Nat, rate : Nat, bill : Nat,
        until : Window, dis : Window]
\* closed: the credentials a walk may not take, unavailable at the instant it began
\* or spent since; at: the one in flight; answered: the upstream accepted the call.
Plan == [rows : [Keys -> Row], closed : SUBSET Keys, at : Keys \cup {NoKey},
         answered : BOOLEAN]

Ops == {"add", "fields", "value", "status", "disable", "enable", "remove"}

ASSUME KeyHealthAssumption ==
  /\ InitialKeys \subseteq Keys
  /\ KeyBacked \in BOOLEAN
  /\ OperatorOps \subseteq Ops
  /\ Policies \subseteq Policy /\ Rests \subseteq Rest
  /\ ProbeClasses \subseteq KeyClass \ {"request"}
  /\ ProbeDelays \subseteq Nat
  /\ DisableWindows \subseteq Positive
  /\ MaxErrs \in Nat
  /\ NoPlan \notin Plan /\ NoKey \notin Keys

VARIABLES
  key,    \* upstream_keys: the stored row of each credential
  plan    \* the snapshot each actor decides on, NoPlan when it holds none

vars == <<key, plan>>

---------------------------------------------------------------------------
(* One credential (internal/domain/upstream_key*.go).                      *)

Blank(status) == [status |-> status, errs |-> 0, auth |-> 0, rate |-> 0,
                  bill |-> 0, until |-> Null, dis |-> Null]

Present(row) == row.status \notin {"absent", "gone"}
Enabled(row) == row.status \in {"active", "error"}

Available(row) ==
  IF row.status = "disabled" THEN row.dis = 0
  ELSE IF row.until = Null THEN row.status = "active"
  ELSE row.until = 0

\* consecutiveErrors++ and bumpRun.
Struck(row, c) ==
  [row EXCEPT !.errs = @ + 1,
              !.auth = @ + (IF c = "auth" THEN 1 ELSE 0),
              !.rate = @ + (IF c = "ratelimit" THEN 1 ELSE 0),
              !.bill = @ + (IF c \in {"billing", "quota"} THEN 1 ELSE 0)]

RunFor(row, c) ==
  CASE c = "auth"                 -> row.auth
    [] c = "ratelimit"            -> row.rate
    [] c \in {"billing", "quota"} -> row.bill
    [] OTHER                      -> row.errs

\* What is left of a rest that began late ago.
Since(rest, late) == IF rest > late THEN rest - late ELSE IF rest > 0 THEN 0 ELSE rest

RecordFailure(row, c, p, r, late) ==
  LET struck == Struck(row, c)
      until  == Since(RestUntil(p, r, c, RunFor(struck, c)), late)
  IN  IF ~ImplicatesCredential(c) THEN row
      ELSE IF until = Null THEN struck
      ELSE [struck EXCEPT !.status = "error", !.until = until]

\* Faulty variants: the park, or the error, outlives the answer; an answer switches the
\* credential on.
RecordSuccessSwitchesOn(row) ==
  [row EXCEPT !.errs = 0, !.auth = 0, !.rate = 0, !.bill = 0, !.until = Null, !.status = "active"]
RecordSuccessKeepsPark(row) ==
  [row EXCEPT !.errs = 0, !.auth = 0, !.rate = 0, !.bill = 0,
              !.status = IF @ = "error" THEN "active" ELSE @]
RecordSuccessKeepsError(row) ==
  [row EXCEPT !.errs = 0, !.auth = 0, !.rate = 0, !.bill = 0, !.until = Null]

RecordSuccess(row) ==
  [row EXCEPT !.errs = 0, !.auth = 0, !.rate = 0, !.bill = 0, !.until = Null,
              !.status = IF @ = "error" THEN "active" ELSE @]

---------------------------------------------------------------------------
(* The statements that write a row (internal/repository/postgres).         *)

Later(a, b) == IF a >= b THEN a ELSE b   \* GREATEST ignores its NULL side

\* Faulty variants: the window is the aggregate's, the counters are the aggregate's.
HealthWriteAbsoluteWindow(stored, agg, c) ==
  IF agg.errs = 0
  THEN [stored EXCEPT !.status = agg.status, !.errs = 0, !.auth = 0,
                      !.rate = 0, !.bill = 0, !.until = agg.until]
  ELSE [Struck(stored, c) EXCEPT !.status = agg.status, !.until = agg.until]
HealthWriteAbsoluteCounters(stored, agg, c) ==
  [agg EXCEPT !.dis = stored.dis, !.until = IF agg.errs = 0 THEN @ ELSE Later(stored.until, @)]

\* RecordKeyHealth: counters and window move inside the database unless the
\* aggregate reads as reset; the status is the aggregate's own.
HealthWrite(stored, agg, c) ==
  IF agg.errs = 0
  THEN [stored EXCEPT !.status = agg.status, !.errs = 0, !.auth = 0,
                      !.rate = 0, !.bill = 0, !.until = agg.until]
  ELSE [Struck(stored, c) EXCEPT !.status = agg.status,
                                 !.until = Later(@, agg.until)]

RecordKeyHealth(k, agg, c) ==
  key' = IF Present(key[k]) THEN [key EXCEPT ![k] = HealthWrite(@, agg, c)] ELSE key

\* updateKey: the operator's columns, never the health ones.
UpdateKeys(D, status, dis) ==
  key' = IF \A k \in D : Present(key[k])
         THEN [k \in Keys |-> IF k \in D
                 THEN [key[k] EXCEPT !.status = status[k], !.dis = dis[k]]
                 ELSE key[k]]
         ELSE key

---------------------------------------------------------------------------
Held(a) == plan[a] # NoPlan
Drop(a) == plan' = [plan EXCEPT ![a] = NoPlan]

Load(a, k, closed) ==
  /\ ~Held(a)
  /\ plan' = [plan EXCEPT ![a] = [rows |-> key, closed |-> closed, at |-> k,
                                     answered |-> FALSE]]
  /\ UNCHANGED key

\* A relay call --------------------------------------------------------------

Unavailable == {k \in Keys : ~(Present(key[k]) /\ Available(key[k]))}

\* BeginPlan loads the account once for the whole walk, and its one instant (p.now)
\* decides for the whole walk which credentials are available.
BeginPlan(a) == Load(a, NoKey, Unavailable)

\* SelectionPlan.Next: one credential that was available and that is not spent yet.
PlanNext(a, k) ==
  /\ Held(a) /\ plan[a].at = NoKey
  /\ k \notin plan[a].closed
  /\ plan' = [plan EXCEPT ![a].at = k, ![a].closed = @ \cup {k}]
  /\ UNCHANGED key

InFlight(a) == Held(a) /\ plan[a].at \in Keys
Snapshot(a) == plan[a].rows[plan[a].at]

Waiting(a) == InFlight(a) /\ ~plan[a].answered

\* The upstream accepts the call; the health write comes after the whole answer.
Answer(a) ==
  /\ Waiting(a)
  /\ plan' = [plan EXCEPT ![a].answered = TRUE]
  /\ UNCHANGED key

Serve(a) ==
  /\ InFlight(a) /\ plan[a].answered
  /\ RecordKeyHealth(plan[a].at, RecordSuccess(Snapshot(a)), "none")
  /\ Drop(a)

\* The walk goes on with the same snapshot, unless the failure stops it or there
\* is nothing left to spend.
WalkOn(a, action) ==
  IF action = "stop" \/ plan[a].closed = Keys
  THEN Drop(a) ELSE plan' = [plan EXCEPT ![a].at = NoKey]

ClassesOf(r) == IF r.class = Unclassified THEN KeyClass ELSE {KeyClassOf(r.class)}

\* A failure that implicates the credential: a strike, and the rest it earns.
Fail(a, p, r, c) ==
  /\ Waiting(a)
  /\ c \in ClassesOf(r) /\ ImplicatesCredential(c)
  /\ key[plan[a].at].errs < MaxErrs
  /\ RecordKeyHealth(plan[a].at, RecordFailure(Snapshot(a), c, p, r, 0), c)
  /\ WalkOn(a, ActionFor(p, r, c))

\* A target or gate failure writes no credential; the walk rotates.
Rotate(a) ==
  /\ Waiting(a)
  /\ WalkOn(a, "rotate")
  /\ UNCHANGED key

\* A refused request, a hung-up client, a truncated stream, a spent budget, a
\* process that dies: nothing is recorded.
Leave(a) ==
  /\ Held(a)
  /\ Drop(a)
  /\ UNCHANGED key

Call(a) ==
  \/ BeginPlan(a) \/ Answer(a) \/ Serve(a) \/ Rotate(a) \/ Leave(a)
  \/ \E k \in Keys : PlanNext(a, k)
  \/ \E p \in Policies, r \in Rests, c \in KeyClass : Fail(a, p, r, c)

\* A connectivity probe ------------------------------------------------------

\* A probe may target a parked credential, and a disabled one when it is named.
ProbeBegin(a, k) == Present(key[k]) /\ Load(a, k, {})

NoRest == [class |-> Unclassified, retry |-> 0, reset |-> Null, policy |-> NoPolicy]

\* recordProbe: any class but request is recorded through RecordKeyFailure and
\* written, the ones that do not implicate the credential included. The rest counts
\* from the instant before the probe was sent.
ProbeFail(a, p, c, late) ==
  /\ Waiting(a)
  /\ key[plan[a].at].errs < MaxErrs
  /\ RecordKeyHealth(plan[a].at, RecordFailure(Snapshot(a), c, p, NoRest, late), c)
  /\ Drop(a)

Probe(a) ==
  \/ Answer(a) \/ Serve(a) \/ Leave(a)
  \/ \E k \in Keys : ProbeBegin(a, k)
  \/ \E p \in Policies, c \in ProbeClasses, late \in ProbeDelays : ProbeFail(a, p, c, late)

\* The panel -------------------------------------------------------------------

\* Faulty variant: the key being taken out counts as the one that stays.
KeepsOneCountsItself(a, D) == KeyBacked => \E k \in Keys : Enabled(plan[a].rows[k])

\* refusesDeactivation and RemoveKey: the account keeps an enabled key, as far as
\* the snapshot tells.
KeepsOne(a, D) == KeyBacked => \E k \in Keys \ D : Enabled(plan[a].rows[k])

Known(a, D) == Held(a) /\ \A k \in D : Present(plan[a].rows[k])
StatusIn(a) == [k \in Keys |-> plan[a].rows[k].status]
DisIn(a) == [k \in Keys |-> plan[a].rows[k].dis]
Always(v) == [k \in Keys |-> v]

AddKey(a, k) ==
  /\ Held(a) /\ key[k].status = "absent"
  /\ key' = [key EXCEPT ![k] = Blank("active")]
  /\ Drop(a)

\* UpdateKey with a label or a priority, BulkKeyTags: the status and the deadline
\* of the snapshot are written back.
PatchFields(a, k) ==
  /\ Known(a, {k})
  /\ UpdateKeys({k}, StatusIn(a), DisIn(a))
  /\ Drop(a)

\* UpdateKey with a replacement value: the rebuilt key carries no deadline.
PatchValue(a, k) ==
  /\ Known(a, {k})
  /\ UpdateKeys({k}, StatusIn(a), Always(Null))
  /\ Drop(a)

\* UpdateKey with a status: Transition leaves no deadline behind.
PatchStatus(a, k, s) ==
  /\ Known(a, {k})
  /\ s = "disabled" => KeepsOne(a, {k})
  /\ UpdateKeys({k}, Always(s), Always(Null))
  /\ Drop(a)

\* BulkKeyStatus writes the rows whose switch or deadline it moved, no others.
Moved(a, D, s, w) == {k \in D : plan[a].rows[k].status # s \/ plan[a].rows[k].dis # w}

BulkDisable(a, D, w) ==
  /\ Known(a, D) /\ KeepsOne(a, D)
  /\ UpdateKeys(Moved(a, D, "disabled", w), Always("disabled"), Always(w))
  /\ Drop(a)

BulkEnable(a, D) ==
  /\ Known(a, D)
  /\ UpdateKeys(Moved(a, D, "active", Null), Always("active"), Always(Null))
  /\ Drop(a)

\* RemoveKey, BulkKeyDelete.
Remove(a, D) ==
  /\ Known(a, D) /\ KeepsOne(a, D)
  /\ key' = IF \A k \in D : Present(key[k])
            THEN [k \in Keys |-> IF k \in D THEN Blank("gone") ELSE key[k]] ELSE key
  /\ Drop(a)

Operate(a) ==
  \/ Load(a, NoKey, {})
  \/ Leave(a)
  \/ "add" \in OperatorOps /\ \E k \in Keys : AddKey(a, k)
  \/ "fields" \in OperatorOps /\ \E k \in Keys : PatchFields(a, k)
  \/ "value" \in OperatorOps /\ \E k \in Keys : PatchValue(a, k)
  \/ "status" \in OperatorOps /\ \E k \in Keys, s \in {"active", "disabled"} : PatchStatus(a, k, s)
  \/ "disable" \in OperatorOps /\ \E D \in (SUBSET Keys) \ {{}}, w \in DisableWindows : BulkDisable(a, D, w)
  \/ "enable" \in OperatorOps /\ \E D \in (SUBSET Keys) \ {{}} : BulkEnable(a, D)
  \/ "remove" \in OperatorOps /\ \E D \in (SUBSET Keys) \ {{}} : Remove(a, D)

\* Time ------------------------------------------------------------------------

Elapse(w) == IF w > 0 THEN w - 1 ELSE w
Aged(rows) == [k \in Keys |-> [rows[k] EXCEPT !.until = Elapse(@), !.dis = Elapse(@)]]
Running(rows) == \E k \in Keys : rows[k].until > 0 \/ rows[k].dis > 0

Tick ==
  /\ Running(key) \/ \E a \in Actors : Held(a) /\ Running(plan[a].rows)
  /\ key' = Aged(key)
  /\ plan' = [a \in Actors |-> IF Held(a) THEN [plan[a] EXCEPT !.rows = Aged(@)] ELSE NoPlan]

---------------------------------------------------------------------------
Init ==
  /\ key = [k \in Keys |-> IF k \in InitialKeys THEN Blank("active") ELSE Blank("absent")]
  /\ plan = [a \in Actors |-> NoPlan]

Next ==
  \/ \E a \in Calls : Call(a)
  \/ \E a \in Probers : Probe(a)
  \/ \E a \in Operators : Operate(a)
  \/ Tick

Spec == Init /\ [][Next]_vars

\* Time passes; nothing else is owed.
FairSpec == Spec /\ WF_vars(Tick)

---------------------------------------------------------------------------
(* Properties.                                                             *)

TypeOK ==
  /\ key \in [Keys -> Row]
  /\ plan \in [Actors -> Plan \cup {NoPlan}]

\* The health columns of one row agree with each other: a class run never counts
\* a failure the total does not, and a park always has a strike behind it, so the
\* reset test of RecordKeyHealth (consecutive_errors = 0) cannot keep a park.
ConsistentRow(row) ==
  /\ row.auth + row.rate + row.bill <= row.errs
  /\ row.until # Null => row.errs > 0
HealthConsistent == \A k \in Keys : ConsistentRow(key[k])

\* No interleaving of snapshots, vendors' statements and budgets parks a credential
\* past a month ("a park that can be configured never to expire buries an account
\* nothing then heals", upstream_key_health.go:23-25).
ParkBounded == \A k \in Keys : key[k].until <= QuotaRest

\* Why the last two hold for ever: the snapshots the actors hold satisfy them too,
\* since any of them may be written back, however stale.
GoodRow(row) == ConsistentRow(row) /\ row.until <= QuotaRest
IInv ==
  /\ TypeOK
  /\ \A k \in Keys : GoodRow(key[k])
  /\ \A a \in Actors : Held(a) => \A k \in Keys : GoodRow(plan[a].rows[k])

\* A park some step shortens, other than by taking the row away.
Shortened(k) ==
  /\ Present(key[k]) /\ Present(key'[k])
  /\ key[k].until > 0 /\ key'[k].until < key[k].until

\* RecordKeyHealth reads a snapshot without strikes as a served call, and recordProbe
\* (endpoint_probe_use.go:96) also writes verdicts that count none in the aggregate.
BlindRelease(a, k) ==
  \E p \in Policies, c \in ProbeClasses, late \in ProbeDelays :
    /\ ProbeFail(a, p, c, late) /\ plan[a].at = k
    /\ ~ImplicatesCredential(c) /\ Snapshot(a).errs = 0

\* Apart from time passing, a park is shortened by an answer that credential gave, or by
\* a probe that loaded the key before its first strike and then met a target or a gate
\* that refused it; never by a failure of the credential, a panel edit, or an older
\* snapshot that had counted a strike.
ParkEndsByEvidence ==
  [][\A k \in Keys : Shortened(k) =>
       \/ Tick
       \/ \E a \in Calls \cup Probers : Serve(a) /\ plan[a].at = k
       \/ \E a \in Probers : BlindRelease(a, k)]_vars

\* Each row implements the breaker: concurrent failures each count one strike, and
\* none of them shortens the park another one earned.
Breaker == INSTANCE KeyBreaker WITH
             strikes <- [k \in Keys |-> key[k].errs],
             park <- [k \in Keys |-> key[k].until],
             LongestPark <- QuotaRest
BreakerSpec == Breaker!Spec

\* "A parked key becomes usable again once its window expires, without an explicit
\* reset" (upstream_key_health.go:94-97): a key in error is routed again, unless
\* an operator takes it out first.
ErrorHeals ==
  \A k \in Keys : key[k].status = "error"
                  ~> (Available(key[k]) \/ key[k].status \in {"disabled", "gone"})

\* "refusing when that would leave a key-backed endpoint unable to route"
\* (upstream_endpoint_keys.go:45-46): there is always a key left enabled.
KeyFloor == KeyBacked => \E k \in Keys : Enabled(key[k])

\* A key that a read brings back: enabled, or disabled until a deadline.
Returns(row) == Enabled(row) \/ (row.status = "disabled" /\ row.dis # Null)
ReturnFloor == KeyBacked => \E k \in Keys : Returns(key[k])

\* The guards are sound as far as they see: an operator whose snapshot still holds
\* never takes the last enabled key away, and takes the last key that comes back by
\* itself away only by replacing its value, which asks no guard and drops the
\* deadline of the disable.
SwitchesCurrent(a) ==
  Held(a) /\ \A k \in Keys : /\ plan[a].rows[k].status = key[k].status
                             /\ plan[a].rows[k].dis = key[k].dis
KeyFloorKept ==
  [][\A a \in Operators :
       (SwitchesCurrent(a) /\ ~Held(a)')
       => /\ KeyFloor => KeyFloor'
          /\ (ReturnFloor /\ ~ReturnFloor') => \E k \in Keys : PatchValue(a, k)]_vars

\* What the panel switched off stays off for everybody who loaded the key after that,
\* its served calls included: it is enabled again only by an operator who asks for it,
\* by somebody who loaded it before it was switched off and writes the old status back,
\* or by a refused call or probe of it, which leaves it in error (a timed disable that
\* elapsed is routed, and a probe may name any key).
SwitchesOn(a, k) ==
  PatchStatus(a, k, "active") \/ \E D \in SUBSET Keys : k \in D /\ BulkEnable(a, D)
Writes(a) == Held(a) /\ plan'[a] # plan[a]
SwitchHolds ==
  [][\A k \in Keys : (key[k].status = "disabled" /\ Enabled(key'[k])) =>
       \/ \E a \in Operators : SwitchesOn(a, k)
       \/ \E a \in Actors : Writes(a) /\ plan[a].rows[k].status # "disabled"
       \/ \E a \in Calls \cup Probers :
            Waiting(a) /\ plan[a].at = k /\ Writes(a) /\ key'[k].status = "error"]_vars

---------------------------------------------------------------------------
(* What the repository says and the code does not do.                      *)

\* "A reset stays absolute because a served call is the evidence that releases the
\* park" (endpoint_key_health.go:25-26): apart from time passing and the row going away,
\* nothing shortens a park but an answer that credential gave.
ParkReleasedByAnswer ==
  [][\A k \in Keys : Shortened(k) =>
       Tick \/ \E a \in Calls \cup Probers : Serve(a) /\ plan[a].at = k]_vars

\* "It touches health columns only" and `disabled` "is the operator's own decision"
\* (endpoint_key_health.go:19-20, endpoint_probe_use.go:134-135): no relay call
\* brings back a credential that an operator switched off.
DisableHolds ==
  [][\A k \in Keys : (key[k].status = "disabled" /\ key'[k].status # "disabled")
                     => \E a \in Operators : Operate(a)]_vars

\* "clears what being switched off had accumulated: its window, the health park ...
\* so a re-enabled key faces one honest attempt" (upstream_key_operator.go:41-44):
\* a credential the panel just enabled is routable.
EnabledIsRoutable ==
  [][\A a \in Operators, D \in (SUBSET Keys) \ {{}} :
       (BulkEnable(a, D) /\ key' # key)
       => \A k \in Moved(a, D, "active", Null) : Available(key'[k])]_vars

\* "two selectors holding one starting count would otherwise land one increment and
\* the shorter backoff" (endpoint_key_health.go:23-24): a strike that takes the
\* credential run to n parks it for at least the n-th step of the (default) ladder.
StrikeEarnsItsStep ==
  [][\A k \in Keys :
       key'[k].auth > key[k].auth
       => key'[k].until >= Backoff(AuthBase, key'[k].auth, AuthMax)]_vars

\* The replaced credential keeps what was decided about the account: a timed
\* disable still ends by itself ("an operator's disable works the same way",
\* upstream_key_health.go:99-101).
TimedDisableEnds ==
  \A k \in Keys : (key[k].status = "disabled" /\ key[k].dis > 0)
                  ~> (Available(key[k]) \/ key[k].status # "disabled")
===========================================================================
