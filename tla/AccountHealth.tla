--------------------------- MODULE AccountHealth ---------------------------
(***************************************************************************)
(* The health of an account that is its own credential: an OAuth, service  *)
(* account or keyless row, whose breaker is upstream_endpoints itself      *)
(* (domain/upstream_endpoint_account_health.go). Relay calls write it with *)
(* RecordUpstreamOutcome, which merges inside the database; connectivity   *)
(* probes, panel actions and the refresh worker's dead letter load the row *)
(* and write every management column of it back (updateEndpoint).          *)
(*                                                                         *)
(* Each actor decides on the row it loaded, plan[a]. Instants are relative *)
(* as in KeyHealth: what is left, 0 once elapsed, Null for NULL.           *)
(***************************************************************************)
EXTENDS ParkWindow, FiniteSets

CONSTANTS
  Calls, Probers, Operators,
  Buriers,         \* the refresh worker, when it dead-letters the account
  OperatorOps,     \* the panel actions the operators use
  Policies, Rests, \* as in KeyHealth
  DisableWindows,  \* the windows a bulk disable may resolve to
  MaxErrs,         \* bound: strikes counted before failures stop
  NoPlan

Actors == Calls \cup Probers \cup Operators \cup Buriers

Window == Nat \cup {Null}
Row == [status : {"active", "error", "disabled"}, errs : Nat,
        until : Window, dis : Window]
\* How far a call is: on the wire, or accepted by the upstream and not recorded yet.
Plan == [row : Row, stage : {"held", "sent", "answered"}]

ASSUME AccountHealthAssumption ==
  /\ OperatorOps \subseteq {"fields", "status", "disable", "enable"}
  /\ Policies \subseteq Policy /\ Rests \subseteq Rest
  \* The settings hold the base of the rate ladder to MaxKeyParkRateLimit, five minutes.
  /\ \A p \in Policies : p.rate <= QuotaRest
  /\ DisableWindows \subseteq Positive
  /\ MaxErrs \in Nat
  /\ NoPlan \notin Plan

VARIABLES
  account,  \* the stored row
  plan      \* what each actor loaded, NoPlan when it holds nothing

vars == <<account, plan>>

---------------------------------------------------------------------------
(* The aggregate (internal/domain/upstream_endpoint*.go).                  *)

\* Faulty variant: a park is over when somebody clears it.
AvailableOnceCleared(row) == row.status = "active" /\ row.until = Null

\* UpstreamEndpoint.Available of an account that stores no key.
Available(row) ==
  /\ row.status = "active" \/ (row.status = "disabled" /\ row.dis = 0)
  /\ row.until <= 0

RecordAccountSuccess(row) == [row EXCEPT !.errs = 0, !.until = Null]

RecordAccountFailure(row, c, p, r) ==
  IF ImplicatesCredential(c)
  THEN [row EXCEPT !.errs = @ + 1, !.until = WindowFor(p, r, c, row.errs + 1)]
  ELSE row

Disable(row, w) == [row EXCEPT !.status = "disabled", !.dis = w, !.until = Null]
Enable(row) ==
  [row EXCEPT !.status = "active", !.dis = Null, !.until = Null, !.errs = 0]

\* UpstreamEndpoint.Update with a status.
Patched(row, s) ==
  [row EXCEPT !.status = s, !.dis = Null, !.until = IF s = "disabled" THEN Null ELSE @]

\* MarkUnhealthy: health tracking never overwrites the operator's own state.
MarkUnhealthy(row) == [row EXCEPT !.status = IF @ = "disabled" THEN @ ELSE "error"]

---------------------------------------------------------------------------
(* The statements that write the row (internal/repository/postgres).       *)

Later(a, b) == IF a >= b THEN a ELSE b   \* GREATEST(COALESCE(a, b), b)

\* Faulty variant: the window is the aggregate's.
OutcomeAbsoluteWindow(stored, agg) ==
  CASE agg.errs = 0 -> [stored EXCEPT !.until = Null, !.errs = 0]
    [] agg.errs # 0 /\ agg.until = Null -> stored
    [] OTHER -> [stored EXCEPT !.until = agg.until, !.errs = stored.errs + 1]

\* RecordUpstreamOutcome: an aggregate with no strike clears the circuit, one with
\* a window adds a strike and keeps the later window.
Outcome(stored, agg) ==
  CASE agg.errs = 0 -> [stored EXCEPT !.until = Null, !.errs = 0]
    [] agg.errs # 0 /\ agg.until = Null -> stored
    [] OTHER -> [stored EXCEPT !.until = Later(stored.until, agg.until),
                               !.errs = stored.errs + 1]

\* updateEndpoint: the aggregate's status and windows, whatever the row says now.
\* consecutive_errors belongs to the outcome write and is left alone.
UpdateEndpoint(stored, agg) ==
  [stored EXCEPT !.status = agg.status, !.until = agg.until, !.dis = agg.dis]

---------------------------------------------------------------------------
Held(a) == plan[a] # NoPlan
Drop(a) == plan' = [plan EXCEPT ![a] = NoPlan]

Load(a) ==
  /\ ~Held(a)
  /\ plan' = [plan EXCEPT ![a] = [row |-> account, stage |-> "held"]]
  /\ UNCHANGED account

Leave(a) == Held(a) /\ Drop(a) /\ UNCHANGED account

\* A relay call ----------------------------------------------------------------

\* candidates lists the provider's active accounts only, and pickFrom takes the ones
\* available at the instant the walk began: any other is no part of the walk.
Routable(row) == row.status = "active" /\ Available(row)
BeginPlan(a) == Routable(account) /\ Load(a)

Stage(a, stage) == Held(a) /\ plan[a].stage = stage
Reach(a, stage) == plan' = [plan EXCEPT ![a].stage = stage] /\ UNCHANGED account

\* The walk reaches the account, at once or after others failed.
Send(a) == Stage(a, "held") /\ Reach(a, "sent")

\* The upstream accepts the call; the write comes after the whole answer.
Answer(a) == Stage(a, "sent") /\ Reach(a, "answered")

Serve(a) ==
  /\ Stage(a, "answered")
  /\ account' = Outcome(account, RecordAccountSuccess(plan[a].row))
  /\ Drop(a)

ClassesOf(r) == IF r.class = Unclassified THEN KeyClass ELSE {KeyClassOf(r.class)}

\* Selector.RecordFailure: every class but request writes the outcome.
Fail(a, p, r, c) ==
  /\ Stage(a, "sent")
  /\ c \in ClassesOf(r) /\ c # "request"
  /\ account.errs < MaxErrs
  /\ account' = Outcome(account, RecordAccountFailure(plan[a].row, c, p, r))
  /\ Drop(a)

Call(a) ==
  \/ BeginPlan(a) \/ Send(a) \/ Answer(a) \/ Serve(a) \/ Leave(a)
  \/ \E p \in Policies, r \in Rests, c \in KeyClass : Fail(a, p, r, c)

\* Who loads the row and writes it back ------------------------------------------

WriteBack(a, agg) ==
  /\ Held(a)
  /\ account' = UpdateEndpoint(account, agg)
  /\ Drop(a)

\* recordProbe: the outcome of the test is a column of its own; the rest of the row
\* goes back as it was up to fifteen seconds ago.
Probe(a) == Load(a) \/ Leave(a) \/ WriteBack(a, plan[a].row)

\* MarkRefreshDeadLetter.
Bury(a) == Load(a) \/ Leave(a) \/ WriteBack(a, MarkUnhealthy(plan[a].row))

\* PATCH without a status, bulk tags, a key removed.
PatchFields(a) == WriteBack(a, plan[a].row)

PatchStatus(a, s) == WriteBack(a, Patched(plan[a].row, s))

\* BulkStatus writes the rows whose readPark (status and deadline) changed.
Park(row) == <<row.status, row.dis>>
Bulk(a, agg) ==
  IF Park(agg) # Park(plan[a].row) THEN WriteBack(a, agg) ELSE Leave(a)

BulkDisable(a, w) == Held(a) /\ Bulk(a, Disable(plan[a].row, w))
BulkEnable(a) == Held(a) /\ Bulk(a, Enable(plan[a].row))

Operate(a) ==
  \/ Load(a) \/ Leave(a)
  \/ "fields" \in OperatorOps /\ PatchFields(a)
  \/ "status" \in OperatorOps /\ \E s \in {"active", "disabled"} : PatchStatus(a, s)
  \/ "disable" \in OperatorOps /\ \E w \in DisableWindows : BulkDisable(a, w)
  \/ "enable" \in OperatorOps /\ BulkEnable(a)

\* Time ----------------------------------------------------------------------------

Elapse(w) == IF w > 0 THEN w - 1 ELSE w
Aged(row) == [row EXCEPT !.until = Elapse(@), !.dis = Elapse(@)]
Running(row) == row.until > 0 \/ row.dis > 0

Tick ==
  /\ Running(account) \/ \E a \in Actors : Held(a) /\ Running(plan[a].row)
  /\ account' = Aged(account)
  /\ plan' = [a \in Actors |-> IF Held(a) THEN [plan[a] EXCEPT !.row = Aged(@)] ELSE NoPlan]

---------------------------------------------------------------------------
Init ==
  /\ account = [status |-> "active", errs |-> 0, until |-> Null, dis |-> Null]
  /\ plan = [a \in Actors |-> NoPlan]

Next ==
  \/ \E a \in Calls : Call(a)
  \/ \E a \in Probers : Probe(a)
  \/ \E a \in Buriers : Bury(a)
  \/ \E a \in Operators : Operate(a)
  \/ Tick

Spec == Init /\ [][Next]_vars
FairSpec == Spec /\ WF_vars(Tick)

---------------------------------------------------------------------------
(* Properties.                                                             *)

TypeOK ==
  /\ account \in Row
  /\ plan \in [Actors -> Plan \cup {NoPlan}]

\* Why the breaker's bound holds: any snapshot may be written back, however stale.
Rested(row) == row.until <= QuotaRest
AccountInv ==
  /\ TypeOK /\ Rested(account)
  /\ \A a \in Actors : Held(a) => Rested(plan[a].row)

\* Whatever probe, panel or worker write overtakes another one, a parked account
\* serves again by time alone, unless it was taken out of the active status
\* ("releasing it is a read rather than a job", upstream_endpoint_operator.go:23-25).
AccountHeals == account.until > 0 ~> (Routable(account) \/ account.status # "active")

\* The circuit as calls write it implements the breaker of KeyBreaker, as the one of
\* a credential does: "merged with GREATEST so a longer park is never shortened"
\* (endpoint_parity.go:24-25), and no strike of two concurrent failures is lost. The
\* others overwrite it, and that is all that may happen to it besides.
Breaker == INSTANCE KeyBreaker WITH
             Keys <- {"account"},
             strikes <- [k \in {"account"} |-> account.errs],
             park <- [k \in {"account"} |-> account.until],
             LongestPark <- QuotaRest
Overwrites == \E a \in Probers \cup Buriers \cup Operators : Held(a) /\ ~Held(a)'
CallsKeepBreaker == [][~Overwrites => Breaker!Next]_<<account.errs, account.until>>

---------------------------------------------------------------------------
(* What the repository says and the code does not do.                      *)

\* "A parked account is never selected, so the release only lands on a call the
\* account served" (endpoint_parity.go:25-26).
ReleasedByAnswer ==
  [][(account.until > 0 /\ account'.until < account.until)
     => Tick \/ \E a \in Calls : Serve(a)]_vars

\* "One read answers both halves of the failure, so the park and the walk cannot
\* disagree about it" (selection_health.go:138-140): a failure the operator's table
\* says to rotate past parks nothing.
ParkFollowsAction ==
  [][\A a \in Calls, p \in Policies, r \in Rests, c \in KeyClass :
       (Fail(a, p, r, c) /\ ActionFor(p, r, c) # "park")
       => account'.until <= account.until]_vars

\* "a re-enabled account gets one honest attempt instead of inheriting a strike
\* count" (upstream_endpoint_operator.go:41-43); "Releasing clears the window, the
\* health park and the breaker run" (endpoint_bulk_mutation.go:143-144).
EnabledIsHonest ==
  [][\A a \in Operators :
       BulkEnable(a) => (Routable(account') /\ account'.errs = 0)]_vars

\* "`disabled` is an operator decision, and no worker may vote it back into
\* rotation" (oauth_refresh.go:69-70); "that state is not health tracking's to
\* overwrite" (oauth_refresh.go:56-57).
DisableHolds ==
  [][(account.status = "disabled" /\ account'.status # "disabled")
     => \E a \in Operators : Operate(a)]_vars

\* "It still reads `disabled`, and the router serves it: the window states its own
\* length" (upstream_endpoint_operator.go:24-25).
TimedDisableEnds ==
  (account.status = "disabled" /\ account.dis > 0)
  ~> (account.status # "disabled" \/ Routable(account))
===========================================================================
