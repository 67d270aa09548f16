----------------------- MODULE AccountHealthProofs -----------------------
(***************************************************************************)
(* The circuit of an account that is its own credential, for any number of *)
(* calls, probes, operators and dead letters: whoever does not overwrite   *)
(* the whole row takes a step of the abstract breaker.                     *)
(***************************************************************************)
EXTENDS AccountHealth, TLAPS

---------------------------------------------------------------------------
(* The window of a failure without a Retry-After, as for keys.             *)

\* The exponent table has one entry per step and only positive entries.
LEMMA DoublingPositive ==
  /\ Len(Doubling) = 15
  /\ \A i \in 1..15 : Doubling[i] \in Positive
  BY DEF Doubling, Positive

\* Clamping a run to the steps of a ladder answers one of them.
LEMMA ClampRange ==
  ASSUME NEW n \in Int, NEW high \in Positive
  PROVE  Clamp(n, 1, high) \in 1..high
  BY DEF Clamp, Positive

\* backoff never answers less than nothing nor more than its ceiling, whatever
\* the run: the shift cannot turn into a negative or an endless window.
LEMMA BackoffBounded ==
  ASSUME NEW base \in Positive, NEW n \in Int, NEW ceiling \in Positive
  PROVE  Backoff(base, n, ceiling) \in 1..ceiling
<1> DEFINE factor == Doubling[Clamp(n, 1, Len(Doubling))]
           window == base * factor
<1>1. factor \in Positive
  <2>1. 15 \in Positive
    BY DEF Positive
  <2>2. Clamp(n, 1, 15) \in 1..15
    BY <2>1, ClampRange
  <2> QED BY <2>2, DoublingPositive
<1>2. window \in Int
  BY <1>1 DEF Positive
<1>3. Backoff(base, n, ceiling)
        = IF window <= 0 \/ window > ceiling THEN ceiling ELSE window
  BY DEF Backoff
<1> HIDE DEF window, factor
<1> QED BY <1>2, <1>3 DEF Positive

\* quotaStep stays inside the month whatever the configured ceiling.
LEMMA QuotaStepBounded ==
  ASSUME NEW n \in Int, NEW ceiling \in Nat
  PROVE  QuotaStep(n, ceiling) \in 1..QuotaRest
<1>1. Len(QuotaLadder) \in Positive
  BY LadderAssumption DEF Positive
<1>2. Clamp(n, 1, Len(QuotaLadder)) \in 1..Len(QuotaLadder)
  BY <1>1, ClampRange
<1>3. \A i \in 1..Len(QuotaLadder) : QuotaLadder[i] \in 1..QuotaRest
  BY LadderAssumption DEF Positive
<1> DEFINE window == QuotaLadder[Clamp(n, 1, Len(QuotaLadder))]
<1>4. window \in 1..QuotaRest
  BY <1>2, <1>3
<1>5. QuotaStep(n, ceiling) = IF ceiling > 0 /\ ceiling < window THEN ceiling ELSE window
  BY DEF QuotaStep
<1> HIDE DEF window
<1> QED BY <1>4, <1>5, LadderAssumption DEF Positive

\* The ladder of a class, without a Retry-After, stays inside the month too.
LEMMA WindowForBounded ==
  ASSUME NEW p \in Policy, NEW r \in Rest, NEW c \in KeyClass, NEW n \in Nat,
         r.retry = 0
  PROVE  WindowFor(p, r, c, n) \in 1..QuotaRest
<1> n \in Int
  OBVIOUS
<1>0. /\ p.auth \in Positive /\ p.rate \in Positive /\ p.bill \in Positive
      /\ p.quota \in Nat /\ p.transient \in 1..QuotaRest
  BY DEF Policy, Positive
<1>1. /\ AuthMax \in Positive /\ RateMax \in Positive /\ BillMax \in Positive
      /\ 1..AuthMax \subseteq 1..QuotaRest
      /\ 1..RateMax \subseteq 1..QuotaRest
      /\ 1..BillMax \subseteq 1..QuotaRest
  BY LadderAssumption DEF Positive
<1>2. Backoff(p.auth, n, AuthMax) \in 1..QuotaRest
  BY <1>0, <1>1, BackoffBounded
<1>3. Backoff(p.rate, n, RateMax) \in 1..QuotaRest
  BY <1>0, <1>1, BackoffBounded
<1>4. Backoff(p.bill, n, BillMax) \in 1..QuotaRest
  BY <1>0, <1>1, BackoffBounded
<1>5. QuotaStep(n, p.quota) \in 1..QuotaRest
  BY <1>0, QuotaStepBounded
<1> QED BY <1>0, <1>2, <1>3, <1>4, <1>5 DEF WindowFor

---------------------------------------------------------------------------
(* One row.                                                                *)

GoodAccount(row) == row \in Row /\ Rested(row)

LEMMA Month == QuotaRest \in Nat \ {0}
  BY LadderAssumption DEF Positive

LEMMA RowFields ==
  ASSUME NEW row \in Row
  PROVE  /\ row.status \in {"active", "error", "disabled"} /\ row.errs \in Nat
         /\ row.until \in Nat \cup {Null} /\ row.dis \in Window
         /\ row.until \in Int /\ row.until >= Null
  BY DEF Row, Window, Null

\* The ladder of a class stays inside the month, with a Retry-After or without.
LEMMA WindowInMonth ==
  ASSUME NEW p \in Policies, NEW r \in Rest, NEW c \in KeyClass, NEW n \in Nat
  PROVE  WindowFor(p, r, c, n) \in 0..QuotaRest
<1>0. p \in Policy /\ p.rate <= QuotaRest /\ p.rate \in Nat \ {0} /\ r.retry \in Nat
      /\ RateMax \in 1..QuotaRest
  BY AccountHealthAssumption, LadderAssumption DEF Policy, Rest, Positive
<1>1. CASE r.retry = 0
  BY <1>0, <1>1, WindowForBounded, Month
<1>2. CASE r.retry # 0 /\ c = "ratelimit"
  <2>1. WindowFor(p, r, c, n) = Clamp(r.retry, p.rate, RateMax)
    BY <1>0, <1>2 DEF WindowFor
  <2> QED BY <1>0, <2>1, Month DEF Clamp
<1>3. CASE r.retry # 0 /\ c # "ratelimit"
  \* Only the rate-limit ladder reads the header.
  <2> DEFINE r0 == [r EXCEPT !.retry = 0]
  <2>1. r0 \in Rest /\ r0.retry = 0
    BY DEF Rest
  <2>2. WindowFor(p, r, c, n) = WindowFor(p, r0, c, n)
    BY <1>3 DEF WindowFor
  <2> HIDE DEF r0
  <2>3. WindowFor(p, r0, c, n) \in 1..QuotaRest
    BY <1>0, <2>1, WindowForBounded
  <2> QED BY <2>2, <2>3, Month
<1> QED BY <1>1, <1>2, <1>3

\* What RecordFailure hands to the outcome write.
LEMMA FailureRecorded ==
  ASSUME NEW row, GoodAccount(row), NEW p \in Policies, NEW r \in Rest, NEW c \in KeyClass
  PROVE  /\ RecordAccountFailure(row, c, p, r).errs \in Nat
         /\ RecordAccountFailure(row, c, p, r).until \in {Null} \cup 0..QuotaRest
<1>0. row \in Row /\ row.errs \in Nat /\ row.until \in {Null} \cup 0..QuotaRest
      /\ row.errs + 1 \in Nat
  BY RowFields, Month DEF GoodAccount, Rested
<1>1. CASE ImplicatesCredential(c)
  <2> DEFINE u == WindowFor(p, r, c, row.errs + 1)
             e == row.errs + 1
             agg == [row EXCEPT !.errs = e, !.until = u]
  <2>1. RecordAccountFailure(row, c, p, r) = agg
    BY <1>1 DEF RecordAccountFailure
  <2>2. u \in 0..QuotaRest /\ e \in Nat
    BY <1>0, WindowInMonth
  <2> HIDE DEF u, e
  <2>3. agg.errs = e /\ agg.until = u
    BY <1>0 DEF Row
  <2> HIDE DEF agg
  <2> QED BY <2>1, <2>2, <2>3
<1>2. CASE ~ImplicatesCredential(c)
  BY <1>0, <1>2 DEF RecordAccountFailure
<1> QED BY <1>1, <1>2

\* What a call's write does to the circuit: nothing, a release, or a strike that
\* leaves no shorter a park.
Released(row) == row.errs = 0 /\ row.until = Null
StruckOnce(stored, row) ==
  row.errs = stored.errs + 1 /\ row.until \in Null..QuotaRest /\ row.until >= stored.until

LEMMA OutcomeShape ==
  ASSUME NEW stored, GoodAccount(stored), NEW agg, agg.errs \in Nat,
         agg.until \in {Null} \cup 0..QuotaRest
  PROVE  /\ GoodAccount(Outcome(stored, agg))
         /\ \/ Outcome(stored, agg) = stored
            \/ Released(Outcome(stored, agg))
            \/ StruckOnce(stored, Outcome(stored, agg))
         /\ agg.errs = 0 => Released(Outcome(stored, agg))
<1>0. /\ stored \in Row /\ stored.errs \in Nat /\ stored.until \in Int
      /\ stored.until >= Null /\ stored.until <= QuotaRest /\ QuotaRest \in Nat
  BY RowFields, Month DEF GoodAccount, Rested
<1>1. CASE agg.errs = 0
  <2> DEFINE new == [stored EXCEPT !.until = Null, !.errs = 0]
  <2>1. Outcome(stored, agg) = new
    BY <1>1 DEF Outcome
  <2>2. new \in Row /\ new.errs = 0 /\ new.until = Null
    BY <1>0 DEF Row, Window
  <2> HIDE DEF new
  <2>3. GoodAccount(new) /\ Released(new)
    BY <1>0, <2>2 DEF GoodAccount, Rested, Released, Null
  <2> QED BY <1>1, <2>1, <2>3
<1>2. CASE agg.errs # 0 /\ agg.until = Null
  BY <1>2 DEF Outcome
<1>3. CASE agg.errs # 0 /\ agg.until # Null
  <2> DEFINE u == Later(stored.until, agg.until)
             e == stored.errs + 1
             new == [stored EXCEPT !.until = u, !.errs = e]
  <2>1. Outcome(stored, agg) = new
    BY <1>0, <1>3 DEF Outcome, Row
  <2>2. u \in Null..QuotaRest /\ u >= stored.until /\ u \in Window /\ e \in Nat
        /\ e = stored.errs + 1
    BY <1>0, <1>3 DEF Later, Window, Null
  <2> HIDE DEF u, e
  <2>3. new \in Row /\ new.errs = e /\ new.until = u
    BY <1>0, <2>2 DEF Row
  <2> HIDE DEF new
  <2>4. u <= QuotaRest
    BY <1>0, <2>2 DEF Null
  <2>5. GoodAccount(new) /\ StruckOnce(stored, new)
    BY <2>2, <2>3, <2>4 DEF GoodAccount, Rested, StruckOnce
  <2> QED BY <1>3, <2>1, <2>5
<1> QED BY <1>1, <1>2, <1>3

---------------------------------------------------------------------------
(* The row and the snapshots.                                              *)

PlansRested(plans) ==
  /\ plans \in [Actors -> Plan \cup {NoPlan}]
  /\ \A a \in Actors : plans[a] # NoPlan => GoodAccount(plans[a].row)

LEMMA AccountInvParts == AccountInv <=> GoodAccount(account) /\ PlansRested(plan)
<1>1. \A a \in Actors : plan[a] \in Plan \cup {NoPlan} /\ plan[a] # NoPlan
                        => plan[a].row \in Row
  BY DEF Plan
<1> QED BY <1>1 DEF AccountInv, TypeOK, GoodAccount, PlansRested, Held

\* An actor takes a snapshot up, or goes on with the one it has.
LEMMA HoldsOn ==
  ASSUME PlansRested(plan), NEW a \in Actors, NEW new \in Plan, GoodAccount(new.row),
         plan' = [plan EXCEPT ![a] = new]
  PROVE  PlansRested(plan')
  BY DEF PlansRested

LEMMA Drops ==
  ASSUME PlansRested(plan), NEW a \in Actors, Drop(a)
  PROVE  PlansRested(plan') /\ ~Held(a)'
<1>1. plan' = [plan EXCEPT ![a] = NoPlan]
  BY DEF Drop
<1>2. plan'[a] = NoPlan
  BY <1>1 DEF PlansRested
<1> QED BY <1>1, <1>2 DEF PlansRested, Held

LEMMA HeldRested ==
  ASSUME PlansRested(plan), NEW a \in Actors, Held(a)
  PROVE  plan[a] \in Plan /\ GoodAccount(plan[a].row)
  BY DEF PlansRested, Held

LEMMA Loads ==
  ASSUME PlansRested(plan), GoodAccount(account), NEW a \in Actors, Load(a)
  PROVE  PlansRested(plan') /\ account' = account
<1> DEFINE new == [row |-> account, stage |-> "held"]
<1>1. new \in Plan /\ new.row = account
  BY DEF GoodAccount, Plan
<1>2. plan' = [plan EXCEPT ![a] = new] /\ account' = account
  BY DEF Load
<1> HIDE DEF new
<1> QED BY <1>1, <1>2, HoldsOn

LEMMA Reaches ==
  ASSUME PlansRested(plan), NEW a \in Actors, Held(a), NEW stage \in {"sent", "answered"},
         Reach(a, stage)
  PROVE  PlansRested(plan') /\ account' = account
<1> DEFINE new == [plan[a] EXCEPT !.stage = stage]
<1>1. plan[a] \in Plan /\ GoodAccount(plan[a].row)
  BY HeldRested
<1>2. new \in Plan /\ new.row = plan[a].row
  BY <1>1 DEF Plan
<1>3. plan' = [plan EXCEPT ![a] = new] /\ account' = account
  BY DEF Reach
<1> HIDE DEF new
<1> QED BY <1>1, <1>2, <1>3, HoldsOn

---------------------------------------------------------------------------
(* The steps, and what each does to the circuit.                           *)

Sound == GoodAccount(account) /\ PlansRested(plan)

\* The circuit as the breaker of KeyBreaker sees it.
Circuit(row) == Released(row) \/ StruckOnce(account, row)

LEMMA CallKeeps ==
  ASSUME Sound, NEW a \in Calls, Call(a)
  PROVE  /\ Sound'
         /\ account' = account \/ Circuit(account')
<1>0. a \in Actors /\ GoodAccount(account) /\ PlansRested(plan)
  BY DEF Actors, Sound
<1>1. CASE BeginPlan(a)
  <2>1. PlansRested(plan') /\ account' = account
    BY <1>0, <1>1, Loads DEF BeginPlan
  <2> QED BY <1>0, <2>1 DEF Sound
<1>2. CASE Send(a)
  <2>1. PlansRested(plan') /\ account' = account
    BY <1>0, <1>2, Reaches DEF Send, Stage
  <2> QED BY <1>0, <2>1 DEF Sound
<1>3. CASE Answer(a)
  <2>1. PlansRested(plan') /\ account' = account
    BY <1>0, <1>3, Reaches DEF Answer, Stage
  <2> QED BY <1>0, <2>1 DEF Sound
<1>4. CASE Leave(a)
  <2>1. PlansRested(plan') /\ account' = account
    BY <1>0, <1>4, Drops DEF Leave
  <2> QED BY <1>0, <2>1 DEF Sound
<1>5. CASE Serve(a)
  <2> DEFINE agg == RecordAccountSuccess(plan[a].row)
  <2>1. Held(a) /\ account' = Outcome(account, agg) /\ Drop(a)
    BY <1>5 DEF Serve, Stage
  <2>2. GoodAccount(plan[a].row)
    BY <1>0, <2>1, HeldRested
  <2>3. agg.errs = 0 /\ agg.until = Null
    BY <2>2 DEF RecordAccountSuccess, GoodAccount, Row
  <2> HIDE DEF agg
  <2>4. GoodAccount(Outcome(account, agg)) /\ Released(Outcome(account, agg))
    BY <1>0, <2>3, OutcomeShape
  <2>5. PlansRested(plan')
    BY <1>0, <2>1, Drops
  <2> QED BY <2>1, <2>4, <2>5 DEF Sound, Circuit
<1>6. ASSUME NEW p \in Policies, NEW r \in Rests, NEW c \in KeyClass, Fail(a, p, r, c)
      PROVE  /\ Sound'
             /\ account' = account \/ Circuit(account')
  <2> DEFINE agg == RecordAccountFailure(plan[a].row, c, p, r)
  <2>1. Held(a) /\ account' = Outcome(account, agg) /\ Drop(a)
    BY <1>6 DEF Fail, Stage
  <2>2. GoodAccount(plan[a].row) /\ r \in Rest
    BY <1>0, <2>1, HeldRested, AccountHealthAssumption
  <2>3. agg.errs \in Nat /\ agg.until \in {Null} \cup 0..QuotaRest
    BY <2>2, FailureRecorded
  <2> HIDE DEF agg
  <2>4. /\ GoodAccount(Outcome(account, agg))
        /\ \/ Outcome(account, agg) = account
           \/ Released(Outcome(account, agg))
           \/ StruckOnce(account, Outcome(account, agg))
    BY <1>0, <2>3, OutcomeShape
  <2>5. PlansRested(plan')
    BY <1>0, <2>1, Drops
  <2> QED BY <2>1, <2>4, <2>5 DEF Sound, Circuit
<1> QED BY <1>1, <1>2, <1>3, <1>4, <1>5, <1>6 DEF Call

\* Whoever writes the row back drops its snapshot: it is one of the overwriting steps.
LEMMA WriteBackKeeps ==
  ASSUME Sound, NEW a \in Actors, NEW agg, GoodAccount(agg), WriteBack(a, agg)
  PROVE  Sound' /\ Held(a) /\ ~Held(a)'
<1> DEFINE s == agg.status
           u == agg.until
           d == agg.dis
           new == [account EXCEPT !.status = s, !.until = u, !.dis = d]
<1>1. Held(a) /\ account' = new /\ Drop(a)
  BY DEF WriteBack, UpdateEndpoint
<1>2. /\ account \in Row /\ s \in {"active", "error", "disabled"} /\ u \in Window
      /\ d \in Window /\ u <= QuotaRest
  BY DEF Sound, GoodAccount, Rested, Row
<1> HIDE DEF s, u, d
<1>3. new \in Row /\ new.until = u
  BY <1>2 DEF Row
<1> HIDE DEF new
<1>4. GoodAccount(new)
  BY <1>2, <1>3 DEF GoodAccount, Rested
<1>5. PlansRested(plan') /\ ~Held(a)'
  BY <1>1, Drops DEF Sound
<1> QED BY <1>1, <1>4, <1>5 DEF Sound

\* What an actor that is no call does: it loads, it leaves, or it writes a good row back.
Overwriting(a) ==
  \/ Load(a) \/ Leave(a)
  \/ \E agg \in Row : Rested(agg) /\ WriteBack(a, agg)

LEMMA OverwritingKeeps ==
  ASSUME Sound, NEW a \in Actors, Overwriting(a)
  PROVE  Sound' /\ (account' = account \/ (Held(a) /\ ~Held(a)'))
<1>0. GoodAccount(account) /\ PlansRested(plan)
  BY DEF Sound
<1>1. CASE Load(a)
  <2>1. PlansRested(plan') /\ account' = account
    BY <1>0, <1>1, Loads
  <2> QED BY <1>0, <2>1 DEF Sound
<1>2. CASE Leave(a)
  <2>1. PlansRested(plan') /\ account' = account
    BY <1>0, <1>2, Drops DEF Leave
  <2> QED BY <1>0, <2>1 DEF Sound
<1>3. ASSUME NEW agg \in Row, Rested(agg), WriteBack(a, agg)
      PROVE  Sound' /\ Held(a) /\ ~Held(a)'
  BY <1>3, WriteBackKeeps DEF GoodAccount
<1> QED BY <1>1, <1>2, <1>3 DEF Overwriting

\* The rows that are written back are rows, and rest no longer than the one loaded.
LEMMA Rewritten ==
  ASSUME NEW row, GoodAccount(row), NEW s \in {"active", "disabled"}, NEW w \in Positive
  PROVE  /\ GoodAccount(MarkUnhealthy(row)) /\ GoodAccount(Patched(row, s))
         /\ GoodAccount(Disable(row, w)) /\ GoodAccount(Enable(row))
<1>0. /\ row \in Row /\ row.until <= QuotaRest /\ Null <= QuotaRest
      /\ row.until \in Window /\ Null \in Window /\ w \in Window
      /\ row.status \in {"active", "error", "disabled"} /\ 0 \in Nat
  BY RowFields, Month DEF GoodAccount, Rested, Row, Window, Null, Positive
<1>1. GoodAccount(MarkUnhealthy(row))
  BY <1>0 DEF MarkUnhealthy, GoodAccount, Rested, Row
<1>2. GoodAccount(Patched(row, s))
  <2> DEFINE u == IF s = "disabled" THEN Null ELSE row.until
             new == [row EXCEPT !.status = s, !.dis = Null, !.until = u]
  <2>1. Patched(row, s) = new
    BY <1>0 DEF Patched, Row
  <2>2. u \in Window /\ u <= QuotaRest
    BY <1>0
  <2> HIDE DEF u
  <2>3. new \in Row /\ new.until = u
    BY <1>0, <2>2 DEF Row
  <2> HIDE DEF new
  <2> QED BY <2>1, <2>2, <2>3 DEF GoodAccount, Rested
<1>3. GoodAccount(Disable(row, w))
  BY <1>0 DEF Disable, GoodAccount, Rested, Row
<1>4. GoodAccount(Enable(row))
  BY <1>0 DEF Enable, GoodAccount, Rested, Row
<1> QED BY <1>1, <1>2, <1>3, <1>4

\* Probes, dead letters and the panel overwrite, and do nothing else.
LEMMA WritersOverwrite ==
  ASSUME Sound, NEW a \in Actors,
         \/ a \in Probers /\ Probe(a)
         \/ a \in Buriers /\ Bury(a)
         \/ a \in Operators /\ Operate(a)
  PROVE  Overwriting(a)
<1>0. Held(a) => GoodAccount(plan[a].row)
  BY HeldRested DEF Sound
\* A row with the good ones' shape, written back or left alone.
<1>1. ASSUME NEW agg, GoodAccount(agg), WriteBack(a, agg)
      PROVE  Overwriting(a)
  BY <1>1 DEF Overwriting, GoodAccount
<1>2. ASSUME NEW agg, GoodAccount(agg), Bulk(a, agg)
      PROVE  Overwriting(a)
  BY <1>1, <1>2 DEF Bulk, Overwriting
<1>3. ASSUME NEW agg, WriteBack(a, agg)
      PROVE  GoodAccount(plan[a].row)
  BY <1>0, <1>3 DEF WriteBack
<1>4. CASE a \in Probers /\ Probe(a)
  BY <1>1, <1>3, <1>4 DEF Probe, Overwriting
<1>5. CASE a \in Buriers /\ Bury(a)
  <2>1. CASE WriteBack(a, MarkUnhealthy(plan[a].row))
    <3>1. GoodAccount(MarkUnhealthy(plan[a].row))
      BY <1>3, <2>1, Rewritten DEF Positive
    <3> QED BY <1>1, <2>1, <3>1
  <2> QED BY <1>5, <2>1 DEF Bury, Overwriting
<1>6. CASE a \in Operators /\ Operate(a)
  <2>1. CASE PatchFields(a)
    BY <1>1, <1>3, <2>1 DEF PatchFields
  <2>2. ASSUME NEW s \in {"active", "disabled"}, PatchStatus(a, s)
        PROVE  Overwriting(a)
    <3>1. GoodAccount(Patched(plan[a].row, s))
      BY <1>3, <2>2, Rewritten DEF PatchStatus, Positive
    <3> QED BY <1>1, <2>2, <3>1 DEF PatchStatus
  <2>3. ASSUME NEW w \in DisableWindows, BulkDisable(a, w)
        PROVE  Overwriting(a)
    <3>1. GoodAccount(Disable(plan[a].row, w))
      BY <1>0, <2>3, Rewritten, AccountHealthAssumption DEF BulkDisable
    <3> QED BY <1>2, <2>3, <3>1 DEF BulkDisable
  <2>4. CASE BulkEnable(a)
    <3>1. GoodAccount(Enable(plan[a].row))
      BY <1>0, <2>4, Rewritten DEF BulkEnable, Positive
    <3> QED BY <1>2, <2>4, <3>1 DEF BulkEnable
  <2> QED BY <1>6, <2>1, <2>2, <2>3, <2>4 DEF Operate, Overwriting
<1> QED BY <1>4, <1>5, <1>6
---------------------------------------------------------------------------
(* Time.                                                                   *)

LEMMA ElapsedWindow ==
  ASSUME NEW w \in Window
  PROVE  Elapse(w) \in Window /\ Elapse(w) <= w
  BY DEF Elapse, Window, Null

LEMMA AgedRow ==
  ASSUME NEW row, GoodAccount(row)
  PROVE  /\ GoodAccount(Aged(row))
         /\ Aged(row).errs = row.errs /\ Aged(row).until = Elapse(row.until)
<1> DEFINE u == Elapse(row.until)
           d == Elapse(row.dis)
           new == [row EXCEPT !.until = u, !.dis = d]
<1>0. row \in Row /\ row.until \in Window /\ row.dis \in Window
      /\ row.until \in Int /\ row.until <= QuotaRest /\ QuotaRest \in Nat
  BY RowFields, Month DEF GoodAccount, Rested, Row
<1>1. Aged(row) = new
  BY <1>0 DEF Aged, Row
<1>2. u \in Window /\ d \in Window /\ u <= row.until
  BY <1>0, ElapsedWindow
<1>3. u <= QuotaRest
  BY <1>0, <1>2 DEF Window, Null
<1>4. u = Elapse(row.until)
  OBVIOUS
<1> HIDE DEF u, d
<1>5. new \in Row /\ new.until = u /\ new.errs = row.errs
  BY <1>0, <1>2 DEF Row
<1> HIDE DEF new
<1> QED BY <1>1, <1>3, <1>4, <1>5 DEF GoodAccount, Rested

LEMMA TickKeeps ==
  ASSUME Sound, Tick
  PROVE  Sound' /\ account' = Aged(account)
<1>1. account' = Aged(account) /\ GoodAccount(account')
  BY AgedRow DEF Sound, Tick
<1>2. ASSUME NEW a \in Actors
      PROVE  /\ plan'[a] \in Plan \cup {NoPlan}
             /\ plan'[a] # NoPlan => GoodAccount(plan'[a].row)
  <2>0. plan'[a] = IF Held(a) THEN [plan[a] EXCEPT !.row = Aged(@)] ELSE NoPlan
    BY DEF Tick
  <2>1. CASE Held(a)
    <3> DEFINE row == Aged(plan[a].row)
               new == [plan[a] EXCEPT !.row = row]
    <3>1. plan[a] \in Plan /\ GoodAccount(row)
      BY <2>1, HeldRested, AgedRow DEF Sound
    <3>2. plan'[a] = new
      BY <2>0, <2>1
    <3> HIDE DEF row
    <3>3. new \in Plan /\ new.row = row
      BY <3>1 DEF Plan, GoodAccount
    <3> HIDE DEF new
    <3> QED BY <3>1, <3>2, <3>3
  <2> QED BY <2>0, <2>1
<1>3. plan' = [a \in Actors |-> IF Held(a) THEN [plan[a] EXCEPT !.row = Aged(@)] ELSE NoPlan]
  BY DEF Tick
<1>4. plan' \in [Actors -> Plan \cup {NoPlan}]
  BY <1>2, <1>3
<1>5. PlansRested(plan')
  BY <1>2, <1>4 DEF PlansRested
<1> QED BY <1>1, <1>5 DEF Sound

---------------------------------------------------------------------------
(* The invariant.                                                          *)

LEMMA SoundInitially == Init => Sound
<1> SUFFICES ASSUME Init PROVE Sound
  OBVIOUS
<1>1. account \in Row /\ account.until = Null
  BY DEF Init, Row, Window
<1>2. Rested(account)
  BY <1>1, Month DEF Rested, Null
<1>3. PlansRested(plan)
  BY DEF Init, PlansRested
<1> QED BY <1>1, <1>2, <1>3 DEF Sound, GoodAccount

\* The step of whoever moves: a call's write is a step of the breaker, an
\* overwriting one ends a snapshot of somebody else's, time only passes.
LEMMA Steps ==
  ASSUME Sound, [Next]_vars
  PROVE  /\ Sound'
         /\ \/ account' = account
            \/ Circuit(account')
            \/ Overwrites
            \/ account' = Aged(account)
<1>1. ASSUME NEW a \in Calls, Call(a)
      PROVE  Sound' /\ (account' = account \/ Circuit(account'))
  BY <1>1, CallKeeps
<1>2. ASSUME NEW a \in Probers \cup Buriers \cup Operators,
             \/ a \in Probers /\ Probe(a)
             \/ a \in Buriers /\ Bury(a)
             \/ a \in Operators /\ Operate(a)
      PROVE  Sound' /\ (account' = account \/ Overwrites)
  <2>1. a \in Actors
    BY DEF Actors
  <2>2. Overwriting(a)
    BY <1>2, <2>1, WritersOverwrite
  <2>3. Sound' /\ (account' = account \/ (Held(a) /\ ~Held(a)'))
    BY <2>1, <2>2, OverwritingKeeps
  <2> QED BY <2>3 DEF Overwrites
<1>3. CASE Tick
  BY <1>3, TickKeeps
<1>4. CASE UNCHANGED vars
  <2>1. account' = account /\ plan' = plan
    BY <1>4 DEF vars
  <2> QED BY <2>1 DEF Sound
<1> QED BY <1>1, <1>2, <1>3, <1>4 DEF Next

\* Whatever overlaps, the stored row and every snapshot of it that may still be
\* written back are rows whose rest is at most the longest park a failure may ask.
THEOREM AccountStaysSound == Spec => []AccountInv
<1>1. Init => Sound
  BY SoundInitially
<1>2. Sound /\ [Next]_vars => Sound'
  BY Steps
<1>3. Sound => AccountInv
  BY AccountInvParts DEF Sound
<1> QED BY <1>1, <1>2, <1>3, PTL DEF Spec

---------------------------------------------------------------------------
(* The abstract breaker.                                                   *)

CircuitVars == <<account.errs, account.until>>

LEMMA BreakerStep ==
  ASSUME Sound, [Next]_vars
  PROVE  [~Overwrites => Breaker!Next]_CircuitVars
<1> DEFINE K == {"account"}
           strikes == [k \in K |-> account.errs]
           park == [k \in K |-> account.until]
<1>1. CASE account' = account
  BY <1>1 DEF CircuitVars
<1>2. CASE Overwrites
  BY <1>2
<1>3. CASE Released(account')
  <2>1. Breaker!Release(K)
    BY <1>3 DEF Breaker!Release, Breaker!NoPark, Released, Null
  <2> QED BY <2>1 DEF Breaker!Next
<1>4. CASE StruckOnce(account, account')
  <2>1. strikes' = [strikes EXCEPT !["account"] = @ + 1]
    BY <1>4 DEF StruckOnce
  <2>2. /\ account'.until \in Breaker!NoPark..QuotaRest
        /\ account'.until >= park["account"]
    BY <1>4 DEF StruckOnce, Breaker!NoPark, Null
  <2>3. park' = [park EXCEPT !["account"] = account'.until]
    OBVIOUS
  <2>4. Breaker!Strike("account")
    BY <2>1, <2>2, <2>3 DEF Breaker!Strike
  <2> QED BY <2>4 DEF Breaker!Next
<1>5. CASE account' = Aged(account)
  <2>1. account'.errs = account.errs /\ account'.until = Elapse(account.until)
    BY <1>5, AgedRow DEF Sound
  <2>2. park' = [k \in K |-> Breaker!Left(park[k])]
    BY <2>1 DEF Breaker!Left, Elapse
  <2>3. strikes' = strikes
    BY <2>1
  <2>4. Breaker!Pass
    BY <2>2, <2>3 DEF Breaker!Pass
  <2> QED BY <2>4 DEF Breaker!Next
<1> QED BY <1>1, <1>2, <1>3, <1>4, <1>5, Steps DEF Circuit

\* A step that ends nobody's whole-row write takes a step of the abstract breaker:
\* one strike and a park no shorter, a release of both, or time (RecordUpstreamOutcome).
THEOREM CallsKeepTheBreaker == Spec => CallsKeepBreaker
<1>1. Sound /\ [Next]_vars => [~Overwrites => Breaker!Next]_CircuitVars
  BY BreakerStep
<1>2. AccountInv => Sound
  BY AccountInvParts DEF Sound
<1> QED BY <1>1, <1>2, AccountStaysSound, PTL DEF Spec, CallsKeepBreaker, CircuitVars
===========================================================================
