-------------------------- MODULE KeyHealthProofs --------------------------
(***************************************************************************)
(* The health of a credential, for any number of keys, calls, probes and   *)
(* operators: the rows stay consistent, no park outlasts a month, and      *)
(* every write is a step of the breaker.  First, what the rest of a        *)
(* failure is bounded by, for every ladder, budget and vendor statement.   *)
(***************************************************************************)
EXTENDS KeyHealth, TLAPS

---------------------------------------------------------------------------
(* The window of one failure.                                              *)

\* The exponent table has one entry per step and only positive entries.
LEMMA DoublingPositive ==
  /\ Len(Doubling) = 15
  /\ \A i \in 1..15 : Doubling[i] \in Positive
  BY DEF Doubling, Positive

\* Clamping a run to the steps of a ladder answers one of them.
LEMMA ClampRange ==
  ASSUME NEW n \in Int, NEW high \in Positive
  PROVE  Clamp(n, 1, high) \in 1..high
  BY DEF Clamp, Positive

\* backoff never answers less than nothing nor more than its ceiling, whatever
\* the run: the shift cannot turn into a negative or an endless window.
THEOREM BackoffBounded ==
  ASSUME NEW base \in Positive, NEW n \in Int, NEW ceiling \in Positive
  PROVE  Backoff(base, n, ceiling) \in 1..ceiling
<1> DEFINE factor == Doubling[Clamp(n, 1, Len(Doubling))]
           window == base * factor
<1>1. factor \in Positive
  <2>1. 15 \in Positive
    BY DEF Positive
  <2>2. Clamp(n, 1, 15) \in 1..15
    BY <2>1, ClampRange
  <2> QED BY <2>2, DoublingPositive
<1>2. window \in Int
  BY <1>1 DEF Positive
<1>3. Backoff(base, n, ceiling)
        = IF window <= 0 \/ window > ceiling THEN ceiling ELSE window
  BY DEF Backoff
<1> HIDE DEF window, factor
<1> QED BY <1>2, <1>3 DEF Positive

\* quotaStep stays inside the month whatever the configured ceiling.
LEMMA QuotaStepBounded ==
  ASSUME NEW n \in Int, NEW ceiling \in Nat
  PROVE  QuotaStep(n, ceiling) \in 1..QuotaRest
<1>1. Len(QuotaLadder) \in Positive
  BY LadderAssumption DEF Positive
<1>2. Clamp(n, 1, Len(QuotaLadder)) \in 1..Len(QuotaLadder)
  BY <1>1, ClampRange
<1>3. \A i \in 1..Len(QuotaLadder) : QuotaLadder[i] \in 1..QuotaRest
  BY LadderAssumption DEF Positive
<1> DEFINE window == QuotaLadder[Clamp(n, 1, Len(QuotaLadder))]
<1>4. window \in 1..QuotaRest
  BY <1>2, <1>3
<1>5. QuotaStep(n, ceiling) = IF ceiling > 0 /\ ceiling < window THEN ceiling ELSE window
  BY DEF QuotaStep
<1> HIDE DEF window
<1> QED BY <1>4, <1>5, LadderAssumption DEF Positive

\* A window an operator stored is answered inside its maximum, or the default.
LEMMA SecondsWindowRange ==
  ASSUME NEW seconds \in Nat, NEW def \in Positive, NEW max \in Positive
  PROVE  SecondsWindow(seconds, def, max) \in Positive
         /\ (SecondsWindow(seconds, def, max) = def
             \/ SecondsWindow(seconds, def, max) <= max)
  BY DEF SecondsWindow, Positive

\* Whatever the routing document holds, the budget it resolves to is one the
\* ladders are proved for: no stored window, however old, escapes its bounds.
THEOREM HealthForIsPolicy ==
  ASSUME NEW group \in Windows, NEW override \in Windows,
         NEW gc \in [FailureClass -> ClassPolicy], NEW oc \in [FailureClass -> ClassPolicy]
  PROVE  HealthFor(group, override, gc, oc) \in Policy
<1> DEFINE w == MergedWindows(group, override)
<1>1. w \in Windows
  BY DEF Windows, MergedWindows, Over
<1>2. SecondsWindow(w.auth, AuthBase, MaxAuthCfg) \in Positive
  BY <1>1, SecondsWindowRange, LadderAssumption DEF Windows
<1>3. SecondsWindow(w.rate, RateBase, MaxRateCfg) \in Positive
  BY <1>1, SecondsWindowRange, LadderAssumption DEF Windows
<1>4. SecondsWindow(w.bill, BillBase, MaxBillCfg) \in Positive
  BY <1>1, SecondsWindowRange, LadderAssumption DEF Windows
<1>5. SecondsWindow(w.transient, TransientFlat, MaxTransientCfg) \in 1..QuotaRest
  <2>1. w.transient \in Nat
    BY <1>1 DEF Windows
  <2>2. TransientFlat \in 1..QuotaRest /\ MaxTransientCfg \in 1..QuotaRest /\ QuotaRest \in Nat
    BY LadderAssumption DEF Positive
  <2> QED BY <2>1, <2>2 DEF SecondsWindow
<1>6. QuotaCeiling \in Positive
  BY LadderAssumption DEF QuotaCeiling, Positive
<1>7. SecondsWindow(w.quota, QuotaCeiling, QuotaCeiling) \in Positive
  BY <1>1, <1>6, SecondsWindowRange DEF Windows
<1>8. \A fc \in FailureClass : MergedPolicy(gc[fc], oc[fc]) \in ClassPolicy
  BY DEF MergedPolicy, ClassPolicy, Over
<1> HIDE DEF w
<1> DEFINE h == HealthFor(group, override, gc, oc)
<1>9. h = [auth      |-> SecondsWindow(w.auth, AuthBase, MaxAuthCfg),
           rate      |-> SecondsWindow(w.rate, RateBase, MaxRateCfg),
           transient |-> SecondsWindow(w.transient, TransientFlat, MaxTransientCfg),
           bill      |-> SecondsWindow(w.bill, BillBase, MaxBillCfg),
           quota     |-> SecondsWindow(w.quota, QuotaCeiling, QuotaCeiling),
           classes   |-> [fc \in FailureClass |-> MergedPolicy(gc[fc], oc[fc])]]
  BY DEF HealthFor, w
<1> QED BY <1>2, <1>3, <1>4, <1>5, <1>7, <1>8, <1>9 DEF Policy

\* The policy of one classified failure is a class policy.
LEMMA PolicyForType ==
  ASSUME NEW p \in Policy, NEW r \in Rest
  PROVE  PolicyFor(p, r) \in ClassPolicy
<1>1. CASE r.class = Unclassified
  BY <1>1 DEF PolicyFor, NoPolicy, ClassPolicy
<1>2. CASE r.class # Unclassified
  <2>1. r.class \in FailureClass /\ r.policy \in ClassPolicy
    BY <1>2 DEF Rest
  <2>2. p.classes[r.class] \in ClassPolicy
    BY <2>1 DEF Policy
  <2>3. DefaultClassPolicy(r.class) \in ClassPolicy
    BY LadderAssumption DEF DefaultClassPolicy, NoPolicy, ClassPolicy, Action, Positive
  <2>4. \A x, y \in ClassPolicy : MergedPolicy(x, y) \in ClassPolicy
    BY DEF MergedPolicy, ClassPolicy, Over
  <2> QED BY <1>2, <2>1, <2>2, <2>3, <2>4 DEF PolicyFor
<1> QED BY <1>1, <1>2

\* The ceiling of a class is a positive number of units inside the month.
LEMMA CeilingRange ==
  ASSUME NEW seconds \in Nat, NEW c \in KeyClass
  PROVE  ClassWindow(seconds, RestCeilingFor(c)) \in 1..QuotaRest
<1>1. RestCeilingFor(c) \in 1..QuotaRest
  BY LadderAssumption DEF RestCeilingFor, Positive
<1> QED BY <1>1, LadderAssumption DEF ClassWindow, Positive

\* The ladder of a class, without a Retry-After, stays inside the month too.
LEMMA WindowForBounded ==
  ASSUME NEW p \in Policy, NEW r \in Rest, NEW c \in KeyClass, NEW n \in Nat,
         r.retry = 0
  PROVE  WindowFor(p, r, c, n) \in 1..QuotaRest
<1> n \in Int
  OBVIOUS
<1>0. /\ p.auth \in Positive /\ p.rate \in Positive /\ p.bill \in Positive
      /\ p.quota \in Nat /\ p.transient \in 1..QuotaRest
  BY DEF Policy, Positive
<1>1. /\ AuthMax \in Positive /\ RateMax \in Positive /\ BillMax \in Positive
      /\ 1..AuthMax \subseteq 1..QuotaRest
      /\ 1..RateMax \subseteq 1..QuotaRest
      /\ 1..BillMax \subseteq 1..QuotaRest
  BY LadderAssumption DEF Positive
<1>2. Backoff(p.auth, n, AuthMax) \in 1..QuotaRest
  BY <1>0, <1>1, BackoffBounded
<1>3. Backoff(p.rate, n, RateMax) \in 1..QuotaRest
  BY <1>0, <1>1, BackoffBounded
<1>4. Backoff(p.bill, n, BillMax) \in 1..QuotaRest
  BY <1>0, <1>1, BackoffBounded
<1>5. QuotaStep(n, p.quota) \in 1..QuotaRest
  BY <1>0, QuotaStepBounded
<1> QED BY <1>0, <1>2, <1>3, <1>4, <1>5 DEF WindowFor

\* Cutting a wait at a ceiling inside the month leaves it inside the month.
LEMMA MinDurationRange ==
  ASSUME NEW wait \in Nat, NEW ceiling \in 1..QuotaRest
  PROVE  MinDuration(wait, ceiling) \in 0..QuotaRest
  BY LadderAssumption DEF MinDuration, Positive

\* The rest a failure earns is Null or ends inside a month: for every ladder,
\* every budget the settings can hold, every class, every run and every statement
\* a vendor can make (RestUntil, settings_routing_rest.go).
THEOREM RestUntilBounded ==
  ASSUME NEW p \in Policy, NEW r \in Rest, NEW c \in KeyClass, NEW n \in Nat
  PROVE  RestUntil(p, r, c, n) \in {Null} \cup 0..QuotaRest
<1> DEFINE policy   == PolicyFor(p, r)
           ceiling  == ClassWindow(policy.ceiling, RestCeilingFor(c))
           cooldown == ClassWindow(policy.cooldown, 0)
           floor    == WindowFor(p, r, c, 1)
           ladder   == WindowFor(p, r, c, n)
           act      == ActionFor(p, r, c)
<1>1. policy \in ClassPolicy
  BY PolicyForType
<1>2. ceiling \in 1..QuotaRest
  BY <1>1, CeilingRange DEF ClassPolicy
<1>3. cooldown \in Nat
  BY <1>1, LadderAssumption DEF ClassPolicy, ClassWindow, Positive
<1>4. r.retry \in Nat /\ r.reset \in Nat \cup {Null}
  BY DEF Rest
<1>5. floor \in Nat
  <2>1. CASE r.retry = 0
    BY <2>1, WindowForBounded
  <2>2. CASE r.retry # 0 /\ c = "ratelimit"
    <3>1. p.rate \in Nat /\ RateMax \in Nat
      BY LadderAssumption DEF Policy, Positive
    <3> QED BY <1>4, <2>2, <3>1 DEF WindowFor, Clamp
  <2>3. CASE r.retry # 0 /\ c # "ratelimit"
    \* Only the rate-limit ladder reads the header.
    <3> DEFINE r0 == [r EXCEPT !.retry = 0]
    <3>1. r0 \in Rest /\ r0.retry = 0
      BY DEF Rest
    <3>2. WindowFor(p, r, c, 1) = WindowFor(p, r0, c, 1)
      BY <2>3 DEF WindowFor
    <3>3. WindowFor(p, r0, c, 1) \in 1..QuotaRest
      BY <3>1, WindowForBounded
    <3> QED BY <3>2, <3>3
  <2> QED BY <2>1, <2>2, <2>3
<1>6. r.retry = 0 => ladder \in 1..QuotaRest
  BY WindowForBounded
<1>7. RestUntil(p, r, c, n) =
        IF act # "park" THEN Null
        ELSE IF r.reset # Null THEN MinDuration(r.reset, ceiling)
        ELSE IF r.retry > 0
             THEN MinDuration(IF r.retry < floor THEN floor ELSE r.retry, ceiling)
        ELSE IF cooldown > 0 THEN MinDuration(cooldown, ceiling)
        ELSE ladder
  BY DEF RestUntil, RaisedTo
<1>8. \A wait \in Nat : MinDuration(wait, ceiling) \in 0..QuotaRest
  BY <1>2, MinDurationRange
<1> HIDE DEF policy, ceiling, cooldown, floor, ladder, act
<1> QED BY <1>3, <1>4, <1>5, <1>6, <1>7, <1>8

---------------------------------------------------------------------------
(* One row.                                                                *)

\* Counting a strike keeps the class runs inside the total.
LEMMA StruckGood ==
  ASSUME NEW row \in Row, NEW c, ConsistentRow(row)
  PROVE  /\ Struck(row, c) \in Row
         /\ ConsistentRow(Struck(row, c))
         /\ Struck(row, c).errs = row.errs + 1
         /\ Struck(row, c).until = row.until
         /\ Struck(row, c).status = row.status
<1> DEFINE e == row.errs + 1
           a == row.auth + (IF c = "auth" THEN 1 ELSE 0)
           r == row.rate + (IF c = "ratelimit" THEN 1 ELSE 0)
           b == row.bill + (IF c \in {"billing", "quota"} THEN 1 ELSE 0)
           struck == [row EXCEPT !.errs = e, !.auth = a, !.rate = r, !.bill = b]
<1>1. /\ row.errs \in Nat /\ row.auth \in Nat /\ row.rate \in Nat /\ row.bill \in Nat
  BY DEF Row
<1>2. /\ e \in Nat /\ a \in Nat /\ r \in Nat /\ b \in Nat
      /\ e = row.errs + 1
      /\ a + r + b <= row.auth + row.rate + row.bill + 1
  BY <1>1
<1>3. Struck(row, c) = struck
  BY DEF Struck
<1>6. row.auth + row.rate + row.bill <= row.errs
      /\ (row.until # Null => row.errs > 0)
  BY DEF ConsistentRow
<1> HIDE DEF e, a, r, b
<1>4. struck \in Row
  BY <1>2 DEF Row
<1>5. /\ struck.errs = e /\ struck.auth = a /\ struck.rate = r /\ struck.bill = b
      /\ struck.until = row.until /\ struck.status = row.status
  BY DEF Row
<1> HIDE DEF struck
<1>7. ConsistentRow(struck)
  BY <1>1, <1>2, <1>5, <1>6 DEF ConsistentRow
<1> QED BY <1>2, <1>3, <1>4, <1>5, <1>7

\* The streak a failure is parked against is a count.
LEMMA RunForNat ==
  ASSUME NEW row \in Row, NEW c
  PROVE  RunFor(row, c) \in Nat
  BY DEF RunFor, Row

\* What RecordFailure and RecordSuccess hand to the health write: a row whose park
\* ends inside the month, and none at all when it reads as reset.
Writable(agg) == agg \in Row /\ agg.until <= QuotaRest /\ (agg.errs = 0 => agg.until = Null)

\* A failure applied to a good snapshot is writable.
LEMMA RecordFailureWritable ==
  ASSUME NEW row \in Row, GoodRow(row), NEW c \in KeyClass, NEW p \in Policy, NEW r \in Rest,
         NEW late \in Nat
  PROVE  Writable(RecordFailure(row, c, p, r, late))
<1> DEFINE struck == Struck(row, c)
           rest   == RestUntil(p, r, c, RunFor(struck, c))
           until  == Since(rest, late)
<1>1. /\ struck \in Row /\ struck.errs = row.errs + 1
      /\ struck.until = row.until
  BY StruckGood DEF GoodRow
<1>2. until \in {Null} \cup 0..QuotaRest
  <2>1. rest \in {Null} \cup 0..QuotaRest
    BY <1>1, RunForNat, RestUntilBounded
  <2>2. QuotaRest \in Nat
    BY LadderAssumption DEF Positive
  <2> HIDE DEF rest
  <2> QED BY <2>1, <2>2 DEF Since, Null
<1>3. row.errs \in Nat /\ row.until <= QuotaRest /\ (row.errs = 0 => row.until = Null)
  BY DEF GoodRow, ConsistentRow, Row
<1>4. QuotaRest \in Nat
  BY LadderAssumption DEF Positive
<1>5. RecordFailure(row, c, p, r, late)
        = IF ~ImplicatesCredential(c) THEN row
          ELSE IF until = Null THEN struck
          ELSE [struck EXCEPT !.status = "error", !.until = until]
  BY DEF RecordFailure
<1> HIDE DEF struck, rest, until
<1>6. ASSUME until # Null
      PROVE  Writable([struck EXCEPT !.status = "error", !.until = until])
  <2>1. until \in 0..QuotaRest
    BY <1>2, <1>6
  <2>2. "error" \in Status /\ until \in Window
    BY <1>4, <2>1 DEF Status, Window
  <2> DEFINE parked == [struck EXCEPT !.status = "error", !.until = until]
  <2>3. parked \in Row
    BY <1>1, <2>2 DEF Row
  <2>4. parked.until = until /\ parked.errs = struck.errs
    BY <1>1 DEF Row
  <2> HIDE DEF parked
  <2>5. Writable(parked)
    BY <1>1, <1>3, <1>4, <2>1, <2>3, <2>4 DEF Writable
  <2> QED BY <2>5 DEF parked
<1>7. Writable(struck) /\ Writable(row)
  BY <1>1, <1>3 DEF Writable
<1> QED BY <1>5, <1>6, <1>7

\* A success applied to any snapshot is writable, and reads as reset.
LEMMA RecordSuccessWritable ==
  ASSUME NEW row \in Row
  PROVE  Writable(RecordSuccess(row)) /\ RecordSuccess(row).errs = 0
<1> DEFINE agg == RecordSuccess(row)
<1>1. agg \in Row /\ agg.errs = 0 /\ agg.until = Null
  BY DEF RecordSuccess, Row, Status, Window
<1>2. Null <= QuotaRest
  BY LadderAssumption DEF Null, Positive
<1> HIDE DEF agg
<1>3. Writable(agg) /\ agg.errs = 0
  BY <1>1, <1>2 DEF Writable
<1> QED BY <1>3 DEF agg

\* The health statement keeps a good row good, whatever writable row it is given.
LEMMA HealthWriteGood ==
  ASSUME NEW stored \in Row, GoodRow(stored), NEW agg, Writable(agg), NEW c
  PROVE  HealthWrite(stored, agg, c) \in Row /\ GoodRow(HealthWrite(stored, agg, c))
<1>1. agg.status \in Status /\ agg.errs \in Nat /\ agg.until \in Window
      /\ agg.until <= QuotaRest /\ QuotaRest \in Nat
  BY LadderAssumption DEF Writable, Row, Positive
<1>2. CASE agg.errs = 0
  <2>1. agg.until = Null
    BY <1>2 DEF Writable
  <2> DEFINE new == HealthWrite(stored, agg, c)
  <2>2. new \in Row
    BY <1>1, <1>2 DEF HealthWrite, Row
  <2>3. /\ new.errs = 0 /\ new.auth = 0 /\ new.rate = 0 /\ new.bill = 0
        /\ new.until = Null
    BY <1>2, <2>1 DEF HealthWrite, Row
  <2>4. Null <= QuotaRest
    BY <1>1 DEF Null
  <2> HIDE DEF new
  <2>5. new \in Row /\ GoodRow(new)
    BY <2>2, <2>3, <2>4 DEF GoodRow, ConsistentRow
  <2> QED BY <2>5 DEF new
<1>3. CASE agg.errs # 0
  <2> DEFINE struck == Struck(stored, c)
  <2>1. /\ struck \in Row /\ ConsistentRow(struck)
        /\ struck.errs = stored.errs + 1 /\ struck.until = stored.until
    BY StruckGood DEF GoodRow
  <2>2. HealthWrite(stored, agg, c)
          = [struck EXCEPT !.status = agg.status, !.until = Later(struck.until, agg.until)]
    BY <1>3 DEF HealthWrite
  <2>3. stored.errs \in Nat /\ stored.until \in Window /\ stored.until <= QuotaRest
    BY DEF GoodRow, Row
  <2> HIDE DEF struck
  <2>4. Later(struck.until, agg.until) \in Window
        /\ Later(struck.until, agg.until) <= QuotaRest
    BY <1>1, <2>1, <2>3 DEF Later, Window, Null
  <2> DEFINE new == [struck EXCEPT !.status = agg.status,
                                   !.until = Later(struck.until, agg.until)]
  <2>5. new \in Row
    BY <1>1, <2>1, <2>4 DEF Row
  <2>6. /\ new.errs = struck.errs /\ new.auth = struck.auth
        /\ new.rate = struck.rate /\ new.bill = struck.bill
        /\ new.until = Later(struck.until, agg.until)
    BY <2>1 DEF Row
  <2> HIDE DEF new
  <2>7. new \in Row /\ GoodRow(new)
    BY <2>1, <2>3, <2>4, <2>5, <2>6 DEF GoodRow, ConsistentRow
  <2> QED BY <2>2, <2>7 DEF new
<1> QED BY <1>2, <1>3

\* A row that comes, a row that goes, and a row that only ages are good.
LEMMA BlankGood ==
  ASSUME NEW s \in Status
  PROVE  Blank(s) \in Row /\ GoodRow(Blank(s))
  BY LadderAssumption DEF Blank, Row, GoodRow, ConsistentRow, Window, Null, Positive

LEMMA MarksGood ==
  ASSUME NEW row \in Row, GoodRow(row), NEW s \in Status, NEW d \in Window
  PROVE  /\ [row EXCEPT !.status = s, !.dis = d] \in Row
         /\ GoodRow([row EXCEPT !.status = s, !.dis = d])
  BY DEF Row, GoodRow, ConsistentRow

LEMMA AgedGood ==
  ASSUME NEW rows \in [Keys -> Row], \A k \in Keys : GoodRow(rows[k])
  PROVE  Aged(rows) \in [Keys -> Row] /\ \A k \in Keys : GoodRow(Aged(rows)[k])
<1> SUFFICES ASSUME NEW k \in Keys
             PROVE  Aged(rows)[k] \in Row /\ GoodRow(Aged(rows)[k])
  BY DEF Aged
<1>1. Aged(rows)[k] = [rows[k] EXCEPT !.until = Elapse(rows[k].until),
                                      !.dis = Elapse(rows[k].dis)]
  BY DEF Aged
<1>2. rows[k] \in Row /\ GoodRow(rows[k])
  OBVIOUS
<1>3. \A w \in Window : Elapse(w) \in Window /\ Elapse(w) <= w /\ (w = Null <=> Elapse(w) = Null)
  BY DEF Elapse, Window, Null
<1>4. rows[k].until \in Window /\ rows[k].dis \in Window
  BY <1>2 DEF Row
<1>5. /\ Elapse(rows[k].until) \in Window /\ Elapse(rows[k].dis) \in Window
      /\ Elapse(rows[k].until) <= rows[k].until
      /\ (Elapse(rows[k].until) # Null => rows[k].until # Null)
  BY <1>3, <1>4
<1>6. QuotaRest \in Nat
  BY LadderAssumption DEF Positive
<1> DEFINE u == Elapse(rows[k].until)
           d == Elapse(rows[k].dis)
           new == [rows[k] EXCEPT !.until = u, !.dis = d]
<1>7. rows[k].until <= QuotaRest /\ rows[k].until \in Int /\ u \in Int
  BY <1>2, <1>4, <1>5 DEF GoodRow, Window, Null
<1> HIDE DEF u, d
<1>8. new \in Row
  BY <1>2, <1>5 DEF Row, u, d
<1>9. /\ new.errs = rows[k].errs /\ new.auth = rows[k].auth
      /\ new.rate = rows[k].rate /\ new.bill = rows[k].bill /\ new.until = u
  BY <1>2 DEF Row
<1> HIDE DEF new
<1>10. GoodRow(new)
  BY <1>2, <1>5, <1>6, <1>7, <1>9 DEF GoodRow, ConsistentRow, u
<1> QED BY <1>1, <1>8, <1>10 DEF new, u, d
---------------------------------------------------------------------------
(* The table and the snapshots.                                            *)

KeysGood(rows) == rows \in [Keys -> Row] /\ \A k \in Keys : GoodRow(rows[k])
PlansGood(plans) ==
  /\ plans \in [Actors -> Plan \cup {NoPlan}]
  /\ \A a \in Actors : plans[a] # NoPlan => KeysGood(plans[a].rows)

\* The inductive invariant, table and snapshots apart.
LEMMA IInvParts == IInv <=> KeysGood(key) /\ PlansGood(plan)
<1>1. \A a \in Actors : plan[a] \in Plan \cup {NoPlan} /\ plan[a] # NoPlan
                        => plan[a].rows \in [Keys -> Row]
  BY DEF Plan
<1> QED BY <1>1 DEF IInv, TypeOK, KeysGood, PlansGood, Held

\* A health write leaves the table good.
LEMMA HealthStep ==
  ASSUME KeysGood(key), NEW k \in Keys, NEW agg, Writable(agg), NEW c,
         RecordKeyHealth(k, agg, c)
  PROVE  KeysGood(key')
<1>1. key[k] \in Row /\ GoodRow(key[k])
  BY DEF KeysGood
<1>2. HealthWrite(key[k], agg, c) \in Row /\ GoodRow(HealthWrite(key[k], agg, c))
  BY <1>1, HealthWriteGood
<1>3. key' = key \/ key' = [key EXCEPT ![k] = HealthWrite(key[k], agg, c)]
  BY DEF RecordKeyHealth
<1> HIDE DEF RecordKeyHealth
<1> QED BY <1>2, <1>3 DEF KeysGood

\* A panel write leaves it good: it moves the operator's columns only.
LEMMA UpdateStep ==
  ASSUME KeysGood(key), NEW D \in SUBSET Keys,
         NEW status \in [Keys -> Status], NEW dis \in [Keys -> Window],
         UpdateKeys(D, status, dis)
  PROVE  KeysGood(key')
<1> DEFINE marked(k) == [key[k] EXCEPT !.status = status[k], !.dis = dis[k]]
<1>1. \A k \in Keys : marked(k) \in Row /\ GoodRow(marked(k))
  BY MarksGood DEF KeysGood
<1>2. key' = key \/ key' = [k \in Keys |-> IF k \in D THEN marked(k) ELSE key[k]]
  BY DEF UpdateKeys
<1> HIDE DEF marked
<1> QED BY <1>1, <1>2 DEF KeysGood

\* Dropping a snapshot.
LEMMA DropStep ==
  ASSUME PlansGood(plan), NEW a \in Actors, Drop(a)
  PROVE  PlansGood(plan')
<1>1. plan' = [plan EXCEPT ![a] = NoPlan]
  BY DEF Drop
<1> QED BY <1>1 DEF PlansGood

\* Replacing the snapshot an actor holds with a good one.
LEMMA HoldStep ==
  ASSUME PlansGood(plan), NEW a \in Actors, NEW new \in Plan, KeysGood(new.rows),
         plan' = [plan EXCEPT ![a] = new]
  PROVE  PlansGood(plan')
  BY DEF PlansGood

\* Loading the account: the snapshot is the table.
LEMMA LoadStep ==
  ASSUME KeysGood(key), PlansGood(plan), NEW a \in Actors, NEW k \in Keys \cup {NoKey},
         NEW closed \in SUBSET Keys, Load(a, k, closed)
  PROVE  PlansGood(plan')
<1> DEFINE new == [rows |-> key, closed |-> closed, at |-> k, answered |-> FALSE]
<1>1. new \in Plan /\ new.rows = key
  BY DEF KeysGood, Plan
<1>2. plan' = [plan EXCEPT ![a] = new]
  BY DEF Load
<1> HIDE DEF new
<1> QED BY <1>1, <1>2, HoldStep

\* What an actor that holds a snapshot knows about it.
LEMMA HeldGood ==
  ASSUME PlansGood(plan), NEW a \in Actors, Held(a)
  PROVE  plan[a] \in Plan /\ KeysGood(plan[a].rows)
  BY DEF PlansGood, Held

\* The walk keeps its snapshot or drops it.
LEMMA WalkOnStep ==
  ASSUME PlansGood(plan), NEW a \in Actors, Held(a), NEW action, WalkOn(a, action)
  PROVE  PlansGood(plan')
<1>1. CASE Drop(a)
  BY <1>1, DropStep
<1>2. CASE plan' = [plan EXCEPT ![a].at = NoKey]
  <2> DEFINE new == [plan[a] EXCEPT !.at = NoKey]
  <2>1. plan[a] \in Plan /\ KeysGood(plan[a].rows)
    BY HeldGood
  <2>2. new \in Plan /\ new.rows = plan[a].rows
    BY <2>1 DEF Plan
  <2>3. plan' = [plan EXCEPT ![a] = new]
    BY <1>2
  <2> HIDE DEF new
  <2> QED BY <2>1, <2>2, <2>3, HoldStep
<1> QED BY <1>1, <1>2 DEF WalkOn
---------------------------------------------------------------------------
(* The steps.                                                              *)

Good == KeysGood(key) /\ PlansGood(plan)

\* The credential in flight and its snapshot.
LEMMA InFlightGood ==
  ASSUME PlansGood(plan), NEW a \in Actors, InFlight(a)
  PROVE  /\ Held(a) /\ plan[a] \in Plan /\ plan[a].at \in Keys
         /\ Snapshot(a) \in Row /\ GoodRow(Snapshot(a))
<1>1. Held(a) /\ plan[a].at \in Keys
  BY DEF InFlight
<1>2. plan[a] \in Plan /\ KeysGood(plan[a].rows)
  BY <1>1, HeldGood
<1> QED BY <1>1, <1>2 DEF Snapshot, KeysGood

\* What calls and probes share.
LEMMA AnswerGood == ASSUME Good, NEW a \in Actors, Answer(a) PROVE Good'
<1> DEFINE new == [plan[a] EXCEPT !.answered = TRUE]
<1>1. InFlight(a) /\ PlansGood(plan) /\ KeysGood(key)
  BY DEF Answer, Waiting, Good
<1>2. plan[a] \in Plan /\ KeysGood(plan[a].rows)
  BY <1>1, InFlightGood, HeldGood
<1>3. new \in Plan /\ new.rows = plan[a].rows
  BY <1>2 DEF Plan
<1>4. plan' = [plan EXCEPT ![a] = new] /\ key' = key
  BY DEF Answer
<1> HIDE DEF new
<1> QED BY <1>1, <1>2, <1>3, <1>4, HoldStep DEF Good, KeysGood

LEMMA ServeGood == ASSUME Good, NEW a \in Actors, Serve(a) PROVE Good'
<1>1. Snapshot(a) \in Row /\ plan[a].at \in Keys
  BY InFlightGood DEF Serve, Good
<1>2. Writable(RecordSuccess(Snapshot(a)))
  BY <1>1, RecordSuccessWritable
<1>3. KeysGood(key')
  BY <1>1, <1>2, HealthStep DEF Serve, Good
<1>4. PlansGood(plan')
  BY DropStep DEF Serve, Good
<1> QED BY <1>3, <1>4 DEF Good, KeysGood, PlansGood

LEMMA LeaveGood == ASSUME Good, NEW a \in Actors, Leave(a) PROVE Good'
  BY DropStep DEF Leave, Good, KeysGood, PlansGood

LEMMA LoadGood ==
  ASSUME Good, NEW a \in Actors, NEW k \in Keys \cup {NoKey}, NEW closed \in SUBSET Keys,
         Load(a, k, closed)
  PROVE  Good'
<1>1. PlansGood(plan')
  BY LoadStep DEF Good
<1>2. key' = key
  BY DEF Load
<1> QED BY <1>1, <1>2 DEF Good, KeysGood, PlansGood

\* A failure of a call or a probe.
LEMMA FailureGood ==
  ASSUME Good, NEW a \in Actors, InFlight(a), NEW p \in Policy, NEW r \in Rest,
         NEW late \in Nat, NEW c \in KeyClass,
         RecordKeyHealth(plan[a].at, RecordFailure(Snapshot(a), c, p, r, late), c)
  PROVE  KeysGood(key')
<1>1. plan[a].at \in Keys /\ Snapshot(a) \in Row /\ GoodRow(Snapshot(a))
  BY InFlightGood DEF Good
<1>2. Writable(RecordFailure(Snapshot(a), c, p, r, late))
  BY <1>1, RecordFailureWritable
<1> QED BY <1>1, <1>2, HealthStep DEF Good

LEMMA CallGood == ASSUME Good, NEW a \in Calls, Call(a) PROVE Good'
<1>0. a \in Actors
  BY DEF Actors
<1>1. CASE BeginPlan(a)
  <2>1. Unavailable \in SUBSET Keys
    BY DEF Unavailable
  <2> QED BY <1>0, <1>1, <2>1, LoadGood DEF BeginPlan
<1>2. CASE Answer(a) \/ Serve(a) \/ Leave(a)
  BY <1>0, <1>2, AnswerGood, ServeGood, LeaveGood
<1>3. CASE Rotate(a)
  <2>1. Held(a) /\ WalkOn(a, "rotate") /\ key' = key
    BY <1>3 DEF Rotate, Waiting, InFlight
  <2>2. PlansGood(plan')
    BY <1>0, <2>1, WalkOnStep DEF Good
  <2> QED BY <2>1, <2>2 DEF Good, KeysGood, PlansGood
<1>4. ASSUME NEW k \in Keys, PlanNext(a, k) PROVE Good'
  <2> DEFINE new == [plan[a] EXCEPT !.at = k, !.closed = @ \cup {k}]
  <2>1. plan[a] \in Plan /\ KeysGood(plan[a].rows)
    BY <1>0, <1>4, HeldGood DEF PlanNext, Good
  <2>2. plan[a].closed \cup {k} \in SUBSET Keys
    BY <2>1 DEF Plan
  <2>3. new \in Plan /\ new.rows = plan[a].rows
    BY <2>1, <2>2 DEF Plan
  <2>4. plan' = [plan EXCEPT ![a] = new] /\ key' = key
    BY <1>4 DEF PlanNext
  <2> HIDE DEF new
  <2>5. PlansGood(plan')
    BY <1>0, <2>1, <2>3, <2>4, HoldStep DEF Good
  <2> QED BY <2>4, <2>5 DEF Good, KeysGood, PlansGood
<1>5. ASSUME NEW p \in Policies, NEW r \in Rests, NEW c \in KeyClass, Fail(a, p, r, c)
      PROVE  Good'
  <2>1. InFlight(a) /\ Held(a)
    BY <1>5 DEF Fail, Waiting, InFlight
  <2>2. p \in Policy /\ r \in Rest
    BY KeyHealthAssumption
  <2>3. KeysGood(key')
    BY <1>0, <1>5, <2>1, <2>2, FailureGood DEF Fail
  <2>4. PlansGood(plan')
    BY <1>0, <1>5, <2>1, WalkOnStep DEF Fail, Good
  <2> QED BY <2>3, <2>4 DEF Good, KeysGood, PlansGood
<1> QED BY <1>1, <1>2, <1>3, <1>4, <1>5 DEF Call

LEMMA ProbeGood == ASSUME Good, NEW a \in Probers, Probe(a) PROVE Good'
<1>0. a \in Actors
  BY DEF Actors
<1>1. CASE Answer(a) \/ Serve(a) \/ Leave(a)
  BY <1>0, <1>1, AnswerGood, ServeGood, LeaveGood
<1>2. ASSUME NEW k \in Keys, ProbeBegin(a, k) PROVE Good'
  BY <1>0, <1>2, LoadGood DEF ProbeBegin
<1>3. ASSUME NEW p \in Policies, NEW c \in ProbeClasses,
             NEW late \in ProbeDelays, ProbeFail(a, p, c, late) PROVE Good'
  <2>1. InFlight(a)
    BY <1>3 DEF ProbeFail, Waiting
  <2>2. p \in Policy /\ c \in KeyClass /\ late \in Nat
    BY KeyHealthAssumption
  <2>3. NoRest \in Rest
    BY DEF NoRest, Rest, ClassPolicy, NoPolicy
  <2>4. KeysGood(key')
    BY <1>0, <1>3, <2>1, <2>2, <2>3, FailureGood DEF ProbeFail
  <2>5. PlansGood(plan')
    BY <1>0, <1>3, DropStep DEF ProbeFail, Good
  <2> QED BY <2>4, <2>5 DEF Good, KeysGood, PlansGood
<1> QED BY <1>1, <1>2, <1>3 DEF Probe

\* Every panel action writes marks or rows, and drops its snapshot.
LEMMA OperateGood == ASSUME Good, NEW a \in Operators, Operate(a) PROVE Good'
<1>0. a \in Actors
  BY DEF Actors
<1> SUFFICES ASSUME ~Load(a, NoKey, {}), ~Leave(a) PROVE Good'
  BY <1>0, LoadGood, LeaveGood
<1>1. Held(a) /\ Drop(a)
  BY DEF Operate, AddKey, PatchFields, PatchValue, PatchStatus, BulkDisable,
         BulkEnable, Remove, Known
<1>2. PlansGood(plan')
  BY <1>0, <1>1, DropStep DEF Good
<1>3. KeysGood(key) /\ KeysGood(plan[a].rows)
  BY <1>0, <1>1, HeldGood DEF Good
<1>4. /\ StatusIn(a) \in [Keys -> Status] /\ DisIn(a) \in [Keys -> Window]
      /\ Always(Null) \in [Keys -> Window]
      /\ \A s \in Status : Always(s) \in [Keys -> Status]
      /\ \A w \in DisableWindows : Always(w) \in [Keys -> Window]
  BY <1>3, KeyHealthAssumption
     DEF StatusIn, DisIn, Always, KeysGood, Row, Window, Positive
<1>5. ASSUME NEW k \in Keys, AddKey(a, k) PROVE KeysGood(key')
  <2>1. Blank("active") \in Row /\ GoodRow(Blank("active"))
    BY BlankGood DEF Status
  <2>2. key' = [key EXCEPT ![k] = Blank("active")]
    BY <1>5 DEF AddKey
  <2> QED BY <1>3, <2>1, <2>2 DEF KeysGood
<1>6. ASSUME NEW k \in Keys, PatchFields(a, k) \/ PatchValue(a, k) PROVE KeysGood(key')
  <2>1. {k} \in SUBSET Keys
    OBVIOUS
  <2>2. \/ UpdateKeys({k}, StatusIn(a), DisIn(a))
        \/ UpdateKeys({k}, StatusIn(a), Always(Null))
    BY <1>6 DEF PatchFields, PatchValue
  <2> QED BY <1>3, <1>4, <2>1, <2>2, UpdateStep
<1>7. ASSUME NEW k \in Keys, NEW s \in {"active", "disabled"}, PatchStatus(a, k, s)
      PROVE  KeysGood(key')
  <2>1. {k} \in SUBSET Keys /\ Always(s) \in [Keys -> Status]
    BY <1>4 DEF Status
  <2>2. UpdateKeys({k}, Always(s), Always(Null))
    BY <1>7 DEF PatchStatus
  <2> QED BY <1>3, <1>4, <2>1, <2>2, UpdateStep
<1>8. ASSUME NEW D \in (SUBSET Keys) \ {{}}, NEW w \in DisableWindows, BulkDisable(a, D, w)
      PROVE  KeysGood(key')
  <2>1. Moved(a, D, "disabled", w) \in SUBSET Keys /\ Always("disabled") \in [Keys -> Status]
    BY <1>4 DEF Moved, Status
  <2>2. UpdateKeys(Moved(a, D, "disabled", w), Always("disabled"), Always(w))
    BY <1>8 DEF BulkDisable
  <2> QED BY <1>3, <1>4, <2>1, <2>2, UpdateStep
<1>9. ASSUME NEW D \in (SUBSET Keys) \ {{}}, BulkEnable(a, D) PROVE KeysGood(key')
  <2>1. Moved(a, D, "active", Null) \in SUBSET Keys /\ Always("active") \in [Keys -> Status]
    BY <1>4 DEF Moved, Status
  <2>2. UpdateKeys(Moved(a, D, "active", Null), Always("active"), Always(Null))
    BY <1>9 DEF BulkEnable
  <2> QED BY <1>3, <1>4, <2>1, <2>2, UpdateStep
<1>10. ASSUME NEW D \in (SUBSET Keys) \ {{}}, Remove(a, D) PROVE KeysGood(key')
  <2>1. Blank("gone") \in Row /\ GoodRow(Blank("gone"))
    BY BlankGood DEF Status
  <2>2. key' = key \/ key' = [k \in Keys |-> IF k \in D THEN Blank("gone") ELSE key[k]]
    BY <1>10 DEF Remove
  <2> QED BY <1>3, <2>1, <2>2 DEF KeysGood
<1>11. KeysGood(key')
  BY <1>5, <1>6, <1>7, <1>8, <1>9, <1>10 DEF Operate
<1> QED BY <1>2, <1>11 DEF Good, KeysGood, PlansGood

\* Time leaves everything good.
LEMMA TickGood == ASSUME Good, Tick PROVE Good'
<1>1. KeysGood(key) /\ PlansGood(plan)
  BY DEF Good
<1>2. KeysGood(key')
  BY <1>1, AgedGood DEF Tick, KeysGood
<1>3. \A a \in Actors : Held(a) => /\ plan[a] \in Plan
                                   /\ KeysGood(plan[a].rows) /\ KeysGood(Aged(plan[a].rows))
  BY <1>1, HeldGood, AgedGood DEF KeysGood
<1>4. plan' = [a \in Actors |-> IF Held(a) THEN [plan[a] EXCEPT !.rows = Aged(plan[a].rows)]
                                           ELSE NoPlan]
  BY DEF Tick
<1>5. ASSUME NEW a \in Actors
      PROVE  /\ plan'[a] \in Plan \cup {NoPlan}
             /\ plan'[a] # NoPlan => KeysGood(plan'[a].rows)
  <2>1. CASE ~Held(a)
    BY <1>4, <2>1
  <2>2. CASE Held(a)
    <3> DEFINE new == [plan[a] EXCEPT !.rows = Aged(plan[a].rows)]
    <3>1. plan[a] \in Plan /\ KeysGood(Aged(plan[a].rows))
      BY <1>3, <2>2
    <3>2. new \in Plan /\ new.rows = Aged(plan[a].rows)
      BY <3>1 DEF Plan, KeysGood
    <3>3. plan'[a] = new
      BY <1>4, <2>2
    <3> HIDE DEF new
    <3> QED BY <3>1, <3>2, <3>3
  <2> QED BY <2>1, <2>2
<1>6. PlansGood(plan')
  <2>1. plan' \in [Actors -> Plan \cup {NoPlan}]
    BY <1>4, <1>5
  <2> QED BY <1>5, <2>1 DEF PlansGood
<1> QED BY <1>2, <1>6 DEF Good, KeysGood, PlansGood

LEMMA InitGood == ASSUME Init PROVE Good
<1>1. Blank("active") \in Row /\ GoodRow(Blank("active"))
      /\ Blank("absent") \in Row /\ GoodRow(Blank("absent"))
  BY BlankGood DEF Status
<1>2. KeysGood(key)
  BY <1>1 DEF Init, KeysGood
<1>3. PlansGood(plan)
  BY DEF Init, PlansGood
<1> QED BY <1>2, <1>3 DEF Good

LEMMA NextGood == ASSUME Good, [Next]_vars PROVE Good'
<1>1. CASE Next
  BY <1>1, CallGood, ProbeGood, OperateGood, TickGood DEF Next
<1>2. CASE UNCHANGED vars
  BY <1>2 DEF vars, Good, KeysGood, PlansGood
<1> QED BY <1>1, <1>2

\* Whatever the number of requests, probes and operators and however stale the
\* snapshots they write back, the table and the snapshots stay good for ever.
THEOREM Inductive == Spec => []IInv
<1>1. Init => Good
  BY InitGood
<1>2. Good /\ [Next]_vars => Good'
  BY NextGood
<1>3. Good => IInv
  BY IInvParts DEF Good
<1> QED BY <1>1, <1>2, <1>3, PTL DEF Spec

\* The stored rows and the snapshots always have their shape.
THEOREM TypeCorrect == Spec => []TypeOK
<1>1. IInv => TypeOK
  BY DEF IInv
<1> QED BY <1>1, Inductive, PTL

\* A credential's counters agree and its park always has a strike behind it, so the
\* reset test of RecordKeyHealth can never keep a park nothing will release.
THEOREM RowsConsistent == Spec => []HealthConsistent
<1>1. IInv => HealthConsistent
  BY DEF IInv, GoodRow, HealthConsistent
<1> QED BY <1>1, Inductive, PTL

\* No schedule of failures, probes and panel actions parks a credential past a month.
THEOREM NoEndlessPark == Spec => []ParkBounded
<1>1. IInv => ParkBounded
  BY DEF IInv, GoodRow, ParkBounded
<1> QED BY <1>1, Inductive, PTL
---------------------------------------------------------------------------
(* Every write is a step of the breaker.                                   *)

Step == [Breaker!Next]_(Breaker!vars)

\* A step that leaves the health columns alone is a stutter of the breaker.
LEMMA SameHealth ==
  ASSUME \A k \in Keys : key'[k].errs = key[k].errs /\ key'[k].until = key[k].until
  PROVE  Step
  BY DEF Step, Breaker!vars

\* One health write: a release of one credential, or a strike on it.
LEMMA HealthIsStep ==
  ASSUME KeysGood(key), NEW k \in Keys, NEW agg, Writable(agg), NEW c,
         RecordKeyHealth(k, agg, c)
  PROVE  Step
<1>1. key[k] \in Row /\ GoodRow(key[k]) /\ key \in [Keys -> Row]
  BY DEF KeysGood
<1> DEFINE new == HealthWrite(key[k], agg, c)
<1>2. CASE key' = key
  BY <1>2, SameHealth
<1>3. CASE key' = [key EXCEPT ![k] = new] /\ agg.errs = 0
  <2>1. new.errs = 0 /\ new.until = Null
    BY <1>1, <1>3 DEF HealthWrite, Row, Writable
  <2> HIDE DEF new
  <2>2. Breaker!Release({k})
    BY <1>1, <1>3, <2>1 DEF Breaker!Release, Breaker!NoPark, Null
  <2>3. {k} \in SUBSET Keys
    OBVIOUS
  <2> QED BY <2>2, <2>3 DEF Step, Breaker!Next
<1>4. CASE key' = [key EXCEPT ![k] = new] /\ agg.errs # 0
  <2> DEFINE struck == Struck(key[k], c)
             rest == Later(key[k].until, agg.until)
  <2>1. /\ struck \in Row /\ struck.errs = key[k].errs + 1
        /\ struck.until = key[k].until
    BY <1>1, StruckGood DEF GoodRow
  <2>2. new = [struck EXCEPT !.status = agg.status, !.until = Later(struck.until, agg.until)]
    BY <1>4 DEF HealthWrite
  <2>3. /\ key[k].until \in Int /\ key[k].until >= -1 /\ key[k].until <= QuotaRest
        /\ agg.until \in Int /\ agg.until >= -1 /\ agg.until <= QuotaRest
        /\ QuotaRest \in Nat
    <3>1. key[k].until \in Window /\ agg.until \in Window
      BY <1>1 DEF Writable, Row
    <3>2. key[k].until <= QuotaRest /\ agg.until <= QuotaRest
      BY <1>1 DEF GoodRow, Writable
    <3>3. QuotaRest \in Nat
      BY LadderAssumption DEF Positive
    <3>4. \A w \in Window : w \in Int /\ w >= -1
      BY DEF Window, Null
    <3> QED BY <3>1, <3>2, <3>3, <3>4
  <2>4. rest \in Int /\ rest >= key[k].until /\ rest \in (-1)..QuotaRest
    BY <2>3 DEF Later
  <2> HIDE DEF struck
  <2>5. new.errs = key[k].errs + 1 /\ new.until = rest
    BY <2>1, <2>2 DEF Row
  <2> HIDE DEF new, rest
  <2>6. [j \in Keys |-> key'[j].errs]
          = [[j \in Keys |-> key[j].errs] EXCEPT ![k] = @ + 1]
    BY <1>1, <1>4, <2>5
  <2>7. [j \in Keys |-> key'[j].until]
          = [[j \in Keys |-> key[j].until] EXCEPT ![k] = rest]
    BY <1>1, <1>4, <2>5
  <2>8. Breaker!Strike(k)
    BY <2>4, <2>6, <2>7 DEF Breaker!Strike, Breaker!NoPark
  <2> QED BY <2>8 DEF Step, Breaker!Next
<1> QED BY <1>2, <1>3, <1>4 DEF RecordKeyHealth

\* The panel's columns are not the breaker's.
LEMMA UpdateIsStep ==
  ASSUME KeysGood(key), NEW D \in SUBSET Keys, NEW status, NEW dis,
         UpdateKeys(D, status, dis)
  PROVE  Step
<1>1. ASSUME NEW k \in Keys
      PROVE  key'[k].errs = key[k].errs /\ key'[k].until = key[k].until
  <2>1. key[k] \in Row
    BY DEF KeysGood
  <2>2. key'[k] = key[k] \/ key'[k] = [key[k] EXCEPT !.status = status[k], !.dis = dis[k]]
    BY DEF UpdateKeys
  <2> QED BY <2>1, <2>2 DEF Row
<1> QED BY <1>1, SameHealth

\* A success and a failure, of a call or a probe.
LEMMA ServeIsStep == ASSUME Good, NEW a \in Actors, Serve(a) PROVE Step
<1>1. Snapshot(a) \in Row /\ plan[a].at \in Keys
  BY InFlightGood DEF Serve, Good
<1>2. Writable(RecordSuccess(Snapshot(a)))
  BY <1>1, RecordSuccessWritable
<1> QED BY <1>1, <1>2, HealthIsStep DEF Serve, Good

LEMMA FailureIsStep ==
  ASSUME Good, NEW a \in Actors, InFlight(a), NEW p \in Policy, NEW r \in Rest,
         NEW late \in Nat, NEW c \in KeyClass,
         RecordKeyHealth(plan[a].at, RecordFailure(Snapshot(a), c, p, r, late), c)
  PROVE  Step
<1>1. plan[a].at \in Keys /\ Snapshot(a) \in Row /\ GoodRow(Snapshot(a))
  BY InFlightGood DEF Good
<1>2. Writable(RecordFailure(Snapshot(a), c, p, r, late))
  BY <1>1, RecordFailureWritable
<1> QED BY <1>1, <1>2, HealthIsStep DEF Good

\* Rows that come or go release what they held.
LEMMA BlankIsStep ==
  ASSUME KeysGood(key), NEW D \in SUBSET Keys, NEW s,
         key' = [k \in Keys |-> IF k \in D THEN Blank(s) ELSE key[k]]
  PROVE  Step
<1>1. Blank(s).errs = 0 /\ Blank(s).until = Null
  BY DEF Blank
<1>2. Breaker!Release(D)
  BY <1>1 DEF Breaker!Release, Breaker!NoPark, Null
<1> QED BY <1>2 DEF Step, Breaker!Next

LEMMA OperateIsStep == ASSUME Good, NEW a \in Operators, Operate(a) PROVE Step
<1> KeysGood(key)
  BY DEF Good
<1>1. CASE key' = key
  BY <1>1, SameHealth
<1>2. ASSUME NEW k \in Keys, AddKey(a, k) PROVE Step
  <2>1. key' = [j \in Keys |-> IF j \in {k} THEN Blank("active") ELSE key[j]]
    BY <1>2 DEF AddKey, KeysGood
  <2> QED BY <2>1, BlankIsStep
<1>3. ASSUME NEW D \in (SUBSET Keys) \ {{}}, Remove(a, D) PROVE Step
  <2>1. CASE key' = key
    BY <2>1, SameHealth
  <2>2. CASE key' = [k \in Keys |-> IF k \in D THEN Blank("gone") ELSE key[k]]
    BY <2>2, BlankIsStep
  <2> QED BY <1>3, <2>1, <2>2 DEF Remove
<1>4. ASSUME NEW D \in SUBSET Keys, NEW status, NEW dis, UpdateKeys(D, status, dis)
      PROVE  Step
  BY <1>4, UpdateIsStep
<1>5. ASSUME NEW k \in Keys, PatchFields(a, k) \/ PatchValue(a, k) PROVE Step
  <2>1. {k} \in SUBSET Keys
    OBVIOUS
  <2> QED BY <1>4, <1>5, <2>1 DEF PatchFields, PatchValue
<1>6. ASSUME NEW k \in Keys, NEW s \in {"active", "disabled"}, PatchStatus(a, k, s)
      PROVE  Step
  <2>1. {k} \in SUBSET Keys
    OBVIOUS
  <2> QED BY <1>4, <1>6, <2>1 DEF PatchStatus
<1>7. ASSUME NEW D \in (SUBSET Keys) \ {{}}, NEW w \in DisableWindows, BulkDisable(a, D, w)
      PROVE  Step
  <2>1. Moved(a, D, "disabled", w) \in SUBSET Keys
    BY DEF Moved
  <2> QED BY <1>4, <1>7, <2>1 DEF BulkDisable
<1>8. ASSUME NEW D \in (SUBSET Keys) \ {{}}, BulkEnable(a, D) PROVE Step
  <2>1. Moved(a, D, "active", Null) \in SUBSET Keys
    BY DEF Moved
  <2> QED BY <1>4, <1>8, <2>1 DEF BulkEnable
<1>9. Load(a, NoKey, {}) \/ Leave(a) => key' = key
  BY DEF Load, Leave
<1> QED BY <1>1, <1>2, <1>3, <1>5, <1>6, <1>7, <1>8, <1>9 DEF Operate

\* Time passes for the breaker too.
LEMMA TickIsStep == ASSUME Good, Tick PROVE Step
<1>1. \A k \in Keys : key[k] \in Row
  BY DEF Good, KeysGood
<1>2. ASSUME NEW k \in Keys
      PROVE  key'[k].errs = key[k].errs /\ key'[k].until = Elapse(key[k].until)
  <2>1. key'[k] = [key[k] EXCEPT !.until = Elapse(key[k].until), !.dis = Elapse(key[k].dis)]
    BY DEF Tick, Aged
  <2> QED BY <1>1, <2>1 DEF Row
<1>3. [k \in Keys |-> key'[k].until]
        = [k \in Keys |-> Breaker!Left([j \in Keys |-> key[j].until][k])]
  BY <1>2 DEF Breaker!Left, Elapse
<1>4. Breaker!Pass
  BY <1>2, <1>3 DEF Breaker!Pass
<1> QED BY <1>4 DEF Step, Breaker!Next

LEMMA NextIsStep == ASSUME Good, [Next]_vars PROVE Step
<1>1. CASE key' = key
  BY <1>1, SameHealth
<1>2. ASSUME NEW a \in Calls, Call(a) PROVE Step
  <2>1. a \in Actors
    BY DEF Actors
  <2>2. CASE Serve(a)
    BY <2>1, <2>2, ServeIsStep
  <2>3. ASSUME NEW p \in Policies, NEW r \in Rests, NEW c \in KeyClass, Fail(a, p, r, c)
        PROVE  Step
    <3>1. InFlight(a) /\ p \in Policy /\ r \in Rest
      BY <2>3, KeyHealthAssumption DEF Fail, Waiting
    <3> QED BY <2>1, <2>3, <3>1, FailureIsStep DEF Fail
  <2>4. ASSUME ~Serve(a), \A p \in Policies, r \in Rests, c \in KeyClass : ~Fail(a, p, r, c)
        PROVE  key' = key
    BY <1>2, <2>4 DEF Call, BeginPlan, Load, Answer, Rotate, Leave, PlanNext
  <2> QED BY <1>1, <2>2, <2>3, <2>4
<1>3. ASSUME NEW a \in Probers, Probe(a) PROVE Step
  <2>1. a \in Actors
    BY DEF Actors
  <2>2. CASE Serve(a)
    BY <2>1, <2>2, ServeIsStep
  <2>3. ASSUME NEW p \in Policies, NEW c \in ProbeClasses,
             NEW late \in ProbeDelays, ProbeFail(a, p, c, late) PROVE Step
    <3>1. InFlight(a) /\ p \in Policy /\ c \in KeyClass /\ late \in Nat
      BY <2>3, KeyHealthAssumption DEF ProbeFail, Waiting
    <3>2. NoRest \in Rest
      BY DEF NoRest, Rest, ClassPolicy, NoPolicy
    <3> QED BY <2>1, <2>3, <3>1, <3>2, FailureIsStep DEF ProbeFail
  <2>4. ASSUME ~Serve(a), \A p \in Policies, c \in ProbeClasses, late \in ProbeDelays : ~ProbeFail(a, p, c, late)
        PROVE  key' = key
    BY <1>3, <2>4 DEF Probe, ProbeBegin, Load, Answer, Leave
  <2> QED BY <1>1, <2>2, <2>3, <2>4
<1> QED BY <1>1, <1>2, <1>3, OperateIsStep, TickIsStep DEF Next, vars

\* The stored health of every credential implements the breaker: each recorded
\* failure is one strike that never shortens a park, and a park ends by time or
\* with the whole streak.
THEOREM ImplementsBreaker == Spec => BreakerSpec
<1>1. Init => Breaker!Init
  BY DEF Init, Breaker!Init, Breaker!NoPark, Blank, Null
<1>2. Init => Good
  BY InitGood
<1>3. Good /\ [Next]_vars => Good'
  BY NextGood
<1>4. Good /\ [Next]_vars => Step
  BY NextIsStep
<1> QED BY <1>1, <1>2, <1>3, <1>4, PTL DEF Spec, BreakerSpec, Breaker!Spec, Step
---------------------------------------------------------------------------
(* What releases a park.                                                   *)

\* A health write whose aggregate carries a strike shortens nothing.
LEMMA StrikeShortensNothing ==
  ASSUME KeysGood(key), NEW k \in Keys, NEW agg, Writable(agg), agg.errs # 0, NEW c,
         RecordKeyHealth(k, agg, c), NEW j \in Keys
  PROVE  ~Shortened(j)
<1>1. key[k] \in Row /\ GoodRow(key[k]) /\ key \in [Keys -> Row]
  BY DEF KeysGood
<1> DEFINE new == HealthWrite(key[k], agg, c)
           struck == Struck(key[k], c)
<1>2. struck \in Row /\ struck.until = key[k].until
  BY <1>1, StruckGood DEF GoodRow
<1>3. new = [struck EXCEPT !.status = agg.status, !.until = Later(struck.until, agg.until)]
  BY DEF HealthWrite
<1>4. key[k].until \in Int /\ agg.until \in Int
  BY <1>1 DEF Writable, Row, Window, Null
<1> HIDE DEF struck
<1>5. new.until = Later(key[k].until, agg.until)
  BY <1>2, <1>3 DEF Row
<1>6. key[j].until \in Int
  BY <1>1 DEF Row, Window, Null
<1> HIDE DEF new
<1>7. key' = key \/ key' = [key EXCEPT ![k] = new]
  BY DEF RecordKeyHealth, new
<1>8. key'[j].until >= key[j].until
  BY <1>1, <1>4, <1>5, <1>6, <1>7 DEF Later
<1>9. key'[j].until \in Int
  BY <1>1, <1>4, <1>5, <1>6, <1>7 DEF Later
<1> QED BY <1>6, <1>8, <1>9 DEF Shortened

\* A failure that implicates the credential carries a strike.
LEMMA FailureCarriesStrike ==
  ASSUME NEW row \in Row, GoodRow(row), NEW c \in KeyClass, ImplicatesCredential(c), NEW p, NEW r,
         NEW late
  PROVE  RecordFailure(row, c, p, r, late).errs # 0
<1> DEFINE struck == Struck(row, c)
<1>1. struck \in Row /\ struck.errs = row.errs + 1 /\ row.errs \in Nat
  BY StruckGood DEF GoodRow, Row
<1> DEFINE until == Since(RestUntil(p, r, c, RunFor(struck, c)), late)
<1>2. RecordFailure(row, c, p, r, late) = struck
      \/ RecordFailure(row, c, p, r, late) = [struck EXCEPT !.status = "error", !.until = until]
  BY DEF RecordFailure
<1> HIDE DEF struck, until
<1>3. [struck EXCEPT !.status = "error", !.until = until].errs = struck.errs
  BY <1>1 DEF Row
<1>4. struck.errs # 0
  BY <1>1
<1> QED BY <1>2, <1>3, <1>4

\* A panel write never moves a window of health.
LEMMA UpdateShortensNothing ==
  ASSUME KeysGood(key), NEW D \in SUBSET Keys, NEW status, NEW dis,
         UpdateKeys(D, status, dis), NEW k \in Keys
  PROVE  ~Shortened(k)
<1>1. key[k] \in Row /\ key[k].until \in Int
  BY DEF KeysGood, Row, Window, Null
<1>2. key'[k] = key[k] \/ key'[k] = [key[k] EXCEPT !.status = status[k], !.dis = dis[k]]
  BY DEF UpdateKeys
<1>3. key'[k].until = key[k].until
  BY <1>1, <1>2 DEF Row
<1> QED BY <1>1, <1>3 DEF Shortened

LEMMA SuccessIsAtItsKey ==
  ASSUME Good, NEW a \in Actors, Serve(a), NEW k \in Keys, Shortened(k)
  PROVE  plan[a].at = k
<1>1. key' = key \/ key' = [key EXCEPT ![plan[a].at]
                     = HealthWrite(@, RecordSuccess(Snapshot(a)), "none")]
  BY DEF Serve, RecordKeyHealth
<1>2. key[k].until \in Int
  BY DEF Good, KeysGood, Row, Window, Null
<1> QED BY <1>1, <1>2 DEF Shortened, Good, KeysGood

LEMMA FailureShortensNothing ==
  ASSUME Good, NEW a \in Actors, InFlight(a), NEW p \in Policy, NEW r \in Rest,
         NEW late \in Nat, NEW c \in KeyClass, ImplicatesCredential(c),
         RecordKeyHealth(plan[a].at, RecordFailure(Snapshot(a), c, p, r, late), c),
         NEW k \in Keys
  PROVE  ~Shortened(k)
<1>1. plan[a].at \in Keys /\ Snapshot(a) \in Row /\ GoodRow(Snapshot(a))
  BY InFlightGood DEF Good
<1>2. Writable(RecordFailure(Snapshot(a), c, p, r, late))
  BY <1>1, RecordFailureWritable
<1>3. RecordFailure(Snapshot(a), c, p, r, late).errs # 0
  BY <1>1, FailureCarriesStrike
<1> QED BY <1>1, <1>2, <1>3, StrikeShortensNothing DEF Good

\* A verdict that says nothing of the credential shortens only what was parked since the
\* probe loaded it.
LEMMA BlindShortens ==
  ASSUME Good, NEW a \in Probers, NEW p \in Policies, NEW c \in ProbeClasses,
         NEW late \in ProbeDelays, ProbeFail(a, p, c, late), ~ImplicatesCredential(c),
         NEW k \in Keys, Shortened(k)
  PROVE  BlindRelease(a, k)
<1>1. a \in Actors /\ InFlight(a)
  BY DEF Actors, ProbeFail, Waiting
<1>2. plan[a].at \in Keys /\ Snapshot(a) \in Row /\ GoodRow(Snapshot(a)) /\ KeysGood(key)
  BY <1>1, InFlightGood DEF Good
<1>3. RecordFailure(Snapshot(a), c, p, NoRest, late) = Snapshot(a)
  BY DEF RecordFailure
<1>4. RecordKeyHealth(plan[a].at, Snapshot(a), c)
  BY <1>3 DEF ProbeFail
<1>5. NoRest \in Rest /\ p \in Policy /\ c \in KeyClass /\ late \in Nat
  BY KeyHealthAssumption DEF NoRest, Rest, ClassPolicy, NoPolicy
<1>6. Writable(Snapshot(a))
  BY <1>2, <1>3, <1>5, RecordFailureWritable
<1>7. Snapshot(a).errs = 0
  BY <1>2, <1>4, <1>6, StrikeShortensNothing
<1>8. plan[a].at = k
  <2>1. key' = key \/ key' = [key EXCEPT ![plan[a].at] = HealthWrite(@, Snapshot(a), c)]
    BY <1>4 DEF RecordKeyHealth
  <2>2. key[k].until \in Int
    BY <1>2 DEF KeysGood, Row, Window, Null
  <2> QED BY <1>2, <2>1, <2>2 DEF Shortened, KeysGood
<1> QED BY <1>7, <1>8 DEF BlindRelease

LEMMA NextShortens ==
  ASSUME Good, [Next]_vars, NEW k \in Keys, Shortened(k), ~Tick
  PROVE  \/ \E a \in Calls \cup Probers : Serve(a) /\ plan[a].at = k
         \/ \E a \in Probers : BlindRelease(a, k)
<1>0. KeysGood(key) /\ key[k].until \in Int
  BY DEF Good, KeysGood, Row, Window, Null
<1>1. key' # key
  BY <1>0 DEF Shortened
<1>2. \A a \in Actors : Serve(a) => plan[a].at = k
  BY SuccessIsAtItsKey
<1>3. ASSUME NEW a \in Calls, Call(a) PROVE Serve(a)
  <2>1. a \in Actors
    BY DEF Actors
  <2>2. ASSUME NEW p \in Policies, NEW r \in Rests, NEW c \in KeyClass, Fail(a, p, r, c)
        PROVE  FALSE
    <3>1. InFlight(a) /\ p \in Policy /\ r \in Rest /\ ImplicatesCredential(c)
      BY <2>2, KeyHealthAssumption DEF Fail, Waiting
    <3> QED BY <2>1, <2>2, <3>1, FailureShortensNothing DEF Fail
  <2> QED BY <1>1, <1>3, <2>2 DEF Call, BeginPlan, Load, Answer, Rotate, Leave, PlanNext
<1>4. ASSUME NEW a \in Probers, Probe(a) PROVE Serve(a) \/ BlindRelease(a, k)
  <2>1. a \in Actors
    BY DEF Actors
  <2>2. ASSUME NEW p \in Policies, NEW c \in ProbeClasses,
             NEW late \in ProbeDelays, ProbeFail(a, p, c, late)
        PROVE  BlindRelease(a, k)
    <3>1. InFlight(a) /\ p \in Policy /\ c \in KeyClass /\ late \in Nat
      BY <2>2, KeyHealthAssumption DEF ProbeFail, Waiting
    <3>2. NoRest \in Rest
      BY DEF NoRest, Rest, ClassPolicy, NoPolicy
    <3>3. CASE ImplicatesCredential(c)
      BY <2>1, <2>2, <3>1, <3>2, <3>3, FailureShortensNothing DEF ProbeFail
    <3> QED BY <2>2, <3>3, BlindShortens
  <2> QED BY <1>1, <1>4, <2>2 DEF Probe, ProbeBegin, Load, Answer, Leave
<1>5. ASSUME NEW a \in Operators, Operate(a) PROVE FALSE
  <2>1. ~Load(a, NoKey, {}) /\ ~Leave(a)
    BY <1>1 DEF Load, Leave
  <2>2. \A j \in Keys : ~AddKey(a, j)
    <3>1. ASSUME NEW j \in Keys, AddKey(a, j) PROVE key'[k] = key[k] \/ ~Present(key[k])
      BY <1>0, <3>1 DEF AddKey, Present, KeysGood
    <3> QED BY <1>0, <3>1 DEF Shortened
  <2>3. \A D \in SUBSET Keys : ~Remove(a, D)
    <3>1. ASSUME NEW D \in SUBSET Keys, Remove(a, D)
          PROVE  key'[k] = key[k] \/ ~Present(key'[k])
      BY <3>1 DEF Remove, Present, Blank
    <3> QED BY <1>0, <3>1 DEF Shortened
  <2>4. \A D \in SUBSET Keys : \A s, d : ~UpdateKeys(D, s, d)
    BY <1>0, UpdateShortensNothing
  <2>5. \A j \in Keys : {j} \in SUBSET Keys
    OBVIOUS
  <2>6. \A D \in SUBSET Keys : \A s, w : Moved(a, D, s, w) \in SUBSET Keys
    BY DEF Moved
  <2> QED BY <1>5, <2>1, <2>2, <2>3, <2>4, <2>5, <2>6
          DEF Operate, PatchFields, PatchValue, PatchStatus, BulkDisable, BulkEnable
<1> QED BY <1>1, <1>2, <1>3, <1>4, <1>5 DEF Next, vars, Actors

\* A park ends by time, by an answer of that very credential, or by a probe that loaded the
\* key before its first strike and met a target or a gate that refused it, for any number of
\* stale snapshots written back and whatever probes are classified as.
THEOREM ParksEndByEvidence == Spec => ParkEndsByEvidence
<1> DEFINE Ended ==
      \A k \in Keys : Shortened(k) =>
        \/ Tick
        \/ \E a \in Calls \cup Probers : Serve(a) /\ plan[a].at = k
        \/ \E a \in Probers : BlindRelease(a, k)
<1>1. Init => Good
  BY InitGood
<1>2. Good /\ [Next]_vars => Good'
  BY NextGood
<1>3. Good /\ [Next]_vars => [Ended]_vars
  BY NextShortens
<1> QED BY <1>1, <1>2, <1>3, PTL DEF Spec, ParkEndsByEvidence
---------------------------------------------------------------------------
(* The key that stays.                                                     *)

\* Nothing that was enabled, or that comes back by itself, stops being so.
Stays(k) ==
  /\ Enabled(key[k]) => Enabled(key'[k])
  /\ Returns(key[k]) => Returns(key'[k])

\* The two floors, kept by a step of operator a.
FloorsKept(a) ==
  /\ KeyFloor => KeyFloor'
  /\ (ReturnFloor /\ ~ReturnFloor') => \E k \in Keys : PatchValue(a, k)

LEMMA AllStay == ASSUME \A k \in Keys : Stays(k), NEW a PROVE FloorsKept(a)
  BY DEF Stays, FloorsKept, KeyFloor, ReturnFloor

\* One enabled key that the step leaves alone is floor enough.
LEMMA OneStays ==
  ASSUME NEW a, KeyBacked => \E k \in Keys : Enabled(key[k]) /\ key'[k] = key[k]
  PROVE  FloorsKept(a)
  BY DEF FloorsKept, KeyFloor, ReturnFloor, Returns

\* The columns a panel write moves.
LEMMA UpdateMarks ==
  ASSUME KeysGood(key), NEW D \in SUBSET Keys, NEW status \in [Keys -> Status],
         NEW dis \in [Keys -> Window], UpdateKeys(D, status, dis), NEW k \in Keys
  PROVE  \/ key'[k] = key[k]
         \/ k \in D /\ key'[k].status = status[k] /\ key'[k].dis = dis[k]
<1> DEFINE new == [key[k] EXCEPT !.status = status[k], !.dis = dis[k]]
<1>1. key[k] \in Row
  BY DEF KeysGood
<1>2. new.status = status[k] /\ new.dis = dis[k]
  BY <1>1 DEF Row
<1> HIDE DEF new
<1>3. key'[k] = key[k] \/ (k \in D /\ key'[k] = new)
  BY DEF UpdateKeys, new
<1> QED BY <1>2, <1>3

\* The columns a health write moves.
LEMMA HealthMarks ==
  ASSUME KeysGood(key), NEW j \in Keys, NEW agg, Writable(agg), NEW c,
         RecordKeyHealth(j, agg, c), NEW k \in Keys
  PROVE  \/ key'[k] = key[k]
         \/ k = j /\ key'[k].status = agg.status /\ key'[k].dis = key[k].dis
<1> DEFINE new == HealthWrite(key[k], agg, c)
<1>1. key[k] \in Row /\ agg \in Row /\ GoodRow(key[k])
  BY DEF KeysGood, Writable
<1>2. new.status = agg.status /\ new.dis = key[k].dis
  <2>1. CASE agg.errs = 0
    BY <1>1, <2>1 DEF HealthWrite, Row
  <2>2. CASE agg.errs # 0
    <3> DEFINE struck == Struck(key[k], c)
               u == Later(struck.until, agg.until)
               s == agg.status
    <3>1. struck \in Row /\ struck.dis = key[k].dis
      BY <1>1, StruckGood DEF GoodRow, Struck, Row
    <3>2. new = [struck EXCEPT !.status = s, !.until = u]
      BY <2>2 DEF HealthWrite
    <3> HIDE DEF struck, u, new
    <3> QED BY <3>1, <3>2 DEF Row
  <2> QED BY <2>1, <2>2
<1> HIDE DEF new
<1>3. key'[k] = key[k] \/ (k = j /\ key'[k] = new)
  BY DEF RecordKeyHealth, KeysGood, new
<1> QED BY <1>2, <1>3

\* The status a call or a probe writes is the one it loaded, or one of an enabled key.
LEMMA RecordedStatus ==
  ASSUME NEW row \in Row, GoodRow(row), NEW c, NEW p, NEW r, NEW late
  PROVE  /\ RecordSuccess(row).status \in {row.status, "active"}
         /\ RecordFailure(row, c, p, r, late).status \in {row.status, "error"}
         /\ row.status = "disabled" => RecordSuccess(row).status = "disabled"
<1>1. RecordSuccess(row).status = IF row.status = "error" THEN "active" ELSE row.status
  BY DEF RecordSuccess, Row
<1>2. RecordFailure(row, c, p, r, late).status \in {row.status, "error"}
  <2> DEFINE struck == Struck(row, c)
             until == Since(RestUntil(p, r, c, RunFor(struck, c)), late)
  <2>1. struck \in Row /\ struck.status = row.status
    BY StruckGood DEF GoodRow
  <2>2. \/ RecordFailure(row, c, p, r, late) \in {row, struck}
        \/ RecordFailure(row, c, p, r, late) = [struck EXCEPT !.status = "error", !.until = until]
    BY DEF RecordFailure
  <2> HIDE DEF struck, until
  <2> QED BY <2>1, <2>2 DEF Row
<1> QED BY <1>1, <1>2

LEMMA RecordedStays ==
  ASSUME Good, NEW a \in Actors, SwitchesCurrent(a), InFlight(a), NEW agg, Writable(agg),
         agg.status \in {Snapshot(a).status, "active", "error"}, NEW c,
         RecordKeyHealth(plan[a].at, agg, c), NEW k \in Keys
  PROVE  Stays(k)
<1>1. plan[a].at \in Keys /\ KeysGood(key)
  BY InFlightGood DEF Good
<1>2. \/ key'[k] = key[k]
      \/ k = plan[a].at /\ key'[k].status = agg.status /\ key'[k].dis = key[k].dis
  BY <1>1, HealthMarks
<1>3. k = plan[a].at => Snapshot(a).status = key[k].status
  BY DEF SwitchesCurrent, Snapshot
<1> QED BY <1>2, <1>3 DEF Stays, Enabled, Returns

\* The operator's own writes.
LEMMA OperatorKeepsFloors ==
  ASSUME Good, NEW a \in Operators, SwitchesCurrent(a), Operate(a)
  PROVE  FloorsKept(a)
<1>0. /\ a \in Actors /\ Held(a) /\ KeysGood(key) /\ KeysGood(plan[a].rows)
      /\ \A k \in Keys : /\ plan[a].rows[k].status = key[k].status
                         /\ plan[a].rows[k].dis = key[k].dis
  BY HeldGood DEF Actors, SwitchesCurrent, Good
<1>1. /\ StatusIn(a) \in [Keys -> Status] /\ DisIn(a) \in [Keys -> Window]
      /\ Always(Null) \in [Keys -> Window]
      /\ \A s \in {"active", "disabled"} : Always(s) \in [Keys -> Status]
      /\ \A w \in DisableWindows : Always(w) \in [Keys -> Window]
  BY <1>0, KeyHealthAssumption
     DEF StatusIn, DisIn, Always, KeysGood, Row, Window, Positive, Status
<1>2. \A k \in Keys : /\ StatusIn(a)[k] = key[k].status /\ DisIn(a)[k] = key[k].dis
                      /\ \A v : Always(v)[k] = v
  BY <1>0 DEF StatusIn, DisIn, Always
\* Of the keys that are not taken out, one is enabled and is left alone.
<1>3. ASSUME NEW D \in SUBSET Keys, KeepsOne(a, D), \A k \in Keys \ D : key'[k] = key[k]
      PROVE  FloorsKept(a)
  <2>1. KeyBacked => \E k \in Keys : Enabled(key[k]) /\ key'[k] = key[k]
    BY <1>0, <1>3 DEF KeepsOne, Enabled
  <2> QED BY <2>1, OneStays
\* A key that is switched on.
<1>4. ASSUME NEW D \in SUBSET Keys, UpdateKeys(D, Always("active"), Always(Null))
      PROVE  FloorsKept(a)
  <2>1. ASSUME NEW k \in Keys PROVE Stays(k)
    <3>1. Always("active") \in [Keys -> Status] /\ Always("active")[k] = "active"
      BY <1>1, <1>2
    <3>2. key'[k] = key[k] \/ key'[k].status = "active"
      BY <1>0, <1>1, <1>4, <3>1, UpdateMarks
    <3> QED BY <3>2 DEF Stays, Enabled, Returns
  <2> QED BY <2>1, AllStay
<1>5. CASE key' = key
  BY <1>5, AllStay DEF Stays
<1>6. ASSUME NEW k \in Keys, AddKey(a, k) PROVE FloorsKept(a)
  <2>1. ASSUME NEW j \in Keys PROVE Stays(j)
    <3>1. key'[j] = key[j] \/ (key[j].status = "absent" /\ key'[j].status = "active")
      BY <1>0, <1>6 DEF AddKey, Blank, KeysGood
    <3> QED BY <3>1 DEF Stays, Enabled, Returns
  <2> QED BY <2>1, AllStay
<1>7. ASSUME NEW k \in Keys, PatchFields(a, k) PROVE FloorsKept(a)
  <2>1. UpdateKeys({k}, StatusIn(a), DisIn(a)) /\ {k} \in SUBSET Keys
    BY <1>7 DEF PatchFields
  <2>2. ASSUME NEW j \in Keys PROVE Stays(j)
    <3>1. key'[j] = key[j] \/ (key'[j].status = key[j].status /\ key'[j].dis = key[j].dis)
      <4>1. /\ StatusIn(a) \in [Keys -> Status] /\ DisIn(a) \in [Keys -> Window]
            /\ StatusIn(a)[j] = key[j].status /\ DisIn(a)[j] = key[j].dis
        BY <1>1, <1>2
      <4> QED BY <1>0, <2>1, <4>1, UpdateMarks
    <3> QED BY <3>1 DEF Stays, Enabled, Returns
  <2> QED BY <2>2, AllStay
<1>8. ASSUME NEW k \in Keys, PatchValue(a, k) PROVE FloorsKept(a)
  <2>1. UpdateKeys({k}, StatusIn(a), Always(Null)) /\ {k} \in SUBSET Keys
    BY <1>8 DEF PatchValue
  <2>2. ASSUME NEW j \in Keys
        PROVE  key'[j] = key[j] \/ key'[j].status = key[j].status
    <3>1. /\ StatusIn(a) \in [Keys -> Status] /\ Always(Null) \in [Keys -> Window]
          /\ StatusIn(a)[j] = key[j].status
      BY <1>1, <1>2
    <3> QED BY <1>0, <2>1, <3>1, UpdateMarks
  <2>3. \A j \in Keys : Enabled(key[j]) => Enabled(key'[j])
    BY <2>2 DEF Enabled
  <2> QED BY <1>8, <2>3 DEF FloorsKept, KeyFloor
<1>9. ASSUME NEW k \in Keys, NEW s \in {"active", "disabled"}, PatchStatus(a, k, s)
      PROVE  FloorsKept(a)
  <2>1. UpdateKeys({k}, Always(s), Always(Null)) /\ {k} \in SUBSET Keys
    BY <1>9 DEF PatchStatus
  <2>2. CASE s = "active"
    BY <1>4, <2>1, <2>2
  <2>3. CASE s = "disabled"
    <3>1. KeepsOne(a, {k})
      BY <1>9, <2>3 DEF PatchStatus
    <3>2. ASSUME NEW j \in Keys \ {k} PROVE key'[j] = key[j]
      <4>1. Always(s) \in [Keys -> Status] /\ Always(Null) \in [Keys -> Window] /\ j \notin {k}
        BY <1>1
      <4> QED BY <1>0, <2>1, <4>1, UpdateMarks
    <3> QED BY <1>3, <2>1, <3>1, <3>2
  <2> QED BY <2>2, <2>3
<1>10. ASSUME NEW D \in (SUBSET Keys) \ {{}}, NEW w \in DisableWindows, BulkDisable(a, D, w)
       PROVE  FloorsKept(a)
  <2> DEFINE M == Moved(a, D, "disabled", w)
  <2>1. KeepsOne(a, D) /\ UpdateKeys(M, Always("disabled"), Always(w))
    BY <1>10 DEF BulkDisable
  <2>2. M \in SUBSET Keys /\ M \subseteq D
    BY DEF Moved
  <2> HIDE DEF M
  <2>3. \A j \in Keys \ D : key'[j] = key[j]
    BY <2>1, <2>2 DEF UpdateKeys
  <2> QED BY <1>3, <2>1, <2>3
<1>11. ASSUME NEW D \in (SUBSET Keys) \ {{}}, BulkEnable(a, D) PROVE FloorsKept(a)
  <2>1. Moved(a, D, "active", Null) \in SUBSET Keys
    BY DEF Moved
  <2> QED BY <1>4, <1>11, <2>1 DEF BulkEnable
<1>12. ASSUME NEW D \in (SUBSET Keys) \ {{}}, Remove(a, D) PROVE FloorsKept(a)
  <2>1. KeepsOne(a, D) /\ \A j \in Keys \ D : key'[j] = key[j]
    BY <1>12 DEF Remove
  <2> QED BY <1>3, <2>1
<1>13. Load(a, NoKey, {}) \/ Leave(a) => key' = key
  BY DEF Load, Leave
<1> QED BY <1>5, <1>6, <1>7, <1>8, <1>9, <1>10, <1>11, <1>12, <1>13 DEF Operate

\* An actor that is an operator and a caller, or a prober, keeps them with its records.
LEMMA RecorderKeepsFloors ==
  ASSUME Good, NEW a \in Actors, SwitchesCurrent(a),
         \/ a \in Calls /\ Call(a)
         \/ a \in Probers /\ Probe(a)
  PROVE  FloorsKept(a)
<1>1. CASE key' = key
  BY <1>1, AllStay DEF Stays
<1>2. CASE Serve(a)
  <2>1. InFlight(a) /\ RecordKeyHealth(plan[a].at, RecordSuccess(Snapshot(a)), "none")
    BY <1>2 DEF Serve
  <2>2. Snapshot(a) \in Row /\ GoodRow(Snapshot(a))
    BY <2>1, InFlightGood DEF Good
  <2>3. /\ Writable(RecordSuccess(Snapshot(a)))
        /\ RecordSuccess(Snapshot(a)).status \in {Snapshot(a).status, "active", "error"}
    BY <2>2, RecordSuccessWritable, RecordedStatus
  <2>4. \A k \in Keys : Stays(k)
    BY <2>1, <2>3, RecordedStays
  <2> QED BY <2>4, AllStay
<1>3. ASSUME InFlight(a), NEW p \in Policy, NEW r \in Rest, NEW late \in Nat, NEW c \in KeyClass,
             RecordKeyHealth(plan[a].at, RecordFailure(Snapshot(a), c, p, r, late), c)
      PROVE  FloorsKept(a)
  <2>2. Snapshot(a) \in Row /\ GoodRow(Snapshot(a))
    BY <1>3, InFlightGood DEF Good
  <2>3. /\ Writable(RecordFailure(Snapshot(a), c, p, r, late))
        /\ RecordFailure(Snapshot(a), c, p, r, late).status
             \in {Snapshot(a).status, "active", "error"}
    BY <2>2, RecordFailureWritable, RecordedStatus
  <2>4. \A k \in Keys : Stays(k)
    BY <1>3, <2>3, RecordedStays
  <2> QED BY <2>4, AllStay
<1>4. CASE a \in Calls /\ Call(a)
  <2>1. ASSUME NEW p \in Policies, NEW r \in Rests, NEW c \in KeyClass, Fail(a, p, r, c)
        PROVE  FloorsKept(a)
    <3>1. InFlight(a) /\ p \in Policy /\ r \in Rest /\ 0 \in Nat
      BY <2>1, KeyHealthAssumption DEF Fail, Waiting
    <3> QED BY <1>3, <2>1, <3>1 DEF Fail
  <2>2. ASSUME ~Serve(a), \A p \in Policies, r \in Rests, c \in KeyClass : ~Fail(a, p, r, c)
        PROVE  key' = key
    BY <1>4, <2>2 DEF Call, BeginPlan, Load, Answer, Rotate, Leave, PlanNext
  <2> QED BY <1>1, <1>2, <2>1, <2>2
<1>5. CASE a \in Probers /\ Probe(a)
  <2>1. ASSUME NEW p \in Policies, NEW c \in ProbeClasses, NEW late \in ProbeDelays,
               ProbeFail(a, p, c, late)
        PROVE  FloorsKept(a)
    <3>1. InFlight(a) /\ p \in Policy /\ c \in KeyClass /\ late \in Nat
      BY <2>1, KeyHealthAssumption DEF ProbeFail, Waiting
    <3>2. NoRest \in Rest
      BY DEF NoRest, Rest, ClassPolicy, NoPolicy
    <3> QED BY <1>3, <2>1, <3>1, <3>2 DEF ProbeFail
  <2>2. ASSUME ~Serve(a),
               \A p \in Policies, c \in ProbeClasses, late \in ProbeDelays : ~ProbeFail(a, p, c, late)
        PROVE  key' = key
    BY <1>5, <2>2 DEF Probe, ProbeBegin, Load, Answer, Leave
  <2> QED BY <1>1, <1>2, <2>1, <2>2
<1> QED BY <1>4, <1>5

\* A snapshot is dropped by whoever holds it: another actor's step and time leave it.
LEMMA OthersSnapshot ==
  ASSUME Good, NEW a \in Actors, NEW b \in Actors, a # b, Call(b) \/ Probe(b) \/ Operate(b)
  PROVE  plan'[a] = plan[a]
<1>1. plan \in [Actors -> Plan \cup {NoPlan}]
  BY DEF Good, PlansGood
<1>2. plan' = plan \/ \E v : plan' = [plan EXCEPT ![b] = v]
  <2>1. CASE Call(b)
    <3>1. ASSUME NEW action, WalkOn(b, action)
          PROVE  \E v : plan' = [plan EXCEPT ![b] = v]
      BY <3>1 DEF WalkOn, Drop
    <3> QED BY <2>1, <3>1 DEF Call, BeginPlan, Load, Answer, Serve, Rotate, Leave, PlanNext,
                              Fail, Drop
  <2>2. CASE Probe(b)
    BY <2>2 DEF Probe, ProbeBegin, Load, Answer, Serve, Leave, ProbeFail, Drop
  <2>3. CASE Operate(b)
    BY <2>3 DEF Operate, Load, Leave, AddKey, PatchFields, PatchValue, PatchStatus,
                BulkDisable, BulkEnable, Remove, Drop
  <2> QED BY <2>1, <2>2, <2>3
<1> QED BY <1>1, <1>2

LEMMA FloorStep ==
  ASSUME Good, [Next]_vars, NEW a \in Operators, SwitchesCurrent(a), ~Held(a)'
  PROVE  FloorsKept(a)
<1>0. a \in Actors /\ plan[a] # NoPlan /\ plan[a] \in Plan /\ plan'[a] = NoPlan
  BY HeldGood DEF Actors, SwitchesCurrent, Held, Good
<1>1. ~Tick
  <2>1. ASSUME Tick PROVE FALSE
    <3> DEFINE rows == Aged(plan[a].rows)
               new == [plan[a] EXCEPT !.rows = rows]
    <3>1. plan'[a] = new
      BY <1>0, <2>1 DEF Tick, Held
    <3>2. rows \in [Keys -> Row]
      BY <1>0, HeldGood, AgedGood DEF Good, KeysGood, Held
    <3> HIDE DEF rows
    <3>3. new \in Plan
      BY <1>0, <3>2 DEF Plan
    <3> HIDE DEF new
    <3> QED BY <1>0, <3>1, <3>3, KeyHealthAssumption
  <2> QED BY <2>1
<1>2. plan' # plan
  BY <1>0
<1>3. PICK b \in Actors : \/ b \in Calls /\ Call(b)
                          \/ b \in Probers /\ Probe(b)
                          \/ b \in Operators /\ Operate(b)
  BY <1>1, <1>2 DEF Next, vars, Actors
<1>4. a = b
  BY <1>0, <1>3, OthersSnapshot
<1>5. CASE b \in Operators /\ Operate(b)
  BY <1>4, <1>5, OperatorKeepsFloors
<1>6. CASE b \in Calls /\ Call(b)
  <2>1. a \in Calls /\ Call(a)
    BY <1>4, <1>6
  <2> QED BY <1>0, <2>1, RecorderKeepsFloors
<1>7. CASE b \in Probers /\ Probe(b)
  <2>1. a \in Probers /\ Probe(a)
    BY <1>4, <1>7
  <2> QED BY <1>0, <2>1, RecorderKeepsFloors
<1> QED BY <1>3, <1>5, <1>6, <1>7

\* An operator that decides on the account as it is never leaves a key-backed account
\* without an enabled key, and never without one that comes back by itself but by a
\* replaced value (refusesDeactivation, RemoveKey, UpdateKey).
THEOREM GuardsKeepTheFloor == Spec => KeyFloorKept
<1>1. Good /\ [Next]_vars
      => [\A a \in Operators : (SwitchesCurrent(a) /\ ~Held(a)') => FloorsKept(a)]_vars
  BY FloorStep
<1>2. IInv => Good
  BY IInvParts DEF Good
<1>3. \A a \in Operators : FloorsKept(a) <=>
        /\ KeyFloor => KeyFloor'
        /\ (ReturnFloor /\ ~ReturnFloor') => \E k \in Keys : PatchValue(a, k)
  BY DEF FloorsKept
<1>4. Good /\ [Next]_vars
      => [\A a \in Operators :
            (SwitchesCurrent(a) /\ ~Held(a)')
            => /\ KeyFloor => KeyFloor'
               /\ (ReturnFloor /\ ~ReturnFloor') => \E k \in Keys : PatchValue(a, k)]_vars
  BY <1>1, <1>3
<1> QED BY <1>2, <1>4, Inductive, PTL DEF Spec, KeyFloorKept
---------------------------------------------------------------------------
(* What the panel switched off.                                            *)

\* What SwitchHolds asks of the step that ends a disable.
MayEnd(k) ==
  \/ \E a \in Operators : SwitchesOn(a, k)
  \/ \E a \in Actors : Writes(a) /\ plan[a].rows[k].status # "disabled"
  \/ \E a \in Calls \cup Probers :
       Waiting(a) /\ plan[a].at = k /\ Writes(a) /\ key'[k].status = "error"
SwitchedOn(k) == key[k].status = "disabled" /\ Enabled(key'[k])

\* The write of a call or a probe lands on the credential it is at, with the status its
\* aggregate ends in.
LEMMA RecordedSwitch ==
  ASSUME Good, NEW a \in Actors, InFlight(a), NEW agg, Writable(agg), NEW c,
         RecordKeyHealth(plan[a].at, agg, c), NEW k \in Keys, SwitchedOn(k)
  PROVE  plan[a].at = k /\ key'[k].status = agg.status /\ agg.status # "disabled"
<1>1. plan[a].at \in Keys /\ KeysGood(key)
  BY InFlightGood DEF Good
<1> QED BY <1>1, HealthMarks DEF SwitchedOn, Enabled

LEMMA RefusalSwitches ==
  ASSUME Good, NEW a \in Calls \cup Probers, Waiting(a), Writes(a),
         NEW p \in Policy, NEW r \in Rest, NEW late \in Nat, NEW c \in KeyClass,
         RecordKeyHealth(plan[a].at, RecordFailure(Snapshot(a), c, p, r, late), c),
         NEW k \in Keys, SwitchedOn(k)
  PROVE  MayEnd(k)
<1>1. a \in Actors /\ InFlight(a)
  BY DEF Actors, Waiting
<1>2. Snapshot(a) \in Row /\ GoodRow(Snapshot(a))
  BY <1>1, InFlightGood DEF Good
<1> DEFINE agg == RecordFailure(Snapshot(a), c, p, r, late)
<1>3. Writable(agg)
  BY <1>2, RecordFailureWritable
<1>4. agg.status \in {Snapshot(a).status, "error"}
  BY <1>2, RecordedStatus
<1>5. plan[a].at = k /\ key'[k].status = agg.status /\ agg.status # "disabled"
  <2> HIDE DEF agg
  <2>1. RecordKeyHealth(plan[a].at, agg, c)
    BY DEF agg
  <2> QED BY <1>1, <1>3, <2>1, RecordedSwitch
<1> HIDE DEF agg
<1> QED BY <1>1, <1>4, <1>5 DEF MayEnd, Snapshot

LEMMA ServeSwitches ==
  ASSUME Good, NEW a \in Actors, Serve(a), NEW k \in Keys, SwitchedOn(k)
  PROVE  MayEnd(k)
<1>1. InFlight(a) /\ Writes(a)
  BY DEF Serve, InFlight, Drop, Writes, Held, Good, PlansGood
<1>2. Snapshot(a) \in Row /\ GoodRow(Snapshot(a))
  BY <1>1, InFlightGood DEF Good
<1> DEFINE agg == RecordSuccess(Snapshot(a))
<1>3. Writable(agg) /\ (Snapshot(a).status = "disabled" => agg.status = "disabled")
  BY <1>2, RecordSuccessWritable, RecordedStatus
<1>4. RecordKeyHealth(plan[a].at, agg, "none")
  BY DEF Serve
<1> HIDE DEF agg
<1>5. plan[a].at = k /\ agg.status # "disabled"
  BY <1>1, <1>3, <1>4, RecordedSwitch
<1> QED BY <1>1, <1>3, <1>5 DEF MayEnd, Snapshot

\* An operator's write ends a disable only as asked, or with the status of its snapshot.
LEMMA OperatorSwitches ==
  ASSUME Good, NEW a \in Operators, Operate(a), NEW k \in Keys, SwitchedOn(k)
  PROVE  MayEnd(k)
<1>0. a \in Actors /\ KeysGood(key) /\ key' # key /\ PlansGood(plan)
  BY DEF Actors, Good, SwitchedOn, Enabled
<1>1. ~Load(a, NoKey, {}) /\ ~Leave(a)
  BY <1>0 DEF Load, Leave
<1>2. \A j \in Keys : ~AddKey(a, j)
  BY <1>0 DEF AddKey, SwitchedOn, Enabled, KeysGood
<1>3. \A D \in SUBSET Keys : ~Remove(a, D)
  BY <1>0 DEF Remove, SwitchedOn, Enabled, Blank
\* What the write makes of k.
<1>4. ASSUME NEW D \in SUBSET Keys, NEW status \in [Keys -> Status],
             NEW dis \in [Keys -> Window], UpdateKeys(D, status, dis)
      PROVE  k \in D /\ status[k] # "disabled"
  BY <1>0, <1>4, UpdateMarks DEF SwitchedOn, Enabled
<1>5. ASSUME Held(a), Drop(a)
      PROVE  /\ Writes(a) /\ StatusIn(a) \in [Keys -> Status] /\ DisIn(a) \in [Keys -> Window]
             /\ StatusIn(a)[k] = plan[a].rows[k].status
  <2>1. KeysGood(plan[a].rows)
    BY <1>0, <1>5, HeldGood DEF Good
  <2>2. Writes(a)
    BY <1>0, <1>5 DEF Drop, Writes, Held, PlansGood
  <2> QED BY <2>1, <2>2 DEF StatusIn, DisIn, KeysGood, Row
<1>6. /\ \A s \in Status : Always(s) \in [Keys -> Status] /\ Always(s)[k] = s
      /\ \A w \in Window : Always(w) \in [Keys -> Window]
      /\ Null \in Window /\ DisableWindows \subseteq Window
      /\ "active" \in Status /\ "disabled" \in Status
  BY KeyHealthAssumption DEF Always, Window, Positive, Status
<1>7. ASSUME NEW j \in Keys, PatchFields(a, j) \/ PatchValue(a, j) PROVE MayEnd(k)
  <2>1. Held(a) /\ Drop(a) /\ \E dis \in {DisIn(a), Always(Null)} : UpdateKeys({j}, StatusIn(a), dis)
    BY <1>7 DEF PatchFields, PatchValue, Known
  <2>2. StatusIn(a)[k] # "disabled"
    <3>1. PICK dis \in {DisIn(a), Always(Null)} : UpdateKeys({j}, StatusIn(a), dis)
      BY <2>1
    <3>2. dis \in [Keys -> Window] /\ StatusIn(a) \in [Keys -> Status]
      BY <1>5, <1>6, <2>1
    <3> QED BY <1>4, <3>1, <3>2
  <2> QED BY <1>0, <1>5, <2>1, <2>2 DEF MayEnd
<1>8. ASSUME NEW j \in Keys, NEW s \in {"active", "disabled"}, PatchStatus(a, j, s)
      PROVE  MayEnd(k)
  <2>1. UpdateKeys({j}, Always(s), Always(Null))
    BY <1>8 DEF PatchStatus
  <2>2. k \in {j} /\ Always(s)[k] # "disabled"
    BY <1>4, <1>6, <2>1
  <2>3. j = k /\ s = "active"
    BY <1>6, <2>2
  <2> QED BY <1>8, <2>3 DEF MayEnd, SwitchesOn
<1>9. ASSUME NEW D \in SUBSET Keys, NEW w \in DisableWindows, BulkDisable(a, D, w)
      PROVE  FALSE
  <2>1. /\ UpdateKeys(Moved(a, D, "disabled", w), Always("disabled"), Always(w))
        /\ Moved(a, D, "disabled", w) \in SUBSET Keys
    BY <1>9 DEF BulkDisable, Moved
  <2>2. Always("disabled") \in [Keys -> Status] /\ Always(w) \in [Keys -> Window]
        /\ Always("disabled")[k] = "disabled"
    BY <1>6
  <2> QED BY <1>4, <2>1, <2>2
<1>10. ASSUME NEW D \in SUBSET Keys, BulkEnable(a, D) PROVE MayEnd(k)
  <2>1. /\ UpdateKeys(Moved(a, D, "active", Null), Always("active"), Always(Null))
        /\ Moved(a, D, "active", Null) \in SUBSET Keys /\ Moved(a, D, "active", Null) \subseteq D
    BY <1>10 DEF BulkEnable, Moved
  <2>2. k \in D
    BY <1>4, <1>6, <2>1
  <2> QED BY <1>10, <2>2 DEF MayEnd, SwitchesOn
<1> QED BY <1>1, <1>2, <1>3, <1>7, <1>8, <1>9, <1>10 DEF Operate

LEMMA NextSwitches ==
  ASSUME Good, [Next]_vars, NEW k \in Keys, SwitchedOn(k)
  PROVE  MayEnd(k)
<1>0. key' # key /\ KeysGood(key) /\ PlansGood(plan)
  BY DEF SwitchedOn, Enabled, Good
<1>1. ASSUME NEW a \in Calls, Call(a) PROVE MayEnd(k)
  <2>1. a \in Actors
    BY DEF Actors
  <2>2. ASSUME NEW p \in Policies, NEW r \in Rests, NEW c \in KeyClass, Fail(a, p, r, c)
        PROVE  MayEnd(k)
    <3>1. Waiting(a) /\ p \in Policy /\ r \in Rest /\ 0 \in Nat
      BY <2>2, KeyHealthAssumption DEF Fail
    <3>2. Writes(a)
      BY <1>0, <2>1, <2>2, KeyHealthAssumption
         DEF Fail, Waiting, InFlight, Held, WalkOn, Drop, Writes, PlansGood, Plan
    <3> QED BY <2>2, <3>1, <3>2, RefusalSwitches DEF Fail
  <2>3. Serve(a) => MayEnd(k)
    BY <2>1, ServeSwitches
  <2> QED BY <1>0, <1>1, <2>2, <2>3 DEF Call, BeginPlan, Load, Answer, Rotate, Leave, PlanNext
<1>2. ASSUME NEW a \in Probers, Probe(a) PROVE MayEnd(k)
  <2>1. a \in Actors
    BY DEF Actors
  <2>2. ASSUME NEW p \in Policies, NEW c \in ProbeClasses, NEW late \in ProbeDelays,
               ProbeFail(a, p, c, late)
        PROVE  MayEnd(k)
    <3>1. Waiting(a) /\ p \in Policy /\ c \in KeyClass /\ late \in Nat /\ NoRest \in Rest
      BY <2>2, KeyHealthAssumption DEF ProbeFail, NoRest, Rest, ClassPolicy, NoPolicy
    <3>2. Writes(a)
      BY <1>0, <2>1, <2>2 DEF ProbeFail, Waiting, InFlight, Held, Drop, Writes, PlansGood
    <3> QED BY <2>2, <3>1, <3>2, RefusalSwitches DEF ProbeFail
  <2>3. Serve(a) => MayEnd(k)
    BY <2>1, ServeSwitches
  <2> QED BY <1>0, <1>2, <2>2, <2>3 DEF Probe, ProbeBegin, Load, Answer, Leave
<1>3. ASSUME Tick PROVE FALSE
  BY <1>0, <1>3 DEF Tick, Aged, SwitchedOn, Enabled, KeysGood, Row
<1> QED BY <1>0, <1>1, <1>2, <1>3, OperatorSwitches DEF Next, vars

\* A disable ends as an operator asked, by a write that is older than it, or by a refusal of
\* the credential itself; an answer never ends one. For any actors and any panel actions.
THEOREM SwitchesHold == Spec => SwitchHolds
<1> DEFINE Kept == \A k \in Keys : SwitchedOn(k) => MayEnd(k)
<1>1. Init => Good
  BY InitGood
<1>2. Good /\ [Next]_vars => Good'
  BY NextGood
<1>3. Good /\ [Next]_vars => [Kept]_vars
  BY NextSwitches
<1> QED BY <1>1, <1>2, <1>3, PTL DEF Spec, SwitchHolds, SwitchedOn, MayEnd
============================================================================
