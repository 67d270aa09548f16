--------------------------- MODULE PublishedPoll ---------------------------
(***************************************************************************)
(* The poller of published vendor quota (service/quota_published_*.go) on  *)
(* its replicas: one cycle seeds accounts the queue never held, reads who  *)
(* is due, asks each vendor, stores what it said and stamps the next poll. *)
(* The lease of a cycle is not renewed, every write may fail, a replica    *)
(* may stop at any point.  Vendors and serving traffic are the             *)
(* environment: an answer may be anything, a call may draw a 429.          *)
(* Instants are relative: what is left, or how long ago, in ticks.         *)
(***************************************************************************)
EXTENDS Integers, Sequences, FiniteSets

CONSTANTS
  Replicas,
  Accounts,            \* the active ones, 1..n: the queue breaks ties by id
  Floor,               \* publishedPollInterval, by account
  Rungs, Ceiling,      \* publishedPollBackoffBase doubled up to publishedPollBackoffCeiling
  Budget, Concurrency, \* of one sweep
  PageSize,            \* SeedPageSize
  Cooldown,            \* QuotaCooldownWindow
  LeaseTicks,          \* the lease's lifetime
  MaxRun, MaxOverdue, MaxAge   \* bounds: failures in a row; ticks a row stays due, a cycle goes on

PublishedPollAssumption ==
  /\ Accounts \subseteq Nat /\ Accounts = 1..Cardinality(Accounts)
  /\ "none" \notin Replicas
  /\ {Ceiling, Budget, Concurrency, PageSize, Cooldown, LeaseTicks} \subseteq Nat \ {0}
  /\ Floor \in [Accounts -> Nat \ {0}]
  /\ Rungs \in Seq(1..Ceiling) /\ Len(Rungs) > 0 /\ Rungs[Len(Rungs)] = Ceiling
  /\ \A i \in 1..(Len(Rungs) - 1) :
       Rungs[i + 1] = IF 2 * Rungs[i] >= Ceiling THEN Ceiling ELSE 2 * Rungs[i]
  \* Of 30 seconds doubled up to 30 minutes, the last rung but one is 16 minutes.
  /\ \A i \in 1..Len(Rungs) : Rungs[i] < Ceiling => Rungs[i] + (Rungs[i] \div 4) <= Ceiling
  /\ {MaxRun, MaxOverdue, MaxAge} \subseteq Nat

Never == -1
\* One row of quota_published_state: since its last attempt, how long that one rests, the
\* failures, and whether buckets are stored (fetched_at).
RowType == [since : Nat, rest : Nat, failures : Nat, shows : BOOLEAN]
\* The row as the queue was read.
Snapshot == [id : Accounts, since : Nat, failures : Nat, shows : BOOLEAN]

VARIABLES
  row,        \* by account, empty until it is seeded
  cooling,    \* what is left of quota_cooldown_until
  lease,      \* who holds it, and for how long
  page,       \* each replica's seed cursor
  sweep,      \* each replica's cycle: its age, who is due and not asked, who is asked,
              \* and who was due beyond the budget
  asked,      \* history: how long ago began the sweep that last asked, Never if its stamp was lost
  overtook,   \* history: who was asked since the account waits
  outlived,   \* history: a cycle went on after its lease
  broken      \* history: what an ask broke

pollVars == <<row, cooling, lease, page, sweep, asked, overtook, outlived, broken>>

NoLease == [by |-> "none", left |-> 0]
Idle == [age |-> Never, queue |-> <<>>, flight |-> {}, passed |-> {}]
Scheduled(a) == row[a] # <<>>

-----------------------------------------------------------------------------
(* The stated intervals.                                                   *)

Larger(m, n) == IF m > n THEN m ELSE n
\* publishedNextDelay: one rung for each failure, and the last for all that follow.
Backoff(failures) == IF failures >= Len(Rungs) THEN Ceiling ELSE Rungs[failures]
NextDelay(a, failures) == IF failures < 1 THEN Floor[a] ELSE Larger(Backoff(failures), Floor[a])
\* publishedJitter.delay
Jittered(delay) == IF delay >= Ceiling THEN {delay} ELSE delay..(delay + delay \div 4)

\* As if a stored schedule were always honoured.
Honoured(state) == FALSE
InsideFloor(state) == (state.shows \/ state.failures # 0) /\ state.since < Floor[state.id]

-----------------------------------------------------------------------------
(* The statements.                                                         *)

New == [since |-> 0, rest |-> 0, failures |-> 0, shows |-> FALSE]
\* RecordAttempt, which adds to the run of failures.
Attempted(r, since, rest, delta) == <<[r EXCEPT !.since = since, !.rest = rest, !.failures = @ + delta]>>
\* StorePublished, which ends it.
Stored(r) == [r EXCEPT !.shows = TRUE, !.failures = 0]

\* DueForRefresh: the throttled are left out before the limit is applied.
Overdue(rows, a) == rows[a][1].since - rows[a][1].rest
Eligible(rows) == {a \in Accounts : rows[a] # <<>> /\ Overdue(rows, a) >= 0 /\ cooling[a] = 0}
\* Longest overdue first; who does not fit into the budget comes after everybody who does.
Due(rows) ==
  LET Before(a, b) == \/ Overdue(rows, a) > Overdue(rows, b)
                      \/ Overdue(rows, a) = Overdue(rows, b) /\ a < b
      Ordered(ids) == \A i, j \in DOMAIN ids : i < j => Before(ids[i], ids[j])
      Leading(ids) == \A b \in Eligible(rows) \ {ids[i] : i \in DOMAIN ids} :
                        Len(ids) = Budget /\ \A i \in DOMAIN ids : Before(ids[i], b)
      State(a) == [id |-> a, since |-> rows[a][1].since, failures |-> rows[a][1].failures,
                   shows |-> rows[a][1].shows]
  IN  {[i \in DOMAIN ids |-> State(ids[i])] :
         ids \in {q \in UNION {[1..n -> Eligible(rows)] : n \in 0..Budget} : Ordered(q) /\ Leading(q)}}
Ids(states) == {s.id : s \in states}
Queued(queue) == {queue[i].id : i \in DOMAIN queue}

-----------------------------------------------------------------------------
(* A cycle (runCycle).                                                     *)

\* Seed arms one page of the fleet, due at once; the cursor moves though the read may fail after.
Seeded(listed) == [a \in Accounts |-> IF a \in listed /\ ~Scheduled(a) THEN <<New>> ELSE row[a]]
\* Acquire is SET NX with a lifetime: an expired lease is free.  Then the page and the queue
\* are read, in that order; a sweep that cannot read the queue asks nobody.
Begin(r) ==
  LET listed == {a \in Accounts : page[r] * PageSize < a /\ a <= (page[r] + 1) * PageSize}
      moved  == IF (page[r] + 1) * PageSize >= Cardinality(Accounts) THEN 0 ELSE page[r] + 1
      Sweeps(rows, queue) ==
        /\ row' = rows
        /\ sweep' = [sweep EXCEPT ![r] = [age |-> 0, queue |-> queue, flight |-> {},
                                         passed |-> Eligible(rows) \ Queued(queue)]]
  IN  /\ sweep[r] = Idle /\ lease.left = 0
      /\ lease' = [by |-> r, left |-> LeaseTicks]
      /\ \/ /\ page' = [page EXCEPT ![r] = moved]
            /\ \E queue \in Due(Seeded(listed)) : Sweeps(Seeded(listed), queue)
         \/ /\ page' \in {page, [page EXCEPT ![r] = moved]}
            /\ \E queue \in Due(row) : Sweeps(row, queue)
         \/ page' = [page EXCEPT ![r] = moved] /\ Sweeps(Seeded(listed), <<>>)
      /\ UNCHANGED <<cooling, asked, overtook, outlived, broken>>

\* pollAll's loop on a row stamped under a faster table: only its next attempt moves, if the
\* write does not fail.
Rearm(r) ==
  LET state == Head(sweep[r].queue)
  IN  /\ sweep[r].queue # <<>> /\ InsideFloor(state)
      /\ \/ row' = [row EXCEPT ![state.id] =
                      Attempted(@[1], state.since + sweep[r].age, Floor[state.id], 0)]
         \/ UNCHANGED row
      /\ sweep' = [sweep EXCEPT ![r].queue = Tail(@)]
      /\ overtook' = [overtook EXCEPT ![state.id] = {}]
      /\ UNCHANGED <<cooling, lease, page, asked, outlived, broken>>

\* pollAll's loop, once a slot is free: the vendor is asked.
Ask(r) ==
  LET state   == Head(sweep[r].queue)
      age     == sweep[r].age
      waiting == sweep[r].passed
  IN  /\ sweep[r].queue # <<>> /\ ~InsideFloor(state)
      /\ Cardinality(sweep[r].flight) < Concurrency
      /\ sweep' = [sweep EXCEPT ![r].queue = Tail(@), ![r].flight = @ \union {state}]
      /\ asked' = [asked EXCEPT ![state.id] = age]
      /\ overtook' = [b \in Accounts |->
           IF b = state.id THEN {} ELSE IF b \in waiting THEN overtook[b] \union {state.id} ELSE overtook[b]]
      /\ broken' = IF asked[state.id] = Never THEN broken ELSE broken
           \union (IF asked[state.id] - age < Floor[state.id] THEN {"floor"} ELSE {})
           \union (IF \E b \in waiting : state.id \in overtook[b] THEN {"turn"} ELSE {})
      /\ UNCHANGED <<row, cooling, lease, page, outlived>>

\* schedule: every stamp of a sweep is its beginning.
Schedule(r, state, kept, delta, failures) ==
  \E rest \in Jittered(NextDelay(state.id, failures)) :
    row' = [row EXCEPT ![state.id] = Attempted(kept, sweep[r].age, rest, delta)]

\* pollOne: an error or a refusal counts, a sentence without buckets does not, and neither
\* touches the buckets; buckets are stored before the next attempt is, and answers the cache
\* refuses, or could not write, count.  A stamp that is not written leaves the row due.
Answer(r) ==
  \E state \in sweep[r].flight :
    LET stored == row[state.id][1]
    IN  /\ \/ /\ UNCHANGED asked
              /\ \/ stored.failures < MaxRun /\ Schedule(r, state, stored, 1, state.failures + 1)
                 \/ Schedule(r, state, stored, 0, state.failures)
                 \/ Schedule(r, state, Stored(stored), 0, 0)
           \/ /\ asked' = [asked EXCEPT ![state.id] = Never]
              /\ row' \in {row, [row EXCEPT ![state.id] = <<Stored(stored)>>]}
        /\ sweep' = [sweep EXCEPT ![r].flight = @ \ {state}]
        /\ UNCHANGED <<cooling, lease, page, overtook, outlived, broken>>

\* The release deletes the lease only while it is this replica's.
End(r) ==
  /\ sweep[r] # Idle /\ sweep[r].queue = <<>> /\ sweep[r].flight = {}
  /\ sweep' = [sweep EXCEPT ![r] = Idle] /\ lease' = IF lease.by = r THEN NoLease ELSE lease
  /\ UNCHANGED <<row, cooling, page, asked, overtook, outlived, broken>>
\* A replica that stops leaves what it asked unstamped, and its lease to run out.
Stop(r) ==
  /\ sweep[r] # Idle
  /\ sweep' = [sweep EXCEPT ![r] = Idle] /\ page' = [page EXCEPT ![r] = 0]
  /\ asked' = [a \in Accounts |-> IF a \in Ids(sweep[r].flight) THEN Never ELSE asked[a]]
  /\ UNCHANGED <<row, cooling, lease, overtook, outlived, broken>>

-----------------------------------------------------------------------------
(* The environment.                                                        *)

\* MarkQuotaThrottled and RecordUpstreamOutcome: the later deadline wins.
Throttle ==
  \E a \in Accounts :
    /\ cooling' = [cooling EXCEPT ![a] = Cooldown]
    /\ UNCHANGED <<row, lease, page, sweep, asked, overtook, outlived, broken>>

Older(n) == IF n = Never THEN Never ELSE n + 1
Sooner(n) == IF n = 0 THEN 0 ELSE n - 1
Tick ==
  /\ \A a \in Accounts : Scheduled(a) => Overdue(row, a) < MaxOverdue
  /\ \A r \in Replicas : sweep[r].age < MaxAge
  /\ row' = [a \in Accounts |-> IF Scheduled(a) THEN <<[row[a][1] EXCEPT !.since = @ + 1]>> ELSE <<>>]
  /\ cooling' = [a \in Accounts |-> Sooner(cooling[a])]
  /\ lease' = IF lease.left <= 1 THEN NoLease ELSE [lease EXCEPT !.left = @ - 1]
  /\ sweep' = [r \in Replicas |-> [sweep[r] EXCEPT !.age = Older(@)]]
  \* Beyond the floor and the longest cycle how long ago does not matter.
  /\ asked' = [a \in Accounts |-> IF asked[a] >= Floor[a] + MaxAge THEN asked[a] ELSE Older(asked[a])]
  /\ outlived' = (outlived \/ \E r \in Replicas : sweep[r] # Idle /\ lease'.by # r)
  /\ UNCHANGED <<page, overtook, broken>>

\* An account may hold buckets and a schedule an older, faster table stamped.
Old == <<[since |-> 0, rest |-> 0, failures |-> 0, shows |-> TRUE]>>
Init ==
  /\ row \in [Accounts -> {<<>>, Old}]
  /\ cooling = [a \in Accounts |-> 0]
  /\ lease = NoLease
  /\ page = [r \in Replicas |-> 0] /\ sweep = [r \in Replicas |-> Idle]
  /\ asked = [a \in Accounts |-> IF Scheduled(a) THEN 0 ELSE Never]
  /\ overtook = [a \in Accounts |-> {}] /\ outlived = FALSE /\ broken = {}

Next ==
  \/ \E r \in Replicas : Begin(r) \/ Rearm(r) \/ Ask(r) \/ Answer(r) \/ End(r) \/ Stop(r)
  \/ Throttle \/ Tick
Spec == Init /\ [][Next]_pollVars

-----------------------------------------------------------------------------
TypeOK ==
  /\ \A a \in Accounts : row[a] = <<>> \/ row[a][1] \in RowType
  /\ cooling \in [Accounts -> 0..Cooldown] /\ lease.left \in 0..LeaseTicks
  /\ page \in [Replicas -> Nat] /\ asked \in [Accounts -> Int]
  /\ \A r \in Replicas : sweep[r].flight \subseteq Snapshot

\* A vendor is asked about an account once in its family's floor, measured between the
\* starts of the sweeps, whatever schedule is stored, while cycles end within their lease and
\* the stamp of the poll before was written (quota_published_policy.go insideFloor).
FloorKept == outlived \/ "floor" \notin broken
\* The budget rotates over the fleet: of the accounts that are due, none is asked twice while
\* another waits (postgres/quota_published.go DueForRefresh).
Rotation == outlived \/ "turn" \notin broken
\* An account that failed n times in a row rests the nth step of the ladder and never longer
\* than the ceiling or a quarter over its floor (publishedNextDelay).
BackedOff ==
  \A a \in Accounts : Scheduled(a) =>
    LET r == row[a][1] IN
    /\ r.failures > 0 /\ ~outlived => r.rest >= Backoff(r.failures)
    /\ r.rest <= Larger(Ceiling, Floor[a] + (Floor[a] \div 4))
PollSound == FloorKept /\ Rotation /\ BackedOff

\* The strengthening of the proof.
PollTypes ==
  /\ TypeOK /\ row \in [Accounts -> Seq(RowType)] /\ lease \in [by : Replicas \union {"none"}, left : Nat]
  /\ sweep \in [Replicas -> [age : Int, queue : Seq(Snapshot), flight : SUBSET Snapshot,
                            passed : SUBSET Accounts]]
  /\ overtook \in [Accounts -> SUBSET Accounts] /\ outlived \in BOOLEAN
Pending(r) == {sweep[r].queue[i] : i \in DOMAIN sweep[r].queue}
Busy(a) == \E r \in Replicas : a \in Ids(sweep[r].flight)
\* An account that is due, or asked, has a row, and a cycle has an age.
Rowed ==
  /\ \A r \in Replicas : sweep[r] = Idle \/ sweep[r].age \in 0..MaxAge
  /\ \A r \in Replicas : \A s \in Pending(r) \union sweep[r].flight : Scheduled(s.id)

\* While cycles end within their lease: whoever sweeps holds it, so that nobody else writes a row
\* its sweep has read.
Alone == \A r \in Replicas : sweep[r] # Idle => lease.by = r /\ lease.left > 0
AsRead(r) ==
  /\ \A i, j \in DOMAIN sweep[r].queue : i < j => sweep[r].queue[i].id # sweep[r].queue[j].id
  /\ \A s \in Pending(r) :
       /\ row[s.id][1].since = s.since + sweep[r].age /\ row[s.id][1].failures = s.failures
       /\ row[s.id][1].shows = s.shows /\ Overdue(row, s.id) >= sweep[r].age
       /\ s.id \notin Ids(sweep[r].flight) \union sweep[r].passed
InFlight(r) ==
  /\ \A s, t \in sweep[r].flight : s.id = t.id => s = t
  /\ \A s \in sweep[r].flight :
       /\ row[s.id][1].failures = s.failures /\ asked[s.id] = sweep[r].age
       /\ overtook[s.id] = {} /\ s.id \notin sweep[r].passed
\* Who is passed over was due, and no longer overdue than whoever is still to be asked.
PassedOver(r) ==
  \A b \in sweep[r].passed :
    /\ Scheduled(b) /\ Overdue(row, b) >= sweep[r].age
    /\ \A s \in Pending(r) : Overdue(row, s.id) >= Overdue(row, b)
\* Who was asked while another waited, and was stamped, has since been overdue less than that one.
Turns ==
  \A b \in Accounts : \A a \in overtook[b] :
    /\ a # b /\ Scheduled(b) /\ Overdue(row, b) >= 0
    /\ \A r \in Replicas : Overdue(row, b) >= sweep[r].age
    /\ asked[a] # Never /\ ~Busy(a) => Scheduled(a) /\ Overdue(row, a) < Overdue(row, b)
\* A stamp says when the account was asked, and its rest or its answer holds the floor.
Stamped ==
  \A a \in Accounts : asked[a] # Never /\ ~Busy(a) =>
    /\ Scheduled(a) /\ (row[a][1].since <= asked[a] \/ Floor[a] + MaxAge <= asked[a])
    /\ row[a][1].shows \/ row[a][1].failures # 0 \/ row[a][1].rest >= Floor[a]
Orderly ==
  /\ Alone /\ Turns /\ Stamped /\ broken = {}
  /\ \A r \in Replicas : AsRead(r) /\ InFlight(r) /\ PassedOver(r)
PollInv == PollTypes /\ Rowed /\ BackedOff /\ (~outlived => Orderly)
=============================================================================
