-------------------------- MODULE QuotaFlushProofs --------------------------
(***************************************************************************)
(* The quota counters and their flush worker, for any meters, replicas and *)
(* batch size, whatever fails, crashes or commits late: the durable rows   *)
(* keep the promise of the ledger, and no counter is retired before its    *)
(* last total is durable.                                                  *)
(***************************************************************************)
EXTENDS QuotaFlush, TLAPS

LEMMA Bounds ==
  /\ Units \subseteq Nat \ {0} /\ WindowTicks \in Nat /\ WindowTicks > 2
  /\ Nobody # Orphan /\ Nobody \notin Replicas /\ Orphan \notin Replicas
  BY QuotaFlushAssumption

LEMMA NoRowIsRow == NoRow \in Row /\ Empty \in Batch /\ Named(Empty) = {} /\ NoRow.win = 0
<1>1. NoRow \in Row /\ NoRow.win = 0
  BY DEF NoRow, Row
<1> QED BY <1>1 DEF Empty, Batch, Named

\* The parts of the state, typed.
LEMMA Typed ==
  ASSUME TypeOK
  PROVE  /\ \A m \in Meters :
              /\ hot[m] \in Counter /\ row[m] \in Row /\ billed[m] \in Seq(Nat)
              /\ hot[m].win \in Nat /\ hot[m].used \in Nat /\ hot[m].left \in 0..WindowTicks
              /\ row[m].win \in Nat /\ row[m].used \in Nat /\ Len(billed[m]) \in Nat
         /\ \A p \in Replicas :
              /\ cycle[p] \in Cycle /\ cycle[p].batch \in Batch /\ cycle[p].aged \in BOOLEAN
              /\ cycle[p].todo \in SUBSET Meters /\ cycle[p].at \in Steps
              /\ \A m \in Meters : /\ cycle[p].batch[m] \in Row
                                   /\ cycle[p].batch[m].win \in Nat
                                   /\ cycle[p].batch[m].used \in Nat
         /\ \A s \in late :
              /\ s.batch \in Batch /\ s.aged \in BOOLEAN
              /\ \A m \in Meters : /\ s.batch[m] \in Row /\ s.batch[m].win \in Nat
                                   /\ s.batch[m].used \in Nat
<1>1. ASSUME NEW m \in Meters
      PROVE  /\ hot[m] \in Counter /\ row[m] \in Row /\ billed[m] \in Seq(Nat)
             /\ hot[m].win \in Nat /\ hot[m].used \in Nat /\ hot[m].left \in 0..WindowTicks
             /\ row[m].win \in Nat /\ row[m].used \in Nat /\ Len(billed[m]) \in Nat
  BY <1>1 DEF TypeOK, Counter, Row
<1>2. ASSUME NEW b \in Batch, NEW m \in Meters
      PROVE  b[m] \in Row /\ b[m].win \in Nat /\ b[m].used \in Nat
  BY <1>2 DEF Batch, Row
<1>3. ASSUME NEW p \in Replicas
      PROVE  /\ cycle[p] \in Cycle /\ cycle[p].batch \in Batch /\ cycle[p].aged \in BOOLEAN
             /\ cycle[p].todo \in SUBSET Meters /\ cycle[p].at \in Steps
  BY <1>3 DEF TypeOK, Cycle
<1>4. ASSUME NEW s \in late PROVE s.batch \in Batch /\ s.aged \in BOOLEAN
  BY <1>4 DEF TypeOK
<1> QED BY <1>1, <1>2, <1>3, <1>4

\* The two ways a copy is old differ by a tick.
LEMMA AgedBounds ==
  ASSUME NEW x, x.aged \in BOOLEAN
  PROVE  Aged(x, 0) \in {0, 1} /\ Aged(x, 1) \in {1, 2} /\ Aged(x, 1) = Aged(x, 0) + 1
  BY DEF Aged

---------------------------------------------------------------------------
(* Steps that touch neither a counter, nor a row, nor a copy               *)

LEMMA QuietKeeps ==
  ASSUME FlushInv, UNCHANGED <<hot, row, billed, cycle, late>>,
         lease' \in Replicas \cup {Nobody, Orphan},
         phase' \in [Replicas -> {"serving", "draining", "stopped"}],
         failures' \in Nat, stops' \in Nat
  PROVE  FlushInv'
<1>1. TypeOK'
  BY DEF FlushInv, TypeOK
<1>2. NothingOverstated' /\ CountsCurrent'
  BY DEF FlushInv, NothingOverstated, CountsCurrent, Billed
<1>3. CopiesAreRecent' /\ WrittenFirst'
  BY DEF FlushInv, CopiesAreRecent, Dated, WrittenFirst, Covers, Overtaken
<1> QED BY <1>1, <1>2, <1>3 DEF FlushInv

\* A worker's cycle moves; its statement may be left to the server.
LEMMA CycleKeeps ==
  ASSUME FlushInv, NEW p \in Replicas, NEW k \in Cycle, cycle' = [cycle EXCEPT ![p] = k],
         UNCHANGED <<hot, row, billed>>,
         late' \in {late, late \cup {[batch |-> cycle[p].batch, aged |-> cycle[p].aged]}},
         \A m \in Named(k.batch) : Billed(m, k.batch[m]),
         \A m \in Meters : Dated(m, k),
         k.todo \subseteq Named(k.batch), k.at # "settle",
         k.at = "idle" => Named(k.batch) = {},
         lease' \in Replicas \cup {Nobody, Orphan},
         phase' \in [Replicas -> {"serving", "draining", "stopped"}],
         failures' \in Nat, stops' \in Nat
  PROVE  FlushInv'
<1> DEFINE statement == [batch |-> cycle[p].batch, aged |-> cycle[p].aged]
<1>1. \A q \in Replicas : cycle'[q] = IF q = p THEN k ELSE cycle[q]
  BY DEF FlushInv, TypeOK
<1>2. statement.batch = cycle[p].batch /\ statement.aged = cycle[p].aged
  OBVIOUS
<1>3. statement \in [batch : Batch, aged : BOOLEAN]
  BY Typed DEF FlushInv
<1> HIDE DEF statement
<1>4. \A s \in late' : s \in late \/ s = statement
  BY DEF statement
<1>5. TypeOK'
  <2>1. late' \subseteq [batch : Batch, aged : BOOLEAN]
    BY <1>3, <1>4 DEF FlushInv, TypeOK
  <2> QED BY <2>1 DEF FlushInv, TypeOK
<1>6. NothingOverstated'
  <2>1. \A m \in Meters : row'[m] # NoRow => Billed(m, row'[m])
    BY DEF FlushInv, NothingOverstated
  <2>2. \A q \in Replicas : \A m \in Named(cycle'[q].batch) : Billed(m, cycle'[q].batch[m])
    BY <1>1 DEF FlushInv, NothingOverstated
  <2>3. \A s \in late' : \A m \in Named(s.batch) : Billed(m, s.batch[m])
    BY <1>2, <1>4 DEF FlushInv, NothingOverstated
  <2> QED BY <2>1, <2>2, <2>3 DEF NothingOverstated, Named, Billed
<1>7. CountsCurrent'
  BY DEF FlushInv, CountsCurrent
<1>8. CopiesAreRecent'
  <2>1. ASSUME NEW m \in Meters, NEW x, Dated(m, x) PROVE Dated(m, x)'
    BY <2>1 DEF Dated
  <2>2. \A m \in Meters : \A q \in Replicas : Dated(m, cycle'[q])
    BY <1>1 DEF FlushInv, CopiesAreRecent
  <2>3. \A m \in Meters : Dated(m, statement)
    BY <1>2 DEF FlushInv, CopiesAreRecent, Dated, Aged
  <2>4. \A m \in Meters : \A s \in late' : Dated(m, s)
    BY <1>4, <2>3 DEF FlushInv, CopiesAreRecent
  <2>5. \A q \in Replicas : cycle'[q].at = "idle" => Named(cycle'[q].batch) = {}
    BY <1>1 DEF FlushInv, CopiesAreRecent
  <2> QED BY <2>1, <2>2, <2>4, <2>5 DEF CopiesAreRecent, Dated, Named
<1>9. WrittenFirst'
  BY <1>1 DEF FlushInv, WrittenFirst, Covers, Overtaken, Named
<1> QED BY <1>5, <1>6, <1>7, <1>8, <1>9 DEF FlushInv

LEMMA InitFlush == ASSUME Init PROVE FlushInv
<1>1. NoCounter \in Counter /\ Idle \in Cycle /\ Idle.batch = Empty /\ Idle.todo = {}
  BY Bounds, NoRowIsRow DEF NoCounter, Counter, Idle, Cycle, Steps
<1>2. TypeOK
  BY <1>1, NoRowIsRow DEF Init, TypeOK
<1>3. NothingOverstated /\ CountsCurrent
  BY <1>1, NoRowIsRow DEF Init, NothingOverstated, CountsCurrent
<1>4. CopiesAreRecent /\ WrittenFirst
  BY <1>1, NoRowIsRow DEF Init, CopiesAreRecent, Dated, WrittenFirst
<1> QED BY <1>2, <1>3, <1>4 DEF FlushInv

LEMMA LeaseStepsKeep ==
  ASSUME FlushInv, Expire \/ \E p \in Replicas : Denied(p) \/ Shutdown(p) \/ Boot(p)
  PROVE  FlushInv'
<1>1. /\ lease \in Replicas \cup {Nobody, Orphan} /\ failures \in Nat /\ stops \in Nat
      /\ phase \in [Replicas -> {"serving", "draining", "stopped"}]
  BY DEF FlushInv, TypeOK
<1>2. CASE Expire
  BY <1>1, <1>2, QuietKeeps DEF Expire
<1>3. ASSUME NEW p \in Replicas, Denied(p) \/ Shutdown(p) \/ Boot(p) PROVE FlushInv'
  <2>1. /\ UNCHANGED <<hot, row, billed, cycle, late, lease, failures>>
        /\ phase' \in [Replicas -> {"serving", "draining", "stopped"}] /\ stops' \in Nat
    BY <1>1, <1>3 DEF Denied, Shutdown, Boot
  <2> QED BY <1>1, <2>1, QuietKeeps
<1> QED BY <1>2, <1>3

\* The worker takes its lease, gives up, gives it back, or dies.
LEMMA WorkerStepsKeep ==
  ASSUME FlushInv, NEW p \in Replicas, Begin(p) \/ Fail(p) \/ Release(p) \/ Crash(p)
  PROVE  FlushInv'
<1>1. /\ lease \in Replicas \cup {Nobody, Orphan} /\ failures \in Nat /\ stops \in Nat
      /\ phase \in [Replicas -> {"serving", "draining", "stopped"}]
      /\ cycle[p] \in Cycle /\ cycle[p].aged \in BOOLEAN
  BY Typed DEF FlushInv, TypeOK
<1>2. /\ lease' \in Replicas \cup {Nobody, Orphan} /\ failures' \in Nat /\ stops' \in Nat
      /\ phase' \in [Replicas -> {"serving", "draining", "stopped"}]
      /\ UNCHANGED <<hot, row, billed>>
      /\ late' \in {late, late \cup {[batch |-> cycle[p].batch, aged |-> cycle[p].aged]}}
  <2>1. CASE Begin(p)
    BY <1>1, <2>1 DEF Begin
  <2>2. CASE Fail(p)
    BY <1>1, <2>2 DEF Fail, Left
  <2>3. CASE Release(p)
    BY <1>1, <2>3 DEF Release
  <2>4. CASE Crash(p)
    BY <1>1, <2>4 DEF Crash, Left
  <2> QED BY <2>1, <2>2, <2>3, <2>4
<1>3. ASSUME NEW k, k = Idle \/ k = [Idle EXCEPT !.at = "release", !.aged = cycle[p].aged],
             cycle' = [cycle EXCEPT ![p] = k]
      PROVE  FlushInv'
  <2>1. /\ k \in Cycle /\ Named(k.batch) = {} /\ k.todo = {} /\ k.at # "settle"
        /\ \A m \in Meters : m \notin Named(k.batch)
    <3>1. Idle \in Cycle /\ Idle.batch = Empty /\ Idle.todo = {} /\ Idle.at = "idle"
      BY NoRowIsRow DEF Idle, Cycle, Steps
    <3>2. CASE k = Idle
      BY <3>1, <3>2, NoRowIsRow
    <3>3. CASE k = [Idle EXCEPT !.at = "release", !.aged = cycle[p].aged]
      <4>1. k \in Cycle /\ k.batch = Empty /\ k.todo = {} /\ k.at = "release"
        BY <1>1, <3>1, <3>3 DEF Cycle, Steps
      <4> QED BY <4>1, NoRowIsRow
    <3> QED BY <1>3, <3>2, <3>3
  <2>2. \A m \in Meters : Dated(m, k)
    BY <2>1 DEF Dated
  <2> QED BY <1>2, <1>3, <2>1, <2>2, CycleKeeps
<1>4. CASE Begin(p)
  <2> DEFINE k == [cycle[p] EXCEPT !.at = "read"]
  <2>1. cycle[p].at = "idle" /\ Named(cycle[p].batch) = {} /\ cycle' = [cycle EXCEPT ![p] = k]
    BY <1>4 DEF Begin, To, FlushInv, CopiesAreRecent
  <2>2. k \in Cycle /\ k.at = "read" /\ k.batch = cycle[p].batch /\ k.todo = cycle[p].todo
    BY <1>1 DEF Cycle, Steps
  <2> HIDE DEF k
  <2>3. k.todo \subseteq Named(k.batch)
    BY <1>1, <2>2 DEF FlushInv, WrittenFirst, Cycle
  <2>4. \A m \in Meters : Dated(m, k)
    BY <2>1, <2>2 DEF Dated
  <2> QED BY <1>2, <2>1, <2>2, <2>3, <2>4, CycleKeeps
<1>5. CASE Fail(p) \/ Release(p) \/ Crash(p)
  BY <1>3, <1>5 DEF Fail, Release, Crash, Abandon
<1> QED BY <1>4, <1>5

\* A batch is a copy of counters that hold something.
LEMMA ReadKeeps == ASSUME FlushInv, NEW p \in Replicas, ReadPending(p) PROVE FlushInv'
<1>1. /\ cycle[p] \in Cycle /\ cycle[p].aged \in BOOLEAN
      /\ UNCHANGED <<hot, row, billed, lease, phase, late, failures, stops>>
      /\ lease \in Replicas \cup {Nobody, Orphan} /\ failures \in Nat /\ stops \in Nat
      /\ phase \in [Replicas -> {"serving", "draining", "stopped"}]
  BY Typed DEF FlushInv, TypeOK, ReadPending
<1>2. PICK B \in SUBSET {m \in Meters : Dirty(hot[m])} :
        IF B = {} THEN Abandon(p)
        ELSE cycle' = [cycle EXCEPT ![p] =
               [@ EXCEPT !.at = "write", !.todo = B, !.batch = [m \in Meters |->
                  IF m \in B THEN [win |-> hot[m].win, used |-> hot[m].used] ELSE NoRow]]]
  BY DEF ReadPending
<1>3. CASE B = {}
  <2> DEFINE k == [Idle EXCEPT !.at = "release", !.aged = cycle[p].aged]
  <2>1. cycle' = [cycle EXCEPT ![p] = k]
    BY <1>2, <1>3 DEF Abandon
  <2>2. k \in Cycle /\ k.batch = Empty /\ k.todo = {} /\ k.at = "release"
    BY <1>1, NoRowIsRow DEF Idle, Cycle, Steps
  <2> HIDE DEF k
  <2>3. Named(k.batch) = {} /\ \A m \in Meters : m \notin Named(k.batch)
    BY <2>2, NoRowIsRow
  <2>4. \A m \in Meters : Dated(m, k)
    BY <2>3 DEF Dated
  <2> QED BY <1>1, <2>1, <2>2, <2>3, <2>4, CycleKeeps
<1>4. CASE B # {}
  <2> DEFINE b == [m \in Meters |-> IF m \in B THEN [win |-> hot[m].win, used |-> hot[m].used]
                                    ELSE NoRow]
             k == [cycle[p] EXCEPT !.at = "write", !.todo = B, !.batch = b]
  <2>1. cycle' = [cycle EXCEPT ![p] = k] /\ B \subseteq Meters
    BY <1>2, <1>4
  <2>2. \A m \in B : /\ hot[m].used > 0 /\ hot[m].win = Len(billed[m]) /\ hot[m].win > 0
                     /\ hot[m].used = billed[m][hot[m].win]
    BY <1>2 DEF FlushInv, CountsCurrent, Dirty, NoCounter
  <2>3. b \in Batch /\ \A m \in Meters : /\ m \in B => b[m].win = hot[m].win /\ b[m].used = hot[m].used
                                         /\ m \notin B => b[m].win = 0
    BY Typed, NoRowIsRow DEF FlushInv, Batch, Row
  <2> HIDE DEF b
  <2>4. k \in Cycle /\ k.batch = b /\ k.todo = B /\ k.at = "write"
    BY <1>1, <2>1, <2>3 DEF Cycle, Steps
  <2> HIDE DEF k
  <2>5. Named(k.batch) = B
    BY <2>1, <2>2, <2>3, <2>4 DEF Named
  <2>6. \A m \in Named(k.batch) : Billed(m, k.batch[m])
    <3> TAKE m \in Named(k.batch)
    <3>1. m \in B /\ m \in Meters
      BY <2>1, <2>5
    <3>2. Len(billed[m]) \in Nat /\ hot[m].win \in Nat /\ hot[m].used \in Nat
      BY <3>1, Typed DEF FlushInv
    <3>3. b[m].win \in 1..Len(billed[m]) /\ b[m].used \in 1..billed[m][b[m].win]
      BY <2>2, <2>3, <3>1, <3>2
    <3> QED BY <2>4, <3>3 DEF Billed
  <2>7. \A m \in Meters : Dated(m, k)
    BY <2>1, <2>2, <2>3, <2>4, <2>5 DEF Dated
  <2> QED BY <1>1, <2>1, <2>4, <2>5, <2>6, <2>7, CycleKeeps
<1> QED BY <1>3, <1>4

---------------------------------------------------------------------------
(* The rows                                                                *)

\* A copy is merged into its row: what was mirrored of a meter's last window stays,
\* unless the copy is of a window that has just ended.
LEMMA UpsertKeepsRows ==
  ASSUME FlushInv, NEW x, x.batch \in Batch, x.aged \in BOOLEAN,
         \A m \in Named(x.batch) : Billed(m, x.batch[m]),
         \A m \in Meters : Dated(m, x),
         UpsertWindows(x.batch), UNCHANGED <<hot, billed>>
  PROVE  /\ row' \in [Meters -> Row]
         /\ \A m \in Meters :
              /\ row'[m] # NoRow => Billed(m, row'[m])
              /\ row'[m] # row[m] => /\ Billed(m, row'[m])
                                     /\ row'[m].win = row[m].win => row'[m].used >= row[m].used
              /\ m \in Named(x.batch) => Covers(row'[m], x.batch[m])
              /\ \A r \in Row : Covers(row[m], r) /\ r.win = Len(billed[m]) =>
                   Covers(row'[m], r) \/ (hot[m].win = r.win /\ hot[m].left + 1 >= WindowTicks)
<1>1. /\ \A m \in Meters : row'[m] = IF m \in Named(x.batch) THEN Merged(row[m], x.batch[m])
                                     ELSE row[m]
      /\ row' = [m \in Meters |-> IF m \in Named(x.batch) THEN Merged(row[m], x.batch[m])
                                  ELSE row[m]]
  BY DEF UpsertWindows
<1>2. ASSUME NEW m \in Meters
      PROVE  /\ row[m] \in Row /\ row[m].win \in Nat /\ row[m].used \in Nat
             /\ x.batch[m] \in Row /\ x.batch[m].win \in Nat /\ x.batch[m].used \in Nat
             /\ hot[m].left \in 0..WindowTicks
  BY Typed DEF FlushInv, Batch, Row
<1>3. row' \in [Meters -> Row]
  <2>1. \A m \in Meters : row'[m] \in Row
    BY <1>1, <1>2 DEF Merged
  <2> QED BY <1>1, <2>1
<1>4. ASSUME NEW m \in Meters
      PROVE  /\ row'[m] # NoRow => Billed(m, row'[m])
             /\ row'[m] # row[m] => /\ Billed(m, row'[m])
                                    /\ row'[m].win = row[m].win => row'[m].used >= row[m].used
             /\ m \in Named(x.batch) => Covers(row'[m], x.batch[m])
             /\ \A r \in Row : Covers(row[m], r) /\ r.win = Len(billed[m]) =>
                  Covers(row'[m], r) \/ (hot[m].win = r.win /\ hot[m].left + 1 >= WindowTicks)
  <2>1. row[m] # NoRow => Billed(m, row[m])
    BY DEF FlushInv, NothingOverstated
  <2>2. CASE m \notin Named(x.batch)
    BY <1>1, <2>1, <2>2 DEF Covers
  <2>3. CASE m \in Named(x.batch)
    <3> DEFINE b == x.batch[m]
    <3>1. Billed(m, b)
      BY <2>3
    <3>2. /\ row'[m] \in {row[m], b}
          /\ row'[m] = row[m] => b = row[m] \/ (row[m].win = b.win /\ row[m].used > b.used)
          /\ row'[m] = b /\ b.win = row[m].win => b.used >= row[m].used
      BY <1>1, <1>2, <2>3 DEF Merged
    <3>3. row'[m].win = b.win /\ row'[m].used >= b.used
      BY <1>2, <3>2
    <3>4. ASSUME NEW r \in Row, Covers(row[m], r), r.win = Len(billed[m])
          PROVE  Covers(row'[m], r) \/ (hot[m].win = r.win /\ hot[m].left + 1 >= WindowTicks)
      <4>1. r.win \in Nat /\ r.used \in Nat
        BY DEF Row
      <4>2. CASE b.win = r.win
        <5>1. row[m].win = r.win /\ row[m].used >= r.used
          BY <3>4 DEF Covers
        <5>2. row'[m].win = r.win /\ row'[m].used >= r.used
          BY <1>2, <3>2, <3>3, <4>1, <4>2, <5>1
        <5> QED BY <5>2 DEF Covers
      <4>3. CASE b.win # r.win
        <5>1. hot[m].win = Len(billed[m]) /\ hot[m].left + Aged(x, 0) >= WindowTicks
          BY <2>3, <3>4, <4>3 DEF Dated
        <5> QED BY <1>2, <3>4, <5>1, AgedBounds, Bounds
      <4> QED BY <4>2, <4>3
    <3> QED BY <2>1, <3>1, <3>2, <3>3, <3>4 DEF Covers
  <2> QED BY <2>2, <2>3
<1> QED BY <1>3, <1>4

\* What the invariant says of the rows, of a cycle and of the statements left.
LEMMA CopiesAreBilled ==
  ASSUME FlushInv
  PROVE  /\ \A p \in Replicas : /\ \A m \in Named(cycle[p].batch) : Billed(m, cycle[p].batch[m])
                                /\ \A m \in Meters : Dated(m, cycle[p])
         /\ \A s \in late : /\ \A m \in Named(s.batch) : Billed(m, s.batch[m])
                            /\ \A m \in Meters : Dated(m, s)
  BY DEF FlushInv, NothingOverstated, CopiesAreRecent

LEMMA WriteKeeps == ASSUME FlushInv, NEW p \in Replicas, Write(p) PROVE FlushInv'
<1> DEFINE c == cycle[p]
           k == [c EXCEPT !.at = "settle"]
<1>1. /\ cycle' = [cycle EXCEPT ![p] = k] /\ UpsertWindows(c.batch)
      /\ UNCHANGED <<hot, billed, lease, phase, late, failures, stops>>
  BY DEF Write, To
<1>2. c \in Cycle /\ c.batch \in Batch /\ c.aged \in BOOLEAN /\ c.todo \subseteq Meters
  BY Typed DEF FlushInv
<1>3. /\ k \in Cycle /\ k.batch = c.batch /\ k.todo = c.todo /\ k.aged = c.aged
      /\ k.at = "settle"
  BY <1>2 DEF Cycle, Steps
<1>4. \A q \in Replicas : cycle'[q] = IF q = p THEN k ELSE cycle[q]
  BY <1>1 DEF FlushInv, TypeOK
<1> HIDE DEF k
<1>5. /\ row' \in [Meters -> Row]
      /\ \A m \in Meters :
           /\ row'[m] # NoRow => Billed(m, row'[m])
           /\ m \in Named(c.batch) => Covers(row'[m], c.batch[m])
           /\ \A r \in Row : Covers(row[m], r) /\ r.win = Len(billed[m]) =>
                Covers(row'[m], r) \/ (hot[m].win = r.win /\ hot[m].left + 1 >= WindowTicks)
  BY <1>1, <1>2, CopiesAreBilled, UpsertKeepsRows
<1>6. TypeOK'
  BY <1>1, <1>3, <1>5 DEF FlushInv, TypeOK
<1>7. NothingOverstated' /\ CountsCurrent'
  <2>1. \A q \in Replicas : cycle'[q].batch = cycle[q].batch
    BY <1>3, <1>4
  <2> QED BY <1>1, <1>5, <2>1 DEF FlushInv, NothingOverstated, CountsCurrent, Billed, Named
<1>8. CopiesAreRecent'
  <2>1. \A q \in Replicas : /\ cycle'[q].batch = cycle[q].batch /\ cycle'[q].aged = cycle[q].aged
                            /\ cycle'[q].at = "idle" => cycle[q].at = "idle"
    BY <1>3, <1>4
  <2> QED BY <1>1, <2>1 DEF FlushInv, CopiesAreRecent, Dated, Aged, Named
<1>9. WrittenFirst'
  <2>1. ASSUME NEW q \in Replicas, NEW m \in cycle'[q].todo
        PROVE  LET r == cycle'[q].batch[m] IN
               /\ m \in Named(cycle'[q].batch)
               /\ cycle'[q].at = "settle" /\ r.win = Len(billed[m])
                    => Covers(row'[m], r) \/ (/\ hot[m].win = r.win
                                           /\ hot[m].left + Aged(cycle'[q], 1) >= WindowTicks)
    <3>1. m \in cycle[q].todo /\ cycle'[q].batch = cycle[q].batch /\ cycle'[q].aged = cycle[q].aged
      BY <1>3, <1>4, <2>1
    <3>2. m \in Meters /\ m \in Named(cycle[q].batch) /\ cycle[q].batch[m] \in Row
          /\ hot[m].left \in 0..WindowTicks /\ cycle[q].aged \in BOOLEAN
      BY <3>1, Typed DEF FlushInv, WrittenFirst
    <3>3. CASE q = p
      BY <1>5, <3>1, <3>2, <3>3
    <3>4. CASE q # p
      <4> DEFINE r == cycle[q].batch[m]
      <4> SUFFICES ASSUME cycle[q].at = "settle", r.win = Len(billed[m])
                   PROVE  Covers(row'[m], r) \/ (/\ hot[m].win = r.win
                                              /\ hot[m].left + Aged(cycle[q], 1) >= WindowTicks)
        BY <1>4, <3>1, <3>2, <3>4
      <4>1. Covers(row[m], r) \/ Overtaken(hot[m], r, cycle[q])
        BY <3>1 DEF FlushInv, WrittenFirst
      <4> QED BY <1>5, <3>2, <4>1, AgedBounds, Bounds DEF Overtaken
    <3> QED BY <3>3, <3>4
  <2> QED BY <1>1, <2>1 DEF WrittenFirst, Covers, Overtaken, Named
<1> QED BY <1>6, <1>7, <1>8, <1>9 DEF FlushInv

\* A statement nobody waits for lands, or is rolled back.
LEMMA LandKeeps == ASSUME FlushInv, NEW s \in late, Land(s) PROVE FlushInv'
<1>1. late' \subseteq late /\ UNCHANGED <<hot, billed, lease, phase, cycle, failures, stops>>
  BY DEF Land
<1>2. /\ row' \in [Meters -> Row]
      /\ \A m \in Meters :
           /\ row'[m] # NoRow => Billed(m, row'[m])
           /\ \A r \in Row : Covers(row[m], r) /\ r.win = Len(billed[m]) =>
                Covers(row'[m], r) \/ (hot[m].win = r.win /\ hot[m].left + 1 >= WindowTicks)
  <2>1. CASE UpsertWindows(s.batch)
    <3>1. s.batch \in Batch /\ s.aged \in BOOLEAN
      BY Typed DEF FlushInv
    <3> QED BY <1>1, <2>1, <3>1, CopiesAreBilled, UpsertKeepsRows
  <2>2. CASE UNCHANGED row
    BY <2>2 DEF FlushInv, TypeOK, NothingOverstated
  <2> QED BY <2>1, <2>2 DEF Land
<1>3. TypeOK'
  BY <1>1, <1>2 DEF FlushInv, TypeOK
<1>4. NothingOverstated' /\ CountsCurrent' /\ CopiesAreRecent'
  BY <1>1, <1>2 DEF FlushInv, NothingOverstated, CountsCurrent, CopiesAreRecent, Billed, Dated
<1>5. WrittenFirst'
  <2>1. ASSUME NEW q \in Replicas, NEW m \in cycle[q].todo,
               cycle[q].at = "settle", cycle[q].batch[m].win = Len(billed[m])
        PROVE  \/ Covers(row'[m], cycle[q].batch[m])
               \/ Overtaken(hot[m], cycle[q].batch[m], cycle[q])
    <3> DEFINE r == cycle[q].batch[m]
    <3>1. /\ m \in Meters /\ r \in Row /\ hot[m].left \in 0..WindowTicks
          /\ cycle[q].aged \in BOOLEAN
      BY Typed DEF FlushInv
    <3>2. Covers(row[m], r) \/ Overtaken(hot[m], r, cycle[q])
      BY <2>1 DEF FlushInv, WrittenFirst
    <3> QED BY <1>2, <2>1, <3>1, <3>2, AgedBounds, Bounds DEF Overtaken
  <2> QED BY <1>1, <2>1 DEF FlushInv, WrittenFirst
<1> QED BY <1>3, <1>4, <1>5 DEF FlushInv

---------------------------------------------------------------------------
(* The counters                                                            *)

\* A counter that a copy of another window dates from before is not closed.
LEMMA NotClosed ==
  ASSUME FlushInv, NEW m \in Meters, NEW n \in {0, 1, 2}, hot[m].left + n >= WindowTicks,
         hot[m].win > 0
  PROVE  ~Closed(hot[m])
  BY Typed, Bounds DEF FlushInv, Closed

\* A counter that holds units counts the meter's last window.
LEMMA HoldsLast ==
  ASSUME FlushInv, NEW m \in Meters, hot[m] # NoCounter
  PROVE  /\ hot[m].win = Len(billed[m]) /\ hot[m].win > 0
         /\ hot[m].used = billed[m][hot[m].win]
  BY DEF FlushInv, CountsCurrent

\* Settling marks a counter or retires it once its window is over; it still counts its
\* window otherwise.
LEMMA SettledCases ==
  ASSUME FlushInv, NEW m \in Meters, NEW r \in Row
  PROVE  LET h == Settled(hot[m], r) IN
         /\ h \in Counter
         /\ \/ h = hot[m]
            \/ /\ hot[m] # NoCounter /\ h.win = hot[m].win /\ h.used = hot[m].used
               /\ h.left = hot[m].left
            \/ /\ hot[m] # NoCounter /\ h = NoCounter /\ Closed(hot[m])
               /\ hot[m].used = r.used
<1> DEFINE h == Settled(hot[m], r)
<1>1. hot[m] \in Counter /\ r.used \in Nat /\ NoCounter \in Counter /\ NoCounter.used = 0
  BY Typed, Bounds DEF FlushInv, Row, NoCounter, Counter
<1>2. CASE hot[m].used # 0 /\ hot[m].used = r.used /\ Closed(hot[m])
  <2>1. h = NoCounter
    BY <1>2 DEF Settled
  <2> QED BY <1>1, <1>2, <2>1
<1>3. CASE hot[m].used # 0 /\ ~(hot[m].used = r.used /\ Closed(hot[m]))
  <2>1. h = [hot[m] EXCEPT !.flushed = r.used]
    BY <1>3 DEF Settled
  <2>2. /\ h \in Counter /\ h.win = hot[m].win /\ h.used = hot[m].used
        /\ h.left = hot[m].left
    BY <1>1, <2>1 DEF Counter
  <2> QED BY <1>1, <1>3, <2>2
<1>4. CASE hot[m].used = 0
  <2>1. h = hot[m]
    BY <1>4 DEF Settled
  <2> QED BY <1>1, <2>1
<1> QED BY <1>2, <1>3, <1>4

LEMMA SettleKeeps ==
  ASSUME FlushInv, NEW p \in Replicas, NEW m \in Meters, Settle(p, m) PROVE FlushInv'
<1> DEFINE c == cycle[p]
           h == Settled(hot[m], c.batch[m])
           rest == c.todo \ {m}
           k == [c EXCEPT !.todo = rest, !.at = IF rest = {} THEN "release" ELSE "settle"]
<1>1. /\ hot' = [hot EXCEPT ![m] = h] /\ cycle' = [cycle EXCEPT ![p] = k]
      /\ UNCHANGED <<row, billed, lease, phase, late, failures, stops>> /\ c.at = "settle"
  BY DEF Settle
<1>2. c \in Cycle /\ c.batch[m] \in Row
  BY Typed DEF FlushInv
<1>3. /\ h \in Counter
      /\ \/ h = hot[m]
         \/ /\ hot[m] # NoCounter /\ h.win = hot[m].win /\ h.used = hot[m].used
            /\ h.left = hot[m].left
         \/ hot[m] # NoCounter /\ h = NoCounter /\ Closed(hot[m])
  BY <1>2, SettledCases
<1> HIDE DEF h
<1>4. \A d \in Meters : hot'[d] = IF d = m THEN h ELSE hot[d]
  BY <1>1 DEF FlushInv, TypeOK
<1>5. k \in Cycle /\ k.batch = c.batch /\ k.aged = c.aged /\ k.todo = rest
      /\ k.at \in {"release", "settle"}
  BY <1>2 DEF Cycle, Steps
<1> HIDE DEF k
<1>6. \A q \in Replicas :
        /\ cycle'[q].batch = cycle[q].batch /\ cycle'[q].aged = cycle[q].aged
        /\ cycle'[q].todo \subseteq cycle[q].todo
        /\ cycle'[q].at = "idle" => cycle[q].at = "idle"
        /\ cycle'[q].at = "settle" => cycle[q].at = "settle"
  <2>1. \A q \in Replicas : cycle'[q] = IF q = p THEN k ELSE cycle[q]
    BY <1>1 DEF FlushInv, TypeOK
  <2> QED BY <1>1, <1>5, <2>1
<1>7. TypeOK'
  BY <1>1, <1>3, <1>5 DEF FlushInv, TypeOK
<1>8. NothingOverstated'
  BY <1>1, <1>6 DEF FlushInv, NothingOverstated, Billed, Named
<1>9. CountsCurrent'
  <2>1. ASSUME NEW d \in Meters
        PROVE  \/ hot'[d] = NoCounter
               \/ /\ hot'[d].win = Len(billed[d]) /\ hot'[d].win > 0
                  /\ hot'[d].used = billed[d][hot'[d].win]
    <3>1. CASE d # m
      BY <1>4, <3>1 DEF FlushInv, CountsCurrent
    <3>2. CASE d = m
      BY <1>3, <1>4, <3>2, HoldsLast
    <3> QED BY <3>1, <3>2
  <2> QED BY <1>1, <2>1 DEF CountsCurrent
\* A counter whose window a copy does not name has just restarted, and stays.
<1>10. ASSUME NEW d \in Meters, NEW n \in {0, 1, 2}, hot[d].win > 0,
              hot[d].left + n >= WindowTicks
       PROVE  hot'[d].win = hot[d].win /\ hot'[d].left = hot[d].left
  BY <1>3, <1>4, <1>10, NotClosed
<1>11. CopiesAreRecent'
  <2>1. ASSUME NEW d \in Meters, NEW x, x.batch \in Batch, x.aged \in BOOLEAN, Dated(d, x),
               d \in Named(x.batch) => Billed(d, x.batch[d]),
               d \in Named(x.batch), x.batch[d].win # Len(billed[d])
        PROVE  hot'[d].win = Len(billed[d]) /\ hot'[d].left + Aged(x, 0) >= WindowTicks
    <3>1. hot[d].win = Len(billed[d]) /\ hot[d].left + Aged(x, 0) >= WindowTicks
      BY <2>1 DEF Dated
    <3>2. Len(billed[d]) > 0
      BY <2>1, Typed DEF FlushInv, Billed
    <3> QED BY <1>10, <2>1, <3>1, <3>2, AgedBounds
  <2>2. ASSUME NEW d \in Meters, NEW q \in Replicas,
               d \in Named(cycle[q].batch), cycle[q].batch[d].win # Len(billed[d])
        PROVE  hot'[d].win = Len(billed[d]) /\ hot'[d].left + Aged(cycle[q], 0) >= WindowTicks
    BY <2>1, <2>2, CopiesAreBilled, Typed DEF FlushInv
  <2>3. ASSUME NEW d \in Meters, NEW s \in late,
               d \in Named(s.batch), s.batch[d].win # Len(billed[d])
        PROVE  hot'[d].win = Len(billed[d]) /\ hot'[d].left + Aged(s, 0) >= WindowTicks
    BY <2>1, <2>3, CopiesAreBilled, Typed DEF FlushInv
  <2>4. \A q \in Replicas : cycle'[q].at = "idle" => Named(cycle'[q].batch) = {}
    BY <1>6 DEF FlushInv, CopiesAreRecent
  <2> QED BY <1>1, <1>6, <2>2, <2>3, <2>4 DEF CopiesAreRecent, Dated, Aged, Named
<1>12. WrittenFirst'
  <2>1. ASSUME NEW q \in Replicas, NEW d \in cycle[q].todo, cycle[q].at = "settle",
               cycle[q].batch[d].win = Len(billed[d])
        PROVE  Covers(row[d], cycle[q].batch[d]) \/ Overtaken(hot'[d], cycle[q].batch[d], cycle[q])
    <3> DEFINE r == cycle[q].batch[d]
    <3>1. /\ d \in Meters /\ d \in Named(cycle[q].batch) /\ r.win \in Nat /\ r.win # 0
          /\ cycle[q].aged \in BOOLEAN
      BY Typed DEF FlushInv, WrittenFirst, Named
    <3>2. Covers(row[d], r) \/ Overtaken(hot[d], r, cycle[q])
      BY <2>1 DEF FlushInv, WrittenFirst
    <3>3. CASE Overtaken(hot[d], r, cycle[q])
      <4>1. hot'[d].win = hot[d].win /\ hot'[d].left = hot[d].left
        BY <1>10, <3>1, <3>3, AgedBounds DEF Overtaken
      <4> QED BY <3>3, <4>1 DEF Overtaken
    <3> QED BY <3>2, <3>3
  <2> QED BY <1>1, <1>6, <2>1 DEF FlushInv, WrittenFirst, Overtaken, Aged, Named
<1> QED BY <1>7, <1>8, <1>9, <1>11, <1>12 DEF FlushInv

\* A tick ages every copy once; none is aged twice.
LEMMA TickKeeps == ASSUME FlushInv, Tick PROVE FlushInv'
<1>0. /\ row' = row /\ billed' = billed /\ lease' = lease /\ phase' = phase
      /\ failures' = failures /\ stops' = stops
  BY DEF Tick
<1>1. /\ \A p \in Replicas : ~cycle[p].aged
      /\ \A s \in late : ~s.aged
      /\ hot' = [m \in Meters |-> [hot[m] EXCEPT !.left = IF @ = 0 THEN 0 ELSE @ - 1]]
      /\ cycle' = [p \in Replicas |-> [cycle[p] EXCEPT !.aged = cycle[p].at # "idle"]]
      /\ late' = {[s EXCEPT !.aged = TRUE] : s \in late}
  BY DEF Tick
<1>2. ASSUME NEW m \in Meters
      PROVE  /\ hot'[m] \in Counter /\ hot'[m].win = hot[m].win /\ hot'[m].used = hot[m].used
             /\ hot'[m].left = IF hot[m].left = 0 THEN 0 ELSE hot[m].left - 1
             /\ hot[m] = NoCounter => hot'[m] = NoCounter
  <2> DEFINE l == IF hot[m].left = 0 THEN 0 ELSE hot[m].left - 1
  <2>1. hot'[m] = [hot[m] EXCEPT !.left = l]
    BY <1>1
  <2>2. hot[m] \in Counter /\ l \in 0..WindowTicks
    BY Typed, Bounds DEF FlushInv
  <2>3. hot[m] = NoCounter => l = 0
    BY DEF NoCounter
  <2> HIDE DEF l
  <2>4. hot[m] = NoCounter => hot'[m] = NoCounter
    BY <2>1, <2>2, <2>3 DEF NoCounter
  <2>5. /\ hot'[m] \in Counter /\ hot'[m].win = hot[m].win /\ hot'[m].used = hot[m].used
        /\ hot'[m].left = l
    BY <2>1, <2>2 DEF Counter
  <2> QED BY <2>4, <2>5 DEF l
<1>3. ASSUME NEW p \in Replicas
      PROVE  /\ cycle'[p] \in Cycle /\ cycle'[p].batch = cycle[p].batch
             /\ cycle'[p].todo = cycle[p].todo /\ cycle'[p].at = cycle[p].at
  BY <1>1, Typed DEF FlushInv, Cycle
<1>3a. ASSUME NEW p \in Replicas, cycle[p].at # "idle" PROVE cycle'[p].aged
  <2>1. (cycle[p].at # "idle") = TRUE
    BY <1>3a
  <2>2. cycle'[p] = [cycle[p] EXCEPT !.aged = TRUE]
    BY <1>1, <2>1
  <2> QED BY <2>2, Typed DEF FlushInv, Cycle
<1>4. ASSUME NEW s \in late'
      PROVE  /\ s \in [batch : Batch, aged : BOOLEAN] /\ s.aged
             /\ \E o \in late : s.batch = o.batch
  <2>1. PICK o \in late : s = [o EXCEPT !.aged = TRUE]
    BY <1>1
  <2>2. o \in [batch : Batch, aged : BOOLEAN]
    BY DEF FlushInv, TypeOK
  <2> QED BY <2>1, <2>2
<1>5. TypeOK'
  <2>1. hot' \in [Meters -> Counter] /\ cycle' \in [Replicas -> Cycle]
    BY <1>1, <1>2, <1>3
  <2>2. late' \subseteq [batch : Batch, aged : BOOLEAN]
    BY <1>4
  <2> QED BY <1>0, <2>1, <2>2 DEF FlushInv, TypeOK
<1>6. NothingOverstated'
  <2>1. \A s \in late' : \A m \in Named(s.batch) : Billed(m, s.batch[m])
    BY <1>4, CopiesAreBilled
  <2> QED BY <1>0, <1>3, <2>1 DEF FlushInv, NothingOverstated, Billed, Named
<1>7. CountsCurrent'
  BY <1>0, <1>2 DEF FlushInv, CountsCurrent
<1>8. CopiesAreRecent'
  <2>1. ASSUME NEW m \in Meters, NEW p \in Replicas,
               m \in Named(cycle[p].batch), cycle[p].batch[m].win # Len(billed[m])
        PROVE  hot'[m].win = Len(billed[m]) /\ hot'[m].left + Aged(cycle'[p], 0) >= WindowTicks
    <3>1. hot[m].win = Len(billed[m]) /\ hot[m].left + Aged(cycle[p], 0) >= WindowTicks
      BY <2>1, CopiesAreBilled DEF Dated
    <3>2. cycle[p].at # "idle"
      BY <2>1 DEF FlushInv, CopiesAreRecent
    <3>3. Aged(cycle[p], 0) = 0 /\ Aged(cycle'[p], 0) = 1
      <4>1. ~cycle[p].aged /\ cycle'[p].aged
        BY <1>1, <1>3a, <3>2
      <4> QED BY <4>1 DEF Aged
    <3> QED BY <1>2, <3>1, <3>3, Typed, Bounds DEF FlushInv
  <2>2. ASSUME NEW m \in Meters, NEW s \in late',
               m \in Named(s.batch), s.batch[m].win # Len(billed[m])
        PROVE  hot'[m].win = Len(billed[m]) /\ hot'[m].left + Aged(s, 0) >= WindowTicks
    <3>1. PICK o \in late : s.batch = o.batch
      BY <1>4
    <3>2. hot[m].win = Len(billed[m]) /\ hot[m].left + Aged(o, 0) >= WindowTicks
      BY <2>2, <3>1, CopiesAreBilled DEF Dated
    <3>3. Aged(o, 0) = 0 /\ Aged(s, 0) = 1
      BY <1>1, <1>4 DEF Aged
    <3> QED BY <1>2, <3>2, <3>3, Typed, Bounds DEF FlushInv
  <2>3. \A p \in Replicas : cycle'[p].at = "idle" => Named(cycle'[p].batch) = {}
    BY <1>3 DEF FlushInv, CopiesAreRecent
  <2> QED BY <1>0, <1>3, <2>1, <2>2, <2>3 DEF CopiesAreRecent, Dated, Named
<1>9. WrittenFirst'
  <2>1. ASSUME NEW p \in Replicas, NEW m \in cycle[p].todo, cycle[p].at = "settle",
               cycle[p].batch[m].win = Len(billed[m])
        PROVE  \/ Covers(row[m], cycle[p].batch[m])
               \/ Overtaken(hot'[m], cycle[p].batch[m], cycle'[p])
    <3>1. m \in Meters
      BY Typed DEF FlushInv
    <3>2. \/ Covers(row[m], cycle[p].batch[m])
          \/ Overtaken(hot[m], cycle[p].batch[m], cycle[p])
      BY <2>1 DEF FlushInv, WrittenFirst
    <3>3. Aged(cycle[p], 1) = 1 /\ Aged(cycle'[p], 1) = 2
      <4>1. ~cycle[p].aged /\ cycle'[p].aged
        BY <1>1, <1>3a, <2>1
      <4> QED BY <4>1 DEF Aged
    <3> QED BY <1>2, <3>1, <3>2, <3>3, Typed, Bounds DEF FlushInv, Overtaken
  <2> QED BY <1>0, <1>3, <2>1 DEF FlushInv, WrittenFirst, Named
<1> QED BY <1>5, <1>6, <1>7, <1>8, <1>9 DEF FlushInv

\* Units are billed to the last window, or to a new one when that is closed.
LEMMA AddBills ==
  ASSUME FlushInv, NEW m \in Meters, NEW u \in Units, Add(m, u)
  PROVE  /\ billed' \in [Meters -> Seq(Nat)] /\ hot' \in [Meters -> Counter]
         /\ \A d \in Meters : d # m => billed'[d] = billed[d] /\ hot'[d] = hot[d]
         /\ hot'[m].win = Len(billed'[m]) /\ hot'[m].win > 0
         /\ hot'[m].used = billed'[m][hot'[m].win] /\ hot'[m].used > 0
         /\ \A i \in 1..Len(billed[m]) : i \in 1..Len(billed'[m]) /\ billed'[m][i] >= billed[m][i]
         /\ IF Closed(hot[m])
            THEN /\ billed' = [billed EXCEPT ![m] = Append(@, u)]
                 /\ Len(billed'[m]) = Len(billed[m]) + 1 /\ hot'[m].left = WindowTicks
            ELSE /\ billed[m] # <<>>
                 /\ billed' = [billed EXCEPT ![m][Len(billed[m])] = @ + u]
                 /\ Len(billed'[m]) = Len(billed[m]) /\ hot'[m].win = hot[m].win
                 /\ hot'[m].left = hot[m].left
<1>1. /\ u \in Nat /\ u > 0 /\ hot[m] \in Counter /\ billed[m] \in Seq(Nat)
      /\ Len(billed[m]) \in Nat /\ DOMAIN billed[m] = 1..Len(billed[m])
      /\ hot \in [Meters -> Counter] /\ billed \in [Meters -> Seq(Nat)]
  BY Typed, Bounds DEF FlushInv, TypeOK
<1>2. CASE Closed(hot[m])
  <2> DEFINE h == Restarted(Len(billed[m]) + 1, u)
  <2>1. hot' = [hot EXCEPT ![m] = h] /\ billed' = [billed EXCEPT ![m] = Append(@, u)]
    <3>1. /\ hot' = [hot EXCEPT ![m] = Counted(hot[m], Len(billed[m]) + 1, u)]
          /\ billed' = [billed EXCEPT ![m] = Added(billed[m], Len(billed[m]) + 1, u)]
      BY <1>2 DEF Add
    <3>2. Counted(hot[m], Len(billed[m]) + 1, u) = h
      BY <1>2 DEF Counted
    <3>3. Added(billed[m], Len(billed[m]) + 1, u) = Append(billed[m], u)
      BY <1>1 DEF Added
    <3> QED BY <3>1, <3>2, <3>3
  <2>2. h \in Counter /\ h.win = Len(billed[m]) + 1 /\ h.used = u /\ h.left = WindowTicks
    BY <1>1, Bounds DEF Restarted, Counter
  <2> HIDE DEF h
  <2>3. /\ Append(billed[m], u) \in Seq(Nat) /\ Len(Append(billed[m], u)) = Len(billed[m]) + 1
        /\ Append(billed[m], u)[Len(billed[m]) + 1] = u
        /\ \A i \in 1..Len(billed[m]) : Append(billed[m], u)[i] = billed[m][i]
    BY <1>1
  <2>4. \A i \in 1..Len(billed[m]) : billed[m][i] \in Nat
    BY <1>1
  <2> QED BY <1>1, <1>2, <2>1, <2>2, <2>3, <2>4
<1>3. CASE ~Closed(hot[m])
  <2> DEFINE w == hot[m].win
             b == [billed[m] EXCEPT ![w] = @ + u]
             h == [hot[m] EXCEPT !.used = @ + u]
  <2>0. w = Len(billed[m]) /\ w > 0 /\ hot[m].used = billed[m][w] /\ w \in DOMAIN billed[m]
    <3>1. hot[m] # NoCounter
      BY <1>3 DEF Closed, NoCounter
    <3> QED BY <1>1, <3>1, HoldsLast
  <2>1. hot' = [hot EXCEPT ![m] = h] /\ billed' = [billed EXCEPT ![m] = b]
    <3>1. hot' = [hot EXCEPT ![m] = Counted(hot[m], w, u)]
      BY <1>3 DEF Add
    <3>2. Counted(hot[m], w, u) = h
      BY <1>3 DEF Counted
    <3>3. billed' = [billed EXCEPT ![m] = Added(billed[m], w, u)]
      BY <1>3 DEF Add
    <3>4. Added(billed[m], w, u) = b
      <4>1. ~(w > Len(billed[m]))
        BY <1>1, <2>0
      <4> QED BY <4>1 DEF Added
    <3> QED BY <3>1, <3>2, <3>3, <3>4
  <2>4. h \in Counter /\ h.win = w /\ h.used = hot[m].used + u /\ h.left = hot[m].left
    <3>1. hot[m].used + u \in Nat
      BY <1>1 DEF Counter
    <3> QED BY <1>1, <3>1 DEF Counter
  <2>5. billed[m][w] \in Nat /\ \A i \in 1..Len(billed[m]) : billed[m][i] \in Nat
    BY <1>1, <2>0
  <2>6. /\ b \in Seq(Nat) /\ Len(b) = Len(billed[m]) /\ b[w] = billed[m][w] + u
        /\ \A i \in 1..Len(billed[m]) : i # w => b[i] = billed[m][i]
    BY <1>1, <2>0, <2>5
  <2> HIDE DEF b, h
  <2>7. billed' = [billed EXCEPT ![m][Len(billed[m])] = @ + u]
    BY <2>0, <2>1 DEF b
  <2>8. /\ billed' \in [Meters -> Seq(Nat)] /\ hot' \in [Meters -> Counter]
        /\ billed'[m] = b /\ hot'[m] = h
        /\ \A d \in Meters : d # m => billed'[d] = billed[d] /\ hot'[d] = hot[d]
    BY <1>1, <2>1, <2>4, <2>6
  <2>9. \A i \in 1..Len(billed[m]) : i \in 1..Len(b) /\ b[i] >= billed[m][i]
    <3> TAKE i \in 1..Len(billed[m])
    <3>1. billed[m][i] \in Nat /\ billed[m][w] + u >= billed[m][w]
      BY <1>1, <2>5
    <3>2. b[i] = billed[m][i] \/ (i = w /\ b[i] = billed[m][w] + u)
      BY <2>6
    <3> QED BY <1>1, <2>6, <3>1, <3>2
  <2>10. billed[m] # <<>>
    BY <1>1, <2>0
  <2> HIDE DEF w
  <2>11. b[w] = hot[m].used + u
    BY <2>0, <2>6
  <2>12. h.used > 0
    <3>1. hot[m].used \in Nat
      BY <1>1 DEF Counter
    <3> QED BY <1>1, <2>4, <3>1
  <2>13. /\ hot'[m].win = Len(billed'[m]) /\ hot'[m].win > 0
         /\ hot'[m].used = billed'[m][hot'[m].win] /\ hot'[m].used > 0
         /\ Len(billed'[m]) = Len(billed[m]) /\ hot'[m].win = hot[m].win
         /\ hot'[m].left = hot[m].left
    BY <2>0, <2>4, <2>6, <2>8, <2>11, <2>12 DEF w
  <2> QED BY <1>3, <2>7, <2>8, <2>9, <2>10, <2>13
<1> QED BY <1>2, <1>3

LEMMA AddKeeps == ASSUME FlushInv, NEW m \in Meters, NEW u \in Units, Add(m, u) PROVE FlushInv'
<1>1. UNCHANGED <<row, lease, phase, cycle, late, failures, stops>>
  BY DEF Add
<1>2. /\ billed' \in [Meters -> Seq(Nat)] /\ hot' \in [Meters -> Counter]
      /\ \A d \in Meters : d # m => billed'[d] = billed[d] /\ hot'[d] = hot[d]
      /\ hot'[m].win = Len(billed'[m]) /\ hot'[m].win > 0
      /\ hot'[m].used = billed'[m][hot'[m].win]
      /\ \A i \in 1..Len(billed[m]) : i \in 1..Len(billed'[m]) /\ billed'[m][i] >= billed[m][i]
      /\ Closed(hot[m]) => Len(billed'[m]) = Len(billed[m]) + 1 /\ hot'[m].left = WindowTicks
      /\ ~Closed(hot[m]) => /\ Len(billed'[m]) = Len(billed[m]) /\ hot'[m].win = hot[m].win
                            /\ hot'[m].left = hot[m].left
  BY AddBills
<1>3. ASSUME NEW d \in Meters, NEW r \in Row, Billed(d, r)
      PROVE  r.win \in 1..Len(billed'[d]) /\ r.used \in 1..billed'[d][r.win]
  <2>1. CASE d # m
    BY <1>2, <1>3, <2>1 DEF Billed
  <2>2. CASE d = m
    <3>1. r.win \in 1..Len(billed[m]) /\ r.used \in 1..billed[m][r.win] /\ r.used \in Nat
      BY <1>3, <2>2 DEF Billed, Row
    <3>2. /\ billed[m][r.win] \in Nat /\ billed'[m][r.win] \in Nat
          /\ r.win \in 1..Len(billed'[m]) /\ billed'[m][r.win] >= billed[m][r.win]
      <4>1. billed[m] \in Seq(Nat) /\ billed'[m] \in Seq(Nat)
        BY <1>2, Typed DEF FlushInv
      <4>2. \A i \in 1..Len(billed[m]) : billed[m][i] \in Nat
        BY <4>1
      <4>3. \A i \in 1..Len(billed'[m]) : billed'[m][i] \in Nat
        BY <4>1
      <4>4. r.win \in 1..Len(billed'[m]) /\ billed'[m][r.win] >= billed[m][r.win]
        BY <1>2, <3>1
      <4> QED BY <3>1, <4>2, <4>3, <4>4
    <3> QED BY <2>2, <3>1, <3>2
  <2> QED BY <2>1, <2>2
<1>4. TypeOK'
  BY <1>1, <1>2 DEF FlushInv, TypeOK
<1>5. NothingOverstated'
  <2>1. \A d \in Meters : row[d] # NoRow => /\ row[d].win \in 1..Len(billed'[d])
                                            /\ row[d].used \in 1..billed'[d][row[d].win]
    BY <1>3, Typed DEF FlushInv, NothingOverstated
  <2>2. ASSUME NEW p \in Replicas, NEW d \in Named(cycle[p].batch)
        PROVE  LET r == cycle[p].batch[d] IN
               r.win \in 1..Len(billed'[d]) /\ r.used \in 1..billed'[d][r.win]
    BY <1>3, CopiesAreBilled, Typed DEF FlushInv, Named
  <2>3. ASSUME NEW s \in late, NEW d \in Named(s.batch)
        PROVE  LET r == s.batch[d] IN
               r.win \in 1..Len(billed'[d]) /\ r.used \in 1..billed'[d][r.win]
    BY <1>3, CopiesAreBilled, Typed DEF FlushInv, Named
  <2> QED BY <1>1, <2>1, <2>2, <2>3 DEF NothingOverstated, Billed, Named
<1>6. CountsCurrent'
  BY <1>2 DEF FlushInv, CountsCurrent
\* What a copy of an older window knows of the counter stays: it restarts now or has.
<1>7. ASSUME NEW d \in Meters, NEW x, x.batch \in Batch, x.aged \in BOOLEAN, Dated(d, x),
             d \in Named(x.batch), x.batch[d].win # Len(billed'[d]), Billed(d, x.batch[d])
      PROVE  hot'[d].win = Len(billed'[d]) /\ hot'[d].left + Aged(x, 0) >= WindowTicks
  <2>1. CASE d # m
    BY <1>2, <1>7, <2>1 DEF Dated
  <2>2. CASE d = m /\ Closed(hot[m])
    BY <1>2, <2>2, <1>7, AgedBounds, Bounds
  <2>3. CASE d = m /\ ~Closed(hot[m])
    BY <1>2, <1>7, <2>3 DEF Dated
  <2> QED BY <2>1, <2>2, <2>3
<1>8. CopiesAreRecent'
  <2>1. ASSUME NEW d \in Meters, NEW p \in Replicas,
               d \in Named(cycle[p].batch), cycle[p].batch[d].win # Len(billed'[d])
        PROVE  hot'[d].win = Len(billed'[d]) /\ hot'[d].left + Aged(cycle[p], 0) >= WindowTicks
    BY <1>7, <2>1, CopiesAreBilled, Typed DEF FlushInv
  <2>2. ASSUME NEW d \in Meters, NEW s \in late,
               d \in Named(s.batch), s.batch[d].win # Len(billed'[d])
        PROVE  hot'[d].win = Len(billed'[d]) /\ hot'[d].left + Aged(s, 0) >= WindowTicks
    BY <1>7, <2>2, CopiesAreBilled, Typed DEF FlushInv
  <2> QED BY <1>1, <2>1, <2>2 DEF FlushInv, CopiesAreRecent, Dated, Named
<1>9. WrittenFirst'
  <2>1. ASSUME NEW p \in Replicas, NEW d \in cycle[p].todo, cycle[p].at = "settle",
               cycle[p].batch[d].win = Len(billed'[d])
        PROVE  \/ Covers(row[d], cycle[p].batch[d])
               \/ Overtaken(hot'[d], cycle[p].batch[d], cycle[p])
    <3> DEFINE r == cycle[p].batch[d]
    <3>1. d \in Meters /\ Billed(d, r) /\ Len(billed[d]) \in Nat
      BY CopiesAreBilled, Typed DEF FlushInv, WrittenFirst
    <3>2. r.win = Len(billed[d]) => Covers(row[d], r) \/ Overtaken(hot[d], r, cycle[p])
      BY <2>1 DEF FlushInv, WrittenFirst
    <3>3. CASE d # m
      BY <1>2, <2>1, <3>1, <3>2, <3>3 DEF Overtaken
    <3>4. CASE d = m /\ Closed(hot[m])
      BY <1>2, <2>1, <3>1, <3>4 DEF Billed
    <3>5. CASE d = m /\ ~Closed(hot[m])
      BY <1>2, <2>1, <3>2, <3>5 DEF Overtaken
    <3> QED BY <3>3, <3>4, <3>5
  <2> QED BY <1>1, <2>1 DEF FlushInv, WrittenFirst
<1> QED BY <1>4, <1>5, <1>6, <1>8, <1>9 DEF FlushInv

---------------------------------------------------------------------------
(* The theorems                                                            *)

LEMMA NextKeepsFlush == ASSUME FlushInv, [Next]_vars PROVE FlushInv'
<1>1. ASSUME NEW m \in Meters, NEW u \in Units, Record(m, u) PROVE FlushInv'
  BY <1>1, AddKeeps DEF Record
<1>2. ASSUME NEW p \in Replicas,
             \/ Begin(p) \/ Denied(p) \/ ReadPending(p) \/ Write(p) \/ Fail(p) \/ Release(p)
             \/ \E m \in Meters : Settle(p, m)
             \/ Shutdown(p) \/ Boot(p) \/ Crash(p)
      PROVE  FlushInv'
  BY <1>2, WorkerStepsKeep, LeaseStepsKeep, ReadKeeps, WriteKeeps, SettleKeeps
<1>3. CASE Expire
  BY <1>3, LeaseStepsKeep
<1>4. ASSUME NEW s \in late, Land(s) PROVE FlushInv'
  BY <1>4, LandKeeps
<1>5. CASE Tick
  BY <1>5, TickKeeps
<1>6. CASE UNCHANGED vars
  <2>1. /\ UNCHANGED <<hot, row, billed, cycle, late>>
        /\ lease' = lease /\ phase' = phase /\ failures' = failures /\ stops' = stops
    BY <1>6 DEF vars
  <2> QED BY <2>1, QuietKeeps DEF FlushInv, TypeOK
<1> QED BY <1>1, <1>2, <1>3, <1>4, <1>5, <1>6 DEF Next

\* Whatever fails, crashes, is late or stalls: no row and no copy names more than was
\* billed, copies are of a window at most a tick over, and a worker marks what it wrote.
THEOREM FlushStaysSound == Spec => []FlushInv
<1>1. Init => FlushInv
  BY InitFlush
<1>2. FlushInv /\ [Next]_vars => FlushInv'
  BY NextKeepsFlush
<1> QED BY <1>1, <1>2, PTL DEF Spec

\* A counter is emptied by settling it alone, after its total was written and before
\* anything else could take its place.
LEMMA RetiredWasDurable ==
  ASSUME FlushInv, [Next]_vars, NEW m \in Meters, hot[m].used > 0, hot'[m].used = 0
  PROVE  row[m] = [win |-> hot[m].win, used |-> hot[m].used]
<1>1. hot[m] \in Counter /\ hot[m].used \in Nat /\ hot' # hot
  BY Typed DEF FlushInv
<1>2. ASSUME NEW d \in Meters, NEW u \in Units, Add(d, u) PROVE FALSE
  BY <1>1, <1>2, AddBills
<1>3. ~Tick
  <2> SUFFICES ASSUME Tick PROVE FALSE
    OBVIOUS
  <2>1. hot'[m] = [hot[m] EXCEPT !.left = IF @ = 0 THEN 0 ELSE @ - 1]
    BY DEF Tick
  <2>2. hot'[m].used = hot[m].used
    BY <1>1, <2>1 DEF Counter
  <2> QED BY <1>1, <2>2
<1>4. PICK p \in Replicas, d \in Meters : Settle(p, d)
  <2>1. ~UNCHANGED vars /\ ~Expire /\ \A s \in late : ~Land(s)
    BY <1>1 DEF vars, Expire, Land
  <2>2. \A p \in Replicas : ~(\/ Begin(p) \/ Denied(p) \/ ReadPending(p) \/ Write(p) \/ Fail(p)
                              \/ Release(p) \/ Shutdown(p) \/ Boot(p) \/ Crash(p))
    BY <1>1 DEF Begin, Denied, ReadPending, Write, Fail, Release, Shutdown, Boot, Crash
  <2> QED BY <1>2, <1>3, <2>1, <2>2 DEF Next, Record
<1> DEFINE c == cycle[p]
           r == c.batch[m]
<1>5. /\ hot' = [hot EXCEPT ![d] = Settled(@, c.batch[d])] /\ d \in c.todo /\ c.at = "settle"
  BY <1>4 DEF Settle
<1>6. d = m /\ hot'[m] = Settled(hot[m], r)
  BY <1>1, <1>5 DEF FlushInv, TypeOK
<1>7. /\ r \in Row /\ r.win \in Nat /\ c.aged \in BOOLEAN /\ hot[m].left \in 0..WindowTicks
      /\ row[m] \in Row /\ row[m].win \in Nat /\ row[m].used \in Nat
      /\ billed[m] \in Seq(Nat)
  BY Typed DEF FlushInv
<1>8. hot[m] # NoCounter /\ Closed(hot[m]) /\ hot[m].used = r.used
  BY <1>1, <1>6, <1>7, SettledCases
<1>9. /\ hot[m].win = Len(billed[m]) /\ hot[m].win > 0
      /\ hot[m].used = billed[m][hot[m].win] /\ hot[m].left = 0
  BY <1>7, <1>8, HoldsLast DEF Closed
<1>10. m \in Named(c.batch) /\ r.win = Len(billed[m])
  <2>1. m \in Named(c.batch) /\ Dated(m, c)
    BY <1>5, <1>6, CopiesAreBilled DEF FlushInv, WrittenFirst
  <2> QED BY <1>7, <1>9, <2>1, AgedBounds, Bounds DEF Dated
<1>11. Covers(row[m], r)
  <2>1. Covers(row[m], r) \/ Overtaken(hot[m], r, c)
    BY <1>5, <1>6, <1>10 DEF FlushInv, WrittenFirst
  <2> QED BY <1>7, <1>9, <2>1, AgedBounds, Bounds DEF Overtaken
<1>12. row[m].win = hot[m].win /\ row[m].used >= hot[m].used
  BY <1>8, <1>9, <1>10, <1>11 DEF Covers
<1>13. row[m].used <= hot[m].used
  <2>1. row[m] # NoRow
    BY <1>9, <1>12, NoRowIsRow
  <2>2. row[m].used \in 1..billed[m][row[m].win]
    BY <2>1 DEF FlushInv, NothingOverstated, Billed
  <2> QED BY <1>1, <1>9, <1>12, <2>2
<1>14. row[m].used = hot[m].used
  BY <1>1, <1>7, <1>12, <1>13
<1> QED BY <1>7, <1>12, <1>14 DEF Row

\* settleScript's comparison is enough: what Redis forgets of a window, PostgreSQL has,
\* though another replica, a late statement or a restart may come between.
THEOREM RetiringIsSafe == Spec => RetiredIsDurable
<1>1. FlushInv /\ [Next]_vars =>
        [\A m \in Meters : hot[m].used > 0 /\ hot'[m].used = 0 =>
           row[m] = [win |-> hot[m].win, used |-> hot[m].used]]_vars
  BY RetiredWasDurable
<1> QED BY <1>1, FlushStaysSound, PTL DEF Spec, RetiredIsDurable

---------------------------------------------------------------------------
(* The ledger                                                              *)

\* Whatever copies a batch to the rows mirrors what was billed.
LEMMA UpsertMirrors ==
  ASSUME FlushInv, NEW x, x.batch \in Batch, x.aged \in BOOLEAN,
         \A m \in Named(x.batch) : Billed(m, x.batch[m]),
         \A m \in Meters : Dated(m, x),
         UpsertWindows(x.batch), UNCHANGED <<hot, billed>>
  PROVE  Ledger!Mirror
<1>1. /\ row' \in [Meters -> Row]
      /\ \A m \in Meters : row'[m] # row[m] =>
           /\ Billed(m, row'[m])
           /\ row'[m].win = row[m].win => row'[m].used >= row[m].used
  BY UpsertKeepsRows
<1> QED BY <1>1 DEF Ledger!Mirror, Ledger!Truthful, Ledger!Row, Row, Billed

LEMMA StepImplementsLedger ==
  ASSUME FlushInv, [Next]_vars
  PROVE  [Ledger!Next]_<<billed, row>>
<1>1. ASSUME NEW m \in Meters, NEW u \in Units, Record(m, u) PROVE Ledger!Next
  <2>1. Add(m, u) /\ UNCHANGED row
    BY <1>1 DEF Record, Add
  <2>2. \/ billed' = [billed EXCEPT ![m] = Append(@, u)]
        \/ /\ billed[m] # <<>>
           /\ billed' = [billed EXCEPT ![m][Len(billed[m])] = @ + u]
    BY <2>1, AddBills
  <2> QED BY <2>1, <2>2 DEF Ledger!Next, Ledger!Bill
<1>2. ASSUME NEW p \in Replicas, Write(p) PROVE Ledger!Next
  <2>1. /\ UpsertWindows(cycle[p].batch) /\ UNCHANGED <<hot, billed>>
        /\ cycle[p].batch \in Batch /\ cycle[p].aged \in BOOLEAN
    BY <1>2, Typed DEF FlushInv, Write
  <2> QED BY <2>1, CopiesAreBilled, UpsertMirrors DEF Ledger!Next
<1>3. ASSUME NEW s \in late, Land(s) PROVE [Ledger!Next]_<<billed, row>>
  <2>1. /\ UpsertWindows(s.batch) \/ UNCHANGED row
        /\ UNCHANGED <<hot, billed>> /\ s.batch \in Batch /\ s.aged \in BOOLEAN
    BY <1>3, Typed DEF FlushInv, Land
  <2> QED BY <2>1, CopiesAreBilled, UpsertMirrors DEF Ledger!Next
<1>4. ASSUME NEW p \in Replicas,
             \/ Begin(p) \/ Denied(p) \/ ReadPending(p) \/ Fail(p) \/ Release(p)
             \/ \E m \in Meters : Settle(p, m)
             \/ Shutdown(p) \/ Boot(p) \/ Crash(p)
      PROVE  UNCHANGED <<billed, row>>
  BY <1>4 DEF Begin, Denied, ReadPending, Fail, Release, Settle, Shutdown, Boot, Crash
<1>5. Expire \/ Tick \/ UNCHANGED vars => UNCHANGED <<billed, row>>
  BY DEF Expire, Tick, vars
<1> QED BY <1>1, <1>2, <1>3, <1>4, <1>5 DEF Next

\* The flush worker implements the ledger: every row is a total the calls of one window
\* really reached, and while it stays on that window it never falls.
THEOREM FlushImplementsLedger == Spec => LedgerSpec
<1>1. Init => Ledger!Init
  BY DEF Init, Ledger!Init, NoRow, Ledger!NoRow
<1>2. FlushInv /\ [Next]_vars => [Ledger!Next]_<<billed, row>>
  BY StepImplementsLedger
<1> QED BY <1>1, <1>2, FlushStaysSound, PTL DEF Spec, LedgerSpec, Ledger!Spec
=============================================================================
