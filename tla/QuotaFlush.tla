---------------------------- MODULE QuotaFlush ----------------------------
(***************************************************************************)
(* The quota counters and the worker that mirrors them. A served call adds *)
(* its units to a running total in Redis (service/quota_counter.go,        *)
(* repository/redis/quota_counter.go and its two scripts); every replica's *)
(* flush worker, one at a time under a lease, copies the totals into       *)
(* PostgreSQL and then marks what it copied (service/quota_flush.go,       *)
(* quota_flush_drain.go, repository/postgres/quota.go). A process that     *)
(* stops flushes until a batch comes back short (cmd/.../shutdown_drain).  *)
(*                                                                         *)
(* A meter is one window kind of one endpoint. A window is known by its    *)
(* number, which stands for its reset instant: each restart writes a new   *)
(* one. left is what is left of it. A tick is longer than a cycle (ten     *)
(* seconds against hours), so a cycle or statement sees at most one.       *)
(* Attempts and dead letters of a batch only choose what is logged and are *)
(* left out. Units of a failed Add are not billed.                         *)
(***************************************************************************)
EXTENDS Integers, Sequences, FiniteSets
LOCAL INSTANCE SequencesExt
LOCAL INSTANCE Folds

CONSTANTS
  Meters, Units,   \* the window counters, what one call may add
  Replicas,        \* the processes, each with its flush worker
  WindowTicks,     \* a window's length (QuotaWindowKind.Duration)
  BatchSize,       \* QuotaFlushPolicy.BatchSize
  Nobody, Orphan,  \* the lease is free; held by a token no process has any more
  MaxBilled,       \* bound: units billed in all
  MaxFailures,     \* bound: calls of a cycle that fail
  MaxStops         \* bound: crashes and shutdowns

ASSUME QuotaFlushAssumption ==
  /\ Units \subseteq Nat \ {0}
  /\ {WindowTicks, BatchSize} \subseteq Nat \ {0} /\ WindowTicks > 2
  /\ {MaxBilled, MaxFailures, MaxStops} \subseteq Nat
  /\ Nobody # Orphan /\ {Nobody, Orphan} \cap Replicas = {}

VARIABLES
  hot,      \* per meter the Redis fields: total, reset, flushed
  row,      \* per meter the row of quota_windows
  billed,   \* history: per meter the units each window was billed
  lease,    \* who holds the flush lease
  phase,    \* per replica: serving, draining at shutdown, stopped
  cycle,    \* per replica: the flush cycle it is in
  late,     \* statements whose client gave up and which may still commit
  failures, stops

vars == <<hot, row, billed, lease, phase, cycle, late, failures, stops>>

Row == [win : Nat, used : Nat]
NoRow == [win |-> 0, used |-> 0]
Batch == [Meters -> Row]
Empty == [m \in Meters |-> NoRow]
Named(b) == {m \in Meters : b[m].win # 0}

\* No field is the number 0: a total is at least 1, and windows count from 1.
Counter == [win : Nat, used : Nat, flushed : Nat, left : 0..WindowTicks]
NoCounter == [win |-> 0, used |-> 0, flushed |-> 0, left |-> 0]

Steps == {"idle", "read", "write", "settle", "release"}
Cycle == [at : Steps, batch : Batch, todo : SUBSET Meters, aged : BOOLEAN]
Idle == [at |-> "idle", batch |-> Empty, todo |-> {}, aged |-> FALSE]

Init ==
  /\ hot = [m \in Meters |-> NoCounter]
  /\ row = [m \in Meters |-> NoRow]
  /\ billed = [m \in Meters |-> <<>>]
  /\ lease = Nobody
  /\ phase = [p \in Replicas |-> "serving"]
  /\ cycle = [p \in Replicas |-> Idle]
  /\ late = {} /\ failures = 0 /\ stops = 0

-----------------------------------------------------------------------------
(* Redis                                                                   *)

\* now >= reset, or no reset stored.
Closed(h) == h.win = 0 \/ h.left = 0

Restarted(w, u) == [win |-> w, used |-> u, flushed |-> 0, left |-> WindowTicks]
Counted(h, w, u) == IF Closed(h) THEN Restarted(w, u) ELSE [h EXCEPT !.used = @ + u]

Added(b, w, u) == IF w > Len(b) THEN Append(b, u) ELSE [b EXCEPT ![w] = @ + u]

\* addScript
Add(m, u) ==
  LET w == IF Closed(hot[m]) THEN Len(billed[m]) + 1 ELSE hot[m].win IN
  /\ hot' = [hot EXCEPT ![m] = Counted(hot[m], w, u)]
  /\ billed' = [billed EXCEPT ![m] = Added(@, w, u)]
  /\ UNCHANGED <<row, lease, phase, cycle, late, failures, stops>>

\* pendingWindows: what the flush has not mirrored yet, and every closed window.
\* mutant: a closed window is not read again once its total was marked
DirtyWhenChanged(h) == h.used > 0 /\ h.flushed # h.used
Dirty(h) == h.used > 0 /\ ~(h.flushed = h.used /\ ~Closed(h))

\* settleScript: retire a closed window whose total is the one written, else mark.
\* mutant: retire without the comparison
SettledBlind(h, r) ==
  IF h.used # 0 /\ Closed(h) THEN NoCounter
  ELSE IF h.used # 0 THEN [h EXCEPT !.flushed = r.used] ELSE h
Settled(h, r) ==
  IF h.used # 0 /\ h.used = r.used /\ Closed(h) THEN NoCounter
  ELSE IF h.used # 0 THEN [h EXCEPT !.flushed = r.used] ELSE h

-----------------------------------------------------------------------------
(* PostgreSQL                                                              *)

\* UpsertWindows: a computed total keeps its high-water mark within one window.
\* mutant: the last statement wins
MergedLast(old, new) == new
Merged(old, new) ==
  IF old.win = new.win /\ old.used > new.used THEN old ELSE new

UpsertWindows(b) ==
  row' = [m \in Meters |-> IF m \in Named(b) THEN Merged(row[m], b[m]) ELSE row[m]]

-----------------------------------------------------------------------------
(* The worker                                                              *)

To(p, step) == cycle' = [cycle EXCEPT ![p].at = step]
Abandon(p) == cycle' = [cycle EXCEPT ![p] = [Idle EXCEPT !.at = "release", !.aged = cycle[p].aged]]

\* flushOnce: SET NX; a replica that is denied skips the cycle.
Begin(p) ==
  /\ phase[p] # "stopped" /\ cycle[p].at = "idle" /\ lease = Nobody
  /\ lease' = p
  /\ To(p, "read")
  /\ UNCHANGED <<hot, row, billed, phase, late, failures, stops>>

\* FlushUntilQuiet: a denied cycle ends the drain.
Denied(p) ==
  /\ phase[p] = "draining" /\ cycle[p].at = "idle" /\ lease # Nobody
  /\ phase' = [phase EXCEPT ![p] = "stopped"]
  /\ UNCHANGED <<hot, row, billed, lease, cycle, late, failures, stops>>

\* Pending: at most BatchSize of the dirty windows, in the order SCAN has them.
ReadPending(p) ==
  LET dirty == {m \in Meters : Dirty(hot[m])} IN
  /\ cycle[p].at = "read"
  /\ \E B \in SUBSET dirty :
       /\ Cardinality(B) = BatchSize \/ (B = dirty /\ Cardinality(B) < BatchSize)
       /\ IF B = {} THEN Abandon(p)
          ELSE cycle' = [cycle EXCEPT ![p] =
                 [@ EXCEPT !.at = "write", !.todo = B, !.batch = [m \in Meters |->
                    IF m \in B THEN [win |-> hot[m].win, used |-> hot[m].used] ELSE NoRow]]]
  /\ UNCHANGED <<hot, row, billed, lease, phase, late, failures, stops>>

Write(p) ==
  /\ cycle[p].at = "write"
  /\ UpsertWindows(cycle[p].batch)
  /\ To(p, "settle")
  /\ UNCHANGED <<hot, billed, lease, phase, late, failures, stops>>

\* Settle: one script per endpoint; the last one ends the drain.
Settle(p, m) ==
  LET rest == cycle[p].todo \ {m} IN
  /\ cycle[p].at = "settle" /\ m \in cycle[p].todo
  /\ hot' = [hot EXCEPT ![m] = Settled(@, cycle[p].batch[m])]
  /\ cycle' = [cycle EXCEPT ![p] =
       [@ EXCEPT !.todo = rest, !.at = IF rest = {} THEN "release" ELSE "settle"]]
  /\ UNCHANGED <<row, billed, lease, phase, late, failures, stops>>

\* A call fails or runs out of its time: the counters stay in Redis. The statement
\* may have been sent, and commit after its client has given up.
Left(p) ==
  IF cycle[p].at # "write" THEN {late}
  ELSE {late, late \cup {[batch |-> cycle[p].batch, aged |-> cycle[p].aged]}}

Fail(p) ==
  /\ cycle[p].at \in {"read", "write", "settle"} /\ failures < MaxFailures
  /\ failures' = failures + 1
  /\ late' \in Left(p)
  /\ Abandon(p)
  /\ UNCHANGED <<hot, row, billed, lease, phase, stops>>

\* A batch that came back full is the sign of a backlog.
More(p) == Cardinality(Named(cycle[p].batch)) >= BatchSize

\* The lease is deleted only while it is this process's; the deletion may fail too.
Release(p) ==
  /\ cycle[p].at = "release"
  /\ \/ /\ lease' = IF lease = p THEN Nobody ELSE lease
        /\ UNCHANGED failures
     \/ /\ lease = p /\ failures < MaxFailures
        /\ lease' = Orphan /\ failures' = failures + 1
  /\ phase' = [phase EXCEPT ![p] = IF @ = "draining" /\ ~More(p) THEN "stopped" ELSE @]
  /\ cycle' = [cycle EXCEPT ![p] = Idle]
  /\ UNCHANGED <<hot, row, billed, late, stops>>

\* serve, quotaDrain: the worker is stopped, then the counters are drained.
Shutdown(p) ==
  /\ phase[p] = "serving" /\ stops < MaxStops
  /\ stops' = stops + 1
  /\ phase' = [phase EXCEPT ![p] = "draining"]
  /\ UNCHANGED <<hot, row, billed, lease, cycle, late, failures>>

Boot(p) ==
  /\ phase[p] = "stopped"
  /\ phase' = [phase EXCEPT ![p] = "serving"]
  /\ UNCHANGED <<hot, row, billed, lease, cycle, late, failures, stops>>

\* The new process has a new token (NewWorkerLease), so the old one is nobody's.
Crash(p) ==
  /\ phase[p] # "stopped" /\ stops < MaxStops
  /\ stops' = stops + 1
  /\ late' \in Left(p)
  /\ lease' = IF lease = p THEN Orphan ELSE lease
  /\ phase' = [phase EXCEPT ![p] = "stopped"]
  /\ cycle' = [cycle EXCEPT ![p] = Idle]
  /\ UNCHANGED <<hot, row, billed, failures>>

-----------------------------------------------------------------------------
(* Time and the stores                                                     *)

\* The lease ends by itself; that of a stalled process under its feet.
Expire ==
  /\ lease # Nobody
  /\ lease' = Nobody
  /\ UNCHANGED <<hot, row, billed, phase, cycle, late, failures, stops>>

\* The server finishes a statement nobody waits for any more, or rolls it back.
Land(s) ==
  /\ late' = late \ {s}
  /\ UpsertWindows(s.batch) \/ UNCHANGED row
  /\ UNCHANGED <<hot, billed, lease, phase, cycle, failures, stops>>

Tick ==
  /\ \E m \in Meters : hot[m].left > 0
  /\ \A p \in Replicas : ~cycle[p].aged
  /\ \A s \in late : ~s.aged
  /\ hot' = [m \in Meters |-> [hot[m] EXCEPT !.left = IF @ = 0 THEN 0 ELSE @ - 1]]
  /\ cycle' = [p \in Replicas |-> [cycle[p] EXCEPT !.aged = cycle[p].at # "idle"]]
  /\ late' = {[s EXCEPT !.aged = TRUE] : s \in late}
  /\ UNCHANGED <<row, billed, lease, phase, failures, stops>>

-----------------------------------------------------------------------------
\* Record: a served call's units, on each of its meters in turn.
Spent == MapThenFoldSet(+, 0, LAMBDA m : FoldSeq(+, 0, billed[m]), LAMBDA S : CHOOSE m \in S : TRUE, Meters)
Record(m, u) == Spent + u <= MaxBilled /\ Add(m, u)

Drain(p) == Begin(p) \/ ReadPending(p) \/ Write(p) \/ Release(p) \/ \E m \in Meters : Settle(p, m)

Next ==
  \/ \E m \in Meters, u \in Units : Record(m, u)
  \/ \E p \in Replicas :
       \/ Begin(p) \/ Denied(p) \/ ReadPending(p) \/ Write(p) \/ Fail(p) \/ Release(p)
       \/ \E m \in Meters : Settle(p, m)
       \/ Shutdown(p) \/ Boot(p) \/ Crash(p)
  \/ Expire
  \/ \E s \in late : Land(s)
  \/ Tick

\* The ticker and its policy (quota_flush.go) drive the cycles, time the rest; a
\* stopped process is started again.
Fairness ==
  /\ \A p \in Replicas : WF_vars(Drain(p)) /\ WF_vars(Denied(p)) /\ WF_vars(Boot(p))
  /\ WF_vars(Expire) /\ WF_vars(\E s \in late : Land(s)) /\ WF_vars(Tick)

Spec == Init /\ [][Next]_vars
FairSpec == Spec /\ Fairness
-----------------------------------------------------------------------------
(* Properties                                                              *)

TypeOK ==
  /\ hot \in [Meters -> Counter]
  /\ row \in [Meters -> Row]
  /\ billed \in [Meters -> Seq(Nat)]
  /\ lease \in Replicas \cup {Nobody, Orphan}
  /\ phase \in [Replicas -> {"serving", "draining", "stopped"}]
  /\ cycle \in [Replicas -> Cycle]
  /\ late \subseteq [batch : Batch, aged : BOOLEAN]
  /\ failures \in Nat /\ stops \in Nat

\* Nothing copied is more than what was billed to the window it names: neither a
\* row nor a batch in flight (SELECT, then UPSERT seconds later, perhaps twice).
Billed(m, r) == r.win \in 1..Len(billed[m]) /\ r.used \in 1..billed[m][r.win]
NothingOverstated ==
  /\ \A m \in Meters : row[m] # NoRow => Billed(m, row[m])
  /\ \A p \in Replicas : \A m \in Named(cycle[p].batch) : Billed(m, cycle[p].batch[m])
  /\ \A s \in late : \A m \in Named(s.batch) : Billed(m, s.batch[m])

\* The running total is all that was billed to the current window.
CountsCurrent ==
  \A m \in Meters :
    \/ hot[m] = NoCounter
    \/ hot[m].win = Len(billed[m]) /\ hot[m].win > 0 /\ hot[m].used = billed[m][hot[m].win]

(* What keeps them (QuotaFlushProofs): a copy is at most a tick old, so    *)
(* one of a window that is over dates from before a restart just made.     *)
Aged(x, n) == IF x.aged THEN n + 1 ELSE n
Dated(m, x) ==
  LET r == x.batch[m] IN
  m \in Named(x.batch) /\ r.win # Len(billed[m]) =>
     hot[m].win = Len(billed[m]) /\ hot[m].left + Aged(x, 0) >= WindowTicks
CopiesAreRecent ==
  /\ \A m \in Meters : /\ \A p \in Replicas : Dated(m, cycle[p])
                       /\ \A s \in late : Dated(m, s)
  /\ \A p \in Replicas : cycle[p].at = "idle" => Named(cycle[p].batch) = {}

\* What a worker is about to mark was written, and is still there unless an older
\* window's statement has just come after it.
Covers(d, r) == d.win = r.win /\ d.used >= r.used
Overtaken(h, r, c) == h.win = r.win /\ h.left + Aged(c, 1) >= WindowTicks
WrittenFirst ==
  \A p \in Replicas : \A m \in cycle[p].todo :
    LET r == cycle[p].batch[m] IN
    /\ m \in Named(cycle[p].batch)
    /\ cycle[p].at = "settle" /\ r.win = Len(billed[m])
         => Covers(row[m], r) \/ Overtaken(hot[m], r, cycle[p])

FlushInv == TypeOK /\ NothingOverstated /\ CountsCurrent /\ CopiesAreRecent /\ WrittenFirst

\* Retries, late statements, stalled and restarted replicas included, the rows keep
\* the promise of the ledger: a total really reached, never lowered in its window.
Ledger == INSTANCE QuotaLedger
LedgerSpec == Ledger!Spec

\* The hot copy of a window is retired only when its final total is durable.
RetiredIsDurable ==
  [][\A m \in Meters : hot[m].used > 0 /\ hot'[m].used = 0 =>
       row[m] = [win |-> hot[m].win, used |-> hot[m].used]]_vars

\* Once calls stop, every meter's last window ends up durable with all its units,
\* whatever failed, crashed or arrived late before.
Durable(m) ==
  LET n == Len(billed[m]) IN n > 0 => row[m] = [win |-> n, used |-> billed[m][n]]
SpendSettles == <>[](\A m \in Meters : Durable(m))

\* What Settle's comment says: a window marked as mirrored has been written.
MarkedIsMirrored ==
  \A m \in Meters : hot[m].used > 0 /\ ~Dirty(hot[m]) =>
     row[m].win = hot[m].win /\ row[m].used >= hot[m].used
=============================================================================
