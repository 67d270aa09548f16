------------------------ MODULE OAuthRefreshProofs ------------------------
(***************************************************************************)
(* The tokens of one OAuth account, for any number of replicas, forced     *)
(* refreshes, logins and operators, any schedule, and a vendor that        *)
(* rotates or not, and a store that may fail at every step: nobody stores  *)
(* older tokens over newer ones, a usable token is lost only with an       *)
(* answer nobody heard, a process that stopped while it held one or a      *)
(* store that did not take it, and no worker buries the account early.     *)
(***************************************************************************)
EXTENDS OAuthRefresh, TLAPS

---------------------------------------------------------------------------
(* The records.                                                            *)

\* A job that changes hands of one actor leaves the others theirs.
LEMMA JobUpdated ==
  ASSUME TypeOK, NEW x \in Actors, NEW j \in Job, job' = [job EXCEPT ![x] = j]
  PROVE  /\ job' \in [Actors -> Job]
         /\ job'[x] = j
         /\ \A y \in Actors \ {x} : job'[y] = job[y]
  BY DEF TypeOK

LEMMA IdleJob ==
  Idle \in Job /\ Idle.stage = "idle" /\ Idle.visit = FALSE /\ Idle.new = 0
  /\ Idle.row = Blank /\ Blank \in Account /\ Blank.gen = 0
<1>1. Blank \in Account
  BY OAuthRefreshAssumption DEF Blank, Account, Status, Window, Null
<1>2. Blank.gen = 0
  BY DEF Blank
<1> QED BY <1>1, <1>2 DEF Idle, Job, Stage

\* The numbers the constants are.
LEMMA Constants ==
  /\ Life \in Nat \ {0} /\ Interval \in Nat \ {0} /\ MaxAttempts \in Nat \ {0}
  /\ MaxIssued \in Nat \ {0} /\ Len(Ladder) \in Nat \ {0}
  /\ \A i \in 1..Len(Ladder) : Ladder[i] \in Nat \ {0}
  /\ \A i \in 1..(MaxAttempts - 1) : Backoffs[i] \in Nat \ {0}
  BY OAuthRefreshAssumption

\* The wake of a sweep is a delay, whatever retry it leaves.
LEMMA NextWakeNat ==
  ASSUME NEW retry \in Window
  PROVE  NextWake(retry) \in Nat
  BY Constants DEF NextWake, Window, Null

\* A sweep that ends leaves its worker idle, with the run it was given.
LEMMA EndSweepShape ==
  ASSUME TypeOK, NEW w \in Workers, NEW run \in 0..MaxAttempts, NEW retry \in Window,
         EndSweep(w, run, retry)
  PROVE  /\ attempts' \in [Workers -> 0..MaxAttempts] /\ attempts'[w] = run
         /\ \A v \in Workers \ {w} : attempts'[v] = attempts[v]
         /\ next' \in [Workers -> Window] /\ wake' \in [Workers -> Nat]
         /\ job' = [job EXCEPT ![w] = Idle]
<1>1. NextWake(retry) \in Nat
  BY NextWakeNat
<1> QED BY <1>1 DEF EndSweep, Become, TypeOK

\* The history is typed, whatever refusals and crossings are told.
HistoryTyped == failed' \in 0..MaxAttempts /\ crossed' \in [Workers -> BOOLEAN]

LEMMA ToldTyped ==
  ASSUME NEW refusals \in 0..MaxAttempts, NEW over, Told(refusals, over)
  PROVE  HistoryTyped
<1>1. \A w \in Workers : (attempts'[w] > 0 /\ (crossed[w] \/ w \in over)) \in BOOLEAN
  OBVIOUS
<1>2. /\ failed' = refusals
      /\ crossed' = [w \in Workers |-> attempts'[w] > 0 /\ (crossed[w] \/ w \in over)]
  BY DEF Told
<1>3. crossed' \in [Workers -> BOOLEAN]
  BY <1>1, <1>2, Zenon
<1> QED BY <1>2, <1>3 DEF HistoryTyped

LEMMA HistoryStays ==
  ASSUME TypeOK
  PROVE  /\ UNCHANGED history => HistoryTyped
         /\ Told(failed, {}) => HistoryTyped
         /\ \A over : Told(0, over) => HistoryTyped
         /\ \A x : Settles(x) => HistoryTyped
         /\ \A x : Told(Refusals(x), {}) => HistoryTyped
<1>1. MaxAttempts \in Nat \ {0} /\ failed \in 0..MaxAttempts
  BY Constants DEF TypeOK
<1>2. UNCHANGED history => HistoryTyped
  BY DEF TypeOK, history, HistoryTyped
<1>3. 0 \in 0..MaxAttempts
  BY <1>1
<1>4. \A x : Refusals(x) \in 0..MaxAttempts
  BY <1>1 DEF Refusals
<1>5. \A x : Settles(x) => HistoryTyped
  BY <1>3, ToldTyped DEF Settles
<1> QED BY <1>1, <1>2, <1>3, <1>4, <1>5, ToldTyped

---------------------------------------------------------------------------
(* Who ends a refresh, and with what.                                      *)

\* What every way of ending one has in common: the worker's memory keeps its types,
\* no run is used up but on the way to the dead letter, and the job that follows
\* holds no tokens, shows no generation but the one it had, and turns to a burial
\* with the run used up or on a revisit.
Let(x, j) ==
  /\ job' = [job EXCEPT ![x] = j]
  /\ j \in Job /\ j.stage \in {"idle", "bury"}
  /\ j.row.gen \in {job[x].row.gen, 0}
  /\ x \in Workers /\ j.stage = "bury" /\ ~j.visit => attempts'[x] >= MaxAttempts
Ended(x) ==
  /\ attempts' \in [Workers -> 0..MaxAttempts]
  /\ next' \in [Workers -> Window] /\ wake' \in [Workers -> Nat]
  /\ RunsOut'
  /\ \E j \in Job : Let(x, j)

LEMMA ReleasedEnds ==
  ASSUME TokensInv, NEW x \in Actors, x \notin Workers, Become(x, Idle), UNCHANGED memory
  PROVE  Ended(x)
<1>1. job' = [job EXCEPT ![x] = Idle] /\ attempts' = attempts /\ next' = next /\ wake' = wake
  BY DEF Become, memory
<1>2. Let(x, Idle)
  BY <1>1, IdleJob DEF Let
<1>3. \A w \in Workers : job'[w] = job[w]
  BY <1>1, JobUpdated, IdleJob DEF TokensInv, Actors
<1>4. RunsOut'
  BY <1>1, <1>3 DEF TokensInv, RunsOut
<1> QED BY <1>1, <1>2, <1>4, IdleJob DEF Ended, TokensInv, TypeOK

LEMMA EndSweepEnds ==
  ASSUME TokensInv, NEW w \in Workers, NEW run \in 0..MaxAttempts, run < MaxAttempts,
         NEW retry \in Window, EndSweep(w, run, retry)
  PROVE  Ended(w)
<1>0. w \in Actors /\ MaxAttempts \in Nat
  BY Constants DEF Actors
<1>1. /\ attempts' \in [Workers -> 0..MaxAttempts] /\ attempts'[w] = run
      /\ \A v \in Workers \ {w} : attempts'[v] = attempts[v]
      /\ next' \in [Workers -> Window] /\ wake' \in [Workers -> Nat]
      /\ job' = [job EXCEPT ![w] = Idle]
  BY EndSweepShape DEF TokensInv
<1>2. Let(w, Idle)
  BY <1>1, IdleJob DEF Let
<1>3. \A v \in Workers \ {w} : job'[v] = job[v]
  BY <1>0, <1>1, JobUpdated, IdleJob DEF TokensInv, Actors
<1>4. RunsOut'
  BY <1>0, <1>1, <1>3 DEF TokensInv, RunsOut
<1> QED BY <1>1, <1>2, <1>4, IdleJob DEF Ended

\* An unused run may be counted once more.
LEMMA RunLeft ==
  ASSUME TokensInv, NEW w \in Workers, job[w].stage \notin {"bury", "buried"}
  PROVE  attempts[w] \in 0..MaxAttempts /\ attempts[w] < MaxAttempts
  BY Constants DEF TokensInv, RunsOut, TypeOK

\* The run that is counted, and nobody else's.
Counted(x) ==
  \A w \in Workers :
    attempts'[w] = IF w = x /\ ~job[x].visit THEN attempts[w] + 1 ELSE attempts[w]

\* Giving up ends the refresh, or turns it into a burial.
LEMMA GiveUpEnds ==
  ASSUME TokensInv, NEW x \in Actors, job[x].stage \in {"chosen", "refresh", "persist"},
         GiveUp(x)
  PROVE  Ended(x) /\ Counted(x)
<1> DEFINE run == attempts[x] + 1
           moved == [job[x] EXCEPT !.stage = "bury"]
<1>0. /\ MaxAttempts \in Nat \ {0} /\ job[x] \in Job /\ TypeOK
      /\ attempts \in [Workers -> 0..MaxAttempts]
  BY Constants DEF TokensInv, TypeOK
<1>1. moved \in Job /\ moved.stage = "bury" /\ moved.row = job[x].row
      /\ moved.visit = job[x].visit
  BY <1>0 DEF Job, Stage
<1> HIDE DEF moved
<1>2. CASE x \notin Workers
  <2>1. Become(x, Idle) /\ UNCHANGED memory
    BY <1>2 DEF GiveUp
  <2>2. Ended(x)
    BY <1>2, <2>1, ReleasedEnds
  <2> QED BY <1>2, <2>1, <2>2 DEF Counted, memory
<1>3. CASE x \in Workers /\ job[x].visit
  <2>1. Move(x, "bury") /\ UNCHANGED memory
    BY <1>3 DEF GiveUp
  <2>2. /\ job' = [job EXCEPT ![x] = moved]
        /\ attempts' = attempts /\ next' = next /\ wake' = wake
    BY <2>1 DEF Move, Become, memory, moved
  <2>3. job'[x] = moved /\ \A y \in Actors \ {x} : job'[y] = job[y]
    BY <1>0, <1>1, <2>2, JobUpdated
  <2>4. Let(x, moved)
    BY <1>1, <1>3, <2>2 DEF Let
  <2>5. attempts[x] # MaxAttempts
    BY <1>0, <1>3 DEF TokensInv, RunsOut
  <2>6. RunsOut'
    BY <2>2, <2>3, <2>5 DEF TokensInv, RunsOut, Actors
  <2> QED BY <1>0, <1>1, <1>3, <2>1, <2>2, <2>4, <2>6 DEF Ended, TypeOK, Counted
<1>4. CASE x \in Workers /\ ~job[x].visit
  <2>1. IF Exhausted(run)
        THEN /\ attempts' = [attempts EXCEPT ![x] = run]
             /\ Move(x, "bury") /\ UNCHANGED <<next, wake>>
        ELSE EndSweep(x, run, Backoffs[run])
    BY <1>4 DEF GiveUp
  <2>2. attempts[x] \in 0..MaxAttempts /\ attempts[x] < MaxAttempts
    BY <1>0, <1>4, RunLeft
  <2>3. run \in 1..MaxAttempts /\ run = attempts[x] + 1
    BY <1>0, <2>2
  <2> HIDE DEF run
  <2>4. attempts' = [attempts EXCEPT ![x] = run]
    BY <2>1 DEF EndSweep
  <2>5. Counted(x) /\ attempts'[x] = run
    BY <1>0, <1>4, <2>3, <2>4 DEF Counted
  <2>6. CASE Exhausted(run)
    <3>1. job' = [job EXCEPT ![x] = moved] /\ next' = next /\ wake' = wake
      BY <2>1, <2>6 DEF Move, Become, moved
    <3>2. /\ attempts' \in [Workers -> 0..MaxAttempts]
          /\ \A v \in Workers \ {x} : attempts'[v] = attempts[v]
      BY <1>0, <1>4, <2>3, <2>4
    <3>3. job'[x] = moved /\ \A y \in Actors \ {x} : job'[y] = job[y]
      BY <1>0, <1>1, <3>1, JobUpdated
    <3>4. Let(x, moved)
      BY <1>1, <2>5, <2>6, <3>1 DEF Let, Exhausted
    <3>5. moved.stage = "bury" /\ ~moved.visit
      BY <1>1, <1>4
    <3>6. RunsOut'
      BY <3>2, <3>3, <3>5 DEF TokensInv, RunsOut, Actors
    <3> QED BY <1>0, <1>1, <2>5, <3>1, <3>2, <3>4, <3>6 DEF Ended, TypeOK
  <2>7. CASE ~Exhausted(run)
    <3>1. EndSweep(x, run, Backoffs[run]) /\ run < MaxAttempts
      BY <1>0, <2>1, <2>3, <2>7 DEF Exhausted
    <3>2. Backoffs[run] \in Window
      BY <1>0, <2>3, <3>1, Constants DEF Window
    <3>3. run \in 0..MaxAttempts
      BY <1>0, <2>3
    <3> QED BY <1>4, <2>5, <3>1, <3>2, <3>3, EndSweepEnds
  <2> QED BY <2>6, <2>7
<1> QED BY <1>2, <1>3, <1>4

\* A refused attempt is one given up, and told.
LEMMA RefusedEnds ==
  ASSUME TokensInv, NEW x \in Actors, job[x].stage \in {"chosen", "refresh", "persist"},
         Refused(x)
  PROVE  Ended(x) /\ HistoryTyped
<1>1. GiveUp(x) /\ Told(Refusals(x), {}) /\ TypeOK
  BY DEF Refused, TokensInv
<1> QED BY <1>1, GiveUpEnds, HistoryStays

---------------------------------------------------------------------------
(* Where the tokens are.                                                   *)

\* One actor moves on, perhaps spending the generation it shows, without new tokens
\* in its hand: those the others hold are still theirs alone.
LEMMA OthersKeepTokens ==
  ASSUME TokensInv, NEW x \in Actors, NEW j \in Job, job' = [job EXCEPT ![x] = j],
         account'.gen = account.gen, issued' \in Nat, issued <= issued',
         \A g \in live : g = job[x].row.gen \/ g \in live',
         j.row.gen \in {job[x].row.gen, account.gen, 0},
         x \in Refreshers => j.stage # "persist",
         (j.stage = "persist" \/ (x \in Logins /\ j.stage = "chosen"))
           => (Holds(x) /\ j.new = job[x].new)
  PROVE  SnapshotsKnown' /\ InHand' /\ Newer'
<1>0. /\ job'[x] = j /\ \A y \in Actors \ {x} : job'[y] = job[y]
      /\ issued \in Nat /\ account.gen \in Nat /\ account.gen <= issued
      /\ \A y \in Actors : job[y].row.gen \in Nat /\ job[y].row.gen <= issued
  BY JobUpdated DEF TokensInv, TypeOK, SnapshotsKnown, Job, Account
<1>1. SnapshotsKnown'
  <2>1. \A y \in Actors : job'[y].row.gen \in Nat /\ job'[y].row.gen <= issued
    BY <1>0
  <2> QED BY <1>0, <2>1 DEF SnapshotsKnown
<1>2. ASSUME NEW y \in Actors, Holds(y)'
      PROVE  Holds(y) /\ job'[y].new = job[y].new
  <2>1. job'[y].stage = "persist" \/ (y \in Logins /\ job'[y].stage = "chosen")
    BY <1>2 DEF Holds, At
  <2>2. CASE y = x
    <3>1. job'[y] = j
      BY <1>0, <2>2
    <3>2. j.stage = "persist" \/ (x \in Logins /\ j.stage = "chosen")
      BY <2>1, <2>2, <3>1
    <3>3. Holds(x) /\ j.new = job[x].new
      BY <3>2
    <3> QED BY <2>2, <3>1, <3>3 DEF Holds, At
  <2>3. CASE y # x
    BY <1>0, <2>1, <2>3 DEF Holds, At
  <2> QED BY <2>2, <2>3
<1>3. ASSUME NEW y \in Actors, Holds(y)'
      PROVE  /\ job'[y].new \in live' \ {0} /\ account'.gen # job'[y].new
             /\ \A z \in Actors : job'[z].row.gen # job'[y].new
             /\ \A z \in Actors \ {y} : Holds(z)' => job'[z].new # job'[y].new
  <2>1. Holds(y) /\ job'[y].new = job[y].new
    BY <1>2, <1>3
  <2>2. /\ job[y].new \in live \ {0} /\ account.gen # job[y].new
        /\ \A z \in Actors : job[z].row.gen # job[y].new
        /\ \A z \in Actors \ {y} : Holds(z) => job[z].new # job[y].new
    BY <2>1 DEF TokensInv, InHand
  <2>3. job'[y].new \in live' \ {0}
    BY <2>1, <2>2
  <2>4. \A z \in Actors : job'[z].row.gen # job'[y].new
    BY <1>0, <2>1, <2>2
  <2>5. \A z \in Actors \ {y} : Holds(z)' => job'[z].new # job'[y].new
    BY <1>2, <2>1, <2>2
  <2> QED BY <2>1, <2>2, <2>3, <2>4, <2>5
<1>4. InHand'
  BY <1>3 DEF InHand
<1>5. ASSUME NEW y \in Refreshers, job'[y].stage = "persist"
      PROVE  job'[y].new > job'[y].row.gen
  <2>1. y # x
    BY <1>0, <1>5
  <2>2. job'[y] = job[y]
    BY <1>0, <2>1 DEF Actors, Refreshers
  <2> QED BY <1>5, <2>2 DEF TokensInv, Newer, At
<1>6. Newer'
  BY <1>5 DEF Newer, At
<1> QED BY <1>1, <1>4, <1>6

\* The vendor hands one actor the next generation: it is nobody else's.
LEMMA HandedTokens ==
  ASSUME TokensInv, NEW x \in Actors, NEW j \in Job, job' = [job EXCEPT ![x] = j],
         account'.gen = account.gen, issued' = issued + 1, issued + 1 \in live',
         \A g \in live : g = job[x].row.gen \/ g \in live',
         j.row.gen \in {job[x].row.gen, 0}, j.new = issued + 1
  PROVE  SnapshotsKnown' /\ InHand' /\ Newer'
<1>0. /\ job'[x] = j /\ \A y \in Actors \ {x} : job'[y] = job[y]
      /\ issued \in Nat /\ account.gen \in Nat /\ account.gen <= issued
      /\ live \subseteq 0..issued
      /\ \A y \in Actors : job[y].row.gen \in Nat /\ job[y].row.gen <= issued
  BY JobUpdated DEF TokensInv, TypeOK, SnapshotsKnown, Job, Account
<1>1. \A y \in Actors : job'[y].row.gen \in Nat /\ job'[y].row.gen <= issued
  BY <1>0
<1>2. SnapshotsKnown'
  BY <1>0, <1>1 DEF SnapshotsKnown
<1>3. \A y \in Actors \ {x} : Holds(y)' => /\ Holds(y) /\ job'[y].new = job[y].new
                                           /\ job'[y].new <= issued
  <2> SUFFICES ASSUME NEW y \in Actors \ {x}, Holds(y)'
               PROVE  Holds(y) /\ job'[y].new = job[y].new /\ job'[y].new <= issued
    OBVIOUS
  <2>1. job'[y] = job[y]
    BY <1>0
  <2>2. Holds(y)
    BY <2>1 DEF Holds, At
  <2>3. job[y].new \in live
    BY <2>2 DEF TokensInv, InHand
  <2>4. job[y].new \in 0..issued
    BY <1>0, <2>3
  <2>5. job[y].new <= issued
    BY <1>0, <2>4
  <2> QED BY <2>1, <2>2, <2>5
<1>4. ASSUME NEW y \in Actors, Holds(y)'
      PROVE  /\ job'[y].new \in live' \ {0} /\ account'.gen # job'[y].new
             /\ \A z \in Actors : job'[z].row.gen # job'[y].new
             /\ \A z \in Actors \ {y} : Holds(z)' => job'[z].new # job'[y].new
  <2>1. CASE y = x
    <3>1. job'[y].new = issued + 1
      BY <1>0, <2>1
    <3>2. \A z \in Actors \ {y} : Holds(z)' => job'[z].new # issued + 1
      BY <1>0, <1>3, <2>1
    <3>3. \A z \in Actors : job'[z].row.gen # issued + 1
      BY <1>0, <1>1
    <3> QED BY <1>0, <3>1, <3>2, <3>3
  <2>2. CASE y # x
    <3>1. Holds(y) /\ job'[y].new = job[y].new /\ job'[y].new <= issued
      BY <1>3, <1>4, <2>2
    <3>2. /\ job[y].new \in live \ {0} /\ account.gen # job[y].new
          /\ \A z \in Actors : job[z].row.gen # job[y].new
          /\ \A z \in Actors \ {y} : Holds(z) => job[z].new # job[y].new
      BY <3>1 DEF TokensInv, InHand
    <3>3. job'[y].new \in live' \ {0}
      BY <3>1, <3>2
    <3>4. \A z \in Actors : job'[z].row.gen # job'[y].new
      BY <1>0, <3>1, <3>2
    <3>5. ASSUME NEW z \in Actors \ {y}, Holds(z)'
          PROVE  job'[z].new # job'[y].new
      <4>1. CASE z = x
        BY <1>0, <3>1, <3>2, <4>1
      <4>2. CASE z # x
        BY <1>3, <3>1, <3>2, <3>5, <4>2
      <4> QED BY <4>1, <4>2
    <3> QED BY <3>1, <3>2, <3>3, <3>4, <3>5
  <2> QED BY <2>1, <2>2
<1>5. InHand'
  BY <1>4 DEF InHand
<1>6. ASSUME NEW y \in Refreshers, job'[y].stage = "persist"
      PROVE  job'[y].new > job'[y].row.gen
  <2>1. CASE y = x
    BY <1>0, <1>1, <2>1
  <2>2. CASE y # x
    <3>1. job'[y] = job[y]
      BY <1>0, <2>2 DEF Actors, Refreshers
    <3> QED BY <1>6, <3>1 DEF TokensInv, Newer, At
  <2> QED BY <2>1, <2>2
<1>7. Newer'
  BY <1>6 DEF Newer, At
<1> QED BY <1>2, <1>5, <1>7

\* The tokens in one actor's hand become the stored ones.
LEMMA StoredTokens ==
  ASSUME TokensInv, NEW x \in Actors, job[x].stage = "persist",
         NEW j \in Job, job' = [job EXCEPT ![x] = j], j.stage \in {"idle", "bury"},
         j.row.gen \in {job[x].row.gen, 0}, account'.gen = job[x].new,
         issued' = issued, live' = live
  PROVE  /\ SnapshotsKnown' /\ InHand' /\ Newer'
         /\ account'.gen \in live' /\ account'.gen <= issued'
<1>0. /\ job'[x] = j /\ \A y \in Actors \ {x} : job'[y] = job[y]
      /\ issued \in Nat /\ live \subseteq 0..issued
  BY JobUpdated DEF TokensInv, TypeOK
<1>1. /\ job[x].new \in live \ {0}
      /\ \A y \in Actors : job[y].row.gen # job[x].new
      /\ \A y \in Actors \ {x} : Holds(y) => job[y].new # job[x].new
  BY DEF TokensInv, InHand, Holds, At
<1>2. SnapshotsKnown'
  BY <1>0 DEF TokensInv, SnapshotsKnown, InHand
<1>3. \A y \in Actors : Holds(y)' => y # x /\ Holds(y) /\ job'[y] = job[y]
  BY <1>0 DEF Holds, At
<1>4. ASSUME NEW y \in Actors, Holds(y)'
      PROVE  /\ job'[y].new \in live' \ {0} /\ account'.gen # job'[y].new
             /\ \A z \in Actors : job'[z].row.gen # job'[y].new
             /\ \A z \in Actors \ {y} : Holds(z)' => job'[z].new # job'[y].new
  <2>1. y # x /\ Holds(y) /\ job'[y] = job[y]
    BY <1>3, <1>4
  <2>2. /\ job[y].new \in live \ {0}
        /\ \A z \in Actors : job[z].row.gen # job[y].new
        /\ \A z \in Actors \ {y} : Holds(z) => job[z].new # job[y].new
    BY <2>1 DEF TokensInv, InHand
  <2>3. \A z \in Actors : job'[z].row.gen # job'[y].new
    <3>1. job[y].new # 0 /\ job'[x].row.gen # job[y].new
      BY <1>0, <2>2
    <3> QED BY <1>0, <2>1, <2>2, <3>1
  <2>4. \A z \in Actors \ {y} : Holds(z)' => job'[z].new # job'[y].new
    BY <1>3, <2>1, <2>2
  <2>5. account'.gen # job'[y].new
    BY <1>1, <2>1
  <2> QED BY <2>1, <2>2, <2>3, <2>4, <2>5
<1>5. InHand'
  BY <1>4 DEF InHand
<1>6. ASSUME NEW y \in Refreshers, job'[y].stage = "persist"
      PROVE  job'[y].new > job'[y].row.gen
  <2>1. y # x
    BY <1>0, <1>6
  <2>2. job'[y] = job[y]
    BY <1>0, <2>1 DEF Actors, Refreshers
  <2> QED BY <1>6, <2>2 DEF TokensInv, Newer, At
<1>7. Newer'
  BY <1>6 DEF Newer, At
<1>8. account'.gen \in live' /\ account'.gen <= issued'
  <2>1. job[x].new \in live
    BY <1>1
  <2>2. job[x].new \in 0..issued
    BY <1>0, <2>1
  <2> QED BY <1>0, <2>1, <2>2
<1> QED BY <1>2, <1>5, <1>7, <1>8

---------------------------------------------------------------------------
(* One step.                                                               *)

\* A worker that is not about to bury, or still is, has the run it had.
LEMMA RunsStay ==
  ASSUME TokensInv, NEW x \in Actors, NEW j \in Job, job' = [job EXCEPT ![x] = j],
         attempts' = attempts,
         x \in Workers => \/ job[x].stage \notin {"bury", "buried"}
                          \/ j.stage \in {"bury", "buried"} /\ j.visit = job[x].visit
  PROVE  RunsOut'
<1>1. job'[x] = j /\ \A y \in Actors \ {x} : job'[y] = job[y]
  BY JobUpdated DEF TokensInv
<1>2. ASSUME NEW w \in Workers, attempts'[w] = MaxAttempts
      PROVE  job'[w].stage \in {"bury", "buried"} /\ ~job'[w].visit
  <2>1. job[w].stage \in {"bury", "buried"} /\ ~job[w].visit
    BY <1>2 DEF TokensInv, RunsOut
  <2>2. CASE w = x
    BY <1>1, <2>1, <2>2
  <2>3. CASE w # x
    BY <1>1, <2>1, <2>3 DEF Actors
  <2> QED BY <2>2, <2>3
<1> QED BY <1>2 DEF RunsOut

\* A step that neither hands out tokens nor stores any.
LEMMA QuietStep ==
  ASSUME TokensInv, NEW x \in Actors, NEW j \in Job, job' = [job EXCEPT ![x] = j],
         account' \in Account, account'.gen = account.gen, left' \in Window,
         HistoryTyped, live' = live, issued' = issued,
         attempts' \in [Workers -> 0..MaxAttempts], next' \in [Workers -> Window],
         wake' \in [Workers -> Nat], RunsOut',
         j.row.gen \in {job[x].row.gen, account.gen, 0},
         x \in Refreshers => j.stage # "persist",
         (j.stage = "persist" \/ (x \in Logins /\ j.stage = "chosen"))
           => (Holds(x) /\ j.new = job[x].new)
  PROVE  TokensInv'
<1>1. issued' \in Nat /\ issued <= issued' /\ \A g \in live : g \in live'
  BY DEF TokensInv, TypeOK
<1>2. SnapshotsKnown' /\ InHand' /\ Newer'
  BY <1>1, OthersKeepTokens
<1>3. job' \in [Actors -> Job]
  BY JobUpdated DEF TokensInv
<1>4. account'.gen <= issued' /\ live' \subseteq 0..issued' /\ issued' \in 0..MaxIssued
  BY DEF TokensInv, TypeOK
<1>5. TypeOK'
  BY <1>3, <1>4 DEF TypeOK, HistoryTyped
<1> QED BY <1>2, <1>5 DEF TokensInv

\* Nothing is lost by somebody who held no successor of the stored tokens.
LEMMA UsableStays ==
  ASSUME TokensInv, NEW x \in Actors, NEW j \in Job, job' = [job EXCEPT ![x] = j],
         account'.gen = account.gen, \A g \in live : g \in live',
         job[x].stage = "persist" => (x \notin Refreshers \/ job[x].row.gen # account.gen),
         TokenUsable
  PROVE  TokenUsable'
<1>1. CASE account.gen \in live
  BY <1>1 DEF TokenUsable
<1>2. CASE account.gen \notin live
  <2>1. PICK y \in Refreshers : /\ At(y, "persist") /\ job[y].new \in live
                                /\ job[y].row.gen = account.gen
    BY <1>2 DEF TokenUsable
  <2>2. y # x /\ y \in Actors
    BY <2>1 DEF At, Actors, Refreshers
  <2>3. job'[y] = job[y]
    BY <2>2, JobUpdated DEF TokensInv
  <2>4. job'[y].stage = "persist" /\ job'[y].new \in live' /\ job'[y].row.gen = account'.gen
    BY <2>1, <2>3 DEF At
  <2> QED BY <2>4 DEF TokenUsable, At
<1> QED BY <1>1, <1>2

\* What a step keeps: where the tokens are, and that the account has some to use.
Kept == TokensInv' /\ (TokenUsable => TokenUsable')

\* A step that touches nothing but one job.
LEMMA JobStep ==
  ASSUME TokensInv, NEW x \in Actors, NEW j \in Job, job' = [job EXCEPT ![x] = j],
         UNCHANGED <<account, left, vendor, memory, history>>,
         j.row.gen \in {job[x].row.gen, account.gen, 0},
         x \in Refreshers => j.stage # "persist",
         (j.stage = "persist" \/ (x \in Logins /\ j.stage = "chosen"))
           => (Holds(x) /\ j.new = job[x].new),
         job[x].stage = "persist" => (x \notin Refreshers \/ job[x].row.gen # account.gen),
         x \in Workers => \/ job[x].stage \notin {"bury", "buried"}
                          \/ j.stage \in {"bury", "buried"} /\ j.visit = job[x].visit
  PROVE  Kept
<1>1. /\ account' = account /\ left' = left /\ live' = live /\ issued' = issued
      /\ attempts' = attempts /\ next' = next /\ wake' = wake
  BY DEF vendor, memory
<1>2. RunsOut'
  BY <1>1, RunsStay
<1>3. /\ account' \in Account /\ account'.gen = account.gen /\ left' \in Window
      /\ HistoryTyped /\ attempts' \in [Workers -> 0..MaxAttempts]
      /\ next' \in [Workers -> Window] /\ wake' \in [Workers -> Nat]
  BY <1>1, HistoryStays DEF TokensInv, TypeOK
<1>4. TokensInv'
  BY <1>1, <1>2, <1>3, QuietStep
<1>5. TokenUsable => TokenUsable'
  BY <1>1, UsableStays
<1> QED BY <1>4, <1>5 DEF Kept

\* The snapshots are accounts, whoever holds them.
LEMMA JobRow ==
  ASSUME TokensInv, NEW x \in Actors
  PROVE  /\ job[x] \in Job /\ job[x].row \in Account /\ account \in Account
         /\ job[x].visit \in BOOLEAN /\ job[x].new \in Nat /\ job[x].row.gen \in Nat
  BY DEF TokensInv, TypeOK, Job, Account

LEMMA KindsApart ==
  /\ \A x \in Workers : x \in Actors /\ x \in Refreshers /\ x \notin Forcers
                        /\ x \notin Logins /\ x \notin Operators
  /\ \A x \in Forcers : x \in Actors /\ x \in Refreshers /\ x \notin Workers
                        /\ x \notin Logins /\ x \notin Operators
  /\ \A x \in Logins : x \in Actors /\ x \notin Refreshers /\ x \notin Workers
  /\ \A x \in Operators : x \in Actors /\ x \notin Refreshers /\ x \notin Workers
                          /\ x \notin Logins
  BY OAuthRefreshAssumption DEF Actors, Refreshers

LEMMA SweepKeeps ==
  ASSUME TokensInv, NEW w \in Workers, Sweep(w)
  PROVE  Kept
<1> DEFINE j == [Idle EXCEPT !.stage = "chosen", !.visit = Visits]
<1>1. Visits \in BOOLEAN
  BY DEF Visits
<1>2. j \in Job /\ j.stage = "chosen" /\ j.row.gen = 0
  BY <1>1, IdleJob DEF Job, Stage
<1>3. /\ job[w].stage = "idle" /\ job' = [job EXCEPT ![w] = j]
      /\ UNCHANGED <<account, left, vendor, memory, history>>
  BY DEF Sweep, At, Become
<1> HIDE DEF j
<1> QED BY <1>2, <1>3, KindsApart, JobStep

LEMMA ForceKeeps ==
  ASSUME TokensInv, NEW f \in Forcers, ForceRefresh(f)
  PROVE  Kept
<1> DEFINE j == [Idle EXCEPT !.stage = "chosen"]
<1>2. j \in Job /\ j.stage = "chosen" /\ j.row.gen = 0
  BY IdleJob DEF Job, Stage
<1>3. /\ job[f].stage = "idle" /\ job' = [job EXCEPT ![f] = j]
      /\ UNCHANGED <<account, left, vendor, memory, history>>
  BY DEF ForceRefresh, At, Become
<1> HIDE DEF j
<1> QED BY <1>2, <1>3, KindsApart, JobStep

LEMMA LoadKeeps ==
  ASSUME TokensInv, NEW x \in Refreshers \cup Logins, Load(x)
  PROVE  Kept
<1> DEFINE stage == IF x \in Logins THEN "persist" ELSE "refresh"
           j == [job[x] EXCEPT !.row = account, !.stage = stage]
<1>0. x \in Actors /\ job[x] \in Job /\ account \in Account /\ (x \in Refreshers => x \notin Logins)
  BY JobRow, KindsApart DEF Actors, Refreshers
<1>1. stage \in Stage
  BY DEF Stage
<1>2. j \in Job /\ j.stage = stage /\ j.row.gen = account.gen /\ j.new = job[x].new
  BY <1>0, <1>1 DEF Job
<1>3. /\ job[x].stage = "chosen" /\ job' = [job EXCEPT ![x] = j]
      /\ UNCHANGED <<account, left, vendor, memory, history>>
  BY DEF Load, At, Become
<1>4. x \in Refreshers => stage # "persist"
  BY <1>0
<1>5. stage = "persist" \/ (x \in Logins /\ stage = "chosen") => Holds(x)
  BY <1>3 DEF Holds, At
<1> HIDE DEF j, stage
<1> QED BY <1>0, <1>2, <1>3, <1>4, <1>5, JobStep

LEMMA PatchLoadKeeps ==
  ASSUME TokensInv, NEW o \in Operators, PatchLoad(o)
  PROVE  Kept
<1> DEFINE j == [Idle EXCEPT !.stage = "patch", !.row = account]
<1>2. j \in Job /\ j.stage = "patch" /\ j.row.gen = account.gen
  BY IdleJob DEF TokensInv, TypeOK, Job, Stage
<1>3. /\ job[o].stage = "idle" /\ job' = [job EXCEPT ![o] = j]
      /\ UNCHANGED <<account, left, vendor, memory, history>>
  BY DEF PatchLoad, At, Become
<1> HIDE DEF j
<1> QED BY <1>2, <1>3, KindsApart, JobStep

LEMMA BuryLoadKeeps ==
  ASSUME TokensInv, NEW w \in Workers, BuryLoad(w)
  PROVE  Kept
<1> DEFINE j == [job[w] EXCEPT !.stage = "buried", !.row = account]
<1>1. w \in Actors /\ job[w] \in Job /\ account \in Account
  BY JobRow, KindsApart
<1>2. j \in Job /\ j.stage = "buried" /\ j.row.gen = account.gen /\ j.visit = job[w].visit
  BY <1>1 DEF Job, Stage
<1>3. /\ job[w].stage = "bury" /\ job' = [job EXCEPT ![w] = j]
      /\ UNCHANGED <<account, left, vendor, memory, history>>
  BY DEF BuryLoad, At, Become
<1> HIDE DEF j
<1> QED BY <1>2, <1>3, KindsApart, JobStep

\* A refresh that ends without storing anything, whatever the vendor did meanwhile.
LEMMA EndedStep ==
  ASSUME TokensInv, NEW x \in Actors, Ended(x),
         account' \in Account, account'.gen = account.gen, left' \in Window,
         HistoryTyped, UNCHANGED vendor
  PROVE  /\ TokensInv'
         /\ (job[x].stage = "persist" => (x \notin Refreshers \/ job[x].row.gen # account.gen))
              => (TokenUsable => TokenUsable')
<1>1. PICK j \in Job : Let(x, j)
  BY DEF Ended
<1>2. /\ job' = [job EXCEPT ![x] = j] /\ j.stage \in {"idle", "bury"}
      /\ j.row.gen \in {job[x].row.gen, 0}
  BY <1>1 DEF Let
<1>3. /\ attempts' \in [Workers -> 0..MaxAttempts] /\ next' \in [Workers -> Window]
      /\ wake' \in [Workers -> Nat] /\ RunsOut' /\ live' = live /\ issued' = issued
  BY DEF Ended, vendor
<1>4. j.stage # "persist" /\ j.stage # "chosen"
  BY <1>2
<1>5. TokensInv'
  BY <1>2, <1>3, <1>4, QuietStep
<1>6. (job[x].stage = "persist" => (x \notin Refreshers \/ job[x].row.gen # account.gen))
        => (TokenUsable => TokenUsable')
  BY <1>2, <1>3, UsableStays
<1> QED BY <1>5, <1>6

LEMMA Unwritten ==
  ASSUME TokensInv, UNCHANGED <<account, left>>
  PROVE  account' \in Account /\ account'.gen = account.gen /\ left' \in Window
  BY DEF TokensInv, TypeOK

LEMMA PassOverKeeps ==
  ASSUME TokensInv, NEW w \in Workers, PassOver(w) \/ Unlisted(w)
  PROVE  Kept
<1>1. /\ job[w].stage = "idle" /\ EndSweep(w, attempts[w], next[w])
      /\ UNCHANGED <<account, left>> /\ UNCHANGED vendor /\ UNCHANGED history
  BY DEF PassOver, Unlisted, At
<1>2. attempts[w] \in 0..MaxAttempts /\ attempts[w] < MaxAttempts
  BY <1>1, RunLeft
<1>3. next[w] \in Window /\ HistoryTyped /\ w \in Actors
  BY <1>1, KindsApart, HistoryStays DEF TokensInv, TypeOK
<1>4. Ended(w)
  BY <1>1, <1>2, <1>3, EndSweepEnds
<1> QED BY <1>1, <1>3, <1>4, Unwritten, EndedStep DEF Kept

\* An attempt that is refused before or after the grant, and stores nothing.
LEMMA RefusedStep ==
  ASSUME TokensInv, NEW x \in Refreshers \cup Logins,
         job[x].stage \in {"chosen", "refresh", "persist"}, Refused(x),
         UNCHANGED <<account, left, vendor>>
  PROVE  /\ TokensInv'
         /\ (job[x].stage = "persist" => (x \notin Refreshers \/ job[x].row.gen # account.gen))
              => (TokenUsable => TokenUsable')
<1>1. UNCHANGED <<account, left>> /\ UNCHANGED vendor
  OBVIOUS
<1>2. Ended(x) /\ HistoryTyped /\ x \in Actors
  BY RefusedEnds DEF Actors, Refreshers
<1> QED BY <1>1, <1>2, Unwritten, EndedStep

LEMMA UngrantedKeeps ==
  ASSUME TokensInv, NEW x \in Refreshers \cup Logins, Unread(x) \/ Ungranted(x)
  PROVE  Kept
<1>1. /\ job[x].stage \in {"chosen", "refresh"} /\ Refused(x)
      /\ UNCHANGED <<account, left, vendor>>
  BY DEF Unread, Ungranted, At
<1> QED BY <1>1, RefusedStep DEF Kept

LEMMA ConflictKeeps ==
  ASSUME TokensInv, NEW x \in Refreshers \cup Logins, Conflict(x)
  PROVE  Kept
<1>1. /\ job[x].stage = "persist" /\ account.gen # job[x].row.gen /\ Refused(x)
      /\ UNCHANGED <<account, left, vendor>>
  BY DEF Conflict, At
<1> QED BY <1>1, RefusedStep DEF Kept

\* The tokens that are dropped were the account's last when they replaced its own.
LEMMA DroppedStep ==
  ASSUME TokensInv, NEW x \in Refreshers \cup Logins, Dropped(x)
  PROVE  /\ TokensInv'
         /\ (x \notin Refreshers \/ job[x].row.gen # account.gen)
              => (TokenUsable => TokenUsable')
<1>1. /\ job[x].stage = "persist" /\ Refused(x)
      /\ UNCHANGED <<account, left, vendor>>
  BY DEF Dropped, At
<1> QED BY <1>1, RefusedStep

\* The management columns never carry the tokens.
LEMMA EndpointUpdated ==
  ASSUME TokensInv, NEW row \in Account, UpdateEndpoint(row)
  PROVE  /\ account' \in Account /\ account'.gen = account.gen
         /\ account'.retry = row.retry /\ account'.rounds = row.rounds
         /\ account'.status = row.status
<1>1. account \in Account
  BY DEF TokensInv, TypeOK
<1> QED BY <1>1 DEF UpdateEndpoint, Account

\* A rung is on the ladder.
LEMMA Scheduled ==
  ASSUME NEW row \in Account
  PROVE  /\ ScheduleRefreshRetry(row) \in Account
         /\ ScheduleRefreshRetry(row).rounds
              = IF row.rounds < Len(Ladder) THEN row.rounds + 1 ELSE row.rounds
         /\ ScheduleRefreshRetry(row).rounds \in 1..Len(Ladder)
         /\ ScheduleRefreshRetry(row).retry = Ladder[ScheduleRefreshRetry(row).rounds]
         /\ ScheduleRefreshRetry(row).status = row.status
<1> DEFINE step == IF row.rounds < Len(Ladder) THEN row.rounds + 1 ELSE row.rounds
           new == [row EXCEPT !.rounds = step, !.retry = Ladder[step]]
<1>1. row.rounds \in 0..Len(Ladder) /\ Len(Ladder) \in Nat \ {0}
  BY Constants DEF Account
<1>2. step \in 1..Len(Ladder)
  BY <1>1
<1>3. Ladder[step] \in Nat
  BY <1>2, Constants
<1>4. ScheduleRefreshRetry(row) = new
  BY DEF ScheduleRefreshRetry
<1>5. step = IF row.rounds < Len(Ladder) THEN row.rounds + 1 ELSE row.rounds
  OBVIOUS
<1> HIDE DEF step
<1>6. step \in 0..Len(Ladder) /\ Ladder[step] \in Window
  BY <1>1, <1>2, <1>3 DEF Window
<1>7. /\ new \in Account /\ new.rounds = step /\ new.retry = Ladder[step]
      /\ new.status = row.status
  BY <1>6 DEF Account
<1> HIDE DEF new
<1> QED BY <1>2, <1>4, <1>5, <1>7

LEMMA Marked ==
  ASSUME NEW row \in Account
  PROVE  /\ MarkUnhealthy(row) \in Account /\ MarkUnhealthy(row).rounds = row.rounds
         /\ MarkUnhealthy(row).status = (IF row.status = "disabled" THEN "disabled" ELSE "error")
<1>1. row.status \in Status
  BY DEF Account
<1> QED BY <1>1 DEF MarkUnhealthy, Account, Status

\* Whatever came of the dead letter, the worker is idle again.
LEMMA BuriedEnds ==
  ASSUME TokensInv, NEW w \in Workers, job[w].stage \in {"bury", "buried"}, Buried(w)
  PROVE  Ended(w)
<1>1. IF job[w].visit THEN EndSweep(w, attempts[w], next[w]) ELSE EndSweep(w, 0, Null)
  BY DEF Buried
<1>4. ASSUME job[w].visit
      PROVE  Ended(w)
  <2>1. attempts[w] # MaxAttempts
    BY <1>4 DEF TokensInv, RunsOut
  <2>2. attempts[w] \in 0..MaxAttempts /\ attempts[w] < MaxAttempts /\ next[w] \in Window
    BY <2>1, Constants DEF TokensInv, TypeOK
  <2> QED BY <1>1, <1>4, <2>2, EndSweepEnds
<1>5. ASSUME ~job[w].visit
      PROVE  Ended(w)
  <2>1. 0 \in 0..MaxAttempts /\ 0 < MaxAttempts /\ Null \in Window
    BY Constants DEF Window
  <2> QED BY <1>1, <1>5, <2>1, EndSweepEnds
<1> QED BY <1>4, <1>5

LEMMA BuryWriteKeeps ==
  ASSUME TokensInv, NEW w \in Workers, BuryWrite(w)
  PROVE  Kept
<1> DEFINE row == ScheduleRefreshRetry(MarkUnhealthy(job[w].row))
<1>1. /\ job[w].stage = "buried" /\ UpdateEndpoint(row) /\ Buried(w)
      /\ left' = left /\ UNCHANGED vendor /\ Settles(w)
  BY DEF BuryWrite, At
<1>2. w \in Actors /\ row \in Account
  BY KindsApart, JobRow, Marked, Scheduled
<1> HIDE DEF row
<1>3. account' \in Account /\ account'.gen = account.gen
  BY <1>1, <1>2, EndpointUpdated
<1>4. Ended(w)
  BY <1>1, BuriedEnds
<1>5. left' \in Window /\ HistoryTyped
  BY <1>1, HistoryStays DEF TokensInv, TypeOK
<1> QED BY <1>1, <1>2, <1>3, <1>4, <1>5, EndedStep DEF Kept

LEMMA BuryFailsKeeps ==
  ASSUME TokensInv, NEW w \in Workers, BuryFails(w)
  PROVE  Kept
<1>1. /\ job[w].stage \in {"bury", "buried"} /\ Buried(w)
      /\ UNCHANGED <<account, left>> /\ UNCHANGED vendor /\ Told(failed, {})
  BY DEF BuryFails
<1>2. Ended(w) /\ w \in Actors /\ job[w].stage # "persist"
  BY <1>1, BuriedEnds, KindsApart
<1>3. HistoryTyped
  BY <1>1, HistoryStays DEF TokensInv
<1> QED BY <1>1, <1>2, <1>3, Unwritten, EndedStep DEF Kept

LEMMA PatchWriteKeeps ==
  ASSUME TokensInv, NEW o \in Operators, NEW s \in {"active", "disabled"}, PatchWrite(o, s)
  PROVE  Kept
<1> DEFINE row == [job[o].row EXCEPT !.status = s]
<1>1. /\ job[o].stage = "patch" /\ UpdateEndpoint(row) /\ Become(o, Idle)
      /\ left' = left /\ UNCHANGED vendor /\ UNCHANGED memory /\ UNCHANGED history
  BY DEF PatchWrite, At
<1>2. o \in Actors /\ row \in Account /\ o \notin Workers
  <2>1. job[o].row \in Account /\ o \in Actors /\ o \notin Workers
    BY KindsApart, JobRow
  <2> QED BY <2>1 DEF Account, Status
<1> HIDE DEF row
<1>3. account' \in Account /\ account'.gen = account.gen
  BY <1>1, <1>2, EndpointUpdated
<1>4. Ended(o)
  BY <1>1, <1>2, ReleasedEnds
<1>5. left' \in Window /\ HistoryTyped
  BY <1>1, HistoryStays DEF TokensInv, TypeOK
<1> QED BY <1>1, <1>2, <1>3, <1>4, <1>5, EndedStep DEF Kept

\* The next generation is within the bound, and the vendor accepts no later one.
LEMMA IssuedTypes ==
  ASSUME TokensInv, issued < MaxIssued, issued' = issued + 1, account' = account,
         live' \subseteq live \cup {issued + 1}
  PROVE  account'.gen <= issued' /\ live' \subseteq 0..issued' /\ issued' \in 0..MaxIssued
<1>1. /\ issued \in Nat /\ MaxIssued \in Nat /\ account.gen \in Nat /\ account.gen <= issued
      /\ live \subseteq 0..issued
  BY Constants DEF TokensInv, TypeOK, Account
<1>2. account'.gen <= issued'
  BY <1>1
<1>3. issued' \in 0..MaxIssued
  BY <1>1
<1>4. 0..issued \subseteq 0..(issued + 1) /\ issued + 1 \in 0..(issued + 1)
  BY <1>1
<1>5. live' \subseteq 0..(issued + 1)
  BY <1>1, <1>4
<1> QED BY <1>2, <1>3, <1>5

LEMMA GrantedKeeps ==
  ASSUME TokensInv, NEW x \in Refreshers, Granted(x)
  PROVE  Kept
<1> DEFINE gen == issued + 1
           j == [job[x] EXCEPT !.stage = "persist", !.new = gen]
<1>1. /\ job[x].stage = "refresh" /\ job[x].row.gen \in live
      /\ issued < MaxIssued /\ issued' = issued + 1
      /\ live' = (IF Rotates THEN live \ {job[x].row.gen} ELSE live) \cup {issued + 1}
      /\ job' = [job EXCEPT ![x] = j]
      /\ account' = account /\ left' = left /\ failed' = failed /\ crossed' = crossed
      /\ attempts' = attempts /\ next' = next /\ wake' = wake
  BY DEF Granted, At, Issue, Become, memory, history
<1>2. /\ x \in Actors /\ job[x] \in Job /\ issued \in Nat /\ account.gen \in Nat
      /\ MaxIssued \in Nat /\ live \subseteq 0..issued
  BY JobRow, Constants DEF Actors, Refreshers, TokensInv, TypeOK, Account
<1>3. j \in Job /\ j.stage = "persist" /\ j.row = job[x].row /\ j.new = issued + 1
  <2>1. gen \in Nat /\ gen = issued + 1
    BY <1>2
  <2> HIDE DEF gen
  <2>2. j \in Job /\ j.stage = "persist" /\ j.row = job[x].row /\ j.new = gen
    BY <1>2, <2>1 DEF Job, Stage
  <2> QED BY <2>1, <2>2
<1> HIDE DEF j
<1>4. /\ \A g \in live : g = job[x].row.gen \/ g \in live'
      /\ issued + 1 \in live'
  BY <1>1
<1>5. SnapshotsKnown' /\ InHand' /\ Newer'
  BY <1>1, <1>2, <1>3, <1>4, HandedTokens
<1>6. RunsOut'
  BY <1>1, <1>2, <1>3, RunsStay
<1>7. job' \in [Actors -> Job] /\ job'[x] = j
      /\ \A y \in Actors \ {x} : job'[y] = job[y]
  BY <1>1, <1>2, <1>3, JobUpdated DEF TokensInv
<1>8. account'.gen <= issued' /\ live' \subseteq 0..issued' /\ issued' \in 0..MaxIssued
  BY <1>1, IssuedTypes
<1>9. TypeOK'
  BY <1>1, <1>7, <1>8 DEF TokensInv, TypeOK
<1>10. ASSUME TokenUsable
       PROVE  TokenUsable'
  <2>1. CASE account.gen = job[x].row.gen
    <3>1. /\ job'[x].stage = "persist" /\ job'[x].new \in live'
          /\ job'[x].row.gen = account'.gen
      BY <1>1, <1>3, <1>4, <1>7, <2>1
    <3> QED BY <3>1 DEF TokenUsable, At
  <2>2. CASE account.gen # job[x].row.gen
    <3>1. CASE account.gen \in live
      BY <1>1, <1>4, <2>2, <3>1 DEF TokenUsable
    <3>2. CASE account.gen \notin live
      <4>1. PICK y \in Refreshers : /\ At(y, "persist") /\ job[y].new \in live
                                    /\ job[y].row.gen = account.gen
        BY <1>10, <3>2 DEF TokenUsable
      <4>2. y # x /\ y \in Actors /\ Holds(y)
        BY <1>1, <4>1 DEF At, Actors, Refreshers, Holds
      <4>3. job[x].row.gen # job[y].new
        BY <1>2, <4>2 DEF TokensInv, InHand
      <4>4. /\ job'[y].stage = "persist" /\ job'[y].new \in live'
            /\ job'[y].row.gen = account'.gen
        BY <1>1, <1>4, <1>7, <4>1, <4>2, <4>3 DEF At
      <4> QED BY <4>4 DEF TokenUsable, At
    <3> QED BY <3>1, <3>2
  <2> QED BY <2>1, <2>2
<1> QED BY <1>5, <1>6, <1>9, <1>10 DEF Kept, TokensInv

\* The answer that is lost takes the spent generation with it, and nothing else.
LEMMA UnheardStep ==
  ASSUME TokensInv, NEW x \in Refreshers, Unheard(x)
  PROVE  TokensInv'
<1>1. /\ job[x].stage = "refresh" /\ job[x].row.gen \in live /\ Refused(x)
      /\ issued < MaxIssued /\ issued' = issued + 1
      /\ live' = (IF Rotates THEN live \ {job[x].row.gen} ELSE live) \cup {issued + 1}
      /\ account' = account /\ left' = left
  BY DEF Unheard, At, Issue
<1>2. /\ x \in Actors /\ issued \in Nat /\ MaxIssued \in Nat /\ live \subseteq 0..issued
      /\ account.gen \in Nat
  BY Constants DEF Actors, Refreshers, TokensInv, TypeOK, Account
<1>3. Ended(x) /\ HistoryTyped
  BY <1>1, <1>2, RefusedEnds
<1>4. PICK j \in Job : Let(x, j)
  BY <1>3 DEF Ended
<1>5. /\ job' = [job EXCEPT ![x] = j] /\ j.stage # "persist" /\ j.stage # "chosen"
      /\ j.row.gen \in {job[x].row.gen, account.gen, 0}
  BY <1>4 DEF Let
<1>6. /\ \A g \in live : g = job[x].row.gen \/ g \in live'
      /\ issued' \in Nat /\ issued <= issued' /\ account'.gen = account.gen
  BY <1>1, <1>2
<1>7. SnapshotsKnown' /\ InHand' /\ Newer'
  BY <1>2, <1>5, <1>6, OthersKeepTokens
<1>8. job' \in [Actors -> Job]
  BY <1>2, <1>5, JobUpdated DEF TokensInv
<1>9. account'.gen <= issued' /\ live' \subseteq 0..issued' /\ issued' \in 0..MaxIssued
  BY <1>1, IssuedTypes
<1>10. TypeOK' /\ RunsOut'
  BY <1>1, <1>3, <1>8, <1>9 DEF TokensInv, TypeOK, Ended, HistoryTyped
<1> QED BY <1>7, <1>10 DEF TokensInv

\* What the owner of the tokens does once they are stored.
LEMMA SucceededEnds ==
  ASSUME TokensInv, NEW x \in Refreshers \cup Logins, job[x].stage = "persist", Succeeded(x)
  PROVE  Ended(x) /\ job' = [job EXCEPT ![x] = Idle]
<1>0. x \in Actors /\ MaxAttempts \in Nat \ {0}
  BY Constants DEF Actors, Refreshers
<1>1. ASSUME x \in Workers, NEW run \in 0..MaxAttempts, run < MaxAttempts,
             NEW retry \in Window, EndSweep(x, run, retry)
      PROVE  Ended(x) /\ job' = [job EXCEPT ![x] = Idle]
  BY <1>1, EndSweepEnds DEF EndSweep, Become
<1>2. CASE x \in Workers /\ ~job[x].visit
  <2>1. EndSweep(x, 0, Null)
    BY <1>2 DEF Succeeded
  <2>2. 0 \in 0..MaxAttempts /\ 0 < MaxAttempts /\ Null \in Window
    BY <1>0 DEF Window
  <2> QED BY <1>1, <1>2, <2>1, <2>2
<1>3. CASE x \in Workers /\ job[x].visit
  <2>1. EndSweep(x, attempts[x], next[x])
    BY <1>3 DEF Succeeded
  <2>2. attempts[x] \in 0..MaxAttempts /\ attempts[x] < MaxAttempts /\ next[x] \in Window
    BY <1>3, RunLeft DEF TokensInv, TypeOK
  <2> QED BY <1>1, <1>3, <2>1, <2>2
<1>4. CASE x \notin Workers
  <2>1. Become(x, Idle) /\ UNCHANGED memory
    BY <1>4 DEF Succeeded
  <2>2. Ended(x)
    BY <1>0, <1>4, <2>1, ReleasedEnds
  <2> QED BY <2>1, <2>2 DEF Become
<1> QED BY <1>2, <1>3, <1>4

\* Stored, whatever the one who stored them hears of it.
LEMMA StoredKeeps ==
  ASSUME TokensInv, NEW x \in Refreshers \cup Logins, At(x, "persist"), Ended(x),
         UpdateIfUnchanged(x), HistoryTyped, UNCHANGED vendor
  PROVE  Kept
<1>1. /\ job[x].stage = "persist"
      /\ account' = [account EXCEPT !.gen = job[x].new]
      /\ left' = Life /\ issued' = issued /\ live' = live
  BY DEF At, UpdateIfUnchanged, vendor
<1>2. x \in Actors /\ job[x].new \in Nat /\ account \in Account
  BY JobRow DEF Actors, Refreshers
<1>3. account' \in Account /\ account'.gen = job[x].new
  BY <1>1, <1>2 DEF Account
<1>4. PICK j \in Job : /\ job' = [job EXCEPT ![x] = j] /\ j.stage \in {"idle", "bury"}
                       /\ j.row.gen \in {job[x].row.gen, 0}
  BY DEF Ended, Let
<1>5. /\ SnapshotsKnown' /\ InHand' /\ Newer'
      /\ account'.gen \in live' /\ account'.gen <= issued'
  BY <1>1, <1>2, <1>3, <1>4, StoredTokens
<1>6. job' \in [Actors -> Job]
  BY <1>2, <1>4, JobUpdated DEF TokensInv
<1>7. left' \in Window
  BY <1>1, Constants DEF Window
<1>8. TypeOK' /\ RunsOut'
  BY <1>1, <1>3, <1>5, <1>6, <1>7 DEF TokensInv, TypeOK, Ended, HistoryTyped
<1>9. TokenUsable'
  BY <1>5 DEF TokenUsable
<1> QED BY <1>5, <1>8, <1>9 DEF Kept, TokensInv

LEMMA PersistKeeps ==
  ASSUME TokensInv, NEW x \in Refreshers \cup Logins, Persist(x)
  PROVE  Kept
<1>1. /\ At(x, "persist") /\ UpdateIfUnchanged(x) /\ Succeeded(x) /\ Settles(x)
      /\ UNCHANGED vendor /\ job[x].stage = "persist"
  BY DEF Persist, At
<1>2. Ended(x) /\ HistoryTyped
  BY <1>1, SucceededEnds, HistoryStays DEF TokensInv
<1> QED BY <1>1, <1>2, StoredKeeps

LEMMA UnconfirmedKeeps ==
  ASSUME TokensInv, NEW x \in Refreshers \cup Logins, Unconfirmed(x)
  PROVE  Kept
<1>1. /\ At(x, "persist") /\ UpdateIfUnchanged(x) /\ GiveUp(x) /\ Told(0, Workers)
      /\ UNCHANGED vendor /\ job[x].stage = "persist" /\ x \in Actors
  BY DEF Unconfirmed, At, Actors, Refreshers
<1>2. Ended(x) /\ HistoryTyped
  BY <1>1, GiveUpEnds, HistoryStays DEF TokensInv
<1> QED BY <1>1, <1>2, StoredKeeps

LEMMA LoginKeeps ==
  ASSUME TokensInv, NEW l \in Logins, Login(l)
  PROVE  Kept
<1> DEFINE gen == issued + 1
           j == [Idle EXCEPT !.stage = "chosen", !.new = gen]
<1>1. /\ job[l].stage = "idle" /\ issued < MaxIssued /\ issued' = issued + 1
      /\ live' = live \cup {issued + 1} /\ job' = [job EXCEPT ![l] = j]
      /\ account' = account /\ left' = left /\ failed' = failed /\ crossed' = crossed
      /\ attempts' = attempts /\ next' = next /\ wake' = wake
  BY DEF Login, At, Become, memory, history
<1>2. /\ l \in Actors /\ l \notin Workers /\ issued \in Nat /\ MaxIssued \in Nat
      /\ account.gen \in Nat /\ live \subseteq 0..issued
  BY KindsApart, Constants DEF TokensInv, TypeOK, Account
<1>3. j \in Job /\ j.stage = "chosen" /\ j.row.gen = 0 /\ j.new = issued + 1
  <2>1. gen \in Nat /\ gen = issued + 1
    BY <1>2
  <2> HIDE DEF gen
  <2>2. j \in Job /\ j.stage = "chosen" /\ j.row.gen = 0 /\ j.new = gen
    BY <2>1, IdleJob DEF Job, Stage
  <2> QED BY <2>1, <2>2
<1> HIDE DEF j
<1>4. SnapshotsKnown' /\ InHand' /\ Newer'
  BY <1>1, <1>2, <1>3, HandedTokens
<1>5. RunsOut'
  BY <1>1, <1>2, <1>3, RunsStay
<1>6. job' \in [Actors -> Job]
  BY <1>1, <1>2, <1>3, JobUpdated DEF TokensInv
<1>7. account'.gen <= issued' /\ live' \subseteq 0..issued' /\ issued' \in 0..MaxIssued
  BY <1>1, IssuedTypes
<1>8. TypeOK'
  BY <1>1, <1>6, <1>7 DEF TokensInv, TypeOK
<1>9. TokenUsable => TokenUsable'
  BY <1>1, <1>2, <1>3, UsableStays
<1> QED BY <1>4, <1>5, <1>8, <1>9 DEF Kept, TokensInv

LEMMA ElapseWindow ==
  ASSUME NEW w \in Window
  PROVE  Elapse(w) \in Window
  BY DEF Elapse, Window, Null

LEMMA TickKeeps ==
  ASSUME TokensInv, Tick
  PROVE  Kept
<1>1. /\ left' = Elapse(left) /\ account' = [account EXCEPT !.retry = Elapse(account.retry)]
      /\ next' = [w \in Workers |-> Elapse(next[w])]
      /\ wake' = [w \in Workers |-> Elapse(wake[w])]
      /\ job' = [x \in Actors |-> [job[x] EXCEPT !.row.retry = Elapse(job[x].row.retry)]]
      /\ live' = live /\ issued' = issued /\ attempts' = attempts
      /\ failed' = failed /\ crossed' = crossed
  BY DEF Tick, vendor, history
<1>2. /\ account' \in Account /\ account'.gen = account.gen
  <2>1. account \in Account /\ Elapse(account.retry) \in Window
    BY ElapseWindow DEF TokensInv, TypeOK, Account
  <2> QED BY <1>1, <2>1 DEF Account
<1>3. ASSUME NEW x \in Actors
      PROVE  /\ job'[x] \in Job /\ job'[x].stage = job[x].stage /\ job'[x].new = job[x].new
             /\ job'[x].visit = job[x].visit /\ job'[x].row.gen = job[x].row.gen
  <2>1. job[x] \in Job /\ job[x].row \in Account
    BY JobRow
  <2>2. Elapse(job[x].row.retry) \in Window
    BY <2>1, ElapseWindow DEF Account
  <2> DEFINE row == [job[x].row EXCEPT !.retry = Elapse(job[x].row.retry)]
             j   == [job[x] EXCEPT !.row = row]
  <2>3. row \in Account /\ row.gen = job[x].row.gen
    BY <2>1, <2>2 DEF Account
  <2>4. job'[x] = j
    BY <1>1
  <2> HIDE DEF row
  <2>5. /\ j \in Job /\ j.stage = job[x].stage /\ j.new = job[x].new
        /\ j.visit = job[x].visit /\ j.row = row
    BY <2>1, <2>3 DEF Job
  <2> HIDE DEF j
  <2> QED BY <2>3, <2>4, <2>5
<1>4. left' \in Window /\ next' \in [Workers -> Window] /\ wake' \in [Workers -> Nat]
  BY <1>1, ElapseWindow DEF TokensInv, TypeOK, Elapse
<1>5. job' \in [Actors -> Job]
  BY <1>1, <1>3
<1>6. TypeOK'
  BY <1>1, <1>2, <1>4, <1>5 DEF TokensInv, TypeOK
<1>7. SnapshotsKnown'
  BY <1>1, <1>3 DEF TokensInv, SnapshotsKnown
<1>8. \A x \in Actors : Holds(x)' => Holds(x)
  BY <1>3 DEF Holds, At
<1>9. InHand'
  <2>1. ASSUME NEW x \in Actors, Holds(x)'
        PROVE  /\ job'[x].new \in live' \ {0} /\ account'.gen # job'[x].new
               /\ \A y \in Actors : job'[y].row.gen # job'[x].new
               /\ \A y \in Actors \ {x} : Holds(y)' => job'[y].new # job'[x].new
    <3>1. /\ job[x].new \in live \ {0} /\ account.gen # job[x].new
          /\ \A y \in Actors : job[y].row.gen # job[x].new
          /\ \A y \in Actors \ {x} : Holds(y) => job[y].new # job[x].new
      BY <1>8, <2>1 DEF TokensInv, InHand
    <3>2. \A y \in Actors : job'[y].row.gen # job'[x].new
      BY <1>3, <3>1
    <3>3. \A y \in Actors \ {x} : Holds(y)' => job'[y].new # job'[x].new
      BY <1>3, <1>8, <3>1
    <3> QED BY <1>1, <1>2, <1>3, <3>1, <3>2, <3>3
  <2> QED BY <2>1 DEF InHand
<1>10. Newer'
  BY <1>3 DEF TokensInv, Newer, At, Actors, Refreshers
<1>11. RunsOut'
  BY <1>1, <1>3 DEF TokensInv, RunsOut, Actors
<1>12. TokenUsable => TokenUsable'
  BY <1>1, <1>2, <1>3 DEF TokenUsable, At, Actors, Refreshers
<1> QED BY <1>6, <1>7, <1>9, <1>10, <1>11, <1>12 DEF Kept, TokensInv

\* A replica that starts again forgets its run, its timers and what it held.
LEMMA RestartStep ==
  ASSUME TokensInv, NEW w \in Workers, Restart(w)
  PROVE  TokensInv' /\ (job[w].stage # "persist" => (TokenUsable => TokenUsable'))
<1>1. /\ attempts' = [attempts EXCEPT ![w] = 0] /\ next' = [next EXCEPT ![w] = Null]
      /\ wake' = [wake EXCEPT ![w] = Interval] /\ job' = [job EXCEPT ![w] = Idle]
      /\ UNCHANGED <<account, left>> /\ UNCHANGED vendor /\ Told(failed, {})
  BY DEF Restart, Become
<1>2. w \in Actors /\ MaxAttempts \in Nat \ {0} /\ Interval \in Nat /\ Null \in Window
  BY KindsApart, Constants DEF Window
<1>3. Let(w, Idle)
  BY <1>1, IdleJob DEF Let
<1>4. /\ attempts' \in [Workers -> 0..MaxAttempts] /\ attempts'[w] = 0
      /\ \A v \in Workers \ {w} : attempts'[v] = attempts[v]
      /\ next' \in [Workers -> Window] /\ wake' \in [Workers -> Nat]
      /\ HistoryTyped
  BY <1>1, <1>2, HistoryStays DEF TokensInv, TypeOK
<1>5. \A v \in Workers \ {w} : job'[v] = job[v]
  BY <1>1, <1>2, JobUpdated, IdleJob, KindsApart DEF TokensInv
<1>6. RunsOut'
  BY <1>2, <1>4, <1>5 DEF TokensInv, RunsOut
<1>7. Ended(w)
  BY <1>3, <1>4, <1>6, IdleJob DEF Ended
<1> QED BY <1>1, <1>2, <1>4, <1>7, Unwritten, EndedStep

---------------------------------------------------------------------------
(* The theorems.                                                           *)

LEMMA TokensInit ==
  ASSUME Init
  PROVE  TokensInv
<1>1. /\ account = Blank /\ left = Life /\ live = {0} /\ issued = 0 /\ failed = 0
      /\ crossed = [w \in Workers |-> FALSE]
      /\ job = [x \in Actors |-> Idle] /\ attempts = [w \in Workers |-> 0]
      /\ next = [w \in Workers |-> Null] /\ wake = [w \in Workers |-> Interval]
  BY DEF Init
<1>2. TypeOK
  BY <1>1, IdleJob, Constants DEF TypeOK, Window
<1>3. \A x \in Actors : job[x] = Idle
  BY <1>1
<1>4. SnapshotsKnown /\ InHand /\ Newer
  BY <1>1, <1>3, IdleJob DEF SnapshotsKnown, InHand, Newer, Holds, At, Actors, Refreshers
<1>5. RunsOut
  BY <1>1, Constants DEF RunsOut
<1> QED BY <1>2, <1>4, <1>5 DEF TokensInv

\* What may lose the tokens.
Loses ==
  \/ \E x \in Refreshers : Unheard(x) \/ (Dropped(x) /\ job[x].row.gen = account.gen)
  \/ \E w \in Workers : At(w, "persist") /\ Restart(w)

\* What everybody does with tokens in hand.
LEMMA LandKeeps ==
  ASSUME TokensInv, NEW x \in Refreshers \cup Logins, Land(x)
  PROVE  TokensInv' /\ (TokenUsable /\ ~TokenUsable' => Loses)
<1>1. CASE Persist(x) \/ Conflict(x) \/ Unconfirmed(x)
  BY <1>1, PersistKeeps, ConflictKeeps, UnconfirmedKeeps DEF Kept
<1>2. CASE Dropped(x)
  BY <1>2, DroppedStep DEF Loses
<1> QED BY <1>1, <1>2 DEF Land

\* Everybody who refreshes does it in the same ways.
LEMMA RefreshKeeps ==
  ASSUME TokensInv, NEW x \in Refreshers, Refresh(x)
  PROVE  TokensInv' /\ (TokenUsable /\ ~TokenUsable' => Loses)
<1>1. CASE Load(x)
  BY <1>1, LoadKeeps DEF Kept
<1>2. CASE Granted(x)
  BY <1>2, GrantedKeeps DEF Kept
<1>3. CASE Unheard(x)
  BY <1>3, UnheardStep DEF Loses
<1>4. CASE Unread(x) \/ Ungranted(x)
  BY <1>4, UngrantedKeeps DEF Kept
<1>5. CASE Land(x)
  BY <1>5, LandKeeps
<1> QED BY <1>1, <1>2, <1>3, <1>4, <1>5 DEF Refresh

LEMMA TokensStep ==
  ASSUME TokensInv, [Next]_vars
  PROVE  TokensInv' /\ (TokenUsable /\ ~TokenUsable' => Loses)
<1>1. CASE \E w \in Workers : Work(w) \/ Restart(w)
  <2>1. PICK w \in Workers : Work(w) \/ Restart(w)
    BY <1>1
  <2>2. CASE Sweep(w)
    BY <2>2, SweepKeeps DEF Kept
  <2>3. CASE PassOver(w) \/ Unlisted(w)
    BY <2>3, PassOverKeeps DEF Kept
  <2>4. CASE Refresh(w)
    BY <2>4, RefreshKeeps DEF Refreshers
  <2>5. CASE BuryLoad(w)
    BY <2>5, BuryLoadKeeps DEF Kept
  <2>6. CASE BuryWrite(w)
    BY <2>6, BuryWriteKeeps DEF Kept
  <2>7. CASE BuryFails(w)
    BY <2>7, BuryFailsKeeps DEF Kept
  <2>8. CASE Restart(w)
    BY <2>8, RestartStep DEF Loses, At
  <2> QED BY <2>1, <2>2, <2>3, <2>4, <2>5, <2>6, <2>7, <2>8 DEF Work
<1>2. CASE \E f \in Forcers : ForceRefresh(f) \/ Refresh(f)
  BY <1>2, ForceKeeps, RefreshKeeps DEF Kept, Refreshers
<1>3. CASE \E l \in Logins : Login(l) \/ Load(l) \/ Unread(l) \/ Land(l)
  BY <1>3, LoginKeeps, LoadKeeps, UngrantedKeeps, LandKeeps DEF Kept
<1>4. CASE \E o \in Operators : PatchLoad(o) \/ \E s \in {"active", "disabled"} : PatchWrite(o, s)
  BY <1>4, PatchLoadKeeps, PatchWriteKeeps DEF Kept
<1>5. CASE Tick
  BY <1>5, TickKeeps DEF Kept
<1>6. CASE UNCHANGED vars
  BY <1>6 DEF vars, vendor, TokensInv, TypeOK, SnapshotsKnown, InHand, Newer, RunsOut, Holds, At,
              TokenUsable
<1> QED BY <1>1, <1>2, <1>3, <1>4, <1>5, <1>6 DEF Next

\* The tokens in hand stay apart, accepted and newer than the ones they replace, and
\* no run is used up but on the way to a dead letter, whatever the actors, the
\* schedule and the vendor (oauth_flow_refresh.go, oauth_refresh_worker.go).
THEOREM TokensStaySound == Spec => []TokensInv
<1>1. Init => TokensInv
  BY TokensInit
<1>2. TokensInv /\ [Next]_vars => TokensInv'
  BY TokensStep
<1> QED BY <1>1, <1>2, PTL DEF Spec

\* No refresh stores tokens over ones the vendor issued later, and a usable token is
\* lost only with an answer nobody heard, a process that stopped holding it, or a store
\* that failed the hand that held its only successor
\* (UpdateIfUnchanged, repository/postgres/endpoint.go:159-161).
THEOREM TokensAreKept == Spec => TokensKept
<1>1. TokensInv /\ [Next]_vars
        => [(\E x \in Refreshers : Persist(x) \/ Unconfirmed(x))
              => account'.gen > account.gen]_vars
  <2> SUFFICES ASSUME TokensInv, NEW x \in Refreshers, Persist(x) \/ Unconfirmed(x)
               PROVE  account'.gen > account.gen
    OBVIOUS
  <2>1. /\ At(x, "persist") /\ account.gen = job[x].row.gen
        /\ account' = [account EXCEPT !.gen = job[x].new]
    BY DEF Persist, Unconfirmed, UpdateIfUnchanged
  <2>2. job[x].new > job[x].row.gen
    BY <2>1 DEF TokensInv, Newer
  <2>3. account \in Account
    BY DEF TokensInv, TypeOK
  <2> QED BY <2>1, <2>2, <2>3 DEF Account
<1>2. TokensInv /\ [Next]_vars
        => [(TokenUsable /\ ~TokenUsable')
            => \/ \E x \in Refreshers :
                    Unheard(x) \/ (Dropped(x) /\ job[x].row.gen = account.gen)
               \/ \E w \in Workers : At(w, "persist") /\ Restart(w)]_vars
  BY TokensStep DEF Loses
<1> QED BY <1>1, <1>2, TokensStaySound, PTL DEF Spec, TokensKept, NeverOlder, TokenNotLost

---------------------------------------------------------------------------
(* The dead-letter ladder, of one worker and one operator.                 *)

OneOfEach ==
  /\ \A v \in Workers, w \in Workers : v = w
  /\ \A o \in Operators, q \in Operators : o = q

\* RefreshRetryBase doubled per round, up to RefreshRetryCeiling.
Widening == \A i \in 1..Len(Ladder), k \in 1..Len(Ladder) : i <= k => Ladder[i] <= Ladder[k]

\* Somebody moves on, neither to bury nor to patch, and the row keeps its rung.
MovesOn(x) ==
  /\ \E j \in Job : job' = [job EXCEPT ![x] = j] /\ j.stage \notin {"buried", "patch"}
  /\ account'.rounds = account.rounds

LEMMA EndedMovesOn ==
  ASSUME NEW x \in Actors, Ended(x), account'.rounds = account.rounds
  PROVE  MovesOn(x)
<1>1. PICK j \in Job : Let(x, j)
  BY DEF Ended
<1>2. job' = [job EXCEPT ![x] = j] /\ j.stage \notin {"buried", "patch"}
  BY <1>1 DEF Let
<1> QED BY <1>2 DEF MovesOn

LEMMA JobMovesOn ==
  ASSUME NEW x \in Actors, NEW j \in Job, job' = [job EXCEPT ![x] = j],
         j.stage \notin {"buried", "patch"}, account'.rounds = account.rounds
  PROVE  MovesOn(x)
  BY DEF MovesOn

\* Every step of a refresh leaves the rung alone.
LEMMA RefreshMovesOn ==
  ASSUME TokensInv, NEW x \in Refreshers \cup Logins, Refresh(x)
  PROVE  MovesOn(x)
<1>0. x \in Actors /\ job[x] \in Job /\ account \in Account
  BY JobRow DEF Actors, Refreshers
<1>1. CASE Load(x)
  <2> DEFINE stage == IF x \in Logins THEN "persist" ELSE "refresh"
             j == [job[x] EXCEPT !.row = account, !.stage = stage]
  <2>1. stage \in {"persist", "refresh"}
    OBVIOUS
  <2>2. job' = [job EXCEPT ![x] = j] /\ account' = account
    BY <1>1 DEF Load, Become
  <2> HIDE DEF stage
  <2>3. j \in Job /\ j.stage = stage
    BY <1>0, <2>1 DEF Job, Stage
  <2> HIDE DEF j
  <2> QED BY <1>0, <2>1, <2>2, <2>3, JobMovesOn
<1>2. CASE Granted(x)
  <2> DEFINE gen == issued + 1
             j == [job[x] EXCEPT !.stage = "persist", !.new = gen]
  <2>1. job' = [job EXCEPT ![x] = j] /\ account' = account
    BY <1>2 DEF Granted, Become, Issue
  <2>2. gen \in Nat
    BY DEF TokensInv, TypeOK
  <2> HIDE DEF gen
  <2>3. j \in Job /\ j.stage = "persist"
    BY <1>0, <2>2 DEF Job, Stage
  <2> HIDE DEF j
  <2> QED BY <1>0, <2>1, <2>3, JobMovesOn
<1>3. CASE Unread(x) \/ Unheard(x) \/ Ungranted(x) \/ Conflict(x) \/ Dropped(x)
  <2>1. /\ job[x].stage \in {"chosen", "refresh", "persist"} /\ Refused(x)
        /\ account' = account
    BY <1>3 DEF Unread, Unheard, Ungranted, Conflict, Dropped, At
  <2> QED BY <1>0, <2>1, RefusedEnds, EndedMovesOn
<1>4. CASE Persist(x) \/ Unconfirmed(x)
  <2>1. /\ job[x].stage = "persist" /\ account' = [account EXCEPT !.gen = job[x].new]
        /\ Succeeded(x) \/ GiveUp(x)
    BY <1>4 DEF Persist, Unconfirmed, At, UpdateIfUnchanged
  <2>2. account'.rounds = account.rounds
    BY <1>0, <2>1 DEF Account
  <2>3. Ended(x)
    BY <1>0, <2>1, SucceededEnds, GiveUpEnds
  <2> QED BY <1>0, <2>2, <2>3, EndedMovesOn
<1> QED BY <1>1, <1>2, <1>3, <1>4 DEF Refresh, Land

LEMMA RungsMoveOn ==
  ASSUME TokensInv, RungsKept, NEW x \in Actors, MovesOn(x)
  PROVE  RungsKept'
<1>1. PICK j \in Job : job' = [job EXCEPT ![x] = j] /\ j.stage \notin {"buried", "patch"}
  BY DEF MovesOn
<1>2. job'[x] = j /\ \A y \in Actors \ {x} : job'[y] = job[y]
  BY <1>1, JobUpdated DEF TokensInv
<1>3. account'.rounds = account.rounds
  BY DEF MovesOn
<1>4. ASSUME NEW w \in Workers, job'[w].stage = "buried"
      PROVE  account'.rounds <= job'[w].row.rounds
  <2>1. w # x
    BY <1>1, <1>2, <1>4
  <2>2. job'[w] = job[w]
    BY <1>2, <2>1 DEF Actors
  <2> QED BY <1>3, <1>4, <2>2 DEF RungsKept, At
<1>5. ASSUME NEW o \in Operators, job'[o].stage = "patch"
      PROVE  job'[o].row.rounds <= account'.rounds
  <2>1. o # x
    BY <1>1, <1>2, <1>5
  <2>2. job'[o] = job[o]
    BY <1>2, <2>1 DEF Actors
  <2> QED BY <1>3, <1>5, <2>2 DEF RungsKept, At
<1> QED BY <1>4, <1>5 DEF RungsKept, At

\* Loading a row shows the stored rung.
LEMMA RungsLoaded ==
  ASSUME TokensInv, RungsKept, NEW x \in Actors, NEW j \in Job, job' = [job EXCEPT ![x] = j],
         j.row.rounds = account.rounds, account' = account
  PROVE  RungsKept'
<1>1. job'[x] = j /\ \A y \in Actors \ {x} : job'[y] = job[y]
  BY JobUpdated DEF TokensInv
<1>2. account.rounds \in Nat
  BY Constants DEF TokensInv, TypeOK, Account
<1>3. \A y \in Actors : job'[y].row.rounds = account.rounds \/ job'[y] = job[y]
  BY <1>1
<1> QED BY <1>2, <1>3 DEF RungsKept, At, Actors

\* A burial writes the rung above the stored one, or a higher one.
LEMMA RungsBuried ==
  ASSUME TokensInv, RungsKept, OneOfEach, NEW w \in Workers, BuryWrite(w)
  PROVE  /\ RungsKept'
         /\ \E i \in 1..Len(Ladder) :
              /\ account'.retry = Ladder[i]
              /\ i >= IF account.rounds < Len(Ladder) THEN account.rounds + 1 ELSE Len(Ladder)
<1> DEFINE row == ScheduleRefreshRetry(MarkUnhealthy(job[w].row))
           had == job[w].row.rounds
<1>1. /\ job[w].stage = "buried" /\ UpdateEndpoint(row)
      /\ IF job[w].visit THEN EndSweep(w, attempts[w], next[w]) ELSE EndSweep(w, 0, Null)
  BY DEF BuryWrite, Buried, At
<1>2. job' = [job EXCEPT ![w] = Idle]
  BY <1>1 DEF EndSweep, Become
<1>3. w \in Actors /\ job[w].row \in Account /\ account \in Account
  BY KindsApart, JobRow
<1>4. had \in 0..Len(Ladder) /\ account.rounds \in 0..Len(Ladder) /\ Len(Ladder) \in Nat \ {0}
  BY <1>3, Constants DEF Account
<1>5. MarkUnhealthy(job[w].row) \in Account /\ MarkUnhealthy(job[w].row).rounds = had
  BY <1>3, Marked
<1>6. /\ row \in Account /\ row.rounds = (IF had < Len(Ladder) THEN had + 1 ELSE had)
      /\ row.rounds \in 1..Len(Ladder) /\ row.retry = Ladder[row.rounds]
  BY <1>5, Scheduled
<1> HIDE DEF row
<1>7. account'.rounds = row.rounds /\ account'.retry = row.retry
  BY <1>1, <1>6, EndpointUpdated
<1>8. account.rounds <= had
  BY <1>1 DEF RungsKept, At
<1> HIDE DEF had
<1>9. /\ row.rounds >= account.rounds
      /\ row.rounds >= IF account.rounds < Len(Ladder) THEN account.rounds + 1 ELSE Len(Ladder)
  BY <1>4, <1>6, <1>8
<1>10. job'[w] = Idle /\ \A y \in Actors \ {w} : job'[y] = job[y]
  BY <1>2, <1>3, IdleJob, JobUpdated DEF TokensInv
<1>11. \A v \in Workers : job'[v].stage # "buried"
  BY <1>10, IdleJob DEF OneOfEach
<1>12. ASSUME NEW o \in Operators, job'[o].stage = "patch"
       PROVE  job'[o].row.rounds <= account'.rounds
  <2>1. o # w /\ o \in Actors
    BY KindsApart
  <2>2. job'[o] = job[o]
    BY <1>10, <2>1
  <2>3. job[o].row.rounds <= account.rounds /\ job[o].row.rounds \in Nat
    BY <1>12, <2>1, <2>2, JobRow, Constants DEF RungsKept, At, Account
  <2> QED BY <1>4, <1>6, <1>7, <1>9, <2>2, <2>3
<1>13. RungsKept'
  BY <1>11, <1>12 DEF RungsKept, At
<1> QED BY <1>6, <1>7, <1>9, <1>13

\* A patch may bring back a lower rung, never a higher one.
LEMMA RungsPatched ==
  ASSUME TokensInv, RungsKept, OneOfEach, NEW o \in Operators,
         NEW s \in {"active", "disabled"}, PatchWrite(o, s)
  PROVE  RungsKept'
<1> DEFINE row == [job[o].row EXCEPT !.status = s]
<1>1. job[o].stage = "patch" /\ UpdateEndpoint(row) /\ job' = [job EXCEPT ![o] = Idle]
  BY DEF PatchWrite, At, Become
<1>2. o \in Actors /\ job[o].row \in Account /\ account \in Account
  BY KindsApart, JobRow
<1>3. row \in Account /\ row.rounds = job[o].row.rounds
  BY <1>2 DEF Account, Status
<1> HIDE DEF row
<1>4. account'.rounds = job[o].row.rounds
  BY <1>1, <1>3, EndpointUpdated
<1>5. job'[o] = Idle /\ \A y \in Actors \ {o} : job'[y] = job[y]
  BY <1>1, <1>2, IdleJob, JobUpdated DEF TokensInv
<1>6. job[o].row.rounds <= account.rounds
  BY <1>1 DEF RungsKept, At
<1>7. \A q \in Operators : job'[q].stage # "patch"
  BY <1>5, IdleJob DEF OneOfEach
<1>8. ASSUME NEW w \in Workers, job'[w].stage = "buried"
      PROVE  account'.rounds <= job'[w].row.rounds
  <2>1. o # w /\ w \in Actors
    BY KindsApart
  <2>2. job'[w] = job[w]
    BY <1>5, <2>1
  <2>3. account.rounds <= job[w].row.rounds
    BY <1>8, <2>2 DEF RungsKept, At
  <2>4. job[w].row.rounds \in Nat /\ account.rounds \in Nat /\ job[o].row.rounds \in Nat
    BY <1>2, <2>1, JobRow, Constants DEF Account
  <2> QED BY <1>4, <1>6, <2>2, <2>3, <2>4
<1> QED BY <1>7, <1>8 DEF RungsKept, At

LEMMA RungsTick ==
  ASSUME TokensInv, RungsKept, Tick
  PROVE  RungsKept'
<1>1. /\ account' = [account EXCEPT !.retry = Elapse(account.retry)]
      /\ job' = [x \in Actors |-> [job[x] EXCEPT !.row.retry = Elapse(job[x].row.retry)]]
  BY DEF Tick
<1>2. account'.rounds = account.rounds
  BY <1>1 DEF TokensInv, TypeOK, Account
<1>3. ASSUME NEW x \in Actors
      PROVE  job'[x].stage = job[x].stage /\ job'[x].row.rounds = job[x].row.rounds
  <2>1. job[x] \in Job /\ job[x].row \in Account
    BY JobRow
  <2> DEFINE row == [job[x].row EXCEPT !.retry = Elapse(job[x].row.retry)]
             j   == [job[x] EXCEPT !.row = row]
  <2>2. row.rounds = job[x].row.rounds
    BY <2>1 DEF Account
  <2>3. job'[x] = j
    BY <1>1
  <2> HIDE DEF row
  <2>4. j.stage = job[x].stage /\ j.row = row
    BY <2>1 DEF Job
  <2> HIDE DEF j
  <2> QED BY <2>2, <2>3, <2>4
<1> QED BY <1>2, <1>3 DEF RungsKept, At, Actors

\* The other steps of the workers, the panel and the operators.
LEMMA OthersMoveOn ==
  ASSUME TokensInv, NEW x \in Actors,
         \/ x \in Workers /\ (Sweep(x) \/ PassOver(x) \/ Unlisted(x) \/ BuryFails(x) \/ Restart(x))
         \/ x \in Forcers /\ ForceRefresh(x)
         \/ x \in Logins /\ Login(x)
  PROVE  MovesOn(x)
<1>1. CASE x \in Workers /\ Sweep(x)
  <2> DEFINE j == [Idle EXCEPT !.stage = "chosen", !.visit = Visits]
  <2>1. job' = [job EXCEPT ![x] = j] /\ account' = account
    BY <1>1 DEF Sweep, Become
  <2>2. Visits \in BOOLEAN
    BY DEF Visits
  <2>3. j \in Job /\ j.stage = "chosen"
    BY <2>2, IdleJob DEF Job, Stage
  <2> HIDE DEF j
  <2> QED BY <2>1, <2>3, JobMovesOn
<1>2. CASE x \in Workers /\ (PassOver(x) \/ Unlisted(x) \/ BuryFails(x) \/ Restart(x))
  <2>1. job' = [job EXCEPT ![x] = Idle] /\ account' = account
    BY <1>2 DEF PassOver, Unlisted, BuryFails, Buried, EndSweep, Restart, Become
  <2> QED BY <2>1, IdleJob, JobMovesOn
<1>3. CASE x \in Forcers /\ ForceRefresh(x)
  <2> DEFINE j == [Idle EXCEPT !.stage = "chosen"]
  <2>1. job' = [job EXCEPT ![x] = j] /\ account' = account
    BY <1>3 DEF ForceRefresh, Become
  <2>2. j \in Job /\ j.stage = "chosen"
    BY IdleJob DEF Job, Stage
  <2> HIDE DEF j
  <2> QED BY <2>1, <2>2, JobMovesOn
<1>4. CASE x \in Logins /\ Login(x)
  <2> DEFINE gen == issued + 1
             j == [Idle EXCEPT !.stage = "chosen", !.new = gen]
  <2>1. job' = [job EXCEPT ![x] = j] /\ account' = account
    BY <1>4 DEF Login, Become
  <2>2. gen \in Nat
    BY DEF TokensInv, TypeOK
  <2> HIDE DEF gen
  <2>3. j \in Job /\ j.stage = "chosen"
    BY <2>2, IdleJob DEF Job, Stage
  <2> HIDE DEF j
  <2> QED BY <2>1, <2>3, JobMovesOn
<1> QED BY <1>1, <1>2, <1>3, <1>4

LEMMA RungsStep ==
  ASSUME TokensInv, RungsKept, OneOfEach, [Next]_vars
  PROVE  RungsKept'
<1>1. CASE \E w \in Workers : Work(w) \/ Restart(w)
  <2>1. PICK w \in Workers : Work(w) \/ Restart(w)
    BY <1>1
  <2>2. w \in Actors /\ w \in Refreshers
    BY KindsApart
  <2>3. CASE Sweep(w) \/ PassOver(w) \/ Unlisted(w) \/ BuryFails(w) \/ Restart(w)
    BY <2>2, <2>3, OthersMoveOn, RungsMoveOn
  <2>4. CASE Refresh(w)
    BY <2>2, <2>4, RefreshMovesOn, RungsMoveOn
  <2>5. CASE BuryLoad(w)
    <3> DEFINE j == [job[w] EXCEPT !.stage = "buried", !.row = account]
    <3>1. job' = [job EXCEPT ![w] = j] /\ account' = account
      BY <2>5 DEF BuryLoad, Become
    <3>2. j \in Job /\ j.row.rounds = account.rounds
      BY <2>2, JobRow DEF Job, Stage
    <3> HIDE DEF j
    <3> QED BY <2>2, <3>1, <3>2, RungsLoaded
  <2>6. CASE BuryWrite(w)
    BY <2>6, RungsBuried
  <2> QED BY <2>1, <2>3, <2>4, <2>5, <2>6 DEF Work
<1>2. CASE \E f \in Forcers : ForceRefresh(f) \/ Refresh(f)
  BY <1>2, KindsApart, OthersMoveOn, RefreshMovesOn, RungsMoveOn
<1>3. CASE \E l \in Logins : Login(l) \/ Load(l) \/ Unread(l) \/ Land(l)
  <2>1. PICK l \in Logins : Login(l) \/ Load(l) \/ Unread(l) \/ Land(l)
    BY <1>3
  <2>2. l \in Actors
    BY KindsApart
  <2>3. CASE Login(l)
    BY <2>2, <2>3, OthersMoveOn, RungsMoveOn
  <2>4. CASE Load(l) \/ Unread(l) \/ Land(l)
    <3>1. Refresh(l)
      BY <2>4 DEF Refresh
    <3> QED BY <2>2, <3>1, RefreshMovesOn, RungsMoveOn
  <2> QED BY <2>1, <2>3, <2>4
<1>4. CASE \E o \in Operators : PatchLoad(o) \/ \E s \in {"active", "disabled"} : PatchWrite(o, s)
  <2>1. PICK o \in Operators : PatchLoad(o) \/ \E s \in {"active", "disabled"} : PatchWrite(o, s)
    BY <1>4
  <2>2. CASE PatchLoad(o)
    <3> DEFINE j == [Idle EXCEPT !.stage = "patch", !.row = account]
    <3>1. job' = [job EXCEPT ![o] = j] /\ account' = account
      BY <2>2 DEF PatchLoad, Become
    <3>2. o \in Actors /\ j \in Job /\ j.row.rounds = account.rounds
      BY KindsApart, JobRow, IdleJob DEF Job, Stage
    <3> HIDE DEF j
    <3> QED BY <3>1, <3>2, RungsLoaded
  <2> QED BY <2>1, <2>2, RungsPatched
<1>5. CASE Tick
  BY <1>5, RungsTick
<1>6. CASE UNCHANGED vars
  BY <1>6 DEF vars, RungsKept, At
<1> QED BY <1>1, <1>2, <1>3, <1>4, <1>5, <1>6 DEF Next

\* A burial waits at least the rung above the stored one, whatever restarts, patches
\* and attempts came between, of one worker and one operator
\* (ScheduleRefreshRetry, domain/upstream_endpoint_oauth_retry.go:51-63).
THEOREM LadderOnlyWidens ==
  ASSUME OneOfEach, Widening
  PROVE  Spec => LadderWidens
<1>1. Init => RungsKept
  <2> SUFFICES ASSUME Init PROVE RungsKept
    OBVIOUS
  <2>1. \A x \in Actors : job[x].stage = "idle"
    BY IdleJob DEF Init
  <2> QED BY <2>1 DEF RungsKept, At, Actors
<1>2. TokensInv /\ RungsKept /\ [Next]_vars => RungsKept'
  BY RungsStep
<1>3. TokensInv /\ RungsKept /\ [Next]_vars
        => [\A w \in Workers :
              BuryWrite(w) =>
                account'.retry >= Ladder[IF account.rounds < Len(Ladder) THEN account.rounds + 1
                                         ELSE Len(Ladder)]]_vars
  <2> SUFFICES ASSUME TokensInv, RungsKept, NEW w \in Workers, BuryWrite(w)
               PROVE  account'.retry >= Ladder[IF account.rounds < Len(Ladder)
                                               THEN account.rounds + 1 ELSE Len(Ladder)]
    OBVIOUS
  <2> DEFINE rung == IF account.rounds < Len(Ladder) THEN account.rounds + 1 ELSE Len(Ladder)
  <2>1. PICK i \in 1..Len(Ladder) : account'.retry = Ladder[i] /\ i >= rung
    BY RungsBuried
  <2>2. rung \in 1..Len(Ladder)
    BY Constants DEF TokensInv, TypeOK, Account
  <2> HIDE DEF rung
  <2>3. Ladder[rung] <= Ladder[i] /\ Ladder[rung] \in Nat /\ Ladder[i] \in Nat
    BY <2>1, <2>2, Constants DEF Widening
  <2>4. account'.retry >= Ladder[rung]
    BY <2>1, <2>3
  <2> QED BY <2>4 DEF rung
<1> QED BY <1>1, <1>2, <1>3, TokensStaySound, PTL DEF Spec, LadderWidens

---------------------------------------------------------------------------
(* The dead letter.                                                        *)

\* What the history says of every run.
Accounted == \A w \in Workers : attempts'[w] <= failed' \/ crossed'[w]

\* One actor moves on: the runs stay accounted for, and its own turns to a burial only
\* when it is used up.
LEMMA EarnedStep ==
  ASSUME TokensInv, RunsEarned, NEW x \in Actors, NEW j \in Job,
         job' = [job EXCEPT ![x] = j], Accounted,
         \A w \in Workers \ {x} : attempts'[w] = attempts[w],
         x \in Workers /\ j.stage \in {"bury", "buried"} /\ ~j.visit
           => attempts'[x] >= MaxAttempts
  PROVE  RunsEarned'
<1>1. job'[x] = j /\ \A y \in Actors \ {x} : job'[y] = job[y]
  BY JobUpdated DEF TokensInv
<1>2. ASSUME NEW w \in Workers, job'[w].stage \in {"bury", "buried"}, ~job'[w].visit
      PROVE  attempts'[w] >= MaxAttempts
  <2>1. CASE w = x
    BY <1>1, <1>2, <2>1
  <2>2. CASE w # x
    <3>1. job'[w] = job[w] /\ attempts'[w] = attempts[w]
      BY <1>1, <2>2 DEF Actors
    <3> QED BY <1>2, <3>1 DEF RunsEarned
  <2> QED BY <2>1, <2>2
<1> QED BY <1>2 DEF RunsEarned, Accounted

\* A run longer than the refusals that are told is one that was crossed before, or is now.
LEMMA ToldAccounted ==
  ASSUME RunsEarned, NEW refusals \in Nat, NEW over, Told(refusals, over),
         attempts' \in [Workers -> Nat],
         \A w \in Workers : \/ attempts'[w] <= refusals
                            \/ w \in over
                            \/ ~(attempts[w] <= failed)
  PROVE  Accounted
<1> SUFFICES ASSUME NEW w \in Workers, ~(attempts'[w] <= failed')
             PROVE  crossed'[w]
  BY DEF Accounted
<1>1. /\ failed' = refusals
      /\ crossed' = [v \in Workers |-> attempts'[v] > 0 /\ (crossed[v] \/ v \in over)]
  BY DEF Told
<1>2. attempts'[w] > 0
  <2>1. attempts'[w] \in Nat
    OBVIOUS
  <2> QED BY <1>1, <2>1
<1>3. w \in over \/ ~(attempts[w] <= failed)
  BY <1>1
<1>4. attempts[w] <= failed \/ crossed[w]
  BY DEF RunsEarned
<1>5. crossed'[w] = (attempts'[w] > 0 /\ (crossed[w] \/ w \in over))
  BY <1>1
<1> QED BY <1>2, <1>3, <1>4, <1>5

\* Runs that stay or end, with no new refusal.
LEMMA StayAccounted ==
  ASSUME TokensInv, RunsEarned, UNCHANGED history \/ Told(failed, {}),
         attempts' \in [Workers -> 0..MaxAttempts],
         \A w \in Workers : attempts'[w] = attempts[w] \/ attempts'[w] = 0
  PROVE  Accounted
<1>1. failed \in Nat /\ attempts' \in [Workers -> Nat] /\ MaxAttempts \in Nat
  <2>1. MaxAttempts \in Nat
    BY Constants
  <2> QED BY <2>1 DEF TokensInv, TypeOK
<1>2. \A w \in Workers : attempts'[w] <= failed \/ ~(attempts[w] <= failed)
  BY <1>1
<1>3. CASE Told(failed, {})
  BY <1>1, <1>2, <1>3, ToldAccounted
<1>4. CASE UNCHANGED history
  BY <1>2, <1>4 DEF RunsEarned, history, Accounted
<1> QED BY <1>3, <1>4

\* The account is settled: every run that goes on is crossed.
LEMMA SettledAccounted ==
  ASSUME RunsEarned, NEW over, Told(0, over), attempts' \in [Workers -> 0..MaxAttempts],
         \A w \in Workers : w \in over \/ attempts'[w] = 0
  PROVE  Accounted
<1>1. attempts' \in [Workers -> Nat]
  BY Constants
<1> QED BY <1>1, ToldAccounted

LEMMA RefusedEarned ==
  ASSUME TokensInv, RunsEarned, NEW x \in Actors,
         job[x].stage \in {"chosen", "refresh", "persist"}, Refused(x)
  PROVE  RunsEarned'
<1>1. GiveUp(x) /\ Told(Refusals(x), {})
  BY DEF Refused
<1>2. Ended(x) /\ Counted(x)
  BY <1>1, GiveUpEnds
<1>3. PICK j \in Job : Let(x, j)
  BY <1>2 DEF Ended
<1>4. /\ MaxAttempts \in Nat /\ failed \in 0..MaxAttempts
      /\ attempts \in [Workers -> 0..MaxAttempts] /\ attempts' \in [Workers -> 0..MaxAttempts]
  BY <1>2, Constants DEF TokensInv, TypeOK, Ended
<1>5. attempts' \in [Workers -> Nat] /\ Refusals(x) \in Nat
  BY <1>4 DEF Refusals
<1>6. ASSUME NEW w \in Workers
      PROVE  attempts'[w] <= Refusals(x) \/ ~(attempts[w] <= failed)
  <2>1. attempts[w] \in 0..MaxAttempts /\ attempts'[w] \in 0..MaxAttempts
    BY <1>4
  <2>2. CASE w = x /\ ~job[x].visit
    <3>1. attempts'[w] = attempts[w] + 1
      BY <1>2, <2>2 DEF Counted
    <3>2. Refusals(x) = IF failed < MaxAttempts THEN failed + 1 ELSE failed
      BY <2>2 DEF Refusals
    <3> QED BY <1>4, <2>1, <3>1, <3>2
  <2>3. CASE ~(w = x /\ ~job[x].visit)
    <3>1. attempts'[w] = attempts[w]
      BY <1>2, <2>3 DEF Counted
    <3>2. Refusals(x) >= failed
      BY <1>4 DEF Refusals
    <3> QED BY <1>4, <1>5, <2>1, <3>1, <3>2
  <2> QED BY <2>2, <2>3
<1>7. Accounted
  BY <1>1, <1>5, <1>6, ToldAccounted
<1>8. \A w \in Workers \ {x} : attempts'[w] = attempts[w]
  BY <1>2 DEF Counted
<1> QED BY <1>3, <1>7, <1>8, EarnedStep DEF Let

\* The sweep is over, and its run stays or ends.
LEMMA SweptEarned ==
  ASSUME TokensInv, RunsEarned, NEW w \in Workers, NEW run \in {attempts[w], 0}, NEW retry,
         EndSweep(w, run, retry), UNCHANGED history \/ Told(failed, {})
  PROVE  RunsEarned'
<1>1. attempts' = [attempts EXCEPT ![w] = run] /\ job' = [job EXCEPT ![w] = Idle]
  BY DEF EndSweep, Become
<1>2. attempts \in [Workers -> 0..MaxAttempts] /\ run \in 0..MaxAttempts
  BY Constants DEF TokensInv, TypeOK
<1>3. /\ attempts' \in [Workers -> 0..MaxAttempts] /\ attempts'[w] = run
      /\ \A v \in Workers \ {w} : attempts'[v] = attempts[v]
  BY <1>1, <1>2
<1>4. Accounted
  BY <1>3, StayAccounted
<1> QED BY <1>1, <1>3, <1>4, KindsApart, IdleJob, EarnedStep

\* Whoever stores the tokens crosses the runs of the others, and ends its own.
LEMMA PersistEarned ==
  ASSUME TokensInv, RunsEarned, NEW x \in Refreshers \cup Logins, Persist(x)
  PROVE  RunsEarned'
<1>1. job[x].stage = "persist" /\ Succeeded(x) /\ Settles(x)
  BY DEF Persist, At
<1>2. x \in Actors /\ attempts \in [Workers -> 0..MaxAttempts]
  BY DEF Actors, Refreshers, TokensInv, TypeOK
<1>3. attempts' \in [Workers -> 0..MaxAttempts] /\ job' = [job EXCEPT ![x] = Idle]
  BY <1>1, SucceededEnds DEF Ended
<1>4. /\ \A w \in Workers \ {x} : attempts'[w] = attempts[w]
      /\ x \in Workers /\ ~job[x].visit => attempts'[x] = 0
  <2>1. CASE x \in Workers /\ ~job[x].visit
    <3>1. attempts' = [attempts EXCEPT ![x] = 0]
      BY <1>1, <2>1 DEF Succeeded, EndSweep
    <3> QED BY <1>2, <2>1, <3>1
  <2>2. CASE x \in Workers /\ job[x].visit
    <3>1. attempts' = [attempts EXCEPT ![x] = attempts[x]]
      BY <1>1, <2>2 DEF Succeeded, EndSweep
    <3> QED BY <1>2, <2>2, <3>1
  <2>3. CASE x \notin Workers
    BY <1>1, <2>3 DEF Succeeded, memory
  <2> QED BY <2>1, <2>2, <2>3
<1>5. Accounted
  <2> DEFINE over == {w \in Workers : w # x \/ job[w].visit}
  <2>1. Told(0, over)
    BY <1>1 DEF Settles
  <2>2. \A w \in Workers : w \in over \/ attempts'[w] = 0
    BY <1>4
  <2> HIDE DEF over
  <2> QED BY <1>3, <2>1, <2>2, SettledAccounted
<1> QED BY <1>2, <1>3, <1>4, <1>5, IdleJob, EarnedStep

\* A store whose answer is lost crosses every run, the one it is counted to included.
LEMMA UnconfirmedEarned ==
  ASSUME TokensInv, RunsEarned, NEW x \in Refreshers \cup Logins, Unconfirmed(x)
  PROVE  RunsEarned'
<1>1. job[x].stage = "persist" /\ GiveUp(x) /\ Told(0, Workers) /\ x \in Actors
  BY DEF Unconfirmed, At, Actors, Refreshers
<1>2. Ended(x) /\ Counted(x)
  BY <1>1, GiveUpEnds
<1>3. PICK j \in Job : Let(x, j)
  BY <1>2 DEF Ended
<1>4. attempts' \in [Workers -> 0..MaxAttempts]
  BY <1>2 DEF Ended
<1>5. Accounted
  BY <1>1, <1>4, SettledAccounted
<1>6. \A w \in Workers \ {x} : attempts'[w] = attempts[w]
  BY <1>2 DEF Counted
<1> QED BY <1>1, <1>3, <1>5, <1>6, EarnedStep DEF Let

LEMMA BuryWriteEarned ==
  ASSUME TokensInv, RunsEarned, NEW w \in Workers, BuryWrite(w)
  PROVE  RunsEarned'
<1>1. /\ job[w].stage = "buried" /\ Settles(w)
      /\ IF job[w].visit THEN EndSweep(w, attempts[w], next[w]) ELSE EndSweep(w, 0, Null)
  BY DEF BuryWrite, Buried, At
<1>2. w \in Actors /\ attempts \in [Workers -> 0..MaxAttempts] /\ 0 \in 0..MaxAttempts
  BY KindsApart, Constants DEF TokensInv, TypeOK
<1>3. PICK run \in {attempts[w], 0} : /\ attempts' = [attempts EXCEPT ![w] = run]
                                      /\ ~job[w].visit => run = 0
  BY <1>1 DEF EndSweep
<1>4. /\ attempts' \in [Workers -> 0..MaxAttempts] /\ attempts'[w] = run
      /\ \A v \in Workers \ {w} : attempts'[v] = attempts[v]
  BY <1>2, <1>3
<1>5. job' = [job EXCEPT ![w] = Idle]
  BY <1>1 DEF EndSweep, Become
<1>6. Accounted
  <2> DEFINE over == {v \in Workers : v # w \/ job[v].visit}
  <2>1. Told(0, over)
    BY <1>1 DEF Settles
  <2>2. \A v \in Workers : v \in over \/ attempts'[v] = 0
    BY <1>3, <1>4
  <2> HIDE DEF over
  <2> QED BY <1>4, <2>1, <2>2, SettledAccounted
<1> QED BY <1>2, <1>4, <1>5, <1>6, IdleJob, EarnedStep

LEMMA RestartEarned ==
  ASSUME TokensInv, RunsEarned, NEW w \in Workers, Restart(w)
  PROVE  RunsEarned'
<1>1. /\ attempts' = [attempts EXCEPT ![w] = 0] /\ job' = [job EXCEPT ![w] = Idle]
      /\ Told(failed, {})
  BY DEF Restart, Become
<1>2. attempts \in [Workers -> 0..MaxAttempts] /\ 0 \in 0..MaxAttempts
  BY Constants DEF TokensInv, TypeOK
<1>3. /\ attempts' \in [Workers -> 0..MaxAttempts] /\ attempts'[w] = 0
      /\ \A v \in Workers \ {w} : attempts'[v] = attempts[v]
  BY <1>1, <1>2
<1>4. Accounted
  BY <1>1, <1>3, StayAccounted
<1> QED BY <1>1, <1>3, <1>4, KindsApart, IdleJob, EarnedStep

\* A step that only moves a job on: the runs and the refusals stay.
LEMMA MovedEarned ==
  ASSUME TokensInv, RunsEarned, NEW x \in Actors, NEW j \in Job,
         job' = [job EXCEPT ![x] = j], UNCHANGED <<attempts, history>>,
         x \in Workers /\ j.stage \in {"bury", "buried"} /\ ~j.visit
           => job[x].stage = "bury" /\ ~job[x].visit
  PROVE  RunsEarned'
<1>1. attempts' = attempts /\ UNCHANGED history
  OBVIOUS
<1>2. attempts' \in [Workers -> 0..MaxAttempts]
  BY <1>1 DEF TokensInv, TypeOK
<1>3. Accounted
  BY <1>1, <1>2, StayAccounted
<1>4. x \in Workers /\ j.stage \in {"bury", "buried"} /\ ~j.visit => attempts'[x] >= MaxAttempts
  BY <1>1 DEF RunsEarned
<1> QED BY <1>1, <1>3, <1>4, EarnedStep

\* The moves: sweeping, forcing, loading, being granted tokens, logging in, patching.
LEMMA MovesEarned ==
  ASSUME TokensInv, RunsEarned, NEW x \in Actors,
         \/ x \in Workers /\ (Sweep(x) \/ BuryLoad(x))
         \/ Load(x) \/ Granted(x)
         \/ x \notin Workers /\ (ForceRefresh(x) \/ Login(x) \/ PatchLoad(x))
  PROVE  RunsEarned'
<1>0. job[x] \in Job /\ account \in Account /\ issued \in Nat
  BY JobRow DEF TokensInv, TypeOK
<1>1. CASE x \in Workers /\ Sweep(x)
  <2> DEFINE j == [Idle EXCEPT !.stage = "chosen", !.visit = Visits]
  <2>1. job' = [job EXCEPT ![x] = j] /\ UNCHANGED <<attempts, history>>
    BY <1>1 DEF Sweep, Become, memory
  <2>2. Visits \in BOOLEAN
    BY DEF Visits
  <2>3. j \in Job /\ j.stage = "chosen"
    BY <2>2, IdleJob DEF Job, Stage
  <2> HIDE DEF j
  <2> QED BY <2>1, <2>3, MovedEarned
<1>2. CASE x \in Workers /\ BuryLoad(x)
  <2> DEFINE j == [job[x] EXCEPT !.stage = "buried", !.row = account]
  <2>1. /\ job[x].stage = "bury" /\ job' = [job EXCEPT ![x] = j]
        /\ UNCHANGED <<attempts, history>>
    BY <1>2 DEF BuryLoad, At, Become, memory
  <2>2. j \in Job /\ j.stage = "buried" /\ j.visit = job[x].visit
    BY <1>0 DEF Job, Stage
  <2> HIDE DEF j
  <2> QED BY <2>1, <2>2, MovedEarned
<1>3. CASE Load(x)
  <2> DEFINE stage == IF x \in Logins THEN "persist" ELSE "refresh"
             j == [job[x] EXCEPT !.row = account, !.stage = stage]
  <2>1. job' = [job EXCEPT ![x] = j] /\ UNCHANGED <<attempts, history>>
    BY <1>3 DEF Load, Become, memory
  <2>2. stage \in {"persist", "refresh"}
    OBVIOUS
  <2> HIDE DEF stage
  <2>3. j \in Job /\ j.stage = stage
    BY <1>0, <2>2 DEF Job, Stage
  <2> HIDE DEF j
  <2> QED BY <2>1, <2>2, <2>3, MovedEarned
<1>4. CASE Granted(x)
  <2> DEFINE gen == issued + 1
             j == [job[x] EXCEPT !.stage = "persist", !.new = gen]
  <2>1. job' = [job EXCEPT ![x] = j] /\ UNCHANGED <<attempts, history>>
    BY <1>4 DEF Granted, Become, Issue, memory
  <2>2. gen \in Nat
    BY <1>0
  <2> HIDE DEF gen
  <2>3. j \in Job /\ j.stage = "persist"
    BY <1>0, <2>2 DEF Job, Stage
  <2> HIDE DEF j
  <2> QED BY <2>1, <2>3, MovedEarned
<1>5. CASE x \notin Workers /\ ForceRefresh(x)
  <2> DEFINE j == [Idle EXCEPT !.stage = "chosen"]
  <2>1. job' = [job EXCEPT ![x] = j] /\ UNCHANGED <<attempts, history>>
    BY <1>5 DEF ForceRefresh, Become, memory
  <2>2. j \in Job
    BY IdleJob DEF Job, Stage
  <2> HIDE DEF j
  <2> QED BY <1>5, <2>1, <2>2, MovedEarned
<1>6. CASE x \notin Workers /\ Login(x)
  <2> DEFINE gen == issued + 1
             j == [Idle EXCEPT !.stage = "chosen", !.new = gen]
  <2>1. job' = [job EXCEPT ![x] = j] /\ UNCHANGED <<attempts, history>>
    BY <1>6 DEF Login, Become, memory
  <2>2. gen \in Nat
    BY <1>0
  <2> HIDE DEF gen
  <2>3. j \in Job
    BY <2>2, IdleJob DEF Job, Stage
  <2> HIDE DEF j
  <2> QED BY <1>6, <2>1, <2>3, MovedEarned
<1>7. CASE x \notin Workers /\ PatchLoad(x)
  <2> DEFINE j == [Idle EXCEPT !.stage = "patch", !.row = account]
  <2>1. job' = [job EXCEPT ![x] = j] /\ UNCHANGED <<attempts, history>>
    BY <1>7 DEF PatchLoad, Become, memory
  <2>2. j \in Job
    BY <1>0, IdleJob DEF Job, Stage
  <2> HIDE DEF j
  <2> QED BY <1>7, <2>1, <2>2, MovedEarned
<1> QED BY <1>1, <1>2, <1>3, <1>4, <1>5, <1>6, <1>7

LEMMA TickEarned ==
  ASSUME TokensInv, RunsEarned, Tick
  PROVE  RunsEarned' /\ account'.status = account.status
<1>1. /\ account' = [account EXCEPT !.retry = Elapse(account.retry)]
      /\ job' = [x \in Actors |-> [job[x] EXCEPT !.row.retry = Elapse(job[x].row.retry)]]
      /\ attempts' = attempts /\ failed' = failed /\ crossed' = crossed
  BY DEF Tick, history
<1>2. account'.status = account.status
  BY <1>1 DEF TokensInv, TypeOK, Account
<1>3. ASSUME NEW x \in Actors
      PROVE  job'[x].stage = job[x].stage /\ job'[x].visit = job[x].visit
  <2> DEFINE row == [job[x].row EXCEPT !.retry = Elapse(job[x].row.retry)]
             j   == [job[x] EXCEPT !.row = row]
  <2>1. job'[x] = j
    BY <1>1
  <2>2. job[x] \in Job
    BY JobRow
  <2> HIDE DEF row
  <2>3. j.stage = job[x].stage /\ j.visit = job[x].visit
    BY <2>2 DEF Job
  <2> HIDE DEF j
  <2> QED BY <2>1, <2>3
<1> QED BY <1>1, <1>2, <1>3 DEF RunsEarned, Actors

LEMMA RefreshEarned ==
  ASSUME TokensInv, RunsEarned, NEW x \in Refreshers \cup Logins, Refresh(x)
  PROVE  RunsEarned'
<1>0. x \in Actors
  BY DEF Actors, Refreshers
<1>1. CASE Load(x) \/ Granted(x)
  BY <1>0, <1>1, MovesEarned
<1>2. CASE Unread(x) \/ Unheard(x) \/ Ungranted(x) \/ Conflict(x) \/ Dropped(x)
  <2>1. job[x].stage \in {"chosen", "refresh", "persist"} /\ Refused(x)
    BY <1>2 DEF Unread, Unheard, Ungranted, Conflict, Dropped, At
  <2> QED BY <1>0, <2>1, RefusedEarned
<1>3. CASE Persist(x) \/ Unconfirmed(x)
  BY <1>3, PersistEarned, UnconfirmedEarned
<1> QED BY <1>1, <1>2, <1>3 DEF Refresh, Land

LEMMA EarnedNext ==
  ASSUME TokensInv, RunsEarned, [Next]_vars
  PROVE  RunsEarned'
<1>1. CASE \E w \in Workers : Work(w) \/ Restart(w)
  <2>1. PICK w \in Workers : Work(w) \/ Restart(w)
    BY <1>1
  <2>2. w \in Actors /\ w \in Refreshers
    BY KindsApart
  <2>3. CASE Sweep(w) \/ BuryLoad(w)
    BY <2>2, <2>3, MovesEarned
  <2>4. CASE PassOver(w) \/ Unlisted(w)
    <3>1. EndSweep(w, attempts[w], next[w]) /\ UNCHANGED history
      BY <2>4 DEF PassOver, Unlisted
    <3> QED BY <3>1, SweptEarned
  <2>5. CASE Refresh(w)
    BY <2>2, <2>5, RefreshEarned
  <2>6. CASE BuryWrite(w)
    BY <2>6, BuryWriteEarned
  <2>7. CASE BuryFails(w)
    <3>1. /\ Told(failed, {})
          /\ EndSweep(w, attempts[w], next[w]) \/ EndSweep(w, 0, Null)
      BY <2>7 DEF BuryFails, Buried
    <3> QED BY <3>1, SweptEarned
  <2>8. CASE Restart(w)
    BY <2>8, RestartEarned
  <2> QED BY <2>1, <2>3, <2>4, <2>5, <2>6, <2>7, <2>8 DEF Work
<1>2. CASE \E f \in Forcers : ForceRefresh(f) \/ Refresh(f)
  BY <1>2, KindsApart, MovesEarned, RefreshEarned
<1>3. CASE \E l \in Logins : Login(l) \/ Load(l) \/ Unread(l) \/ Land(l)
  <2>1. PICK l \in Logins : Login(l) \/ Refresh(l)
    BY <1>3 DEF Refresh
  <2> QED BY <2>1, KindsApart, MovesEarned, RefreshEarned
<1>4. CASE \E o \in Operators : PatchLoad(o) \/ \E s \in {"active", "disabled"} : PatchWrite(o, s)
  <2>1. PICK o \in Operators : PatchLoad(o) \/ \E s \in {"active", "disabled"} : PatchWrite(o, s)
    BY <1>4
  <2>2. o \in Actors /\ o \notin Workers
    BY KindsApart
  <2>3. CASE PatchLoad(o)
    BY <2>2, <2>3, MovesEarned
  <2>4. CASE \E s \in {"active", "disabled"} : PatchWrite(o, s)
    <3>1. job' = [job EXCEPT ![o] = Idle] /\ UNCHANGED <<attempts, history>>
      BY <2>4 DEF PatchWrite, Become, memory
    <3> QED BY <2>2, <3>1, IdleJob, MovedEarned
  <2> QED BY <2>1, <2>3, <2>4
<1>5. CASE Tick
  BY <1>5, TickEarned
<1>6. CASE UNCHANGED vars
  BY <1>6 DEF vars, RunsEarned
<1> QED BY <1>1, <1>2, <1>3, <1>4, <1>5, <1>6 DEF Next

\* Nobody but a worker that writes a dead letter takes a serving account out.
LEMMA OnlyBurials ==
  ASSUME TokensInv, [Next]_vars, account.status = "active", account'.status = "error"
  PROVE  \E w \in Workers : BuryWrite(w)
<1>1. account \in Account
  BY DEF TokensInv, TypeOK
<1>2. CASE account' = account
  BY <1>2
<1>3. CASE \E x \in Refreshers \cup Logins : UpdateIfUnchanged(x)
  BY <1>1, <1>3 DEF UpdateIfUnchanged, Account
<1>4. CASE \E o \in Operators, s \in {"active", "disabled"} : PatchWrite(o, s)
  <2>1. PICK o \in Operators, s \in {"active", "disabled"} : PatchWrite(o, s)
    BY <1>4
  <2> DEFINE row == [job[o].row EXCEPT !.status = s]
  <2>2. UpdateEndpoint(row) /\ job[o].row \in Account
    BY <2>1, KindsApart, JobRow DEF PatchWrite
  <2>3. row \in Account /\ row.status = s
    BY <2>2 DEF Account, Status
  <2> HIDE DEF row
  <2> QED BY <2>2, <2>3, EndpointUpdated
<1>5. CASE Tick
  <2>1. account'.status = account.status
    BY <1>1, <1>5 DEF Tick, Account
  <2> QED BY <2>1
<1>6. \/ account' = account
      \/ \E x \in Refreshers \cup Logins : UpdateIfUnchanged(x)
      \/ \E o \in Operators, s \in {"active", "disabled"} : PatchWrite(o, s)
      \/ Tick \/ \E w \in Workers : BuryWrite(w)
  <2>1. ASSUME NEW x \in Refreshers \cup Logins, Refresh(x)
        PROVE  account' = account \/ UpdateIfUnchanged(x)
    BY <2>1 DEF Refresh, Land, Load, Unread, Granted, Unheard, Ungranted, Persist, Conflict,
                Dropped, Unconfirmed
  <2>2. ASSUME NEW w \in Workers, Work(w) \/ Restart(w)
        PROVE  account' = account \/ Refresh(w) \/ BuryWrite(w)
    BY <2>2 DEF Work, Restart, Sweep, PassOver, Unlisted, BuryLoad, BuryFails
  <2>3. ASSUME NEW f \in Forcers, ForceRefresh(f) \/ Refresh(f)
        PROVE  account' = account \/ Refresh(f)
    BY <2>3 DEF ForceRefresh
  <2>4. ASSUME NEW l \in Logins, Login(l) \/ Load(l) \/ Unread(l) \/ Land(l)
        PROVE  account' = account \/ Refresh(l)
    BY <2>4 DEF Login, Refresh
  <2>5. ASSUME NEW o \in Operators, PatchLoad(o)
        PROVE  account' = account
    BY <2>5 DEF PatchLoad
  <2>6. UNCHANGED vars => account' = account
    BY DEF vars
  <2> QED BY <2>1, <2>2, <2>3, <2>4, <2>5, <2>6 DEF Next, Refreshers
<1> QED BY <1>2, <1>3, <1>4, <1>5, <1>6

\* A serving account is taken out only by a worker that met MaxAttempts refusals since
\* the account was last settled, unless somebody settled it in the middle of the run the
\* worker keeps in its memory (oauth_refresh_worker.go:166), or the worker had set out to
\* revisit it: whoever else forces, logs in, patches and restarts.
THEOREM BurialsAreEarned == Spec => BurialEarned
<1>1. Init => RunsEarned
  <2> SUFFICES ASSUME Init PROVE RunsEarned
    OBVIOUS
  <2>1. /\ \A w \in Workers : job[w].stage = "idle" /\ attempts[w] = 0
        /\ failed = 0
    BY IdleJob DEF Init, Actors
  <2>2. ASSUME NEW w \in Workers
        PROVE  attempts[w] <= failed /\ job[w].stage \notin {"bury", "buried"}
    <3>1. attempts[w] = 0 /\ failed = 0 /\ job[w].stage = "idle"
      BY <2>1
    <3>2. 0 <= 0
      OBVIOUS
    <3> QED BY <3>1, <3>2
  <2> QED BY <2>2 DEF RunsEarned
<1>2. TokensInv /\ RunsEarned /\ [Next]_vars => RunsEarned'
  BY EarnedNext
<1>3. TokensInv /\ RunsEarned /\ [Next]_vars
        => [(account.status = "active" /\ account'.status = "error") =>
              \E w \in Workers :
                BuryWrite(w) /\ (failed >= MaxAttempts \/ crossed[w] \/ job[w].visit)]_vars
  <2> SUFFICES ASSUME TokensInv, RunsEarned, [Next]_vars,
                      account.status = "active", account'.status = "error"
               PROVE  \E w \in Workers :
                        BuryWrite(w) /\ (failed >= MaxAttempts \/ crossed[w] \/ job[w].visit)
    OBVIOUS
  <2>1. PICK w \in Workers : BuryWrite(w)
    BY OnlyBurials
  <2>2. job[w].stage = "buried"
    BY <2>1 DEF BuryWrite, At
  <2>3. job[w].visit \/ attempts[w] >= MaxAttempts
    BY <2>2 DEF RunsEarned
  <2>4. attempts[w] <= failed \/ crossed[w]
    BY DEF RunsEarned
  <2>5. /\ attempts[w] \in 0..MaxAttempts /\ failed \in 0..MaxAttempts
        /\ MaxAttempts \in Nat
    BY Constants DEF TokensInv, TypeOK
  <2> QED BY <2>1, <2>3, <2>4, <2>5
<1> QED BY <1>1, <1>2, <1>3, TokensStaySound, PTL DEF Spec, BurialEarned
===========================================================================
