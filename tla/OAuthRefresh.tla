--------------------------- MODULE OAuthRefresh ---------------------------
(***************************************************************************)
(* One OAuth account whose refresh token is single-use, and everybody who  *)
(* spends or replaces it: the refresh worker of each replica               *)
(* (service/oauth_refresh_worker.go, oauth_refresh_schedule.go), a refresh *)
(* forced from the panel (oauth_flow_refresh.go), an operator logging the  *)
(* account in again (oauth_flow_connect.go) or switching it.               *)
(*                                                                         *)
(* A token set is a generation: 0 is the one stored at the start, issued   *)
(* counts the ones the vendor handed out. The vendor is external: it       *)
(* accepts the generations in live and, when it Rotates, each one once.    *)
(* Instants are relative: what is left, 0 once elapsed, Null for none.     *)
(***************************************************************************)
EXTENDS Integers, Sequences

CONSTANTS
  Workers,        \* the replicas, each with its refresh worker
  Forcers,        \* refreshes forced from the panel
  Logins,         \* operators who log the account in again
  Operators,      \* operators who PATCH its status
  Rotates,        \* the vendor retires a refresh token once it is used
  Lossy,          \* an accepted grant's answer may be lost
  Restarts,       \* a replica may stop and start again
  StoreFails,     \* sealing or a statement may fail, or its context end
  Life, Lead,     \* the token's lifetime, the lead it is refreshed ahead of
  Interval,       \* oauthRefreshInterval
  MaxAttempts,    \* oauthRefreshMaxAttempts
  Backoffs,       \* the delay after each failed attempt (backoffDelay)
  Ladder,         \* the dead-letter ladder (ScheduleRefreshRetry)
  MaxIssued       \* bound: generations the vendor hands out

Null == -1
Actors == Workers \cup Forcers \cup Logins \cup Operators
Refreshers == Workers \cup Forcers

\* An actor is of one kind.
ASSUME OAuthRefreshAssumption ==
  /\ Workers \cap Forcers = {} /\ Refreshers \cap (Logins \cup Operators) = {}
  /\ Logins \cap Operators = {}
  /\ {Rotates, Lossy, Restarts, StoreFails} \subseteq BOOLEAN
  /\ {Life, Interval, MaxAttempts, MaxIssued} \subseteq Nat \ {0}
  /\ Lead \in 0..Life
  /\ Backoffs \in Seq(Nat \ {0}) /\ Len(Backoffs) >= MaxAttempts - 1
  /\ Ladder \in Seq(Nat \ {0}) /\ Len(Ladder) > 0

Status == {"active", "error", "disabled"}
Window == Nat \cup {Null}
Account == [status : Status, gen : Nat, retry : Window, rounds : 0..Len(Ladder)]

\* chosen: listed or logged in, not loaded; refresh: the grant is out; persist: the
\* new tokens are in hand; bury, buried: the dead letter is to be loaded, written.
Stage == {"idle", "chosen", "refresh", "persist", "bury", "buried", "patch"}
Job == [stage : Stage, visit : BOOLEAN, row : Account, new : Nat]

VARIABLES
  account,   \* the stored row: status, tokens, oauth_retry_at and _rounds
  left,      \* what is left of the stored access token
  live,      \* the generations the vendor accepts
  issued,    \* how many it handed out
  job,       \* what each actor is in the middle of
  attempts, next, wake,  \* each worker's memory: its run, its retry, its timer
  failed,    \* history: attempts that failed since the account was last settled, its
             \* tokens stored or itself buried, up to MaxAttempts
  crossed    \* history: workers whose run was under way when it was settled

vars == <<account, left, live, issued, job, attempts, next, wake, failed, crossed>>
memory == <<attempts, next, wake>>
vendor == <<live, issued>>
history == <<failed, crossed>>

Blank == [status |-> "active", gen |-> 0, retry |-> Null, rounds |-> 0]
Idle == [stage |-> "idle", visit |-> FALSE, row |-> Blank, new |-> 0]

At(x, stage) == job[x].stage = stage
Become(x, record) == job' = [job EXCEPT ![x] = record]
Move(x, stage) == Become(x, [job[x] EXCEPT !.stage = stage])

---------------------------------------------------------------------------
(* The refresh worker's schedule.                                          *)

RefreshDue == left # Null /\ left <= Lead
Passed(w) == w <= 0            \* no deadline, or one behind us

\* nextWake over the retry left after this sweep.
NextWake(retry) == IF retry = Null \/ retry > Interval THEN Interval ELSE retry

\* The history: the refusals there are now, and whose run this step crosses. A run that
\* is over is nobody's to cross.
Told(refusals, over) ==
  /\ failed' = refusals
  /\ crossed' = [w \in Workers |-> attempts'[w] > 0 /\ (crossed[w] \/ w \in over)]

\* Settling the account crosses every run but the one that is settled by its own sweep.
Settles(x) == Told(0, {w \in Workers : w # x \/ job[w].visit})

EndSweep(w, run, retry) ==
  /\ attempts' = [attempts EXCEPT ![w] = run]
  /\ next' = [next EXCEPT ![w] = retry]
  /\ wake' = [wake EXCEPT ![w] = NextWake(retry)]
  /\ Become(w, Idle)

\* The lease of the cycle: another replica is sweeping.
LeaseHeld(w) == \E v \in Workers \ {w} : ~At(v, "idle")

\* Faulty variant: a recorded retry is never attempted.
AttemptsOnce(w) == account.status = "active" /\ RefreshDue /\ next[w] = Null

Attempts(w) == account.status = "active" /\ RefreshDue /\ Passed(next[w])
Visits == account.status = "error" /\ Passed(account.retry)

\* A sweep that finds the account due (sweepOne) or its grave due (retryDeadLettered).
Sweep(w) ==
  /\ At(w, "idle") /\ wake[w] = 0
  /\ ~LeaseHeld(w) /\ (Attempts(w) \/ Visits)
  /\ Become(w, [Idle EXCEPT !.stage = "chosen", !.visit = Visits])
  /\ UNCHANGED <<account, left, vendor, memory, history>>

\* A sweep that has nothing to do, or no lease.
PassOver(w) ==
  /\ At(w, "idle") /\ wake[w] = 0
  /\ LeaseHeld(w) \/ ~(Attempts(w) \/ Visits)
  /\ EndSweep(w, attempts[w], next[w])
  /\ UNCHANGED <<account, left, vendor, history>>

\* A sweep that cannot read the accounts (flow.Status) goes on without them.
Unlisted(w) ==
  /\ StoreFails
  /\ At(w, "idle") /\ wake[w] = 0
  /\ EndSweep(w, attempts[w], next[w])
  /\ UNCHANGED <<account, left, vendor, history>>

---------------------------------------------------------------------------
(* One refresh (refreshEndpoint).                                          *)

\* Refresh with the account named: GetByID, whatever its status is by now.
Load(x) ==
  /\ At(x, "chosen")
  /\ Become(x, [job[x] EXCEPT !.row = account,
                              !.stage = IF x \in Logins THEN "persist" ELSE "refresh"])
  /\ UNCHANGED <<account, left, vendor, memory, history>>

ForceRefresh(f) ==
  /\ At(f, "idle")
  /\ Become(f, [Idle EXCEPT !.stage = "chosen"])
  /\ UNCHANGED <<account, left, vendor, memory, history>>

Exhausted(run) == run >= MaxAttempts

\* sweepOne and retryDeadLettered after an error; a forced refresh and a login only
\* report it.
GiveUp(x) ==
  LET run == attempts[x] + 1
  IN  CASE x \notin Workers -> Become(x, Idle) /\ UNCHANGED memory
        [] x \in Workers /\ job[x].visit -> Move(x, "bury") /\ UNCHANGED memory
        [] x \in Workers /\ ~job[x].visit ->
             IF Exhausted(run)
             THEN /\ attempts' = [attempts EXCEPT ![x] = run]
                  /\ Move(x, "bury") /\ UNCHANGED <<next, wake>>
             ELSE EndSweep(x, run, Backoffs[run])

\* The refusals there are with this one, if it is one that counts.
Refusals(x) ==
  IF x \in Workers /\ ~job[x].visit /\ failed < MaxAttempts THEN failed + 1 ELSE failed

Refused(x) == GiveUp(x) /\ Told(Refusals(x), {})

\* The account could not be read: for a worker an attempt like any other.
Unread(x) ==
  /\ StoreFails
  /\ At(x, "chosen")
  /\ Refused(x)
  /\ UNCHANGED <<account, left, vendor>>

\* What the vendor does with an accepted grant.
Issue(spent) ==
  /\ issued < MaxIssued
  /\ issued' = issued + 1
  /\ live' = (IF Rotates THEN live \ {spent} ELSE live) \cup {issued + 1}

Granted(x) ==
  /\ At(x, "refresh") /\ job[x].row.gen \in live
  /\ Issue(job[x].row.gen)
  /\ Become(x, [job[x] EXCEPT !.stage = "persist", !.new = issued + 1])
  /\ UNCHANGED <<account, left, memory, history>>

\* The vendor rotated and nobody heard.
Unheard(x) ==
  /\ Lossy
  /\ At(x, "refresh") /\ job[x].row.gen \in live
  /\ Issue(job[x].row.gen)
  /\ Refused(x)
  /\ UNCHANGED <<account, left>>

\* A refused token, an outage, a timeout.
Ungranted(x) ==
  /\ At(x, "refresh")
  /\ Refused(x)
  /\ UNCHANGED <<account, left, vendor>>

\* Faulty variant: the write is not conditioned.
UpdateUnconditioned(x) ==
  /\ account' = [account EXCEPT !.gen = job[x].new]
  /\ left' = Life

\* UpdateIfUnchanged: the tokens, and only while the loaded ones are still there.
\* MarkHealthy and ClearRefreshRetry touched the aggregate alone.
UpdateIfUnchanged(x) ==
  /\ account.gen = job[x].row.gen
  /\ account' = [account EXCEPT !.gen = job[x].new]
  /\ left' = Life

\* Faulty variant: the run survives the success.
SucceededKeepsRun(x) ==
  IF x \in Workers THEN EndSweep(x, attempts[x], next[x])
  ELSE Become(x, Idle) /\ UNCHANGED memory

\* clearRetry belongs to sweepOne: a revisit leaves the run as it was.
Succeeded(x) ==
  CASE x \in Workers /\ ~job[x].visit -> EndSweep(x, 0, Null)
    [] x \in Workers /\ job[x].visit  -> EndSweep(x, attempts[x], next[x])
    [] OTHER                          -> Become(x, Idle) /\ UNCHANGED memory

Persist(x) ==
  /\ At(x, "persist")
  /\ UpdateIfUnchanged(x)
  /\ Succeeded(x)
  /\ Settles(x)
  /\ UNCHANGED vendor

\* The credential changed during the write: the tokens in hand are dropped.
Conflict(x) ==
  /\ At(x, "persist") /\ account.gen # job[x].row.gen
  /\ Refused(x)
  /\ UNCHANGED <<account, left, vendor>>

\* Sealing or the statement failed, or the context of whoever asked was over: the
\* tokens the vendor granted are dropped, and nothing keeps them.
Dropped(x) ==
  /\ StoreFails
  /\ At(x, "persist")
  /\ Refused(x)
  /\ UNCHANGED <<account, left, vendor>>

\* The statement commits and its answer is lost: stored, and reported as failed.
Unconfirmed(x) ==
  /\ StoreFails
  /\ At(x, "persist")
  /\ UpdateIfUnchanged(x)
  /\ GiveUp(x)
  /\ Told(0, Workers)
  /\ UNCHANGED vendor

---------------------------------------------------------------------------
(* The dead letter (MarkRefreshDeadLetter): load, then write every         *)
(* management column back.                                                 *)

BuryLoad(w) ==
  /\ At(w, "bury")
  /\ Become(w, [job[w] EXCEPT !.stage = "buried", !.row = account])
  /\ UNCHANGED <<account, left, vendor, memory, history>>

\* Faulty variant: the ladder starts again at every burial.
ScheduleFirstRung(row) == [row EXCEPT !.rounds = 1, !.retry = Ladder[1]]

\* ScheduleRefreshRetry: one rung up, the last one holds.
ScheduleRefreshRetry(row) ==
  LET step == IF row.rounds < Len(Ladder) THEN row.rounds + 1 ELSE row.rounds
  IN  [row EXCEPT !.rounds = step, !.retry = Ladder[step]]

MarkUnhealthy(row) == [row EXCEPT !.status = IF @ = "disabled" THEN @ ELSE "error"]

\* updateEndpoint, the columns this module knows.
UpdateEndpoint(row) ==
  account' = [account EXCEPT !.status = row.status, !.retry = row.retry, !.rounds = row.rounds]

\* Whatever MarkRefreshDeadLetter answers, sweepOne clears the run.
Buried(w) == IF job[w].visit THEN EndSweep(w, attempts[w], next[w]) ELSE EndSweep(w, 0, Null)

BuryWrite(w) ==
  /\ At(w, "buried")
  /\ UpdateEndpoint(ScheduleRefreshRetry(MarkUnhealthy(job[w].row)))
  /\ Buried(w)
  /\ Settles(w)
  /\ UNCHANGED <<left, vendor>>

\* The dead letter cannot be loaded or written: the account stays as it is.
BuryFails(w) ==
  /\ StoreFails
  /\ job[w].stage \in {"bury", "buried"}
  /\ Buried(w)
  /\ Told(failed, {})
  /\ UNCHANGED <<account, left, vendor>>

---------------------------------------------------------------------------
(* The operators.                                                          *)

\* connectAccount: the code was exchanged before the account is looked up.
Login(l) ==
  /\ At(l, "idle") /\ issued < MaxIssued
  /\ issued' = issued + 1
  /\ live' = live \cup {issued + 1}
  /\ Become(l, [Idle EXCEPT !.stage = "chosen", !.new = issued + 1])
  /\ UNCHANGED <<account, left, memory, history>>

PatchLoad(o) ==
  /\ At(o, "idle")
  /\ Become(o, [Idle EXCEPT !.stage = "patch", !.row = account])
  /\ UNCHANGED <<account, left, vendor, memory, history>>

PatchWrite(o, s) ==
  /\ At(o, "patch")
  /\ UpdateEndpoint([job[o].row EXCEPT !.status = s])
  /\ Become(o, Idle)
  /\ UNCHANGED <<left, vendor, memory, history>>

---------------------------------------------------------------------------
(* Time, and replicas that restart.                                        *)

Elapse(w) == IF w > 0 THEN w - 1 ELSE w

Tick ==
  /\ left > 0 \/ account.retry > 0 \/ \E w \in Workers : next[w] > 0 \/ wake[w] > 0
  /\ left' = Elapse(left)
  /\ account' = [account EXCEPT !.retry = Elapse(@)]
  /\ next' = [w \in Workers |-> Elapse(next[w])]
  /\ wake' = [w \in Workers |-> Elapse(wake[w])]
  /\ job' = [x \in Actors |-> [job[x] EXCEPT !.row.retry = Elapse(@)]]
  /\ UNCHANGED <<vendor, attempts, history>>

Restart(w) ==
  /\ Restarts
  /\ attempts' = [attempts EXCEPT ![w] = 0]
  /\ next' = [next EXCEPT ![w] = Null]
  /\ wake' = [wake EXCEPT ![w] = Interval]
  /\ Become(w, Idle)
  /\ Told(failed, {})
  /\ UNCHANGED <<account, left, vendor>>

---------------------------------------------------------------------------
Init ==
  /\ account = Blank
  /\ left = Life
  /\ live = {0} /\ issued = 0
  /\ job = [x \in Actors |-> Idle]
  /\ attempts = [w \in Workers |-> 0]
  /\ next = [w \in Workers |-> Null]
  /\ wake = [w \in Workers |-> Interval]
  /\ failed = 0 /\ crossed = [w \in Workers |-> FALSE]

\* What is done with tokens in hand, and the store's ways to fail.
Land(x) == Persist(x) \/ Conflict(x) \/ Dropped(x) \/ Unconfirmed(x)

Refresh(x) == Load(x) \/ Unread(x) \/ Granted(x) \/ Unheard(x) \/ Ungranted(x) \/ Land(x)

Work(w) ==
  \/ Sweep(w) \/ PassOver(w) \/ Unlisted(w) \/ Refresh(w)
  \/ BuryLoad(w) \/ BuryWrite(w) \/ BuryFails(w)

StoreFailure ==
  \/ \E w \in Workers : Unlisted(w) \/ BuryFails(w)
  \/ \E x \in Refreshers \cup Logins : Unread(x) \/ Dropped(x) \/ Unconfirmed(x)

Next ==
  \/ \E w \in Workers : Work(w) \/ Restart(w)
  \/ \E f \in Forcers : ForceRefresh(f) \/ Refresh(f)
  \/ \E l \in Logins : Login(l) \/ Load(l) \/ Unread(l) \/ Land(l)
  \/ \E o \in Operators : PatchLoad(o) \/ \E s \in {"active", "disabled"} : PatchWrite(o, s)
  \/ Tick

Spec == Init /\ [][Next]_vars

\* The worker's loop runs (runSupervised starts it again), every outbound call has
\* a timeout, and time passes. Nothing is assumed of the panel or the vendor.
FairSpec == Spec /\ WF_vars(Tick) /\ \A w \in Workers : WF_vars(Work(w))

---------------------------------------------------------------------------
(* Properties.                                                             *)

TypeOK ==
  /\ account \in Account /\ account.gen <= issued
  /\ left \in Window
  /\ live \subseteq 0..issued /\ issued \in 0..MaxIssued
  /\ job \in [Actors -> Job]
  /\ attempts \in [Workers -> 0..MaxAttempts]
  /\ next \in [Workers -> Window] /\ wake \in [Workers -> Nat]
  /\ failed \in 0..MaxAttempts /\ crossed \in [Workers -> BOOLEAN]

\* Who has tokens in hand that no row and no snapshot shows yet.
Holds(x) == At(x, "persist") \/ (x \in Logins /\ At(x, "chosen"))

\* Why no tokens are lost: the ones in hand are each their own generation, which
\* the vendor accepts and nobody can spend, and a refresh holds newer ones than it
\* spent. A run is used up only on the way to the dead letter it earned.
SnapshotsKnown == \A x \in Actors : job[x].row.gen <= issued
InHand ==
  \A x \in Actors : Holds(x) =>
    /\ job[x].new \in live \ {0} /\ account.gen # job[x].new
    /\ \A y \in Actors : job[y].row.gen # job[x].new
    /\ \A y \in Actors \ {x} : Holds(y) => job[y].new # job[x].new
Newer == \A x \in Refreshers : At(x, "persist") => job[x].new > job[x].row.gen
RunsOut ==
  \A w \in Workers : attempts[w] = MaxAttempts
    => job[w].stage \in {"bury", "buried"} /\ ~job[w].visit
TokensInv == TypeOK /\ SnapshotsKnown /\ InHand /\ Newer /\ RunsOut

\* Why a ladder only widens: a burial writes no lower rung than the stored one, and a
\* patch brings back none above it.
RungsKept ==
  /\ \A w \in Workers : At(w, "buried") => account.rounds <= job[w].row.rounds
  /\ \A o \in Operators : At(o, "patch") => job[o].row.rounds <= account.rounds

\* Why a burial is earned: a run is as long as the refusals since the account was
\* last settled, unless that happened in the middle of it.
RunsEarned ==
  \A w \in Workers :
    /\ attempts[w] <= failed \/ crossed[w]
    /\ job[w].stage \in {"bury", "buried"} /\ ~job[w].visit => attempts[w] >= MaxAttempts

\* "a forced refresh racing the worker's would otherwise store the older credential
\* over the token the vendor had already rotated" (endpoint.go:159-160): no refresh
\* stores tokens over ones the vendor issued later, whoever else wrote meanwhile.
NeverOlder ==
  [][(\E x \in Refreshers : Persist(x) \/ Unconfirmed(x)) => account'.gen > account.gen]_vars

\* The account holds a refresh token the vendor accepts, or the refresh that spent it
\* still holds its successor and will be allowed to store it.
TokenUsable ==
  \/ account.gen \in live
  \/ \E x \in Refreshers : /\ At(x, "persist") /\ job[x].new \in live
                           /\ job[x].row.gen = account.gen

\* UpdateIfUnchanged refuses a stale write so that the account does not "stay dead until
\* the operator re-authenticated" (endpoint.go:161): whoever races whom, a usable
\* token is lost only with an answer nobody heard, with a process that stops holding
\* it, or with a store that does not take it from the hand that spent the last one.
TokenNotLost ==
  [][(TokenUsable /\ ~TokenUsable')
     => \/ \E x \in Refreshers : Unheard(x) \/ (Dropped(x) /\ job[x].row.gen = account.gen)
        \/ \E w \in Workers : At(w, "persist") /\ Restart(w)]_vars

\* Both of the pair the account and the vendor share.
TokensKept == NeverOlder /\ TokenNotLost

\* A serving account is taken out only by a worker that met that many refusals since the
\* account was last settled, unless somebody settled it in the middle of the worker's run,
\* which lives in its memory (oauth_refresh_worker.go:166), or the worker had set out to
\* revisit an account that an operator switched back on meanwhile.
BurialEarned ==
  [][(account.status = "active" /\ account'.status = "error") =>
       \E w \in Workers : BuryWrite(w) /\ (failed >= MaxAttempts \/ crossed[w] \/ job[w].visit)]_vars

\* "Run wakes at the earliest recorded attempt instead of sleeping inside the loop"
\* (oauth_refresh_schedule.go:6): a sweep with nothing to attempt goes back to sleep,
\* it is not run again at once on a retry that is recorded and not attempted.
SweepSleeps ==
  \A w \in Workers :
    (/\ At(w, "idle") /\ wake[w] = 0
     /\ ~LeaseHeld(w) /\ ~Attempts(w) /\ ~Visits) => NextWake(next[w]) > 0

\* "A second call an hour later widens the next window" (oauth_flow_refresh.go:190-194):
\* a burial waits the rung above the stored one, the top rung holding, whatever
\* restarts, patches and attempts came between. Two replicas may share a rung, which
\* upstream_endpoint_oauth_retry.go:47-50 accepts, and so may two operators whose
\* patches cross it: it is stated of one worker and one operator.
LadderWidens ==
  [][\A w \in Workers :
       BuryWrite(w) =>
         account'.retry >= Ladder[IF account.rounds < Len(Ladder) THEN account.rounds + 1
                                  ELSE Len(Ladder)]]_vars

\* A token that comes due is renewed, or the account is taken out of rotation: unless
\* the store fails again and again, the worker never leaves it serving with a dead token.
RefreshSettles ==
  \/ []<><<StoreFailure>>_vars
  \/ (account.status = "active" /\ RefreshDue) ~> (account.status # "active" \/ ~RefreshDue)

---------------------------------------------------------------------------
(* What the repository says and the code does not do.                      *)

\* "A grant the vendor accepted is the evidence the dead-letter was wrong, so it
\* also ends the dead-letter and its retry ladder" (oauth_flow_refresh.go:178-179).
GrantEndsDeadLetter ==
  [][\A x \in Refreshers :
       Persist(x) => account'.status # "error" /\ account'.rounds = 0]_vars

\* "a dead letter after five attempts" (oauth_refresh_worker.go:28-29), "neither its
\* attempt count nor its next attempt survives a success" (oauth_refresh_schedule.go:30-31):
\* a serving account is taken out after that many refusals since its tokens were stored.
BuriedAfterAttempts ==
  [][(account.status = "active" /\ account'.status = "error") => failed >= MaxAttempts]_vars
===========================================================================
