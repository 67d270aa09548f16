---------------------------- MODULE PanelSession ----------------------------
(***************************************************************************)
(* Signing in to the panel (service/auth.go, session.go): the password row *)
(* lives in PostgreSQL, sessions, the credential epoch and the lockout in  *)
(* Redis, and no statement spans the two.  Every step of an operation is   *)
(* one round trip to one store; any of them may fail, or be the last the   *)
(* process makes.  A hash is known by the number of the change that wrote  *)
(* it (bcrypt salts, so no two are equal); signatures, cookies and         *)
(* addresses are left out: a client is its own limiter bucket.             *)
(***************************************************************************)
EXTENDS Integers, FiniteSets

CONSTANTS
  Clients,        \* each with one cookie and one request at a time
  Passwords,
  First,          \* the bootstrap password
  Boots,          \* processes that start and bootstrap
  MaxFails, LockTicks, SessionTicks,   \* LoginMaxFails, LoginLockout, SessionTTL
  MaxChanges,     \* bound: password changes
  MaxFaults       \* bound: round trips that fail

PanelSessionAssumption ==
  /\ First \in Passwords
  /\ {MaxFails, LockTicks, SessionTicks} \subseteq Nat \ {0}
  /\ {MaxChanges, MaxFaults} \subseteq Nat

VARIABLES
  row,       \* panel_auth: the number of the hash and what it hashes; 0 is NULL
  epoch,     \* pannelai:auth:epoch
  session,   \* per client, the session its cookie names
  fails,     \* per client, the failure counter and its time left
  lock,      \* per client, what is left of the lockout
  op,        \* per client, the request it is in
  boot,      \* per process, where its bootstrap is
  broken,    \* history: a change was stored and its revocation was not
  faults

vars == <<row, epoch, session, fails, lock, op, boot, broken, faults>>

Hash == [number : Nat, word : Passwords]
NoHash == [number |-> 0, word |-> First]
Session == [epoch : Nat, hash : Nat, left : 0..SessionTicks]
NoSession == [epoch |-> 0, hash |-> 0, left |-> 0]
Counter == [count : 0..MaxFails - 1, left : 0..LockTicks]
NoFailures == [count |-> 0, left |-> 0]

Steps == {"idle", "read1", "read2", "verify", "create", "stored", "check", "swap", "revoke"}
Op == [at : Steps, epoch : Nat, hash : Hash, word : Passwords]
Idle == [at |-> "idle", epoch |-> 0, hash |-> NoHash, word |-> First]

Init ==
  /\ row = NoHash
  /\ epoch = 0
  /\ session = [c \in Clients |-> NoSession]
  /\ fails = [c \in Clients |-> NoFailures]
  /\ lock = [c \in Clients |-> 0]
  /\ op = [c \in Clients |-> Idle]
  /\ boot = [b \in Boots |-> "read"]
  /\ broken = FALSE
  /\ faults = 0

Become(c, r) == op' = [op EXCEPT ![c] = r]
Rest == <<boot, broken, faults>>
Stores == <<row, epoch, session, fails, lock>>

\* Exists, as Authenticate and Status ask it: tracked, at the current epoch, both
\* keys read in one MGET.
Accepted(c) == session[c].left > 0 /\ session[c].epoch = epoch

-----------------------------------------------------------------------------
(* Login: the lock, the epoch, the hash, the verdict, the session. *)

\* mutant: the hash is read before the epoch
HashFirst == <<"hash", "epoch">>
Reads == <<"epoch", "hash">>

Login(c) ==
  \E word \in Passwords :
    /\ op[c].at = "idle" /\ lock[c] = 0
    /\ Become(c, [Idle EXCEPT !.at = "read1", !.word = word])
    /\ UNCHANGED <<Stores, Rest>>

\* A password that was never configured ends the login.
Read(c, what, next) ==
  /\ Become(c, IF what = "epoch" THEN [op[c] EXCEPT !.at = next, !.epoch = epoch]
               ELSE IF row = NoHash THEN Idle
               ELSE [op[c] EXCEPT !.at = next, !.hash = row])
  /\ UNCHANGED <<Stores, Rest>>

LoginReads(c) ==
  \/ op[c].at = "read1" /\ Read(c, Reads[1], "read2")
  \/ op[c].at = "read2" /\ Read(c, Reads[2], "verify")

\* RecordFailure, one script: counts, opens the window, locks at the maximum.
LoginRefused(c) ==
  LET n == fails[c].count + 1 IN
  /\ op[c].at = "verify" /\ op[c].word # op[c].hash.word
  /\ fails' = [fails EXCEPT ![c] =
       IF n >= MaxFails THEN NoFailures
       ELSE [count |-> n, left |-> IF n = 1 THEN LockTicks ELSE @.left]]
  /\ lock' = IF n >= MaxFails THEN [lock EXCEPT ![c] = LockTicks] ELSE lock
  /\ Become(c, Idle)
  /\ UNCHANGED <<row, epoch, session, Rest>>

\* Reset: a right password forgives the failures and lifts the lock.
LoginVerified(c) ==
  /\ op[c].at = "verify" /\ op[c].word = op[c].hash.word
  /\ fails' = [fails EXCEPT ![c] = NoFailures]
  /\ lock' = [lock EXCEPT ![c] = 0]
  /\ Become(c, [op[c] EXCEPT !.at = "create"])
  /\ UNCHANGED <<row, epoch, session, Rest>>

\* Create: the session is of the epoch the login began in.
CreateSession(c) ==
  /\ op[c].at = "create"
  /\ session' = [session EXCEPT ![c] =
       [epoch |-> op[c].epoch, hash |-> op[c].hash.number, left |-> SessionTicks]]
  /\ Become(c, Idle)
  /\ UNCHANGED <<row, epoch, fails, lock, Rest>>

Logout(c) ==
  /\ op[c].at = "idle" /\ session[c].left > 0
  /\ session' = [session EXCEPT ![c] = NoSession]
  /\ UNCHANGED <<row, epoch, fails, lock, op, Rest>>

-----------------------------------------------------------------------------
(* ChangePassword: authenticate, read and compare, swap, revoke. *)

ChangePassword(c) ==
  /\ op[c].at = "idle" /\ Accepted(c)
  /\ Become(c, [Idle EXCEPT !.at = "check"])
  /\ UNCHANGED <<Stores, Rest>>

\* A wrong current password ends it here.
ChangeReads(c) ==
  \E word \in Passwords :
    /\ op[c].at = "check"
    /\ Become(c, IF word # row.word THEN Idle
                 ELSE [op[c] EXCEPT !.at = "swap", !.hash = row])
    /\ UNCHANGED <<Stores, Rest>>

\* The update stands only on the hash the current password was compared with.
Swaps(c) == row = op[c].hash

ChangeSwaps(c) ==
  \E word \in Passwords :
    /\ op[c].at = "swap"
    /\ IF Swaps(c) THEN /\ row' = [number |-> row.number + 1, word |-> word]
                        /\ Become(c, [op[c] EXCEPT !.at = "revoke"])
       ELSE Become(c, Idle) /\ UNCHANGED row
    /\ row.number <= MaxChanges
    /\ UNCHANGED <<epoch, session, fails, lock, Rest>>

\* RevokeAll: one INCR ends every session created before it.
RevokesAll(c) == epoch' = epoch + 1 /\ UNCHANGED session

ChangeRevokes(c) ==
  /\ op[c].at = "revoke"
  /\ RevokesAll(c)
  /\ broken' = FALSE
  /\ Become(c, Idle)
  /\ UNCHANGED <<row, fails, lock, boot, faults>>

-----------------------------------------------------------------------------
\* A round trip fails or the process dies in it; the request is over. After the
\* swap that is ErrSessionRevocationIncomplete.
Fault(c) ==
  /\ op[c].at # "idle" /\ faults < MaxFaults
  /\ faults' = faults + 1
  /\ broken' = (broken \/ op[c].at = "revoke")
  /\ Become(c, Idle)
  /\ UNCHANGED <<Stores, boot>>

\* Bootstrap: the first hash only, whoever starts beside this process.
BootReads(b) ==
  /\ boot[b] = "read"
  /\ boot' = [boot EXCEPT ![b] = IF row = NoHash THEN "write" ELSE "done"]
  /\ UNCHANGED <<Stores, op, broken, faults>>

BootstrapWins == row = NoHash

BootWrites(b) ==
  /\ boot[b] = "write"
  /\ row' = IF BootstrapWins THEN [number |-> 1, word |-> First] ELSE row
  /\ boot' = [boot EXCEPT ![b] = "done"]
  /\ UNCHANGED <<epoch, session, fails, lock, op, broken, faults>>

Less(n) == IF n = 0 THEN 0 ELSE n - 1
Tick ==
  /\ session' = [c \in Clients |-> IF session[c].left <= 1 THEN NoSession
                                   ELSE [session[c] EXCEPT !.left = @ - 1]]
  /\ fails' = [c \in Clients |-> IF fails[c].left <= 1 THEN NoFailures
                                 ELSE [fails[c] EXCEPT !.left = @ - 1]]
  /\ lock' = [c \in Clients |-> Less(lock[c])]
  /\ UNCHANGED <<row, epoch, op, Rest>>

Next ==
  \/ \E c \in Clients :
       \/ Login(c) \/ LoginReads(c) \/ LoginRefused(c) \/ LoginVerified(c) \/ CreateSession(c)
       \/ Logout(c)
       \/ ChangePassword(c) \/ ChangeReads(c) \/ ChangeSwaps(c) \/ ChangeRevokes(c)
       \/ Fault(c)
  \/ \E b \in Boots : BootReads(b) \/ BootWrites(b)
  \/ Tick

Spec == Init /\ [][Next]_vars
-----------------------------------------------------------------------------
TypeOK ==
  /\ row \in Hash
  /\ epoch \in Nat
  /\ session \in [Clients -> Session]
  /\ fails \in [Clients -> Counter]
  /\ lock \in [Clients -> 0..LockTicks]
  /\ op \in [Clients -> Op]
  /\ boot \in [Boots -> {"read", "write", "done"}]
  /\ broken \in BOOLEAN
  /\ faults \in Nat

\* Some change has stored its hash and still owes the revocation, or never made it.
Owed == broken \/ \E c \in Clients : op[c].at = "revoke"

\* Whoever is let in was verified against the password that is in force, however
\* logins and changes overtake each other, unless a revocation is owed: a login in
\* flight across a change never outlives it.
SessionsVerified == \A c \in Clients : Accepted(c) => session[c].hash = row.number \/ Owed

\* The strengthening of the proof: so were the logins that have read both, while no
\* change overtook them; nobody is ahead of the epoch, and nobody verified against NULL.
LoginsVerified ==
  \A c \in Clients :
    op[c].at \in {"verify", "create"} /\ op[c].epoch = epoch =>
      op[c].hash.number = row.number \/ Owed
HashesKnown ==
  /\ row.number = 0 => row = NoHash
  /\ \A c \in Clients :
       /\ session[c].epoch <= epoch /\ op[c].epoch <= epoch
       /\ session[c].left > 0 => session[c].hash > 0
       /\ op[c].at \in {"verify", "create"} => op[c].hash.number > 0
SessionInv == TypeOK /\ HashesKnown /\ SessionsVerified /\ LoginsVerified
=============================================================================
