----------------------------- MODULE PartsProofs -----------------------------
(***************************************************************************)
(* Theorems about the components of MCParts, for every value of their      *)
(* constants: each part's invariant holds in the states in which it was    *)
(* picked.                                                                 *)
(***************************************************************************)
EXTENDS MCParts, TLAPS, FiniteSetTheorems, SequenceTheorems

---------------------------------------------------------------------------
(* The panel's sessions                                                    *)

LEMMA SessionConstants ==
  /\ First \in Passwords
  /\ MaxFails \in Nat \ {0} /\ LockTicks \in Nat \ {0} /\ SessionTicks \in Nat \ {0}
  /\ MaxChanges \in Nat /\ MaxFaults \in Nat
  BY PartsAssumption DEF Sessions!PanelSessionAssumption

LEMMA SessionIdle == Sessions!Idle \in Sessions!Op /\ Sessions!NoHash \in Sessions!Hash
  BY SessionConstants DEF Sessions!Idle, Sessions!NoHash, Sessions!Op, Sessions!Hash,
                          Sessions!Steps

\* A request that moves on, and leaves what it was verified against alone.
MovesTo(c, r) ==
  /\ op' = [op EXCEPT ![c] = r]
  /\ UNCHANGED <<row, epoch, session, boot>>
  /\ fails' \in [Clients -> Sessions!Counter] /\ lock' \in [Clients -> 0..LockTicks]
  /\ broken' \in BOOLEAN /\ faults' \in Nat

\* What a request may become: not ahead of the epoch, verified against what is stored.
MayBecome(r) ==
  /\ r \in Sessions!Op /\ r.epoch <= epoch
  /\ r.at \in {"verify", "create"} =>
       /\ r.hash.number > 0
       /\ r.epoch = epoch => r.hash.number = row.number \/ Sessions!Owed

LEMMA RequestMoves ==
  ASSUME Sessions!SessionInv, NEW c \in Clients, NEW r, MayBecome(r), MovesTo(c, r),
         Sessions!Owed => Sessions!Owed'
  PROVE  Sessions!SessionInv'
<1>0. /\ op \in [Clients -> Sessions!Op] /\ op' = [op EXCEPT ![c] = r] /\ r \in Sessions!Op
      /\ UNCHANGED <<row, epoch, session, boot>>
  BY DEF Sessions!SessionInv, Sessions!TypeOK, MayBecome, MovesTo
<1>1. op'[c] = r /\ \A d \in Clients \ {c} : op'[d] = op[d]
  BY <1>0
<1>2. Sessions!TypeOK'
  BY <1>0 DEF Sessions!SessionInv, Sessions!TypeOK, MovesTo
<1>3. Sessions!HashesKnown'
  BY <1>0, <1>1 DEF Sessions!SessionInv, Sessions!HashesKnown, MayBecome
<1>4. Sessions!SessionsVerified'
  BY <1>0 DEF Sessions!SessionInv, Sessions!SessionsVerified, Sessions!Accepted
<1>5. Sessions!LoginsVerified'
  BY <1>0, <1>1 DEF Sessions!SessionInv, Sessions!LoginsVerified, MayBecome
<1> QED BY <1>2, <1>3, <1>4, <1>5 DEF Sessions!SessionInv

\* A request that owes no revocation, and its move, leave what is owed.
LEMMA OwedStays ==
  ASSUME Sessions!SessionInv, NEW c \in Clients, NEW r, op' = [op EXCEPT ![c] = r],
         op[c].at # "revoke", broken' = broken
  PROVE  Sessions!Owed => Sessions!Owed'
<1>1. op \in [Clients -> Sessions!Op]
  BY DEF Sessions!SessionInv, Sessions!TypeOK
<1> QED BY <1>1 DEF Sessions!Owed

\* A read, a comparison or a refusal: the request goes on, the rest stays.
LEMMA QuietMove ==
  ASSUME Sessions!SessionInv, NEW c \in Clients, NEW r, MayBecome(r), Sessions!Become(c, r),
         op[c].at # "revoke", UNCHANGED <<Sessions!Stores, Sessions!Rest>>
  PROVE  Sessions!SessionInv'
<1>1. /\ op' = [op EXCEPT ![c] = r] /\ broken' = broken
      /\ UNCHANGED <<row, epoch, session, fails, lock, boot, faults>>
  BY DEF Sessions!Become, Sessions!Stores, Sessions!Rest
<1>2. MovesTo(c, r)
  BY <1>1 DEF MovesTo, Sessions!SessionInv, Sessions!TypeOK
<1> QED BY <1>1, <1>2, OwedStays, RequestMoves

LEMMA IdleMay == ASSUME Sessions!SessionInv PROVE MayBecome(Sessions!Idle)
<1>1. Sessions!Idle.epoch = 0 /\ Sessions!Idle.at = "idle"
  BY DEF Sessions!Idle
<1>2. epoch \in Nat
  BY DEF Sessions!SessionInv, Sessions!TypeOK
<1> QED BY <1>1, <1>2, SessionIdle DEF MayBecome

LEMMA LoginInv ==
  ASSUME Sessions!SessionInv, NEW c \in Clients, Sessions!Login(c)
  PROVE  Sessions!SessionInv'
<1>1. PICK word \in Passwords :
         Sessions!Become(c, [Sessions!Idle EXCEPT !.at = "read1", !.word = word])
  BY DEF Sessions!Login
<1> DEFINE r == [Sessions!Idle EXCEPT !.at = "read1", !.word = word]
<1>2. Sessions!Idle \in Sessions!Op /\ Sessions!Idle.epoch = 0
  BY SessionIdle DEF Sessions!Idle
<1>3. r \in Sessions!Op /\ r.at = "read1" /\ r.epoch = 0
  BY <1>2 DEF Sessions!Op, Sessions!Steps
<1>4. Sessions!Become(c, r) /\ epoch \in Nat
  BY <1>1 DEF Sessions!SessionInv, Sessions!TypeOK
<1> HIDE DEF r
<1>5. MayBecome(r)
  BY <1>3, <1>4 DEF MayBecome
<1> QED BY <1>4, <1>5, QuietMove DEF Sessions!Login

LEMMA LoginReadsInv ==
  ASSUME Sessions!SessionInv, NEW c \in Clients, Sessions!LoginReads(c)
  PROVE  Sessions!SessionInv'
<1>0. /\ op[c] \in Sessions!Op /\ epoch \in Nat /\ row \in Sessions!Hash /\ op[c].epoch <= epoch
      /\ row.number = 0 => row = Sessions!NoHash
      /\ UNCHANGED <<Sessions!Stores, Sessions!Rest>> /\ op[c].at # "revoke"
  BY DEF Sessions!SessionInv, Sessions!TypeOK, Sessions!HashesKnown, Sessions!LoginReads,
         Sessions!Read
<1>1. CASE op[c].at = "read1" /\ Sessions!Read(c, "epoch", "read2")
  <2> DEFINE r == [op[c] EXCEPT !.at = "read2", !.epoch = epoch]
  <2>1. r \in Sessions!Op /\ r.at = "read2" /\ r.epoch = epoch
    BY <1>0 DEF Sessions!Op, Sessions!Steps
  <2>2. Sessions!Become(c, r)
    BY <1>1 DEF Sessions!Read
  <2> HIDE DEF r
  <2>3. MayBecome(r)
    BY <1>0, <2>1 DEF MayBecome
  <2> QED BY <1>0, <2>2, <2>3, QuietMove
<1>2. CASE op[c].at = "read2" /\ Sessions!Read(c, "hash", "verify") /\ row # Sessions!NoHash
  <2> DEFINE r == [op[c] EXCEPT !.at = "verify", !.hash = row]
  <2>1. r \in Sessions!Op /\ r.at = "verify" /\ r.epoch = op[c].epoch /\ r.hash = row
    BY <1>0 DEF Sessions!Op, Sessions!Steps
  <2>2. Sessions!Become(c, r)
    BY <1>2 DEF Sessions!Read
  <2> HIDE DEF r
  <2>3. row.number > 0
    BY <1>0, <1>2 DEF Sessions!Hash
  <2>4. MayBecome(r)
    BY <1>0, <2>1, <2>3 DEF MayBecome
  <2> QED BY <1>0, <2>2, <2>4, QuietMove
<1>3. CASE op[c].at = "read2" /\ Sessions!Read(c, "hash", "verify") /\ row = Sessions!NoHash
  BY <1>0, <1>3, IdleMay, QuietMove DEF Sessions!Read
<1> QED BY <1>1, <1>2, <1>3 DEF Sessions!LoginReads, Sessions!Reads

\* Stores and the row change under requests that stay.
LEMMA LoginRefusedInv ==
  ASSUME Sessions!SessionInv, NEW c \in Clients, Sessions!LoginRefused(c)
  PROVE  Sessions!SessionInv'
<1> DEFINE n == fails[c].count + 1
           left == IF n = 1 THEN LockTicks ELSE fails[c].left
           counter1 == [count |-> n, left |-> left]
<1>0. /\ fails \in [Clients -> Sessions!Counter] /\ lock \in [Clients -> 0..LockTicks]
      /\ op \in [Clients -> Sessions!Op] /\ broken' = broken /\ op[c].at # "revoke"
      /\ UNCHANGED <<row, epoch, session, boot, broken, faults>>
      /\ op' = [op EXCEPT ![c] = Sessions!Idle]
  BY DEF Sessions!SessionInv, Sessions!TypeOK, Sessions!LoginRefused, Sessions!Rest,
         Sessions!Become
<1>1. n \in Nat /\ left \in 0..LockTicks
  BY <1>0, SessionConstants DEF Sessions!Counter
<1>2. fails' = [fails EXCEPT ![c] = IF n >= MaxFails THEN Sessions!NoFailures ELSE counter1]
  BY DEF Sessions!LoginRefused
<1>3. lock' \in [Clients -> 0..LockTicks]
  BY <1>0, SessionConstants DEF Sessions!LoginRefused
<1> HIDE DEF left
<1>4. Sessions!NoFailures \in Sessions!Counter
  BY SessionConstants DEF Sessions!NoFailures, Sessions!Counter
<1>5. ~(n >= MaxFails) => counter1 \in Sessions!Counter
  BY <1>1, SessionConstants DEF Sessions!Counter
<1> HIDE DEF n, counter1
<1>6. fails' \in [Clients -> Sessions!Counter]
  BY <1>0, <1>2, <1>4, <1>5
<1>7. Sessions!Owed => Sessions!Owed'
  BY <1>0, OwedStays
<1>8. MovesTo(c, Sessions!Idle)
  BY <1>0, <1>3, <1>6 DEF MovesTo, Sessions!SessionInv, Sessions!TypeOK
<1> QED BY <1>7, <1>8, IdleMay, RequestMoves

LEMMA LoginVerifiedInv ==
  ASSUME Sessions!SessionInv, NEW c \in Clients, Sessions!LoginVerified(c)
  PROVE  Sessions!SessionInv'
<1> DEFINE r == [op[c] EXCEPT !.at = "create"]
<1>0. /\ op[c] \in Sessions!Op /\ op[c].epoch <= epoch /\ op[c].at = "verify"
      /\ op' = [op EXCEPT ![c] = r] /\ broken' = broken
      /\ UNCHANGED <<row, epoch, session, boot, faults>>
  BY DEF Sessions!SessionInv, Sessions!TypeOK, Sessions!HashesKnown, Sessions!LoginVerified,
         Sessions!Rest, Sessions!Become
<1>1. /\ op[c].hash.number > 0
      /\ op[c].epoch = epoch => op[c].hash.number = row.number \/ Sessions!Owed
  BY <1>0 DEF Sessions!SessionInv, Sessions!HashesKnown, Sessions!LoginsVerified
<1>2. r \in Sessions!Op /\ r.epoch = op[c].epoch /\ r.hash = op[c].hash
  BY <1>0 DEF Sessions!Op, Sessions!Steps
<1> HIDE DEF r
<1>3. MayBecome(r)
  BY <1>0, <1>1, <1>2 DEF MayBecome
<1>4. Sessions!NoFailures \in Sessions!Counter
  BY SessionConstants DEF Sessions!NoFailures, Sessions!Counter
<1>5. fails' \in [Clients -> Sessions!Counter] /\ lock' \in [Clients -> 0..LockTicks]
  BY <1>4, SessionConstants DEF Sessions!SessionInv, Sessions!TypeOK, Sessions!LoginVerified
<1>6. MovesTo(c, r)
  BY <1>0, <1>5 DEF MovesTo, Sessions!SessionInv, Sessions!TypeOK
<1>7. Sessions!Owed => Sessions!Owed'
  BY <1>0, OwedStays
<1> QED BY <1>3, <1>6, <1>7, RequestMoves

\* A session is written or deleted: it is of the epoch and the hash its login read.
SessionMay(s) ==
  /\ s \in Sessions!Session /\ s.epoch <= epoch
  /\ s.left > 0 => /\ s.hash > 0
                   /\ s.epoch = epoch => s.hash = row.number \/ Sessions!Owed

LEMMA SessionMoves ==
  ASSUME Sessions!SessionInv, NEW c \in Clients, NEW s, SessionMay(s),
         session' = [session EXCEPT ![c] = s], NEW r, MayBecome(r),
         op' = [op EXCEPT ![c] = r], op[c].at # "revoke",
         UNCHANGED <<row, epoch, fails, lock, boot, broken, faults>>
  PROVE  Sessions!SessionInv'
<1>0. /\ op \in [Clients -> Sessions!Op] /\ r \in Sessions!Op
      /\ session \in [Clients -> Sessions!Session] /\ s \in Sessions!Session
  BY DEF Sessions!SessionInv, Sessions!TypeOK, MayBecome, SessionMay
<1>1. /\ op'[c] = r /\ \A d \in Clients \ {c} : op'[d] = op[d]
      /\ session'[c] = s /\ \A d \in Clients \ {c} : session'[d] = session[d]
  BY <1>0
<1>2. Sessions!TypeOK'
  BY <1>0 DEF Sessions!SessionInv, Sessions!TypeOK
<1>3. Sessions!HashesKnown'
  BY <1>1 DEF Sessions!SessionInv, Sessions!HashesKnown, MayBecome, SessionMay
<1>4. Sessions!Owed => Sessions!Owed'
  BY OwedStays
<1>5. Sessions!SessionsVerified'
  BY <1>1, <1>4 DEF Sessions!SessionInv, Sessions!SessionsVerified, Sessions!Accepted, SessionMay
<1>6. Sessions!LoginsVerified'
  BY <1>1, <1>4 DEF Sessions!SessionInv, Sessions!LoginsVerified, MayBecome
<1> QED BY <1>2, <1>3, <1>5, <1>6 DEF Sessions!SessionInv

LEMMA CreateSessionInv ==
  ASSUME Sessions!SessionInv, NEW c \in Clients, Sessions!CreateSession(c)
  PROVE  Sessions!SessionInv'
<1> DEFINE s == [epoch |-> op[c].epoch, hash |-> op[c].hash.number, left |-> SessionTicks]
<1>0. op[c] \in Sessions!Op /\ op[c].at = "create" /\ op[c].epoch <= epoch /\ op[c].hash.number > 0
  BY DEF Sessions!SessionInv, Sessions!TypeOK, Sessions!HashesKnown, Sessions!CreateSession
<1>1. op[c].epoch = epoch => op[c].hash.number = row.number \/ Sessions!Owed
  BY <1>0 DEF Sessions!SessionInv, Sessions!LoginsVerified
<1>2. op[c].epoch \in Nat /\ op[c].hash.number \in Nat /\ SessionTicks \in 0..SessionTicks
  BY <1>0, SessionConstants DEF Sessions!Op, Sessions!Hash
<1>3. s \in Sessions!Session
  BY <1>2 DEF Sessions!Session
<1>4. SessionMay(s)
  BY <1>0, <1>1, <1>3 DEF SessionMay
<1>5. session' = [session EXCEPT ![c] = s] /\ op' = [op EXCEPT ![c] = Sessions!Idle]
  BY DEF Sessions!CreateSession, Sessions!Become
<1> HIDE DEF s
<1> QED BY <1>0, <1>4, <1>5, IdleMay, SessionMoves DEF Sessions!CreateSession, Sessions!Rest

LEMMA NoSessionMay == ASSUME Sessions!SessionInv PROVE SessionMay(Sessions!NoSession)
<1>1. epoch \in Nat
  BY DEF Sessions!SessionInv, Sessions!TypeOK
<1> QED BY <1>1, SessionConstants DEF SessionMay, Sessions!NoSession, Sessions!Session

LEMMA LogoutInv ==
  ASSUME Sessions!SessionInv, NEW c \in Clients, Sessions!Logout(c)
  PROVE  Sessions!SessionInv'
<1>0. op \in [Clients -> Sessions!Op] /\ op[c].at = "idle" /\ op[c].epoch <= epoch
  BY DEF Sessions!SessionInv, Sessions!TypeOK, Sessions!HashesKnown, Sessions!Logout
<1>1. MayBecome(op[c]) /\ op' = [op EXCEPT ![c] = op[c]]
  BY <1>0 DEF MayBecome, Sessions!Logout
<1>2. session' = [session EXCEPT ![c] = Sessions!NoSession]
  BY DEF Sessions!Logout
<1> QED BY <1>0, <1>1, <1>2, NoSessionMay, SessionMoves DEF Sessions!Logout, Sessions!Rest

LEMMA ChangePasswordInv ==
  ASSUME Sessions!SessionInv, NEW c \in Clients, Sessions!ChangePassword(c)
  PROVE  Sessions!SessionInv'
<1> DEFINE r == [Sessions!Idle EXCEPT !.at = "check"]
<1>1. Sessions!Idle \in Sessions!Op /\ Sessions!Idle.epoch = 0
  BY SessionIdle DEF Sessions!Idle
<1>2. r \in Sessions!Op /\ r.at = "check" /\ r.epoch = 0
  BY <1>1 DEF Sessions!Op, Sessions!Steps
<1>3. /\ Sessions!Become(c, r) /\ epoch \in Nat /\ op[c].at = "idle"
      /\ UNCHANGED <<Sessions!Stores, Sessions!Rest>>
  BY DEF Sessions!ChangePassword, Sessions!SessionInv, Sessions!TypeOK
<1> HIDE DEF r
<1>4. MayBecome(r)
  BY <1>2, <1>3 DEF MayBecome
<1> QED BY <1>3, <1>4, QuietMove

LEMMA ChangeReadsInv ==
  ASSUME Sessions!SessionInv, NEW c \in Clients, Sessions!ChangeReads(c)
  PROVE  Sessions!SessionInv'
<1> DEFINE r == [op[c] EXCEPT !.at = "swap", !.hash = row]
<1>1. /\ Sessions!Become(c, Sessions!Idle) \/ Sessions!Become(c, r)
      /\ op[c].at = "check" /\ UNCHANGED <<Sessions!Stores, Sessions!Rest>>
  BY DEF Sessions!ChangeReads
<1>2. op[c] \in Sessions!Op /\ op[c].epoch <= epoch /\ row \in Sessions!Hash
  BY DEF Sessions!SessionInv, Sessions!TypeOK, Sessions!HashesKnown
<1>3. r \in Sessions!Op /\ r.at = "swap" /\ r.epoch = op[c].epoch
  BY <1>2 DEF Sessions!Op, Sessions!Steps
<1> HIDE DEF r
<1>4. MayBecome(r)
  BY <1>2, <1>3 DEF MayBecome
<1> QED BY <1>1, <1>4, IdleMay, QuietMove

\* A change that stored its hash owes the revocation, so all is allowed until it made it.
LEMMA SwappedInv ==
  ASSUME Sessions!SessionInv, NEW c \in Clients, NEW word \in Passwords,
         op[c].at = "swap", row' = [number |-> row.number + 1, word |-> word],
         op' = [op EXCEPT ![c] = [op[c] EXCEPT !.at = "revoke"]],
         UNCHANGED <<epoch, session, fails, lock, boot, broken, faults>>
  PROVE  Sessions!SessionInv'
<1> DEFINE r == [op[c] EXCEPT !.at = "revoke"]
<1>0. /\ op \in [Clients -> Sessions!Op] /\ op[c] \in Sessions!Op /\ row.number \in Nat
      /\ op' = [op EXCEPT ![c] = r]
  BY DEF Sessions!SessionInv, Sessions!TypeOK, Sessions!Hash
<1>1. r \in Sessions!Op /\ r.at = "revoke" /\ r.epoch = op[c].epoch
  BY <1>0 DEF Sessions!Op, Sessions!Steps
<1> HIDE DEF r
<1>2. op'[c] = r /\ \A d \in Clients \ {c} : op'[d] = op[d]
  BY <1>0
<1>3. row' \in Sessions!Hash /\ row'.number > 0
  BY <1>0 DEF Sessions!Hash
<1>4. Sessions!TypeOK'
  BY <1>0, <1>1, <1>3 DEF Sessions!SessionInv, Sessions!TypeOK
<1>5. Sessions!HashesKnown'
  BY <1>1, <1>2, <1>3 DEF Sessions!SessionInv, Sessions!HashesKnown
<1>6. Sessions!Owed'
  BY <1>1, <1>2 DEF Sessions!Owed
<1> QED BY <1>4, <1>5, <1>6
        DEF Sessions!SessionInv, Sessions!SessionsVerified, Sessions!LoginsVerified

LEMMA ChangeSwapsInv ==
  ASSUME Sessions!SessionInv, NEW c \in Clients, Sessions!ChangeSwaps(c)
  PROVE  Sessions!SessionInv'
<1>1. CASE Sessions!Swaps(c)
  <2>1. PICK word \in Passwords : row' = [number |-> row.number + 1, word |-> word]
    BY <1>1 DEF Sessions!ChangeSwaps
  <2> QED BY <1>1, <2>1, SwappedInv DEF Sessions!ChangeSwaps, Sessions!Become, Sessions!Rest
<1>2. CASE ~Sessions!Swaps(c)
  BY <1>2, IdleMay, QuietMove DEF Sessions!ChangeSwaps, Sessions!Stores, Sessions!Rest
<1> QED BY <1>1, <1>2

\* The next epoch ends every session, and every login, begun before it.
LEMMA ChangeRevokesInv ==
  ASSUME Sessions!SessionInv, NEW c \in Clients, Sessions!ChangeRevokes(c)
  PROVE  Sessions!SessionInv'
<1>0. /\ op \in [Clients -> Sessions!Op] /\ epoch \in Nat
      /\ epoch' = epoch + 1 /\ broken' = FALSE /\ op' = [op EXCEPT ![c] = Sessions!Idle]
      /\ UNCHANGED <<row, session, fails, lock, boot, faults>>
  BY DEF Sessions!SessionInv, Sessions!TypeOK, Sessions!ChangeRevokes, Sessions!RevokesAll,
         Sessions!Become
<1>1. /\ op'[c] = Sessions!Idle /\ \A d \in Clients \ {c} : op'[d] = op[d]
      /\ Sessions!Idle.epoch = 0 /\ Sessions!Idle.at = "idle"
  BY <1>0 DEF Sessions!Idle
<1>2. Sessions!TypeOK'
  <2>1. broken' \in BOOLEAN
    BY Zenon DEF Sessions!ChangeRevokes
  <2>2. op' \in [Clients -> Sessions!Op]
    BY <1>0, SessionIdle
  <2>3. epoch' \in Nat
    BY <1>0
  <2> QED BY <1>0, <2>1, <2>2, <2>3 DEF Sessions!SessionInv, Sessions!TypeOK
<1>3. \A d \in Clients : session[d].epoch \in Nat /\ op[d].epoch \in Nat
  BY DEF Sessions!SessionInv, Sessions!TypeOK, Sessions!Session, Sessions!Op
<1>4. \A d \in Clients : session'[d].epoch < epoch' /\ op'[d].epoch < epoch'
  <2> SUFFICES ASSUME NEW d \in Clients PROVE session'[d].epoch < epoch' /\ op'[d].epoch < epoch'
    OBVIOUS
  <2>1. session[d].epoch <= epoch /\ op[d].epoch <= epoch
    BY DEF Sessions!SessionInv, Sessions!HashesKnown
  <2> QED BY <1>0, <1>1, <1>3, <2>1
<1>5. Sessions!HashesKnown'
  <2>1. \A d \in Clients : session'[d].epoch <= epoch' /\ op'[d].epoch <= epoch'
    BY <1>0, <1>1, <1>3, <1>4
  <2> QED BY <1>0, <1>1, <2>1 DEF Sessions!SessionInv, Sessions!HashesKnown
<1>6. \A d \in Clients : session'[d].epoch # epoch' /\ op'[d].epoch # epoch'
  BY <1>0, <1>1, <1>3, <1>4
<1> QED BY <1>2, <1>5, <1>6
        DEF Sessions!SessionInv, Sessions!SessionsVerified, Sessions!LoginsVerified, Sessions!Accepted

\* A revocation that was never made stays owed.
LEMMA FaultInv ==
  ASSUME Sessions!SessionInv, NEW c \in Clients, Sessions!Fault(c)
  PROVE  Sessions!SessionInv'
<1>1. /\ op \in [Clients -> Sessions!Op] /\ op' = [op EXCEPT ![c] = Sessions!Idle]
      /\ broken' = (broken \/ op[c].at = "revoke") /\ broken \in BOOLEAN /\ faults' \in Nat
      /\ UNCHANGED <<row, epoch, session, fails, lock, boot>>
  BY DEF Sessions!SessionInv, Sessions!TypeOK, Sessions!Fault, Sessions!Become, Sessions!Stores
<1>2. MovesTo(c, Sessions!Idle)
  BY <1>1 DEF MovesTo, Sessions!SessionInv, Sessions!TypeOK
<1>3. Sessions!Owed => Sessions!Owed'
  BY <1>1 DEF Sessions!Owed
<1> QED BY <1>2, <1>3, IdleMay, RequestMoves

LEMMA BootReadsInv ==
  ASSUME Sessions!SessionInv, NEW b \in Boots, Sessions!BootReads(b)
  PROVE  Sessions!SessionInv'
<1>1. /\ boot' \in [Boots -> {"read", "write", "done"}]
      /\ UNCHANGED <<row, epoch, session, fails, lock, op, broken, faults>>
  BY DEF Sessions!SessionInv, Sessions!TypeOK, Sessions!BootReads, Sessions!Stores
<1> QED BY <1>1 DEF Sessions!SessionInv, Sessions!TypeOK, Sessions!HashesKnown, Sessions!Owed,
                    Sessions!SessionsVerified, Sessions!LoginsVerified, Sessions!Accepted

\* The first hash takes the place of none, which nobody was verified against.
LEMMA BootWritesInv ==
  ASSUME Sessions!SessionInv, NEW b \in Boots, Sessions!BootWrites(b)
  PROVE  Sessions!SessionInv'
<1>1. /\ boot' \in [Boots -> {"read", "write", "done"}]
      /\ UNCHANGED <<epoch, session, fails, lock, op, broken, faults>>
  BY DEF Sessions!SessionInv, Sessions!TypeOK, Sessions!BootWrites
<1>2. CASE row # Sessions!NoHash
  <2>1. row' = row
    BY <1>2 DEF Sessions!BootWrites, Sessions!BootstrapWins
  <2> QED BY <1>1, <2>1
          DEF Sessions!SessionInv, Sessions!TypeOK, Sessions!HashesKnown, Sessions!Owed,
              Sessions!SessionsVerified, Sessions!LoginsVerified, Sessions!Accepted
<1>3. CASE row = Sessions!NoHash
  <2>1. row' = [number |-> 1, word |-> First] /\ row.number = 0
    BY <1>3 DEF Sessions!BootWrites, Sessions!BootstrapWins, Sessions!NoHash
  <2>2. row' \in Sessions!Hash /\ row'.number # 0
    BY <2>1, SessionConstants DEF Sessions!Hash
  <2>3. Sessions!TypeOK' /\ Sessions!HashesKnown'
    BY <1>1, <2>2 DEF Sessions!SessionInv, Sessions!TypeOK, Sessions!HashesKnown
  <2>4. Sessions!SessionsVerified'
    BY <1>1, <2>1 DEF Sessions!SessionInv, Sessions!TypeOK, Sessions!HashesKnown, Sessions!Owed,
                      Sessions!SessionsVerified, Sessions!Accepted, Sessions!Session
  <2>5. Sessions!LoginsVerified'
    BY <1>1, <2>1 DEF Sessions!SessionInv, Sessions!TypeOK, Sessions!HashesKnown, Sessions!Owed,
                      Sessions!LoginsVerified, Sessions!Op, Sessions!Hash
  <2> QED BY <2>3, <2>4, <2>5 DEF Sessions!SessionInv
<1> QED BY <1>2, <1>3

LEMMA SessionTickInv ==
  ASSUME Sessions!SessionInv, Sessions!Tick
  PROVE  Sessions!SessionInv'
<1>0. /\ session \in [Clients -> Sessions!Session] /\ fails \in [Clients -> Sessions!Counter]
      /\ lock \in [Clients -> 0..LockTicks] /\ epoch \in Nat
      /\ UNCHANGED <<row, epoch, op, boot, broken, faults>>
  BY DEF Sessions!SessionInv, Sessions!TypeOK, Sessions!Tick, Sessions!Rest
<1>1. ASSUME NEW c \in Clients
      PROVE  /\ session'[c] \in Sessions!Session
             /\ session'[c] = Sessions!NoSession
                \/ /\ session'[c].epoch = session[c].epoch /\ session'[c].hash = session[c].hash
                   /\ session[c].left > 0
  <2>1. session[c] \in Sessions!Session /\ Sessions!NoSession \in Sessions!Session
    BY <1>0, SessionConstants DEF Sessions!Session, Sessions!NoSession
  <2>2. session'[c] = IF session[c].left <= 1 THEN Sessions!NoSession
                      ELSE [session[c] EXCEPT !.left = session[c].left - 1]
    BY DEF Sessions!Tick
  <2>3. CASE session[c].left <= 1
    BY <2>1, <2>2, <2>3
  <2>4. CASE ~(session[c].left <= 1)
    BY <2>1, <2>2, <2>4, SessionConstants DEF Sessions!Session
  <2> QED BY <2>3, <2>4
<1>2. \A c \in Clients : fails'[c] \in Sessions!Counter
  <2> SUFFICES ASSUME NEW c \in Clients PROVE fails'[c] \in Sessions!Counter
    OBVIOUS
  <2>1. fails[c] \in Sessions!Counter /\ Sessions!NoFailures \in Sessions!Counter
    BY <1>0, SessionConstants DEF Sessions!Counter, Sessions!NoFailures
  <2>2. fails'[c] = IF fails[c].left <= 1 THEN Sessions!NoFailures
                    ELSE [fails[c] EXCEPT !.left = fails[c].left - 1]
    BY DEF Sessions!Tick
  <2> QED BY <2>1, <2>2, SessionConstants DEF Sessions!Counter
<1>3. lock' \in [Clients -> 0..LockTicks]
  <2>1. \A n \in 0..LockTicks : Sessions!Less(n) \in 0..LockTicks
    BY SessionConstants DEF Sessions!Less
  <2> QED BY <1>0, <2>1 DEF Sessions!Tick
<1>4. session' \in [Clients -> Sessions!Session] /\ fails' \in [Clients -> Sessions!Counter]
  <2>1. \A c \in Clients : session'[c] \in Sessions!Session
    BY <1>1
  <2> QED BY <1>2, <2>1 DEF Sessions!Tick
<1>5. Sessions!TypeOK'
  BY <1>0, <1>3, <1>4 DEF Sessions!SessionInv, Sessions!TypeOK
<1>6. Sessions!NoSession = [epoch |-> 0, hash |-> 0, left |-> 0]
  BY DEF Sessions!NoSession
<1>7. ASSUME NEW c \in Clients
      PROVE  /\ session'[c].epoch <= epoch'
             /\ session'[c].left > 0 => /\ session'[c].epoch = session[c].epoch
                                        /\ session'[c].hash = session[c].hash
                                        /\ session[c].left > 0
  <2>1. session[c].epoch <= epoch
    BY DEF Sessions!SessionInv, Sessions!HashesKnown
  <2>2. CASE session'[c] = Sessions!NoSession
    BY <1>0, <1>6, <2>2
  <2>3. CASE session'[c] # Sessions!NoSession
    BY <1>0, <1>1, <2>1, <2>3
  <2> QED BY <2>2, <2>3
<1>8. Sessions!HashesKnown'
  BY <1>0, <1>7 DEF Sessions!SessionInv, Sessions!HashesKnown
<1>9. Sessions!Owed' <=> Sessions!Owed
  BY <1>0 DEF Sessions!Owed
<1>10. Sessions!SessionsVerified' /\ Sessions!LoginsVerified'
  BY <1>0, <1>7, <1>9 DEF Sessions!SessionInv, Sessions!SessionsVerified, Sessions!Accepted,
                          Sessions!LoginsVerified
<1> QED BY <1>5, <1>8, <1>10 DEF Sessions!SessionInv

LEMMA SessionStep ==
  ASSUME Sessions!SessionInv, Sessions!Next
  PROVE  Sessions!SessionInv'
<1>1. ASSUME NEW c \in Clients,
             \/ Sessions!Login(c) \/ Sessions!LoginReads(c) \/ Sessions!LoginRefused(c)
             \/ Sessions!LoginVerified(c) \/ Sessions!CreateSession(c) \/ Sessions!Logout(c)
             \/ Sessions!ChangePassword(c) \/ Sessions!ChangeReads(c) \/ Sessions!ChangeSwaps(c)
             \/ Sessions!ChangeRevokes(c) \/ Sessions!Fault(c)
      PROVE  Sessions!SessionInv'
  BY <1>1, LoginInv, LoginReadsInv, LoginRefusedInv, LoginVerifiedInv, CreateSessionInv, LogoutInv,
     ChangePasswordInv, ChangeReadsInv, ChangeSwapsInv, ChangeRevokesInv, FaultInv
<1>2. ASSUME NEW b \in Boots, Sessions!BootReads(b) \/ Sessions!BootWrites(b)
      PROVE  Sessions!SessionInv'
  BY <1>2, BootReadsInv, BootWritesInv
<1> QED BY <1>1, <1>2, SessionTickInv DEF Sessions!Next

LEMMA SessionStart == ASSUME Sessions!Init PROVE Sessions!SessionInv
<1>1. /\ row = [number |-> 0, word |-> First] /\ epoch = 0
      /\ session = [c \in Clients |-> [epoch |-> 0, hash |-> 0, left |-> 0]]
      /\ \A c \in Clients : op[c].at = "idle" /\ op[c].epoch = 0
  BY DEF Sessions!Init, Sessions!NoHash, Sessions!NoSession, Sessions!Idle
<1>2. Sessions!NoFailures \in Sessions!Counter /\ Sessions!NoSession \in Sessions!Session
  BY SessionConstants DEF Sessions!NoFailures, Sessions!Counter, Sessions!NoSession, Sessions!Session
<1>3. Sessions!TypeOK
  <2>1. broken \in BOOLEAN
    BY Zenon DEF Sessions!Init
  <2>2. lock \in [Clients -> 0..LockTicks]
    BY SessionConstants DEF Sessions!Init
  <2> QED BY <1>2, <2>1, <2>2, SessionIdle DEF Sessions!Init, Sessions!TypeOK
<1>4. Sessions!HashesKnown
  BY <1>1 DEF Sessions!HashesKnown, Sessions!NoHash
<1> QED BY <1>1, <1>3, <1>4 DEF Sessions!SessionInv, Sessions!SessionsVerified, Sessions!Accepted,
                                Sessions!LoginsVerified

\* Whoever is let in was verified against the password in force, unless a stored change
\* still owes its revocation, for any clients, processes, failures and clocks
\* (service/auth.go, service/session.go).
THEOREM LettingInIsVerified == Spec => []SessionsVerified
<1> DEFINE Inv == part = "session" => Sessions!SessionInv
<1>1. Init => Inv
  BY SessionStart DEF Init
<1>2. Inv /\ [Next]_partsVars => Inv'
  <2> SUFFICES ASSUME Inv, [Next]_partsVars, part' = "session" PROVE Sessions!SessionInv'
    OBVIOUS
  <2>1. CASE Next
    <3>1. part = "session" /\ Sessions!Next
      BY <2>1 DEF Next
    <3> QED BY <3>1, SessionStep
  <2>2. CASE UNCHANGED partsVars
    <3>1. part = "session" /\ UNCHANGED <<row, epoch, session, fails, lock, op, boot, broken, faults>>
      BY <2>2 DEF partsVars
    <3> QED BY <3>1 DEF Sessions!SessionInv, Sessions!TypeOK, Sessions!HashesKnown, Sessions!Owed,
                        Sessions!SessionsVerified, Sessions!LoginsVerified, Sessions!Accepted
  <2> QED BY <2>1, <2>2
<1>3. Inv => SessionsVerified
  BY DEF SessionsVerified, Sessions!SessionInv
<1> QED BY <1>1, <1>2, <1>3, PTL DEF Spec

---------------------------------------------------------------------------
(* The gateway keys and their door                                         *)

LEMMA DoorConstants ==
  /\ Limit \in Nat \ {0} /\ WindowTicks \in Nat \ {0}
  /\ MaxEdits \in Nat /\ MaxCalls \in Nat /\ MaxUses \in Nat
  BY PartsAssumption DEF Door!GatewayKeysAssumption

\* The panel rewrites a row, and never takes a revocation's date back.
LEMMA RowRewritten ==
  ASSUME Door!DoorInv, NEW k \in IssuedKeys, NEW r \in Door!Row, key[k].revokedAt => r.revokedAt,
         key' = [key EXCEPT ![k] = r],
         edit' \in [Panels -> {Door!NoEdit} \union Door!EditUpdate \union Door!EditRevoke],
         revoked' = revoked \/ (revoked' = revoked \union {k} /\ r.revokedAt),
         UNCHANGED <<required, window, call, let, edits>>
  PROVE  Door!DoorInv'
<1>0. key \in [IssuedKeys -> Door!Row] /\ revoked \subseteq IssuedKeys
  BY DEF Door!DoorInv, Door!TypeOK
<1>1. Door!TypeOK'
  <2>1. key' \in [IssuedKeys -> Door!Row] /\ revoked' \subseteq IssuedKeys
    BY <1>0
  <2> QED BY <2>1 DEF Door!DoorInv, Door!TypeOK
<1>2. \A q \in revoked' : key'[q].revokedAt
  BY <1>0 DEF Door!DoorInv, Door!RevocationsStored
<1>3. revoked \subseteq revoked'
  OBVIOUS
<1>4. Door!RevocationsStored'
  BY <1>2, <1>3 DEF Door!DoorInv, Door!RevocationsStored
<1> QED BY <1>1, <1>4 DEF Door!DoorInv, Door!DoorSound, Door!RevokedStaysOut, Door!WindowHolds,
                          Door!WindowCounted

\* What is in hand of a panel, and what it may be.
LEMMA EditKinds ==
  ASSUME Door!DoorInv, NEW p \in Panels
  PROVE  /\ edit[p].does = "update" => edit[p] \in Door!EditUpdate
         /\ edit[p].does = "revoke" => edit[p] \in Door!EditRevoke
<1>1. edit[p] \in {Door!NoEdit} \union Door!EditUpdate \union Door!EditRevoke
  BY DEF Door!DoorInv, Door!TypeOK
<1>2. CASE edit[p] = Door!NoEdit
  BY <1>2 DEF Door!NoEdit
<1>3. CASE edit[p] \in Door!EditUpdate
  BY <1>3 DEF Door!EditUpdate
<1>4. CASE edit[p] \in Door!EditRevoke
  BY <1>4 DEF Door!EditRevoke
<1> QED BY <1>1, <1>2, <1>3, <1>4

LEMMA CreateInv ==
  ASSUME Door!DoorInv, NEW k \in IssuedKeys, Door!Create(k)
  PROVE  Door!DoorInv'
<1> DEFINE r == [key[k] EXCEPT !.issued = TRUE]
<1>1. key[k] \in Door!Row /\ key' = [key EXCEPT ![k] = r]
  BY DEF Door!DoorInv, Door!TypeOK, Door!Create
<1>2. r \in Door!Row /\ r.revokedAt = key[k].revokedAt
  BY <1>1 DEF Door!Row
<1>3. edit' \in [Panels -> {Door!NoEdit} \union Door!EditUpdate \union Door!EditRevoke]
  BY DEF Door!DoorInv, Door!TypeOK, Door!Create
<1> HIDE DEF r
<1> QED BY <1>1, <1>2, <1>3, RowRewritten DEF Door!Create

\* A panel takes a request up: nothing is stored.
LEMMA RequestTaken ==
  ASSUME Door!DoorInv, NEW p \in Panels,
         NEW x \in {Door!NoEdit} \union Door!EditUpdate \union Door!EditRevoke,
         edit' = [edit EXCEPT ![p] = x], edits' = edits + 1,
         UNCHANGED <<key, required, window, call, let, revoked>>
  PROVE  Door!DoorInv'
<1>1. Door!TypeOK'
  BY DEF Door!DoorInv, Door!TypeOK
<1> QED BY <1>1 DEF Door!DoorInv, Door!DoorSound, Door!RevokedStaysOut, Door!WindowHolds,
                    Door!RevocationsStored, Door!WindowCounted

LEMMA UpdateInv ==
  ASSUME Door!DoorInv, NEW p \in Panels, NEW k \in IssuedKeys, Door!Update(p, k)
  PROVE  Door!DoorInv'
<1>1. PICK status \in {"unchanged", "active", "disabled"} : \E new \in Door!Patched(key[k], status) :
         edit' = [edit EXCEPT ![p] = [does |-> "update", key |-> k, status |-> new]]
  BY DEF Door!Update
<1>2. PICK new \in Door!Patched(key[k], status) :
         edit' = [edit EXCEPT ![p] = [does |-> "update", key |-> k, status |-> new]]
  BY <1>1
<1>3. key[k].status \in Door!Statuses
  BY DEF Door!DoorInv, Door!TypeOK, Door!Row
<1>4. new \in Door!Statuses
  BY <1>2, <1>3 DEF Door!Patched, Door!Statuses
<1>5. [does |-> "update", key |-> k, status |-> new] \in Door!EditUpdate
  BY <1>4 DEF Door!EditUpdate
<1> QED BY <1>2, <1>5, RequestTaken DEF Door!Update

LEMMA RevokeInv ==
  ASSUME Door!DoorInv, NEW p \in Panels, NEW k \in IssuedKeys, Door!Revoke(p, k)
  PROVE  Door!DoorInv'
<1>1. [does |-> "revoke", key |-> k] \in Door!EditRevoke
  BY DEF Door!EditRevoke
<1> QED BY <1>1, RequestTaken DEF Door!Revoke

LEMMA EditDone ==
  ASSUME Door!DoorInv, NEW p \in Panels, edit' = [edit EXCEPT ![p] = Door!NoEdit]
  PROVE  edit' \in [Panels -> {Door!NoEdit} \union Door!EditUpdate \union Door!EditRevoke]
  BY DEF Door!DoorInv, Door!TypeOK

\* A PATCH writes its status over a revocation, but not over the revocation's date.
LEMMA UpdateWritesInv ==
  ASSUME Door!DoorInv, NEW p \in Panels, Door!UpdateWrites(p)
  PROVE  Door!DoorInv'
<1> DEFINE k == edit[p].key
           r == [key[k] EXCEPT !.status = edit[p].status]
<1>1. edit[p] \in Door!EditUpdate
  BY EditKinds DEF Door!UpdateWrites
<1>2. k \in IssuedKeys /\ edit[p].status \in Door!Statuses
  BY <1>1 DEF Door!EditUpdate
<1>3. key[k] \in Door!Row /\ key' = [key EXCEPT ![k] = r]
  BY <1>2 DEF Door!DoorInv, Door!TypeOK, Door!UpdateWrites
<1>4. r \in Door!Row /\ r.revokedAt = key[k].revokedAt
  BY <1>2, <1>3 DEF Door!Row
<1> HIDE DEF r, k
<1> QED BY <1>2, <1>3, <1>4, EditDone, RowRewritten DEF Door!UpdateWrites

LEMMA RevokeWritesInv ==
  ASSUME Door!DoorInv, NEW p \in Panels, Door!RevokeWrites(p)
  PROVE  Door!DoorInv'
<1> DEFINE k == edit[p].key
           r == Door!Retire(key[k])
<1>1. edit[p] \in Door!EditRevoke
  BY EditKinds DEF Door!RevokeWrites
<1>2. k \in IssuedKeys
  BY <1>1 DEF Door!EditRevoke
<1>3. key[k] \in Door!Row /\ key' = [key EXCEPT ![k] = r]
  BY <1>2 DEF Door!DoorInv, Door!TypeOK, Door!RevokeWrites
<1>4. r \in Door!Row /\ r.revokedAt
  BY <1>3 DEF Door!Row, Door!Retire, Door!Statuses
<1>5. revoked' = revoked \union {k} /\ edit' = [edit EXCEPT ![p] = Door!NoEdit]
  BY DEF Door!RevokeWrites
<1> HIDE DEF r, k
<1> QED BY <1>2, <1>3, <1>4, <1>5, EditDone, RowRewritten DEF Door!RevokeWrites

LEMMA SetRequiredInv ==
  ASSUME Door!DoorInv, Door!SetRequired
  PROVE  Door!DoorInv'
<1>1. required' \in BOOLEAN
  BY Zenon DEF Door!SetRequired
<1>2. Door!TypeOK'
  BY <1>1 DEF Door!DoorInv, Door!TypeOK, Door!SetRequired
<1> QED BY <1>2 DEF Door!DoorInv, Door!DoorSound, Door!RevokedStaysOut, Door!WindowHolds,
                    Door!RevocationsStored, Door!WindowCounted, Door!SetRequired

\* What a call may become: none, or one that knows of stored revocations only, names a
\* key where it asks for one, and is served on none that it knows to be revoked.
CallMay(r) ==
  \/ r = Door!NoCall
  \/ /\ r \in Door!Call /\ r.dead \subseteq revoked
     /\ r.at \in {"lookup", "use", "served"} => r.token \in IssuedKeys
     /\ r.at \in {"use", "served"} => r.token \notin r.dead

LEMMA CallMoves ==
  ASSUME Door!DoorInv, NEW c \in Callers, NEW r, CallMay(r), call' = [call EXCEPT ![c] = r],
         UNCHANGED <<key, edit, required, window, let, revoked, edits>>
  PROVE  Door!DoorInv'
<1>0. /\ call \in [Callers -> {Door!NoCall} \union Door!Call]
      /\ r \in {Door!NoCall} \union Door!Call /\ Door!NoCall.at = "idle"
  BY DEF Door!DoorInv, Door!TypeOK, CallMay, Door!NoCall
<1>1. call'[c] = r /\ \A d \in Callers \ {c} : call'[d] = call[d]
  BY <1>0
<1>2. Door!TypeOK'
  BY <1>0 DEF Door!DoorInv, Door!TypeOK
<1>3. Door!RevocationsStored'
  BY <1>0, <1>1 DEF Door!DoorInv, Door!RevocationsStored, CallMay
<1>4. Door!RevokedStaysOut'
  BY <1>0, <1>1 DEF Door!DoorInv, Door!DoorSound, Door!RevokedStaysOut, CallMay
<1> QED BY <1>2, <1>3, <1>4 DEF Door!DoorInv, Door!DoorSound, Door!WindowHolds, Door!WindowCounted

LEMMA CallKinds ==
  ASSUME Door!DoorInv, NEW c \in Callers, call[c].at # "idle"
  PROVE  /\ call[c] \in Door!Call /\ call[c].dead \subseteq revoked
         /\ call[c].at \in {"lookup", "use", "served"} => call[c].token \in IssuedKeys
         /\ call[c].at \in {"use", "served"} => call[c].token \notin call[c].dead
<1>1. call[c] \in {Door!NoCall} \union Door!Call /\ call[c] # Door!NoCall
  BY DEF Door!DoorInv, Door!TypeOK, Door!NoCall
<1> QED BY <1>1 DEF Door!DoorInv, Door!DoorSound, Door!RevokedStaysOut, Door!RevocationsStored

\* A call that takes one step further, on the token it came with.
LEMMA StepMay ==
  ASSUME Door!DoorInv, NEW c \in Callers, call[c].at # "idle",
         NEW at \in {"rule", "open", "lookup", "use", "served"},
         at \in {"lookup", "use", "served"} => call[c].token \in IssuedKeys,
         at \in {"use", "served"} => call[c].token \notin call[c].dead
  PROVE  CallMay([call[c] EXCEPT !.at = at])
<1> DEFINE r == [call[c] EXCEPT !.at = at]
<1>1. call[c] \in Door!Call /\ call[c].dead \subseteq revoked
  BY CallKinds
<1>2. r \in Door!Call /\ r.at = at /\ r.token = call[c].token /\ r.dead = call[c].dead
  BY <1>1 DEF Door!Call
<1> HIDE DEF r
<1>3. CallMay(r)
  BY <1>1, <1>2 DEF CallMay
<1> QED BY <1>3 DEF r

LEMMA Stepped ==
  ASSUME Door!DoorInv, NEW c \in Callers, NEW at, Door!Step(c, at)
  PROVE  call' = [call EXCEPT ![c] = [call[c] EXCEPT !.at = at]]
  BY DEF Door!DoorInv, Door!TypeOK, Door!Step

LEMMA RefuseInv ==
  ASSUME Door!DoorInv, NEW c \in Callers, Door!Refuse(c), UNCHANGED Door!Behind
  PROVE  Door!DoorInv'
<1>1. CallMay(Door!NoCall)
  BY DEF CallMay
<1> QED BY <1>1, CallMoves DEF Door!Refuse, Door!Behind

LEMMA ReadRuleInv ==
  ASSUME Door!DoorInv, NEW c \in Callers, Door!ReadRule(c)
  PROVE  Door!DoorInv'
<1>1. call[c].at = "rule" /\ UNCHANGED Door!Behind
  BY DEF Door!ReadRule
<1>2. CASE Door!Step(c, "open")
  <2>1. CallMay([call[c] EXCEPT !.at = "open"])
    BY <1>1, StepMay
  <2> QED BY <1>1, <1>2, <2>1, Stepped, CallMoves DEF Door!Behind
<1>3. CASE call[c].token # Door!NoToken /\ Door!Step(c, "lookup")
  <2>1. call[c].token \in IssuedKeys
    BY <1>1, <1>3, CallKinds DEF Door!Call
  <2>2. CallMay([call[c] EXCEPT !.at = "lookup"])
    BY <1>1, <2>1, StepMay
  <2> QED BY <1>1, <1>3, <2>2, Stepped, CallMoves DEF Door!Behind
<1>4. CASE Door!Refuse(c)
  BY <1>1, <1>4, RefuseInv
<1> QED BY <1>2, <1>3, <1>4 DEF Door!ReadRule

\* A key that is admitted bears no revocation, so the call knows of none.
LEMMA LookupInv ==
  ASSUME Door!DoorInv, NEW c \in Callers, Door!Lookup(c)
  PROVE  Door!DoorInv'
<1>1. call[c].at = "lookup" /\ UNCHANGED Door!Behind
  BY DEF Door!Lookup
<1>2. call[c].token \in IssuedKeys /\ call[c].dead \subseteq revoked
  BY <1>1, CallKinds
<1>3. CASE Door!Admits(key[call[c].token]) /\ Door!Step(c, "use")
  <2>1. call[c].token \notin revoked
    BY <1>2, <1>3 DEF Door!Admits, Door!DoorInv, Door!RevocationsStored
  <2>2. CallMay([call[c] EXCEPT !.at = "use"])
    BY <1>1, <1>2, <2>1, StepMay
  <2> QED BY <1>1, <1>3, <2>2, Stepped, CallMoves DEF Door!Behind
<1>4. CASE Door!Refuse(c)
  BY <1>1, <1>4, RefuseInv
<1> QED BY <1>3, <1>4 DEF Door!Lookup

LEMMA LeaveInv ==
  ASSUME Door!DoorInv, NEW c \in Callers, Door!Leave(c)
  PROVE  Door!DoorInv'
  BY RefuseInv DEF Door!Leave

\* The counter of a key's uses and the call's own step do not meet.
LEMMA RecordUseInv ==
  ASSUME Door!DoorInv, NEW c \in Callers, Door!RecordUse(c)
  PROVE  Door!DoorInv'
<1> DEFINE k == call[c].token
           r == [call[c] EXCEPT !.at = "served"]
<1>1. call[c].at = "use" /\ UNCHANGED <<edit, required, window, let, revoked, edits>>
  BY DEF Door!RecordUse
<1>2. k \in IssuedKeys /\ k \notin call[c].dead
  BY <1>1, CallKinds
<1>3. CallMay(r) /\ call' = [call EXCEPT ![c] = r]
  BY <1>1, <1>2, StepMay, Stepped DEF Door!RecordUse
<1>4. /\ key' \in [IssuedKeys -> Door!Row]
      /\ \A q \in IssuedKeys : key'[q].revokedAt = key[q].revokedAt
  <2>1. key \in [IssuedKeys -> Door!Row]
    BY DEF Door!DoorInv, Door!TypeOK
  <2> DEFINE s == [key[k] EXCEPT !.uses = key[k].uses + 1]
  <2>2. CASE key' = [key EXCEPT ![k] = s]
    <3>1. s \in Door!Row /\ s.revokedAt = key[k].revokedAt
      BY <1>2, <2>1 DEF Door!Row
    <3> HIDE DEF s
    <3> QED BY <1>2, <2>1, <2>2, <3>1
  <2>3. CASE key' = key
    BY <2>1, <2>3
  <2>4. key' = [key EXCEPT ![k] = s] \/ key' = key
    BY <2>1, <1>2 DEF Door!RecordUse
  <2> QED BY <2>2, <2>3, <2>4
<1>5. /\ call \in [Callers -> {Door!NoCall} \union Door!Call] /\ revoked \subseteq IssuedKeys
      /\ r \in {Door!NoCall} \union Door!Call /\ Door!NoCall.at = "idle"
  BY <1>3 DEF Door!DoorInv, Door!TypeOK, CallMay, Door!NoCall
<1> HIDE DEF r, k
<1>6. call'[c] = r /\ \A d \in Callers \ {c} : call'[d] = call[d]
  BY <1>3, <1>5
<1>7. Door!TypeOK'
  BY <1>1, <1>3, <1>4, <1>5 DEF Door!DoorInv, Door!TypeOK
<1>8. Door!RevocationsStored'
  <2>1. \A q \in revoked : key'[q].revokedAt
    BY <1>4, <1>5 DEF Door!DoorInv, Door!RevocationsStored
  <2>2. \A d \in Callers : call'[d] # Door!NoCall =>
          /\ call'[d].dead \subseteq revoked
          /\ call'[d].at \in {"lookup", "use", "served"} => call'[d].token \in IssuedKeys
    BY <1>3, <1>5, <1>6 DEF Door!DoorInv, Door!RevocationsStored, CallMay
  <2> QED BY <1>1, <2>1, <2>2 DEF Door!RevocationsStored
<1>9. Door!RevokedStaysOut'
  BY <1>3, <1>5, <1>6 DEF Door!DoorInv, Door!DoorSound, Door!RevokedStaysOut, CallMay
<1> QED BY <1>1, <1>7, <1>8, <1>9
        DEF Door!DoorInv, Door!DoorSound, Door!WindowHolds, Door!WindowCounted

\* Not refused and not in the last half second, a call is one of the first Limit.
LEMMA ArriveInv ==
  ASSUME Door!DoorInv, NEW c \in Callers, Door!Arrive(c)
  PROVE  Door!DoorInv'
<1> DEFINE w == Door!Counted(window)
           refused == Door!Over(w) /\ Door!TTL(w) > 0
           Arrived(token) == [at |-> "rule", token |-> token, dead |-> revoked]
<1>1. PICK token \in IssuedKeys \union {Door!NoToken} :
         /\ window' = w
         /\ let' = IF refused \/ w.left = 1 THEN let ELSE let + 1
         /\ call' = [call EXCEPT ![c] = IF refused THEN Door!NoCall ELSE Arrived(token)]
         /\ UNCHANGED <<key, edit, required, revoked, edits>>
  BY DEF Door!Arrive
<1>2. /\ window \in [count : Nat, left : 0..WindowTicks] /\ let \in Nat /\ let <= window.count
      /\ let <= Limit
      /\ window.count > 0 => window.left > 0
  BY DEF Door!DoorInv, Door!TypeOK, Door!WindowCounted, Door!DoorSound, Door!WindowHolds
<1>3. /\ w \in [count : Nat, left : 0..WindowTicks]
      /\ w.count = window.count + 1 /\ w.left > 0
  BY <1>2, DoorConstants DEF Door!Counted
<1>4. ~refused /\ w.left # 1 => w.count <= Limit
  BY <1>3, DoorConstants DEF Door!Over, Door!TTL
<1> HIDE DEF w
<1>5. let' \in Nat /\ let' <= window'.count /\ let' <= Limit
  <2>1. window'.count = window.count + 1 /\ let' \in {let, let + 1}
    BY <1>1, <1>3
  <2>2. let' = let + 1 => w.count <= Limit
    BY <1>1, <1>2, <1>4
  <2> QED BY <1>2, <1>3, <2>1, <2>2, DoorConstants
<1> HIDE DEF refused
<1> DEFINE r == IF refused THEN Door!NoCall ELSE Arrived(token)
<1>6. CallMay(r)
  <2>1. revoked \subseteq IssuedKeys
    BY DEF Door!DoorInv, Door!TypeOK
  <2>2. Arrived(token) \in Door!Call
    BY <2>1 DEF Door!Call
  <2> QED BY <2>2 DEF CallMay
<1>7. call' = [call EXCEPT ![c] = r]
  BY <1>1
<1> HIDE DEF r
<1>8. /\ call \in [Callers -> {Door!NoCall} \union Door!Call]
      /\ r \in {Door!NoCall} \union Door!Call /\ Door!NoCall.at = "idle"
  BY <1>6 DEF Door!DoorInv, Door!TypeOK, CallMay, Door!NoCall
<1>9. call'[c] = r /\ \A d \in Callers \ {c} : call'[d] = call[d]
  BY <1>7, <1>8
<1>10. Door!TypeOK'
  BY <1>1, <1>3, <1>5, <1>7, <1>8 DEF Door!DoorInv, Door!TypeOK
<1>11. Door!RevocationsStored'
  BY <1>1, <1>6, <1>8, <1>9 DEF Door!DoorInv, Door!RevocationsStored, CallMay
<1>12. Door!RevokedStaysOut'
  BY <1>6, <1>8, <1>9 DEF Door!DoorInv, Door!DoorSound, Door!RevokedStaysOut, CallMay
<1>13. Door!WindowHolds' /\ Door!WindowCounted'
  BY <1>1, <1>3, <1>5 DEF Door!WindowHolds, Door!WindowCounted
<1> QED BY <1>10, <1>11, <1>12, <1>13 DEF Door!DoorInv, Door!DoorSound

LEMMA DoorTickInv ==
  ASSUME Door!DoorInv, Door!Tick
  PROVE  Door!DoorInv'
<1>1. /\ window \in [count : Nat, left : 0..WindowTicks] /\ let \in Nat /\ let <= window.count
      /\ let <= Limit /\ window.left > 0
      /\ UNCHANGED <<key, edit, required, call, revoked, edits>>
  BY DEF Door!DoorInv, Door!TypeOK, Door!WindowCounted, Door!DoorSound, Door!WindowHolds, Door!Tick
<1>2. /\ window' \in [count : Nat, left : 0..WindowTicks] /\ let' \in Nat
      /\ let' <= window'.count /\ let' <= Limit
      /\ window'.count > 0 => window'.left > 0
  <2>1. CASE window.left = 1
    <3>1. window' = [count |-> 0, left |-> 0] /\ let' = 0
      BY <2>1 DEF Door!Tick
    <3> QED BY <3>1, DoorConstants
  <2>2. CASE window.left # 1
    <3> DEFINE w == [window EXCEPT !.left = window.left - 1]
    <3>1. window' = w /\ let' = let
      BY <2>2 DEF Door!Tick
    <3>2. w \in [count : Nat, left : 0..WindowTicks] /\ w.count = window.count /\ w.left > 0
      BY <1>1, <2>2, DoorConstants
    <3> HIDE DEF w
    <3> QED BY <1>1, <3>1, <3>2
  <2> QED BY <2>1, <2>2
<1>3. Door!TypeOK' /\ Door!WindowHolds' /\ Door!WindowCounted'
  BY <1>1, <1>2 DEF Door!DoorInv, Door!TypeOK, Door!WindowHolds, Door!WindowCounted
<1> QED BY <1>1, <1>3 DEF Door!DoorInv, Door!DoorSound, Door!RevokedStaysOut, Door!RevocationsStored

LEMMA DoorStep ==
  ASSUME Door!DoorInv, Door!Next
  PROVE  Door!DoorInv'
<1>1. ASSUME NEW p \in Panels, Door!UpdateWrites(p) \/ Door!RevokeWrites(p)
      PROVE  Door!DoorInv'
  BY <1>1, UpdateWritesInv, RevokeWritesInv
<1>2. ASSUME NEW p \in Panels, NEW k \in IssuedKeys, Door!Update(p, k) \/ Door!Revoke(p, k)
      PROVE  Door!DoorInv'
  BY <1>2, UpdateInv, RevokeInv
<1>3. ASSUME NEW c \in Callers,
             \/ Door!Arrive(c) \/ Door!ReadRule(c) \/ Door!Lookup(c) \/ Door!RecordUse(c)
             \/ Door!Leave(c)
      PROVE  Door!DoorInv'
  BY <1>3, ArriveInv, ReadRuleInv, LookupInv, RecordUseInv, LeaveInv
<1> QED BY <1>1, <1>2, <1>3, CreateInv, SetRequiredInv, DoorTickInv DEF Door!Next

LEMMA DoorStart == ASSUME Door!Init PROVE Door!DoorInv
<1>1. Door!TypeOK
  <2>1. [issued |-> FALSE, status |-> "active", revokedAt |-> FALSE, uses |-> 0] \in Door!Row
    BY DEF Door!Row, Door!Statuses
  <2> QED BY <2>1, DoorConstants DEF Door!Init, Door!TypeOK
<1>2. \A c \in Callers : call[c] = Door!NoCall
  BY DEF Door!Init
<1>3. Door!RevocationsStored /\ Door!RevokedStaysOut
  BY <1>2 DEF Door!Init, Door!RevocationsStored, Door!RevokedStaysOut, Door!NoCall
<1>4. Door!WindowHolds /\ Door!WindowCounted
  BY DoorConstants DEF Door!Init, Door!WindowHolds, Door!WindowCounted
<1> QED BY <1>1, <1>3, <1>4 DEF Door!DoorInv, Door!DoorSound

\* No call that came after a key's revocation is served on that key, whoever patches it,
\* and a window lets in its limit, for any keys, panels, callers and limits
\* (service/chat.go Authenticate, repository/redis/limiter.go).
THEOREM DoorHolds == Spec => []DoorSound
<1> DEFINE Inv == part = "door" => Door!DoorInv
<1>1. Init => Inv
  BY DoorStart DEF Init
<1>2. Inv /\ [Next]_partsVars => Inv'
  <2> SUFFICES ASSUME Inv, [Next]_partsVars, part' = "door" PROVE Door!DoorInv'
    OBVIOUS
  <2>1. CASE Next
    <3>1. part = "door" /\ Door!Next
      BY <2>1 DEF Next
    <3> QED BY <3>1, DoorStep
  <2>2. CASE UNCHANGED partsVars
    <3>1. part = "door" /\ UNCHANGED <<key, edit, required, window, call, let, revoked, edits>>
      BY <2>2 DEF partsVars
    <3> QED BY <3>1 DEF Door!DoorInv, Door!TypeOK, Door!DoorSound, Door!RevokedStaysOut,
                        Door!WindowHolds, Door!RevocationsStored, Door!WindowCounted
  <2> QED BY <2>1, <2>2
<1>3. Inv => DoorSound
  BY DEF DoorSound, Door!DoorInv
<1> QED BY <1>1, <1>2, <1>3, PTL DEF Spec

---------------------------------------------------------------------------
(* The settings document                                                   *)

LEMMA SettingKeys ==
  /\ {Documents!On, Documents!Url, Documents!Password, Documents!Days} \subseteq Documents!Keys
  /\ \A k \in Documents!Keys : k[1] \in Documents!Groups
  /\ Documents!On[1] = "saver" /\ Documents!Url[1] = "saver" /\ Documents!Days[1] = "logging"
  /\ Documents!Password # Documents!Days
  /\ Documents!Mask \notin Documents!Values
  BY DEF Documents!Keys, Documents!Groups, Documents!On, Documents!Url, Documents!Password,
         Documents!Days, Documents!Mask, Documents!Values

LEMMA SettingsConstants ==
  /\ MaxPatches \in Nat /\ MaxDbFaults \in Nat
  /\ \A patch \in Patches : \A k \in DOMAIN patch :
       /\ k \in Documents!Keys
       /\ patch[k] \in Documents!Values \/ (k = Documents!Password /\ patch[k] = Documents!Mask)
  BY PartsAssumption DEF Documents!PanelSettingsAssumption

LEMMA DefaultsHold ==
  /\ Documents!DefaultSettings \in [Documents!Keys -> Documents!Values]
  /\ Documents!Validate(Documents!DefaultSettings)
<1>1. Documents!DefaultSettings \in [Documents!Keys -> Documents!Values]
  BY DEF Documents!DefaultSettings, Documents!Values
<1>2. /\ Documents!DefaultSettings[Documents!On] = 0
      /\ Documents!DefaultSettings[Documents!Days] = 2
  BY SettingKeys DEF Documents!DefaultSettings, Documents!On, Documents!Days
<1> QED BY <1>1, <1>2 DEF Documents!Validate

\* A group as a panel stores it is no absent row.
LEMMA StoredGroup ==
  ASSUME NEW e \in Editors, NEW g \in Documents!Groups
  PROVE  Documents!RowToStore(e, g) # Documents!NoRow
<1>1. \E k \in Documents!Keys : k[1] = g
  BY DEF Documents!Keys, Documents!Groups
<1>2. DOMAIN Documents!RowToStore(e, g) = Documents!KeysOf(g)
  BY DEF Documents!RowToStore
<1>3. Documents!KeysOf(g) # {}
  BY <1>1 DEF Documents!KeysOf
<1>4. DOMAIN Documents!NoRow = {}
  BY DEF Documents!NoRow
<1> QED BY <1>2, <1>3, <1>4

\* What a write of one group leaves of the document.
LEMMA SettingsSaved ==
  ASSUME Documents!TypeOK, NEW e \in Editors, NEW g \in Documents!Groups,
         rows' = [rows EXCEPT ![g] = Documents!RowToStore(e, g)]
  PROVE  \A k \in Documents!Keys :
           Documents!Settings'[k] = IF k[1] = g THEN editor[e].next[k] ELSE Documents!Settings[k]
<1>1. DOMAIN rows = Documents!Groups
  BY DEF Documents!TypeOK
<1>2. rows'[g] = Documents!RowToStore(e, g) /\ \A h \in Documents!Groups \ {g} : rows'[h] = rows[h]
  BY <1>1
<1> SUFFICES ASSUME NEW k \in Documents!Keys
             PROVE  Documents!Settings'[k]
                      = IF k[1] = g THEN editor[e].next[k] ELSE Documents!Settings[k]
  OBVIOUS
<1>3. k[1] \in Documents!Groups /\ k \in Documents!KeysOf(k[1])
  BY SettingKeys DEF Documents!KeysOf
<1>4. Documents!Settings[k] = Documents!Row(k[1])[k]
  BY DEF Documents!Settings
<1>5. Documents!Settings'[k]
        = (IF rows'[k[1]] = Documents!NoRow THEN Documents!Default(k[1]) ELSE rows'[k[1]])[k]
  BY DEF Documents!Settings, Documents!Row
<1>6. CASE k[1] = g
  <2>1. Documents!Settings'[k] = Documents!RowToStore(e, g)[k]
    BY <1>2, <1>5, <1>6, StoredGroup
  <2> QED BY <1>3, <1>6, <2>1 DEF Documents!RowToStore
<1>7. CASE k[1] # g
  BY <1>2, <1>3, <1>4, <1>5, <1>7 DEF Documents!Row
<1> QED BY <1>6, <1>7

LEMMA SettingsTyped ==
  ASSUME Documents!TypeOK
  PROVE  Documents!Settings \in [Documents!Keys -> Documents!Values]
<1> SUFFICES ASSUME NEW k \in Documents!Keys
             PROVE  Documents!Row(k[1])[k] \in Documents!Values
  BY DEF Documents!Settings
<1>1. k[1] \in Documents!Groups /\ k \in Documents!KeysOf(k[1])
  BY SettingKeys DEF Documents!KeysOf
<1>2. CASE rows[k[1]] = Documents!NoRow
  BY <1>1, <1>2, DefaultsHold DEF Documents!Row, Documents!Default
<1>3. CASE rows[k[1]] \in [Documents!KeysOf(k[1]) -> Documents!Values] /\ rows[k[1]] # Documents!NoRow
  BY <1>1, <1>3 DEF Documents!Row
<1> QED BY <1>1, <1>2, <1>3 DEF Documents!TypeOK

\* What a panel wrote is a row of its group.
LEMMA RowsTyped ==
  ASSUME Documents!TypeOK, NEW e \in Editors, NEW g \in Documents!Groups,
         editor[e].next \in [Documents!Keys -> Documents!Values],
         rows' = [rows EXCEPT ![g] = Documents!RowToStore(e, g)]
  PROVE  /\ rows' \in [Documents!Groups -> {Documents!NoRow} \union
                        UNION {[Documents!KeysOf(h) -> Documents!Values] : h \in Documents!Groups}]
         /\ \A h \in Documents!Groups :
              rows'[h] = Documents!NoRow \/ rows'[h] \in [Documents!KeysOf(h) -> Documents!Values]
<1>1. Documents!RowToStore(e, g) \in [Documents!KeysOf(g) -> Documents!Values]
  BY DEF Documents!RowToStore, Documents!KeysOf
<1> DEFINE r == Documents!RowToStore(e, g)
           all == UNION {[Documents!KeysOf(h) -> Documents!Values] : h \in Documents!Groups}
<1>2. r \in all
  BY <1>1
<1> HIDE DEF r, all
<1>3. rows \in [Documents!Groups -> {Documents!NoRow} \union all] /\ rows' = [rows EXCEPT ![g] = r]
  BY DEF Documents!TypeOK, r, all
<1>4. rows' \in [Documents!Groups -> {Documents!NoRow} \union all]
  BY <1>2, <1>3
<1>5. \A h \in Documents!Groups :
        rows'[h] = Documents!NoRow \/ rows'[h] \in [Documents!KeysOf(h) -> Documents!Values]
  <2> SUFFICES ASSUME NEW h \in Documents!Groups
               PROVE  rows'[h] = Documents!NoRow
                        \/ rows'[h] \in [Documents!KeysOf(h) -> Documents!Values]
    OBVIOUS
  <2>1. CASE h = g
    BY <1>1, <1>3, <2>1 DEF r
  <2>2. CASE h # g
    BY <1>3, <2>2 DEF Documents!TypeOK
  <2> QED BY <2>1, <2>2
<1> QED BY <1>4, <1>5 DEF all

\* A document is judged by three keys, two of one group: a group that was validated can
\* take its place in a document that was.
LEMMA GroupReplaced ==
  ASSUME NEW d, NEW n, NEW new, NEW g, Documents!Validate(d), Documents!Validate(n),
         \A k \in Documents!Keys : new[k] = IF k[1] = g THEN n[k] ELSE d[k]
  PROVE  Documents!Validate(new)
<1>1. /\ new[Documents!On] = IF "saver" = g THEN n[Documents!On] ELSE d[Documents!On]
      /\ new[Documents!Url] = IF "saver" = g THEN n[Documents!Url] ELSE d[Documents!Url]
      /\ new[Documents!Days] = IF "logging" = g THEN n[Documents!Days] ELSE d[Documents!Days]
  BY SettingKeys
<1> QED BY <1>1 DEF Documents!Validate

\* What a panel may become, where it stands: its patch and its neighbours stay its own.
PanelMay(e, x) ==
  /\ x \in Documents!Editor
  /\ x.at # "idle" => /\ Documents!Busy(e) /\ x.patch = editor[e].patch
                      /\ x.shared = editor[e].shared
  /\ x.at \in {"check", "save"} => Documents!ComputedBy(x)
  /\ x.at = "save" => Documents!WrittenBy(x)

LEMMA PanelMoves ==
  ASSUME Documents!SettingsInv, NEW e \in Editors, NEW x, PanelMay(e, x),
         editor' = [editor EXCEPT ![e] = x], UNCHANGED <<rows, owed>>,
         pool' \in BOOLEAN, patches' \in Nat, dbFaults' \in Nat
  PROVE  Documents!SettingsInv'
<1>0. editor \in [Editors -> Documents!Editor] /\ x \in Documents!Editor
  BY DEF Documents!SettingsInv, Documents!TypeOK, PanelMay
<1>1. editor'[e] = x /\ \A o \in Editors \ {e} : editor'[o] = editor[o]
  BY <1>0
<1>2. Documents!TypeOK'
  BY <1>0 DEF Documents!SettingsInv, Documents!TypeOK
<1>3. Documents!Settings' = Documents!Settings
  BY DEF Documents!Settings, Documents!Row
<1>4. Documents!StoredHolds' /\ Documents!ToldIsStored'
  BY <1>3 DEF Documents!SettingsInv, Documents!StoredHolds, Documents!ToldIsStored
<1>5. \A o \in Editors : editor'[o].at # "idle" =>
        /\ Documents!Busy(o) /\ editor'[o].patch = editor[o].patch
        /\ editor'[o].shared = editor[o].shared
  BY <1>1 DEF PanelMay, Documents!Busy
<1>6. Documents!Disturbed'
  BY <1>5 DEF Documents!SettingsInv, Documents!Disturbed, Documents!Busy
<1>7. Documents!Silenced'
  BY <1>5 DEF Documents!SettingsInv, Documents!Silenced, Documents!Busy
<1>8. Documents!Computed'
  BY <1>1 DEF Documents!SettingsInv, Documents!Computed, Documents!ComputedBy, PanelMay
<1>9. Documents!Written'
  BY <1>1, <1>3 DEF Documents!SettingsInv, Documents!Written, Documents!WrittenBy, PanelMay
<1> QED BY <1>2, <1>4, <1>6, <1>7, <1>8, <1>9 DEF Documents!SettingsInv

LEMMA PanelIdle == ASSUME NEW e \in Editors PROVE PanelMay(e, Documents!Idle)
<1>1. Documents!Idle.at = "idle" /\ Documents!Idle \in Documents!Editor
  BY DEF Documents!Idle, Documents!Editor
<1> QED BY <1>1 DEF PanelMay

LEMMA FailInv ==
  ASSUME Documents!SettingsInv, NEW e \in Editors, Documents!Fail(e)
  PROVE  Documents!SettingsInv'
<1>1. /\ editor' = [editor EXCEPT ![e] = Documents!Idle] /\ UNCHANGED <<rows, owed>>
      /\ pool' \in BOOLEAN /\ patches' \in Nat /\ dbFaults' \in Nat
  BY DEF Documents!Fail, Documents!Become, Documents!SettingsInv, Documents!TypeOK
<1> QED BY <1>1, PanelIdle, PanelMoves

\* A patch over a document: what it sets is set, what it leaves or masks is kept.
LEMMA AppliedKeys ==
  ASSUME NEW patch \in Patches \union {<<>>}, NEW d \in [Documents!Keys -> Documents!Values]
  PROVE  /\ Documents!Applied(patch, d) \in [Documents!Keys -> Documents!Values]
         /\ \A k \in Documents!Keys :
              Documents!Applied(patch, d)[k] = IF Documents!Sets(patch, k) THEN patch[k] ELSE d[k]
<1> SUFFICES ASSUME NEW k \in Documents!Keys
             PROVE  /\ Documents!Applied(patch, d)[k] \in Documents!Values
                    /\ Documents!Applied(patch, d)[k]
                         = IF Documents!Sets(patch, k) THEN patch[k] ELSE d[k]
  BY DEF Documents!Applied
<1>1. k \in DOMAIN patch =>
        patch[k] \in Documents!Values \/ (k = Documents!Password /\ patch[k] = Documents!Mask)
  BY SettingsConstants DEF Documents!Mask
<1>2. Documents!Applied(patch, d)[k] = IF Documents!Sets(patch, k) THEN patch[k] ELSE d[k]
  BY <1>1, SettingKeys DEF Documents!Applied, Documents!Merged, Documents!Sets
<1> QED BY <1>1, <1>2, SettingKeys DEF Documents!Sets

LEMMA LoadInv ==
  ASSUME Documents!SettingsInv, NEW e \in Editors, Documents!Load(e)
  PROVE  Documents!SettingsInv'
<1> DEFINE patch == editor[e].patch
           next == Documents!Applied(patch, Documents!Settings)
           x == [editor[e] EXCEPT !.at = "check", !.next = next, !.todo = Documents!Touched(patch)]
<1>0. /\ editor[e] \in Documents!Editor /\ editor[e].at = "load"
      /\ UNCHANGED <<rows, owed, pool, patches, dbFaults>>
      /\ pool' \in BOOLEAN /\ patches' \in Nat /\ dbFaults' \in Nat
      /\ Documents!Settings \in [Documents!Keys -> Documents!Values]
  BY SettingsTyped DEF Documents!SettingsInv, Documents!TypeOK, Documents!Load
<1>1. /\ editor' = [editor EXCEPT ![e] = x] /\ Documents!Validate(next)
      \/ editor' = [editor EXCEPT ![e] = Documents!Idle]
  BY DEF Documents!Load, Documents!Become
<1>2. /\ patch \in Patches \union {<<>>} /\ next \in [Documents!Keys -> Documents!Values]
      /\ \A k \in Documents!Keys :
           next[k] = IF Documents!Sets(patch, k) THEN patch[k] ELSE Documents!Settings[k]
  BY <1>0, AppliedKeys DEF Documents!Editor
<1> HIDE DEF next
<1>3. ASSUME NEW k \in Documents!Keys, owed[k] # Documents!Mask
      PROVE  next[k] = owed[k]
  <2>1. ~Documents!Sets(patch, k)
    BY <1>0, <1>3 DEF Documents!SettingsInv, Documents!Silenced, Documents!Busy
  <2>2. Documents!Settings[k] = owed[k]
    BY <1>3 DEF Documents!SettingsInv, Documents!ToldIsStored
  <2> QED BY <1>2, <2>1, <2>2
<1>4. Documents!Touched(patch) \in SUBSET Documents!Groups
  <2>1. \A k \in DOMAIN patch : k \in Documents!Keys
    BY <1>2, SettingsConstants
  <2> QED BY <2>1, SettingKeys DEF Documents!Touched, Documents!GroupsOf
<1>5. /\ x \in Documents!Editor /\ x.at = "check" /\ x.next = next /\ x.patch = patch
      /\ x.todo = Documents!GroupsOf(patch) /\ x.shared = editor[e].shared
  BY <1>0, <1>2, <1>4 DEF Documents!Editor, Documents!Touched
<1> HIDE DEF x
<1>6. ASSUME Documents!Validate(next) PROVE PanelMay(e, x)
  <2>1. Documents!ComputedBy(x)
    BY <1>2, <1>3, <1>5, <1>6 DEF Documents!ComputedBy
  <2> QED BY <1>0, <1>5, <2>1 DEF PanelMay, Documents!Busy
<1> QED BY <1>0, <1>1, <1>6, PanelIdle, PanelMoves

LEMMA CheckInv ==
  ASSUME Documents!SettingsInv, NEW e \in Editors, Documents!CheckBoundPools(e)
  PROVE  Documents!SettingsInv'
<1> DEFINE x == [editor[e] EXCEPT !.at = "save"]
<1>0. /\ editor[e] \in Documents!Editor /\ editor[e].at = "check"
      /\ UNCHANGED <<rows, owed, pool, patches, dbFaults>>
      /\ pool' \in BOOLEAN /\ patches' \in Nat /\ dbFaults' \in Nat
  BY DEF Documents!SettingsInv, Documents!TypeOK, Documents!CheckBoundPools
<1>1. editor' = [editor EXCEPT ![e] = x] \/ editor' = [editor EXCEPT ![e] = Documents!Idle]
  BY DEF Documents!CheckBoundPools, Documents!Become
<1>2. Documents!ComputedBy(editor[e])
  BY <1>0 DEF Documents!SettingsInv, Documents!Computed
<1>3. /\ x \in Documents!Editor /\ x.at = "save" /\ x.next = editor[e].next
      /\ x.patch = editor[e].patch /\ x.todo = editor[e].todo /\ x.shared = editor[e].shared
  BY <1>0 DEF Documents!Editor
<1> HIDE DEF x
<1>4. Documents!ComputedBy(x)
  BY <1>2, <1>3 DEF Documents!ComputedBy
<1>5. Documents!WrittenBy(x)
  BY <1>0, <1>2, <1>3 DEF Documents!ComputedBy, Documents!WrittenBy
<1>6. PanelMay(e, x)
  BY <1>0, <1>3, <1>4, <1>5 DEF PanelMay, Documents!Busy
<1> QED BY <1>0, <1>1, <1>6, PanelIdle, PanelMoves

LEMMA DeletePoolInv ==
  ASSUME Documents!SettingsInv, Documents!DeletePool
  PROVE  Documents!SettingsInv'
<1>1. pool' \in BOOLEAN /\ UNCHANGED <<rows, editor, owed, patches, dbFaults>>
  BY Zenon DEF Documents!DeletePool
<1>2. Documents!Settings' = Documents!Settings
  BY <1>1 DEF Documents!Settings, Documents!Row
<1> QED BY <1>1, <1>2
        DEF Documents!SettingsInv, Documents!TypeOK, Documents!StoredHolds, Documents!ToldIsStored,
            Documents!Disturbed, Documents!Silenced, Documents!Computed, Documents!ComputedBy,
            Documents!Written, Documents!WrittenBy, Documents!Busy

\* A patch that is sent is owed nothing yet, and it and those it runs beside know it.
LEMMA SendInv ==
  ASSUME Documents!SettingsInv, NEW e \in Editors, Documents!Send(e)
  PROVE  Documents!SettingsInv'
<1> DEFINE busy == {o \in Editors \ {e} : Documents!Busy(o)}
           Theirs == UNION {Documents!GroupsOf(editor[b].patch) : b \in busy}
           Begun(patch) == [Documents!Idle EXCEPT !.at = "load", !.patch = patch,
                              !.shared = Documents!GroupsOf(patch) \intersect Theirs]
           Beside(o, patch) == [editor[o] EXCEPT !.shared = editor[o].shared \union
                     (Documents!GroupsOf(patch) \intersect Documents!GroupsOf(editor[o].patch))]
<1>0. /\ editor \in [Editors -> Documents!Editor] /\ owed \in [Documents!Keys -> Documents!Values \union {Documents!Mask}]
      /\ ~Documents!Busy(e)
  BY DEF Documents!SettingsInv, Documents!TypeOK, Documents!Send
<1>1. PICK patch \in Patches :
         /\ editor' = [o \in Editors |-> IF o = e THEN Begun(patch)
                                          ELSE IF o \in busy THEN Beside(o, patch) ELSE editor[o]]
         /\ owed' = [k \in Documents!Keys |->
                       IF Documents!Sets(patch, k) THEN Documents!Mask ELSE owed[k]]
         /\ patches' = patches + 1 /\ UNCHANGED <<rows, pool, dbFaults>>
  BY DEF Documents!Send
<1> DEFINE mine == Documents!GroupsOf(patch)
<1>2. mine \subseteq Documents!Groups
  <2>1. \A k \in DOMAIN patch : k \in Documents!Keys
    BY SettingsConstants
  <2> QED BY <2>1, SettingKeys DEF Documents!GroupsOf
<1> HIDE DEF mine
<1>3. /\ editor'[e] \in Documents!Editor /\ editor'[e].at = "load" /\ editor'[e].patch = patch
      /\ editor'[e].shared = mine \intersect Theirs
  <2>1. Documents!Idle \in Documents!Editor
    BY DEF Documents!Idle, Documents!Editor
  <2>2. mine \intersect Theirs \in SUBSET Documents!Groups
    BY <1>2
  <2> HIDE DEF Theirs
  <2>3. Begun(patch) \in Documents!Editor /\ Begun(patch).at = "load" /\ Begun(patch).patch = patch
        /\ Begun(patch).shared = mine \intersect Theirs
    BY <2>1, <2>2 DEF Documents!Editor, mine
  <2> HIDE DEF Begun
  <2> QED BY <1>1, <2>3
<1>4. ASSUME NEW o \in Editors \ {e}
      PROVE  /\ editor'[o] \in Documents!Editor
             /\ editor'[o].at = editor[o].at /\ editor'[o].patch = editor[o].patch
             /\ editor'[o].next = editor[o].next /\ editor'[o].todo = editor[o].todo
             /\ editor[o].shared \subseteq editor'[o].shared
             /\ Documents!Busy(o) =>
                  mine \intersect Documents!GroupsOf(editor[o].patch) \subseteq editor'[o].shared
  <2>1. editor[o] \in Documents!Editor
    BY <1>0
  <2>2. CASE Documents!Busy(o)
    <3> DEFINE both == mine \intersect Documents!GroupsOf(editor[o].patch)
               x == [editor[o] EXCEPT !.shared = editor[o].shared \union both]
    <3>1. editor'[o] = x
      BY <1>1, <2>2 DEF mine
    <3>2. both \subseteq Documents!Groups
      BY <1>2
    <3> HIDE DEF both
    <3>3. /\ x \in Documents!Editor /\ x.at = editor[o].at /\ x.patch = editor[o].patch
          /\ x.next = editor[o].next /\ x.todo = editor[o].todo
          /\ x.shared = editor[o].shared \union both
      BY <2>1, <3>2 DEF Documents!Editor
    <3> HIDE DEF x
    <3> QED BY <3>1, <3>3 DEF both
  <2>3. CASE ~Documents!Busy(o)
    BY <1>1, <2>1, <2>3
  <2> QED BY <2>2, <2>3
<1> HIDE DEF Begun, Beside
<1>5. \A k \in Documents!Keys : /\ owed'[k] \in {owed[k], Documents!Mask}
                                /\ Documents!Sets(patch, k) => owed'[k] = Documents!Mask
  BY <1>1
<1>6. Documents!TypeOK'
  <2>1. editor' \in [Editors -> Documents!Editor]
    <3>1. \A o \in Editors : editor'[o] \in Documents!Editor
      BY <1>3, <1>4
    <3> QED BY <1>1, <3>1
  <2>2. owed' \in [Documents!Keys -> Documents!Values \union {Documents!Mask}]
    BY <1>0, <1>1
  <2> QED BY <1>1, <2>1, <2>2 DEF Documents!SettingsInv, Documents!TypeOK
<1>7. Documents!Settings' = Documents!Settings
  BY <1>1 DEF Documents!Settings, Documents!Row
<1>8. Documents!StoredHolds' /\ Documents!ToldIsStored'
  BY <1>5, <1>7 DEF Documents!SettingsInv, Documents!StoredHolds, Documents!ToldIsStored
<1>9. Documents!Disturbed'
  <2> SUFFICES ASSUME NEW a \in Editors, NEW o \in Editors, a # o,
                      Documents!Busy(a)', Documents!Busy(o)'
               PROVE  Documents!GroupsOf(editor'[a].patch) \intersect Documents!GroupsOf(editor'[o].patch)
                        \subseteq editor'[a].shared
    BY DEF Documents!Disturbed
  <2>1. CASE a = e
    <3>1. Documents!Busy(o) /\ o \in Editors \ {e} /\ editor'[o].patch = editor[o].patch
      BY <1>4, <2>1 DEF Documents!Busy
    <3>2. Documents!GroupsOf(editor[o].patch) \subseteq Theirs
      BY <3>1
    <3> QED BY <1>3, <2>1, <3>1, <3>2 DEF mine
  <2>2. CASE o = e
    <3>1. Documents!Busy(a) /\ a \in Editors \ {e} /\ editor'[a].patch = editor[a].patch
      BY <1>4, <2>2 DEF Documents!Busy
    <3>2. mine \intersect Documents!GroupsOf(editor[a].patch) \subseteq editor'[a].shared
      BY <1>4, <3>1
    <3> QED BY <1>3, <2>2, <3>1, <3>2 DEF mine
  <2>3. CASE a # e /\ o # e
    <3>1. /\ Documents!Busy(a) /\ Documents!Busy(o) /\ editor'[a].patch = editor[a].patch
          /\ editor'[o].patch = editor[o].patch /\ editor[a].shared \subseteq editor'[a].shared
      BY <1>4, <2>3 DEF Documents!Busy
    <3> QED BY <3>1 DEF Documents!SettingsInv, Documents!Disturbed
  <2> QED BY <2>1, <2>2, <2>3
<1>10. Documents!Silenced'
  <2> SUFFICES ASSUME NEW o \in Editors, Documents!Busy(o)', NEW k \in Documents!Keys,
                      Documents!Sets(editor'[o].patch, k)
               PROVE  owed'[k] = Documents!Mask
    BY DEF Documents!Silenced
  <2>1. CASE o = e
    BY <1>3, <1>5, <2>1
  <2>2. CASE o # e
    <3>1. Documents!Busy(o) /\ editor'[o].patch = editor[o].patch
      BY <1>4, <2>2 DEF Documents!Busy
    <3>2. owed[k] = Documents!Mask
      BY <3>1 DEF Documents!SettingsInv, Documents!Silenced
    <3> QED BY <1>5, <3>2
  <2> QED BY <2>1, <2>2
<1>11. Documents!Computed'
  <2> SUFFICES ASSUME NEW o \in Editors, editor'[o].at \in {"check", "save"}
               PROVE  Documents!ComputedBy(editor[o])' 
    BY DEF Documents!Computed, Documents!ComputedBy
  <2>1. o \in Editors \ {e} /\ editor[o].at \in {"check", "save"}
    BY <1>3, <1>4
  <2>2. Documents!ComputedBy(editor[o])
    BY <2>1 DEF Documents!SettingsInv, Documents!Computed
  <2> QED BY <1>4, <1>5, <2>1, <2>2 DEF Documents!ComputedBy
<1>12. Documents!Written'
  <2> SUFFICES ASSUME NEW o \in Editors, editor'[o].at = "save"
               PROVE  Documents!WrittenBy(editor[o])'
    BY DEF Documents!Written, Documents!WrittenBy
  <2>1. o \in Editors \ {e} /\ editor[o].at = "save"
    BY <1>3, <1>4
  <2>2. Documents!WrittenBy(editor[o])
    BY <2>1 DEF Documents!SettingsInv, Documents!Written
  <2> QED BY <1>4, <1>7, <2>1, <2>2 DEF Documents!WrittenBy
<1> QED BY <1>6, <1>8, <1>9, <1>10, <1>11, <1>12 DEF Documents!SettingsInv

\* A group that is written was computed with all that is owed, and whoever else wrote it
\* undisturbed would not have been.
LEMMA SaveInv ==
  ASSUME Documents!SettingsInv, NEW e \in Editors, Documents!Save(e)
  PROVE  Documents!SettingsInv'
<1>1. PICK g \in editor[e].todo :
         /\ editor[e].at = "save" /\ rows' = [rows EXCEPT ![g] = Documents!RowToStore(e, g)]
         /\ editor' = [editor EXCEPT ![e] = [editor[e] EXCEPT !.todo = editor[e].todo \ {g}]]
         /\ UNCHANGED <<pool, owed, patches, dbFaults>>
  BY DEF Documents!Save, Documents!Become
<1> DEFINE x == [editor[e] EXCEPT !.todo = editor[e].todo \ {g}]
<1>0. /\ editor \in [Editors -> Documents!Editor] /\ editor[e] \in Documents!Editor
      /\ Documents!TypeOK
  BY DEF Documents!SettingsInv, Documents!TypeOK
<1>2. g \in Documents!Groups
  BY <1>0 DEF Documents!Editor
<1>3. /\ x \in Documents!Editor /\ x.at = "save" /\ x.next = editor[e].next
      /\ x.patch = editor[e].patch /\ x.todo = editor[e].todo \ {g} /\ x.shared = editor[e].shared
  BY <1>0, <1>1 DEF Documents!Editor
<1>4. editor' = [editor EXCEPT ![e] = x]
  BY <1>1
<1> HIDE DEF x
<1>5. editor'[e] = x /\ \A o \in Editors \ {e} : editor'[o] = editor[o]
  BY <1>0, <1>4
<1>6. Documents!ComputedBy(editor[e]) /\ g \in Documents!GroupsOf(editor[e].patch)
  BY <1>1 DEF Documents!SettingsInv, Documents!Computed, Documents!ComputedBy
<1>7. editor[e].next \in [Documents!Keys -> Documents!Values] /\ Documents!Validate(editor[e].next)
  BY <1>6 DEF Documents!ComputedBy
<1>8. \A k \in Documents!Keys :
        Documents!Settings'[k] = IF k[1] = g THEN editor[e].next[k] ELSE Documents!Settings[k]
  BY <1>0, <1>1, <1>2, SettingsSaved
<1>9. Documents!TypeOK'
  BY <1>0, <1>1, <1>2, <1>3, <1>4, <1>7, RowsTyped DEF Documents!TypeOK
<1>10. Documents!StoredHolds'
  <2> DEFINE d == Documents!Settings
             n == editor[e].next
             new == Documents!Settings'
  <2>1. Documents!Validate(d)
    BY DEF Documents!SettingsInv, Documents!StoredHolds
  <2>2. Documents!Validate(n) /\ \A k \in Documents!Keys : new[k] = IF k[1] = g THEN n[k] ELSE d[k]
    BY <1>7, <1>8
  <2>3. Documents!StoredHolds' <=> Documents!Validate(new)
    BY DEF Documents!StoredHolds, Documents!Validate
  <2> HIDE DEF d, n, new
  <2>4. Documents!Validate(new)
    BY <2>1, <2>2, GroupReplaced
  <2> QED BY <2>3, <2>4
<1>11. Documents!ToldIsStored'
  <2> SUFFICES ASSUME NEW k \in Documents!Keys, owed'[k] # Documents!Mask
               PROVE  Documents!Settings'[k] = owed'[k]
    BY DEF Documents!ToldIsStored
  <2>1. owed[k] # Documents!Mask /\ owed'[k] = owed[k]
    BY <1>1
  <2>2. CASE k[1] = g
    <3>1. editor[e].next[k] = owed[k]
      BY <1>6, <2>1, <2>2 DEF Documents!ComputedBy
    <3> QED BY <1>8, <2>1, <2>2, <3>1
  <2>3. CASE k[1] # g
    <3>1. Documents!Settings[k] = owed[k]
      BY <2>1 DEF Documents!SettingsInv, Documents!ToldIsStored
    <3> QED BY <1>8, <2>1, <2>3, <3>1
  <2> QED BY <2>2, <2>3
<1>12. \A o \in Editors : /\ Documents!Busy(o)' <=> Documents!Busy(o)
                           /\ editor'[o].patch = editor[o].patch
                           /\ editor'[o].shared = editor[o].shared
  BY <1>1, <1>3, <1>5 DEF Documents!Busy
<1>13. Documents!Disturbed'
  BY <1>12 DEF Documents!SettingsInv, Documents!Disturbed
<1>14. Documents!Silenced'
  BY <1>1, <1>12 DEF Documents!SettingsInv, Documents!Silenced
<1>15. Documents!Computed'
  <2>1. Documents!ComputedBy(editor[e])'
    BY <1>1, <1>3, <1>5, <1>6 DEF Documents!ComputedBy
  <2>2. ASSUME NEW o \in Editors \ {e}, editor'[o].at \in {"check", "save"}
        PROVE  Documents!ComputedBy(editor[o])'
    <3>1. Documents!ComputedBy(editor[o])
      BY <1>5, <2>2 DEF Documents!SettingsInv, Documents!Computed
    <3> QED BY <1>1, <1>5, <3>1 DEF Documents!ComputedBy
  <2> QED BY <2>1, <2>2 DEF Documents!Computed, Documents!ComputedBy
<1>16. Documents!Written'
  <2> SUFFICES ASSUME NEW o \in Editors, editor'[o].at = "save", NEW k \in Documents!Keys,
                      k[1] \in Documents!GroupsOf(editor'[o].patch) \ (editor'[o].todo \union editor'[o].shared)
               PROVE  Documents!Settings'[k] = editor'[o].next[k]
    BY DEF Documents!Written, Documents!WrittenBy
  <2>1. CASE o = e
    <3>1. CASE k[1] = g
      BY <1>3, <1>5, <1>8, <2>1, <3>1
    <3>2. CASE k[1] # g
      <4>1. k[1] \in Documents!GroupsOf(editor[e].patch) \ (editor[e].todo \union editor[e].shared)
        BY <1>3, <1>5, <2>1, <3>2
      <4>2. Documents!Settings[k] = editor[e].next[k]
        BY <1>1, <4>1 DEF Documents!SettingsInv, Documents!Written, Documents!WrittenBy
      <4> QED BY <1>3, <1>5, <1>8, <2>1, <3>2, <4>2
    <3> QED BY <3>1, <3>2
  <2>2. CASE o # e
    <3>1. /\ editor'[o] = editor[o] /\ editor[o].at = "save"
          /\ k[1] \in Documents!GroupsOf(editor[o].patch) \ (editor[o].todo \union editor[o].shared)
      BY <1>5, <2>2
    <3>2. Documents!Settings[k] = editor[o].next[k]
      BY <3>1 DEF Documents!SettingsInv, Documents!Written, Documents!WrittenBy
    <3>3. k[1] # g
      <4>1. Documents!Busy(o) /\ Documents!Busy(e)
        BY <1>1, <3>1 DEF Documents!Busy
      <4>2. Documents!GroupsOf(editor[o].patch) \intersect Documents!GroupsOf(editor[e].patch)
              \subseteq editor[o].shared
        BY <2>2, <4>1 DEF Documents!SettingsInv, Documents!Disturbed
      <4> QED BY <1>6, <3>1, <4>2
    <3> QED BY <1>8, <3>1, <3>2, <3>3
  <2> QED BY <2>1, <2>2
<1> QED BY <1>9, <1>10, <1>11, <1>13, <1>14, <1>15, <1>16 DEF Documents!SettingsInv

LEMMA AnswerInv ==
  ASSUME Documents!SettingsInv, NEW e \in Editors, Documents!Answer(e)
  PROVE  Documents!SettingsInv'
<1> DEFINE mine == editor[e]
<1>0. /\ editor \in [Editors -> Documents!Editor] /\ mine \in Documents!Editor
      /\ owed \in [Documents!Keys -> Documents!Values \union {Documents!Mask}]
      /\ mine.at = "save" /\ mine.todo = {} /\ Documents!Busy(e)
      /\ owed' = [k \in Documents!Keys |->
                    IF k[1] \in mine.shared THEN Documents!Mask
                    ELSE IF Documents!Sets(mine.patch, k) THEN mine.patch[k] ELSE owed[k]]
      /\ editor' = [editor EXCEPT ![e] = Documents!Idle]
      /\ UNCHANGED <<rows, pool, patches, dbFaults>>
  BY DEF Documents!SettingsInv, Documents!TypeOK, Documents!Answer, Documents!Become, Documents!Busy
<1>1. /\ editor'[e] = Documents!Idle /\ Documents!Idle.at = "idle"
      /\ \A o \in Editors \ {e} : editor'[o] = editor[o]
  BY <1>0 DEF Documents!Idle
<1>2. /\ Documents!ComputedBy(mine) /\ Documents!WrittenBy(mine)
      /\ mine.patch \in Patches \union {<<>>}
  BY <1>0 DEF Documents!SettingsInv, Documents!Computed, Documents!Written, Documents!Editor
<1>3. ASSUME NEW k \in Documents!Keys, Documents!Sets(mine.patch, k)
      PROVE  /\ k[1] \in Documents!GroupsOf(mine.patch)
             /\ mine.patch[k] \in Documents!Values /\ mine.patch[k] = mine.next[k]
  <2>1. k \in DOMAIN mine.patch
    BY <1>3 DEF Documents!Sets
  <2>2. k[1] \in Documents!GroupsOf(mine.patch)
    BY <2>1 DEF Documents!GroupsOf
  <2>3. mine.next[k] = mine.patch[k] /\ mine.next \in [Documents!Keys -> Documents!Values]
    BY <1>2, <1>3 DEF Documents!ComputedBy
  <2> QED BY <2>2, <2>3
<1>4. Documents!TypeOK'
  <2>1. owed' \in [Documents!Keys -> Documents!Values \union {Documents!Mask}]
    BY <1>0, <1>3
  <2>2. Documents!Idle \in Documents!Editor
    BY DEF Documents!Idle, Documents!Editor
  <2>3. editor' \in [Editors -> Documents!Editor]
    BY <1>0, <2>2
  <2> QED BY <1>0, <2>1, <2>3 DEF Documents!SettingsInv, Documents!TypeOK
<1>5. Documents!Settings' = Documents!Settings
  BY <1>0 DEF Documents!Settings, Documents!Row
<1>6. Documents!StoredHolds'
  BY <1>5 DEF Documents!SettingsInv, Documents!StoredHolds
<1>7. Documents!ToldIsStored'
  <2> SUFFICES ASSUME NEW k \in Documents!Keys, owed'[k] # Documents!Mask
               PROVE  Documents!Settings[k] = owed'[k]
    BY <1>5 DEF Documents!ToldIsStored
  <2>1. k[1] \notin mine.shared
    BY <1>0
  <2>2. CASE Documents!Sets(mine.patch, k)
    <3>1. owed'[k] = mine.next[k] /\ k[1] \in Documents!GroupsOf(mine.patch)
      BY <1>0, <1>3, <2>1, <2>2
    <3>2. Documents!Settings[k] = mine.next[k]
      BY <1>0, <1>2, <2>1, <3>1 DEF Documents!WrittenBy
    <3> QED BY <3>1, <3>2
  <2>3. CASE ~Documents!Sets(mine.patch, k)
    BY <1>0, <2>1, <2>3 DEF Documents!SettingsInv, Documents!ToldIsStored
  <2> QED BY <2>2, <2>3
\* Whoever is still busy in a group of the answer is disturbed by it.
<1>8. ASSUME NEW o \in Editors \ {e}, Documents!Busy(o), NEW k \in Documents!Keys,
             k[1] \in Documents!GroupsOf(editor[o].patch)
      PROVE  owed'[k] \in {owed[k], Documents!Mask}
  <2>1. Documents!GroupsOf(mine.patch) \intersect Documents!GroupsOf(editor[o].patch) \subseteq mine.shared
    BY <1>0, <1>8 DEF Documents!SettingsInv, Documents!Disturbed
  <2>2. k[1] \in mine.shared \/ ~Documents!Sets(mine.patch, k)
    BY <1>3, <1>8, <2>1
  <2> QED BY <1>0, <2>2
<1>9. Documents!Disturbed'
  BY <1>1 DEF Documents!SettingsInv, Documents!Disturbed, Documents!Busy
<1>10. Documents!Silenced'
  <2> SUFFICES ASSUME NEW o \in Editors, Documents!Busy(o)', NEW k \in Documents!Keys,
                      Documents!Sets(editor'[o].patch, k)
               PROVE  owed'[k] = Documents!Mask
    BY DEF Documents!Silenced
  <2>1. o \in Editors \ {e} /\ Documents!Busy(o) /\ editor'[o] = editor[o]
    BY <1>1 DEF Documents!Busy
  <2>2. k[1] \in Documents!GroupsOf(editor[o].patch)
    BY <2>1 DEF Documents!Sets, Documents!GroupsOf
  <2>3. owed[k] = Documents!Mask
    BY <2>1 DEF Documents!SettingsInv, Documents!Silenced
  <2> QED BY <1>8, <2>1, <2>2, <2>3
<1>11. Documents!Computed'
  <2> SUFFICES ASSUME NEW o \in Editors, editor'[o].at \in {"check", "save"}
               PROVE  Documents!ComputedBy(editor[o])'
    BY DEF Documents!Computed, Documents!ComputedBy
  <2>1. o \in Editors \ {e} /\ Documents!Busy(o) /\ editor'[o] = editor[o]
    BY <1>1 DEF Documents!Busy
  <2>2. Documents!ComputedBy(editor[o])
    BY <2>1 DEF Documents!SettingsInv, Documents!Computed
  <2>3. \A k \in Documents!Keys : k[1] \in Documents!GroupsOf(editor[o].patch)
          => owed'[k] \in {owed[k], Documents!Mask}
    BY <1>8, <2>1
  <2> QED BY <2>1, <2>2, <2>3 DEF Documents!ComputedBy
<1>12. Documents!Written'
  BY <1>1, <1>5 DEF Documents!SettingsInv, Documents!Written, Documents!WrittenBy
<1> QED BY <1>4, <1>6, <1>7, <1>9, <1>10, <1>11, <1>12 DEF Documents!SettingsInv

LEMMA SettingsStep ==
  ASSUME Documents!SettingsInv, Documents!Next
  PROVE  Documents!SettingsInv'
<1>1. ASSUME NEW e \in Editors,
             \/ Documents!Send(e) \/ Documents!Load(e) \/ Documents!CheckBoundPools(e)
             \/ Documents!Save(e) \/ Documents!Fail(e) \/ Documents!Answer(e)
      PROVE  Documents!SettingsInv'
  BY <1>1, SendInv, LoadInv, CheckInv, SaveInv, FailInv, AnswerInv
<1> QED BY <1>1, DeletePoolInv DEF Documents!Next

LEMMA SettingsStart == ASSUME Documents!Init PROVE Documents!SettingsInv
<1>1. \A g \in Documents!Groups : /\ rows[g] \in {Documents!NoRow, Documents!Default(g)}
                                  /\ Documents!Row(g) = Documents!Default(g)
  BY DEF Documents!Init, Documents!Row
<1>2. /\ \A g \in Documents!Groups : Documents!Default(g) \in [Documents!KeysOf(g) -> Documents!Values]
      /\ \A k \in Documents!Keys : Documents!Settings[k] = Documents!DefaultSettings[k]
  <2>1. ASSUME NEW g \in Documents!Groups
        PROVE  Documents!Default(g) \in [Documents!KeysOf(g) -> Documents!Values]
    BY DefaultsHold DEF Documents!Default, Documents!KeysOf
  <2>2. ASSUME NEW k \in Documents!Keys
        PROVE  Documents!Settings[k] = Documents!DefaultSettings[k]
    <3>1. k[1] \in Documents!Groups /\ k \in Documents!KeysOf(k[1])
      BY SettingKeys DEF Documents!KeysOf
    <3>2. Documents!Default(k[1])[k] = Documents!DefaultSettings[k]
      BY <3>1 DEF Documents!Default
    <3> QED BY <1>1, <3>1, <3>2 DEF Documents!Settings
  <2> QED BY <2>1, <2>2
<1>3. Documents!TypeOK
  <2>1. Documents!Idle \in Documents!Editor
    BY DEF Documents!Idle, Documents!Editor
  <2> DEFINE all == UNION {[Documents!KeysOf(h) -> Documents!Values] : h \in Documents!Groups}
  <2>2. \A g \in Documents!Groups : rows[g] \in {Documents!NoRow} \union all
    BY <1>1, <1>2
  <2> HIDE DEF all
  <2>3. rows \in [Documents!Groups -> {Documents!NoRow} \union all]
    BY <2>2 DEF Documents!Init
  <2>4. pool \in BOOLEAN /\ editor \in [Editors -> Documents!Editor]
    BY <2>1 DEF Documents!Init
  <2>5. owed \in [Documents!Keys -> Documents!Values \union {Documents!Mask}]
    BY DEF Documents!Init
  <2> QED BY <1>1, <1>2, <2>3, <2>4, <2>5 DEF Documents!Init, Documents!TypeOK, all
<1>4. Documents!StoredHolds
  BY <1>2, DefaultsHold, SettingKeys DEF Documents!StoredHolds, Documents!Validate
<1>5. \A e \in Editors : editor[e].at = "idle"
  BY DEF Documents!Init, Documents!Idle
<1>6. Documents!ToldIsStored
  BY DEF Documents!Init, Documents!ToldIsStored
<1> QED BY <1>3, <1>4, <1>5, <1>6
        DEF Documents!SettingsInv, Documents!Disturbed, Documents!Silenced, Documents!Computed,
            Documents!Written, Documents!Busy

\* Whatever patches of any panels interleave and whichever of their statements fail, the
\* stored document validates, and what a panel was told is stored stays until that key is
\* changed (service/settings.go Update, domain/settings_patch.go Validate).
THEOREM SettingsStaySound == Spec => []SettingsSound
<1> DEFINE Inv == part = "settings" => Documents!SettingsInv
<1>1. Init => Inv
  BY SettingsStart DEF Init
<1>2. Inv /\ [Next]_partsVars => Inv'
  <2> SUFFICES ASSUME Inv, [Next]_partsVars, part' = "settings" PROVE Documents!SettingsInv'
    OBVIOUS
  <2>1. CASE Next
    <3>1. part = "settings" /\ Documents!Next
      BY <2>1 DEF Next
    <3> QED BY <3>1, SettingsStep
  <2>2. CASE UNCHANGED partsVars
    <3>1. part = "settings" /\ UNCHANGED <<rows, pool, editor, owed, patches, dbFaults>>
      BY <2>2 DEF partsVars
    <3>2. Documents!Settings' = Documents!Settings
      BY <3>1 DEF Documents!Settings, Documents!Row
    <3> QED BY <3>1, <3>2
            DEF Documents!SettingsInv, Documents!TypeOK, Documents!StoredHolds,
                Documents!ToldIsStored, Documents!Disturbed, Documents!Silenced,
                Documents!Computed, Documents!ComputedBy, Documents!Written,
                Documents!WrittenBy, Documents!Busy
  <2> QED BY <2>1, <2>2
<1>3. Inv => SettingsSound
  BY DEF SettingsSound, Documents!SettingsInv, Documents!SettingsSound
<1> QED BY <1>1, <1>2, <1>3, PTL DEF Spec

---------------------------------------------------------------------------
(* The live markers                                                        *)

LEMMA MarkerConstants ==
  /\ RelayLegs \in Nat /\ DrawTicks \in Nat /\ LandTicks \in Nat /\ Longest \in Nat
  /\ DrawLimit \in Nat /\ MaxTimeouts \in Nat /\ LandTicks < DrawTicks
  BY PartsAssumption DEF Markers!LiveMarkersAssumption

\* A step of one attempt, which leaves the last frame outdated.
LEMMA AttemptMoves ==
  ASSUME Markers!LiveInv, NEW a \in Markers!Attempts,
         NEW to \in {"opens", "runs", "releases", "over"},
         attempt' = [attempt EXCEPT ![a] = to], Markers!Outdated
  PROVE  /\ attempt' \in [Markers!Attempts -> {"none", "opens", "runs", "releases", "over"}]
         /\ attempt'[a] = to /\ \A b \in Markers!Attempts \ {a} : attempt'[b] = attempt[b]
         /\ \A b \in Markers!Attempts : attempt[b] # "none" => attempt'[b] # "none"
         /\ drawn' = FALSE /\ shown' = {}
<1>1. attempt \in [Markers!Attempts -> {"none", "opens", "runs", "releases", "over"}]
  BY DEF Markers!LiveInv, Markers!TypeOK
<1> QED BY <1>1 DEF Markers!Outdated

LEMMA BeginInv ==
  ASSUME Markers!LiveInv, NEW a \in Markers!Attempts, Markers!Begin(a)
  PROVE  Markers!LiveInv'
<1>1. /\ attempt' = [attempt EXCEPT ![a] = "opens"] /\ Markers!Outdated
      /\ started' = [started EXCEPT ![a] = 0] /\ UNCHANGED <<marked, stray, missed, timeouts>>
  BY DEF Markers!Begin
<1>2. /\ attempt' \in [Markers!Attempts -> {"none", "opens", "runs", "releases", "over"}]
      /\ attempt'[a] = "opens" /\ \A b \in Markers!Attempts \ {a} : attempt'[b] = attempt[b]
      /\ \A b \in Markers!Attempts : attempt[b] # "none" => attempt'[b] # "none"
      /\ drawn' = FALSE /\ shown' = {}
  BY <1>1, AttemptMoves
<1>3. /\ started' \in [Markers!Attempts -> 0..Markers!Old]
      /\ \A b \in Markers!Attempts \ {a} : started'[b] = started[b]
  BY <1>1, MarkerConstants DEF Markers!LiveInv, Markers!TypeOK, Markers!Old
<1>4. Markers!TypeOK'
  BY <1>1, <1>2, <1>3 DEF Markers!LiveInv, Markers!TypeOK
<1>5. Markers!MarkersBegan'
  BY <1>1, <1>2 DEF Markers!LiveInv, Markers!TypeOK, Markers!MarkersBegan
<1>6. Markers!RunningIsMarked'
  BY <1>1, <1>2, <1>3 DEF Markers!LiveInv, Markers!RunningIsMarked, Markers!Running
<1> QED BY <1>2, <1>4, <1>5, <1>6
        DEF Markers!LiveInv, Markers!LiveSound, Markers!NothingStaleShown, Markers!RunningIsShown

LEMMA MarkInv ==
  ASSUME Markers!LiveInv, NEW a \in Markers!Attempts, Markers!Mark(a)
  PROVE  Markers!LiveInv'
<1>1. /\ attempt' = [attempt EXCEPT ![a] = "runs"] /\ Markers!Outdated
      /\ attempt[a] = "opens" /\ UNCHANGED started
      /\ marked \subseteq marked' /\ marked' \union stray' \subseteq marked \union stray \union {a}
      /\ missed \subseteq missed' /\ missed' \subseteq missed \union {a}
      /\ a \in marked' \/ a \in missed'
      /\ timeouts' \in 0..MaxTimeouts
  BY MarkerConstants DEF Markers!Mark, Markers!Member, Markers!LiveInv, Markers!TypeOK
<1>2. /\ attempt' \in [Markers!Attempts -> {"none", "opens", "runs", "releases", "over"}]
      /\ attempt'[a] = "runs" /\ \A b \in Markers!Attempts \ {a} : attempt'[b] = attempt[b]
      /\ \A b \in Markers!Attempts : attempt[b] # "none" => attempt'[b] # "none"
      /\ drawn' = FALSE /\ shown' = {}
  BY <1>1, AttemptMoves
<1>4. Markers!TypeOK'
  BY <1>1, <1>2 DEF Markers!LiveInv, Markers!TypeOK
<1>5. Markers!MarkersBegan'
  BY <1>1, <1>2 DEF Markers!LiveInv, Markers!TypeOK, Markers!MarkersBegan
<1>6. Markers!RunningIsMarked'
  BY <1>1, <1>2 DEF Markers!LiveInv, Markers!RunningIsMarked, Markers!Running
<1> QED BY <1>2, <1>4, <1>5, <1>6
        DEF Markers!LiveInv, Markers!LiveSound, Markers!NothingStaleShown, Markers!RunningIsShown

LEMMA EndCallInv ==
  ASSUME Markers!LiveInv, NEW a \in Markers!Attempts, Markers!EndCall(a)
  PROVE  Markers!LiveInv'
<1>1. /\ attempt' = [attempt EXCEPT ![a] = "releases"] /\ Markers!Outdated
      /\ attempt[a] = "runs" /\ UNCHANGED <<started, marked, stray, missed, timeouts>>
  BY DEF Markers!EndCall
<1>2. /\ attempt' \in [Markers!Attempts -> {"none", "opens", "runs", "releases", "over"}]
      /\ attempt'[a] = "releases" /\ \A b \in Markers!Attempts \ {a} : attempt'[b] = attempt[b]
      /\ \A b \in Markers!Attempts : attempt[b] # "none" => attempt'[b] # "none"
      /\ drawn' = FALSE /\ shown' = {}
  BY <1>1, AttemptMoves
<1>4. Markers!TypeOK'
  BY <1>1, <1>2 DEF Markers!LiveInv, Markers!TypeOK
<1>5. Markers!MarkersBegan'
  BY <1>1, <1>2 DEF Markers!LiveInv, Markers!TypeOK, Markers!MarkersBegan
<1>6. Markers!RunningIsMarked'
  BY <1>1, <1>2 DEF Markers!LiveInv, Markers!RunningIsMarked, Markers!Running
<1> QED BY <1>2, <1>4, <1>5, <1>6
        DEF Markers!LiveInv, Markers!LiveSound, Markers!NothingStaleShown, Markers!RunningIsShown

\* A release takes the attempt's own marker, and nobody else's.
LEMMA UnmarkInv ==
  ASSUME Markers!LiveInv, NEW a \in Markers!Attempts, Markers!Unmark(a)
  PROVE  Markers!LiveInv'
<1>1. /\ attempt' = [attempt EXCEPT ![a] = "over"] /\ Markers!Outdated
      /\ UNCHANGED <<started, stray, missed>>
      /\ marked' \subseteq marked /\ marked \ {a} \subseteq marked'
      /\ timeouts' \in 0..MaxTimeouts
  BY MarkerConstants DEF Markers!Unmark, Markers!Member, Markers!LiveInv, Markers!TypeOK
<1>2. /\ attempt' \in [Markers!Attempts -> {"none", "opens", "runs", "releases", "over"}]
      /\ attempt'[a] = "over" /\ \A b \in Markers!Attempts \ {a} : attempt'[b] = attempt[b]
      /\ \A b \in Markers!Attempts : attempt[b] # "none" => attempt'[b] # "none"
      /\ drawn' = FALSE /\ shown' = {}
  BY <1>1, AttemptMoves
<1>4. Markers!TypeOK'
  BY <1>1, <1>2 DEF Markers!LiveInv, Markers!TypeOK
<1>5. Markers!MarkersBegan'
  BY <1>1, <1>2 DEF Markers!LiveInv, Markers!TypeOK, Markers!MarkersBegan
<1>6. Markers!RunningIsMarked'
  BY <1>1, <1>2 DEF Markers!LiveInv, Markers!RunningIsMarked, Markers!Running
<1> QED BY <1>2, <1>4, <1>5, <1>6
        DEF Markers!LiveInv, Markers!LiveSound, Markers!NothingStaleShown, Markers!RunningIsShown

LEMMA LandInv ==
  ASSUME Markers!LiveInv, NEW m \in Markers!Attempts, Markers!Land(m)
  PROVE  Markers!LiveInv'
<1>1. /\ m \in stray /\ marked' = marked \union {m} /\ stray' = stray \ {m}
      /\ drawn' = FALSE /\ shown' = {} /\ UNCHANGED <<attempt, started, missed, timeouts>>
  BY DEF Markers!Land, Markers!Outdated
<1>2. Markers!TypeOK'
  BY <1>1 DEF Markers!LiveInv, Markers!TypeOK
<1> QED BY <1>1, <1>2
        DEF Markers!LiveInv, Markers!LiveSound, Markers!NothingStaleShown, Markers!RunningIsShown,
            Markers!MarkersBegan, Markers!RunningIsMarked, Markers!Running

LEMMA CrashInv ==
  ASSUME Markers!LiveInv, NEW r \in Requests, Markers!Crash(r)
  PROVE  Markers!LiveInv'
<1>1. /\ attempt' = [a \in Markers!Attempts |-> IF a[1] = r THEN "over" ELSE attempt[a]]
      /\ drawn' = FALSE /\ shown' = {} /\ UNCHANGED <<started, marked, stray, missed, timeouts>>
  BY DEF Markers!Crash, Markers!Outdated
<1>2. \A a \in Markers!Attempts : attempt'[a] \in {"over", attempt[a]}
  BY <1>1
<1>3. Markers!TypeOK'
  BY <1>1, <1>2 DEF Markers!LiveInv, Markers!TypeOK
<1>4. Markers!MarkersBegan'
  BY <1>1, <1>2 DEF Markers!LiveInv, Markers!TypeOK, Markers!MarkersBegan
<1>5. Markers!RunningIsMarked'
  BY <1>1, <1>2 DEF Markers!LiveInv, Markers!RunningIsMarked, Markers!Running
<1> QED BY <1>1, <1>3, <1>4, <1>5
        DEF Markers!LiveInv, Markers!LiveSound, Markers!NothingStaleShown, Markers!RunningIsShown

\* The prune takes only what can no longer be drawn; what it leaves is drawn, or the limit is full.
LEMMA SnapshotInv ==
  ASSUME Markers!LiveInv, Markers!Snapshot
  PROVE  Markers!LiveInv'
<1> DEFINE Lit == {m \in marked : Markers!Live(m)}
<1>1. /\ drawn' = TRUE /\ marked' \in {marked, Markers!Pruned}
      /\ UNCHANGED <<attempt, started, stray, missed, timeouts>>
      /\ shown' \subseteq Lit
      /\ \A m \in Lit \ shown' : Markers!Cardinality(shown') = DrawLimit
  <2>1. /\ drawn' = TRUE /\ marked' \in {marked, Markers!Pruned}
        /\ UNCHANGED <<attempt, started, stray, missed, timeouts>>
    BY Zenon DEF Markers!Snapshot
  <2>2. shown' \in {s \in SUBSET {m \in marked : Markers!Live(m)} :
          /\ Markers!Cardinality(s) <= DrawLimit
          /\ \A m \in {k \in marked : Markers!Live(k)} \ s :
               Markers!Cardinality(s) = DrawLimit /\ \A k \in s : started[k] >= started[m]}
    BY DEF Markers!Snapshot
  <2> QED BY <2>1, <2>2
<1>2. /\ marked' \subseteq marked
      /\ \A m \in marked : started[m] <= DrawTicks => m \in marked'
  BY <1>1 DEF Markers!Pruned
<1>3. Markers!TypeOK'
  BY <1>1, <1>2 DEF Markers!LiveInv, Markers!TypeOK
<1>4. Markers!MarkersBegan'
  BY <1>1, <1>2 DEF Markers!LiveInv, Markers!MarkersBegan
<1>5. Markers!RunningIsMarked'
  BY <1>1, <1>2 DEF Markers!LiveInv, Markers!RunningIsMarked, Markers!Running
<1>6. Markers!NothingStaleShown'
  BY <1>1 DEF Markers!LiveInv, Markers!MarkersBegan, Markers!NothingStaleShown, Markers!Live
<1>7. Markers!RunningIsShown'
  <2> SUFFICES ASSUME Markers!Cardinality(shown') < DrawLimit, NEW a \in Markers!Attempts,
                      Markers!Running(a), a \notin missed, started[a] < DrawTicks
               PROVE  a \in shown'
    <3>1. missed' = missed /\ started' = started /\ attempt' = attempt
      BY <1>1
    <3>2. Markers!RunningIsShown' <=>
            ((drawn' /\ Markers!Cardinality(shown') < DrawLimit) =>
               \A a \in Markers!Attempts :
                 Markers!Running(a) /\ a \notin missed /\ started[a] < DrawTicks => a \in shown')
      BY <3>1 DEF Markers!RunningIsShown, Markers!Running
    <3> QED BY <3>2
  <2>1. started[a] <= DrawTicks
    BY MarkerConstants DEF Markers!LiveInv, Markers!TypeOK, Markers!Old
  <2>2. a \in marked /\ Markers!Live(a)
    BY <2>1 DEF Markers!LiveInv, Markers!RunningIsMarked, Markers!Live
  <2>3. Markers!Cardinality(shown') # DrawLimit
    BY MarkerConstants
  <2> QED BY <1>1, <2>2, <2>3
<1> QED BY <1>3, <1>4, <1>5, <1>6, <1>7 DEF Markers!LiveInv, Markers!LiveSound

LEMMA MarkerTickInv ==
  ASSUME Markers!LiveInv, Markers!Tick
  PROVE  Markers!LiveInv'
<1>0. started \in [Markers!Attempts -> 0..Markers!Old] /\ Markers!Old \in Nat
  BY MarkerConstants DEF Markers!LiveInv, Markers!TypeOK, Markers!Old
<1>1. /\ started' = [a \in Markers!Attempts |->
           IF attempt[a] = "none" \/ started[a] = Markers!Old THEN started[a] ELSE started[a] + 1]
      /\ drawn' = FALSE /\ shown' = {} /\ UNCHANGED <<attempt, marked, stray, missed, timeouts>>
  BY DEF Markers!Tick, Markers!Outdated
<1>2. \A a \in Markers!Attempts : started[a] <= started'[a]
  BY <1>0, <1>1
<1>3. started' \in [Markers!Attempts -> 0..Markers!Old]
  BY <1>0, <1>1
<1>4. Markers!TypeOK'
  BY <1>1, <1>3 DEF Markers!LiveInv, Markers!TypeOK
<1>5. Markers!MarkersBegan'
  BY <1>1 DEF Markers!LiveInv, Markers!MarkersBegan
<1>6. Markers!RunningIsMarked'
  <2> SUFFICES ASSUME NEW a \in Markers!Attempts, Markers!Running(a), a \notin missed,
                      started'[a] <= DrawTicks
               PROVE  a \in marked
    BY <1>1 DEF Markers!RunningIsMarked, Markers!Running
  <2>1. started[a] <= DrawTicks
    BY <1>0, <1>2, <1>3, MarkerConstants
  <2> QED BY <2>1 DEF Markers!LiveInv, Markers!RunningIsMarked
<1> QED BY <1>1, <1>4, <1>5, <1>6
        DEF Markers!LiveInv, Markers!LiveSound, Markers!NothingStaleShown, Markers!RunningIsShown

LEMMA MarkerStep ==
  ASSUME Markers!LiveInv, Markers!Next
  PROVE  Markers!LiveInv'
  BY BeginInv, MarkInv, EndCallInv, UnmarkInv, LandInv, CrashInv, SnapshotInv, MarkerTickInv
     DEF Markers!Next

LEMMA MarkerStart == ASSUME Markers!Init PROVE Markers!LiveInv
<1>1. Markers!TypeOK
  <2>1. /\ 0 \in 0..Markers!Old /\ 0 \in 0..MaxTimeouts
    BY MarkerConstants DEF Markers!Old
  <2>2. drawn \in BOOLEAN
    BY Zenon DEF Markers!Init
  <2> QED BY <2>1, <2>2 DEF Markers!Init, Markers!TypeOK
<1> QED BY <1>1 DEF Markers!Init, Markers!LiveInv, Markers!LiveSound, Markers!NothingStaleShown,
                    Markers!RunningIsShown, Markers!MarkersBegan, Markers!RunningIsMarked, Markers!Running

---------------------------------------------------------------------------
(* The feed behind the console                                             *)

LEMMA FeedConstants == QueueDepth \in Nat /\ MaxOutages \in Nat /\ Feed!NoCall \notin Calls
  BY PartsAssumption DEF Feed!UsageFeedAssumption

\* What left was taken, and told.
LEMMA FeedLeft ==
  ASSUME Feed!FeedInv
  PROVE  /\ went + failed \in 0..Len(taken) /\ DOMAIN taken = 1..Len(taken)
         /\ 1..(went + failed) \subseteq DOMAIN taken
         /\ sending # Feed!NoCall => went + failed + 1 \in DOMAIN taken
         /\ \A n \in DOMAIN console : console[n] \in told
         /\ \A n \in DOMAIN wire : wire[n] \in told
<1>1. /\ queue \in Seq(Calls) /\ taken \in Seq(Calls)
      /\ failed \in Nat /\ went \in Nat
      /\ Len(taken) = Len(queue) + (IF sending = Feed!NoCall THEN 0 ELSE 1) + went + failed
  BY DEF Feed!FeedInv, Feed!FeedSound, Feed!EventsAreCounted, Feed!TypeOK
<1>2. Len(queue) \in Nat /\ Len(taken) \in Nat /\ DOMAIN taken = 1..Len(taken)
  BY <1>1
<1>3. went + failed \in 0..Len(taken)
  BY <1>1, <1>2
<1>4. \A i \in 1..(went + failed) : i \in DOMAIN taken
  BY <1>2, <1>3
<1>5. sending # Feed!NoCall => went + failed + 1 \in DOMAIN taken
  BY <1>1, <1>2
<1>6. \A i \in 1..(went + failed) : taken[i] \in told
  BY <1>4 DEF Feed!FeedInv, Feed!TakenOnce
<1> QED BY <1>2, <1>3, <1>4, <1>5, <1>6 DEF Feed!FeedInv, Feed!WireBehind, Feed!Left

\* A step that neither takes, sends nor shows an event.
LEMMA FeedStays ==
  ASSUME Feed!FeedInv, Feed!TypeOK', \A c \in told : recorded'[c] = recorded[c],
         UNCHANGED <<told, queue, taken, sending, dropped, failed, went, wire, console>>
  PROVE  Feed!FeedInv'
<1>1. \A n \in DOMAIN console : console[n] \in told
  BY FeedLeft
<1>2. Feed!ConsoleFollowsRows'
  BY <1>1 DEF Feed!FeedInv, Feed!FeedSound, Feed!ConsoleFollowsRows, Feed!InOrder
<1> QED BY <1>2 DEF Feed!FeedInv, Feed!FeedSound, Feed!EventsAreCounted, Feed!TakenOnce,
                    Feed!SentNext, Feed!WireBehind, Feed!Left, Feed!InOrder

LEMMA StoreInv ==
  ASSUME Feed!FeedInv, NEW c \in Calls, Feed!Store(c)
  PROVE  Feed!FeedInv'
<1>1. PICK to \in {"row", "refused"} :
         /\ recorded[c] = "open" /\ recorded' = [recorded EXCEPT ![c] = to]
         /\ UNCHANGED <<told, queue, taken, publisher, late, sending, dropped, failed, went,
                        listens, wire, console, process, outages>>
  BY DEF Feed!Store, Feed!Queued, Feed!Publisher, Feed!Counters, Feed!Consumer
<1>2. Feed!TypeOK'
  BY <1>1 DEF Feed!FeedInv, Feed!TypeOK, Feed!Fates
<1>3. \A d \in told : recorded'[d] = recorded[d]
  BY <1>1 DEF Feed!FeedInv, Feed!TypeOK, Feed!TakenOnce
<1> QED BY <1>1, <1>2, <1>3, FeedStays

LEMMA WithholdInv ==
  ASSUME Feed!FeedInv, NEW c \in Calls, Feed!Withhold(c)
  PROVE  Feed!FeedInv'
<1>1. /\ c \notin told /\ recorded' = [recorded EXCEPT ![c] = "not encoded"]
      /\ UNCHANGED <<told, queue, taken, publisher, late, sending, dropped, failed, went,
                     listens, wire, console, process, outages>>
  BY DEF Feed!Withhold, Feed!MayTell, Feed!Queued, Feed!Publisher, Feed!Counters, Feed!Consumer
<1>2. Feed!TypeOK'
  BY <1>1 DEF Feed!FeedInv, Feed!TypeOK, Feed!Fates
<1>3. \A d \in told : recorded'[d] = recorded[d]
  BY <1>1 DEF Feed!FeedInv, Feed!TypeOK, Feed!Fates
<1> QED BY <1>1, <1>2, <1>3, FeedStays

\* A call is told once: what the queue takes is new, and behind everything.
LEMMA TellInv ==
  ASSUME Feed!FeedInv, NEW c \in Calls, Feed!Tell(c)
  PROVE  Feed!FeedInv'
<1>0. /\ c \notin told /\ recorded[c] = "row" /\ told' = told \union {c}
      /\ UNCHANGED <<recorded, publisher, late, sending, failed, went, listens, wire, console,
                     process, outages>>
  BY DEF Feed!Tell, Feed!MayTell, Feed!Publisher, Feed!Consumer
<1>1. /\ queue \in Seq(Calls) /\ taken \in Seq(Calls) /\ wire \in Seq(Calls) /\ console \in Seq(Calls)
      /\ dropped \in Nat /\ failed \in Nat /\ went \in Nat /\ Len(queue) <= QueueDepth
  BY DEF Feed!FeedInv, Feed!TypeOK
<1>2. IsFiniteSet(told') /\ Cardinality(told') = Cardinality(told) + 1
  <2>1. IsFiniteSet(told)
    BY DEF Feed!FeedInv, Feed!TakenOnce, Feed!IsFiniteSet, IsFiniteSet
  <2> QED BY <1>0, <2>1, FS_AddElement
<1>3. Cardinality(told) = Len(taken) + dropped
  BY DEF Feed!FeedInv, Feed!FeedSound, Feed!EventsAreCounted, Feed!Cardinality, Cardinality
<1>4. \A d \in told' : recorded'[d] = "row"
  BY <1>0 DEF Feed!FeedInv, Feed!TakenOnce
<1>5. CASE Len(queue) < QueueDepth
  <2>1. queue' = Append(queue, c) /\ taken' = Append(taken, c) /\ dropped' = dropped
    BY <1>5 DEF Feed!Tell, Feed!Taken
  <2>2. /\ queue' \in Seq(Calls) /\ taken' \in Seq(Calls) /\ Len(queue') <= QueueDepth
        /\ Len(taken') = Len(taken) + 1 /\ taken'[Len(taken) + 1] = c
        /\ Len(queue') = Len(queue) + 1 /\ queue'[Len(queue) + 1] = c
        /\ \A i \in DOMAIN taken : taken'[i] = taken[i]
        /\ \A i \in DOMAIN queue : queue'[i] = queue[i]
        /\ DOMAIN taken' = DOMAIN taken \union {Len(taken) + 1}
        /\ DOMAIN queue' = DOMAIN queue \union {Len(queue) + 1}
        /\ DOMAIN taken = 1..Len(taken) /\ DOMAIN queue = 1..Len(queue)
    BY <1>1, <1>5, <2>1, FeedConstants
  <2>3. Feed!TypeOK'
    BY <1>0, <1>1, <2>1, <2>2 DEF Feed!FeedInv, Feed!TypeOK
  <2>4. Feed!TakenOnce'
    <3>1. \A i \in DOMAIN taken' : taken'[i] \in told'
      BY <1>0, <2>2 DEF Feed!FeedInv, Feed!TakenOnce
    <3>2. \A i, j \in DOMAIN taken' : taken'[i] = taken'[j] => i = j
      BY <1>0, <2>2 DEF Feed!FeedInv, Feed!TakenOnce
    <3>3. Feed!IsFiniteSet(told)'
      BY <1>2 DEF Feed!IsFiniteSet, IsFiniteSet
    <3> QED BY <1>4, <3>1, <3>2, <3>3 DEF Feed!TakenOnce
  <2>5. Feed!EventsAreCounted'
    <3>1. Len(taken) = Len(queue) + (IF sending = Feed!NoCall THEN 0 ELSE 1) + went + failed
      BY DEF Feed!FeedInv, Feed!FeedSound, Feed!EventsAreCounted
    <3>2. Feed!Cardinality(told)' = Len(taken') + dropped'
      BY <1>1, <1>2, <1>3, <2>1, <2>2 DEF Feed!Cardinality, Cardinality
    <3>3. Len(taken') = Len(queue') + (IF sending' = Feed!NoCall THEN 0 ELSE 1) + went' + failed'
      BY <1>0, <1>1, <2>2, <3>1
    <3>4. \A i \in DOMAIN queue' : queue'[i] = taken'[Len(taken') - Len(queue') + i]
      <4> SUFFICES ASSUME NEW i \in DOMAIN queue'
                   PROVE  queue'[i] = taken'[Len(taken') - Len(queue') + i]
        OBVIOUS
      <4>1. CASE i = Len(queue) + 1
        BY <1>1, <2>2, <4>1
      <4>2. CASE i \in DOMAIN queue
        <5>1. queue[i] = taken[Len(taken) - Len(queue) + i]
          BY <4>2 DEF Feed!FeedInv, Feed!FeedSound, Feed!EventsAreCounted
        <5>2. /\ Len(taken) - Len(queue) + i \in DOMAIN taken
              /\ Len(taken') - Len(queue') + i = Len(taken) - Len(queue) + i
          BY <1>1, <2>2, <3>1, <4>2
        <5> QED BY <2>2, <4>2, <5>1, <5>2
      <4> QED BY <2>2, <4>1, <4>2
    <3> QED BY <3>2, <3>3, <3>4 DEF Feed!EventsAreCounted
  <2>7. \A i \in 1..(went + failed) : i \in DOMAIN taken /\ taken'[i] = taken[i]
    BY <2>2, FeedLeft
  <2>8. ASSUME NEW line \in {console, wire}
        PROVE  /\ \A n \in DOMAIN line : \E i \in 1..(went + failed) : line[n] = taken'[i]
               /\ \A n \in DOMAIN line : line[n] # c
    <3>1. \A n \in DOMAIN line : \E i \in 1..(went + failed) : line[n] = taken[i]
      BY DEF Feed!FeedInv, Feed!WireBehind, Feed!Left
    <3>2. \A i \in 1..(went + failed) : taken[i] \in told
      BY <2>7 DEF Feed!FeedInv, Feed!TakenOnce
    <3> QED BY <1>0, <2>7, <3>1, <3>2
  <2>9. \A n \in DOMAIN console : console[n] # c
    BY <2>8
  <2>10. \A n \in DOMAIN wire : wire[n] # c
    BY <2>8
  <2>11. Feed!ConsoleFollowsRows'
    BY <1>0, <2>2, <2>9 DEF Feed!FeedInv, Feed!FeedSound, Feed!ConsoleFollowsRows, Feed!InOrder
  <2>12. Feed!SentNext'
    <3>1. sending # Feed!NoCall => went + failed + 1 \in DOMAIN taken
      BY <1>1, <2>2 DEF Feed!FeedInv, Feed!FeedSound, Feed!EventsAreCounted
    <3> QED BY <1>0, <2>2, <3>1 DEF Feed!FeedInv, Feed!SentNext
  <2>13. Feed!WireBehind'
    <3>1. Feed!Left(console)' /\ Feed!Left(wire)'
      BY <1>0, <2>8 DEF Feed!Left
    <3>2. Feed!InOrder(wire)'
      BY <1>0, <2>2, <2>10 DEF Feed!FeedInv, Feed!WireBehind, Feed!InOrder
    <3>3. ASSUME NEW n \in DOMAIN console, NEW m \in DOMAIN wire,
                 NEW i \in DOMAIN taken', NEW j \in DOMAIN taken',
                 console[n] = taken'[i], wire[m] = taken'[j]
          PROVE  i < j
      <4>1. i \in DOMAIN taken /\ j \in DOMAIN taken
        BY <2>2, <2>9, <2>10, <3>3
      <4> QED BY <2>2, <3>3, <4>1 DEF Feed!FeedInv, Feed!WireBehind
    <3> QED BY <1>0, <3>1, <3>2, <3>3 DEF Feed!WireBehind
  <2> QED BY <2>3, <2>4, <2>5, <2>11, <2>12, <2>13 DEF Feed!FeedInv, Feed!FeedSound
<1>6. CASE ~(Len(queue) < QueueDepth)
  <2>1. dropped' = dropped + 1 /\ UNCHANGED <<queue, taken>>
    BY <1>6 DEF Feed!Tell, Feed!Taken, Feed!Queued
  <2>2. Feed!TypeOK'
    BY <1>0, <1>1, <2>1 DEF Feed!FeedInv, Feed!TypeOK
  <2>3. Feed!TakenOnce'
    BY <1>0, <1>2, <1>4, <2>1 DEF Feed!FeedInv, Feed!TakenOnce, Feed!IsFiniteSet, IsFiniteSet
  <2>4. Feed!EventsAreCounted'
    <3>1. Feed!Cardinality(told)' = Len(taken') + dropped'
      BY <1>1, <1>2, <1>3, <2>1 DEF Feed!Cardinality, Cardinality
    <3> QED BY <1>0, <2>1, <3>1 DEF Feed!FeedInv, Feed!FeedSound, Feed!EventsAreCounted
  <2>5. Feed!ConsoleFollowsRows' /\ Feed!SentNext' /\ Feed!WireBehind'
    BY <1>0, <2>1 DEF Feed!FeedInv, Feed!FeedSound, Feed!ConsoleFollowsRows, Feed!InOrder,
                      Feed!SentNext, Feed!WireBehind, Feed!Left
  <2> QED BY <2>2, <2>3, <2>4, <2>5 DEF Feed!FeedInv, Feed!FeedSound
<1> QED BY <1>5, <1>6

MayGrow(s, x, t) == t \in {s, Append(s, x)}

LEMMA LineGrows ==
  ASSUME NEW S, NEW s \in Seq(S), NEW x \in S, NEW t, MayGrow(s, x, t)
  PROVE  /\ t \in Seq(S) /\ DOMAIN s = 1..Len(s) /\ Len(s) \in Nat /\ DOMAIN t \subseteq Nat
         /\ \A n \in DOMAIN t :
              \/ n \in DOMAIN s /\ t[n] = s[n]
              \/ n = Len(s) + 1 /\ t[n] = x
<1>1. DOMAIN s = 1..Len(s) /\ Len(s) \in Nat
  OBVIOUS
<1>2. CASE t = s
  BY <1>1, <1>2
<1>3. CASE t = Append(s, x)
  <2>1. /\ t \in Seq(S) /\ Len(t) = Len(s) + 1 /\ t[Len(s) + 1] = x
        /\ \A n \in 1..Len(s) : t[n] = s[n]
    BY <1>3, AppendProperties
  <2>2. DOMAIN t = 1..(Len(s) + 1)
    BY <2>1
  <2> QED BY <1>1, <2>1, <2>2
<1> QED BY <1>2, <1>3 DEF MayGrow

LEMMA LineShrinks ==
  ASSUME NEW S, NEW s \in Seq(S), s # <<>>
  PROVE  /\ Tail(s) \in Seq(S) /\ 1 \in DOMAIN s /\ Head(s) = s[1] /\ s[1] \in S
         /\ \A n \in DOMAIN Tail(s) :
              n \in Nat \ {0} /\ n + 1 \in DOMAIN s /\ Tail(s)[n] = s[n + 1]
  OBVIOUS

\* The publisher takes the oldest event that is left.
LEMMA TakeInv ==
  ASSUME Feed!FeedInv, Feed!Take
  PROVE  Feed!FeedInv'
<1>1. /\ sending = Feed!NoCall /\ queue # <<>> /\ sending' = Head(queue) /\ queue' = Tail(queue)
      /\ UNCHANGED <<recorded, told, taken, publisher, late, dropped, failed, went, listens, wire,
                     console, process, outages>>
  BY DEF Feed!Take, Feed!Counters, Feed!Consumer
<1>2. /\ queue \in Seq(Calls) /\ taken \in Seq(Calls) /\ failed \in Nat /\ went \in Nat
      /\ Len(queue) <= QueueDepth
      /\ Len(taken) = Len(queue) + went + failed
      /\ \A i \in DOMAIN queue : queue[i] = taken[Len(taken) - Len(queue) + i]
  BY <1>1 DEF Feed!FeedInv, Feed!TypeOK, Feed!FeedSound, Feed!EventsAreCounted
<1>3. /\ sending' = queue[1] /\ sending' \in Calls /\ queue' \in Seq(Calls)
      /\ Len(queue') = Len(queue) - 1 /\ Len(queue) \in Nat \ {0}
      /\ \A i \in DOMAIN queue' : i + 1 \in DOMAIN queue /\ queue'[i] = queue[i + 1]
  BY <1>1, <1>2
<1>4. Feed!TypeOK'
  BY <1>1, <1>2, <1>3, FeedConstants DEF Feed!FeedInv, Feed!TypeOK
<1>5. Feed!EventsAreCounted'
  <2>1. Len(taken') = Len(queue') + (IF sending' = Feed!NoCall THEN 0 ELSE 1) + went' + failed'
    BY <1>1, <1>2, <1>3, FeedConstants
  <2>2. ASSUME NEW i \in DOMAIN queue'
        PROVE  queue'[i] = taken'[Len(taken') - Len(queue') + i]
    <3>1. i \in Nat /\ Len(taken) \in Nat
      BY <1>2, <1>3
    <3>2. Len(taken) - Len(queue) + (i + 1) = Len(taken) - Len(queue') + i
      BY <1>3, <3>1
    <3>3. queue[i + 1] = taken[Len(taken) - Len(queue) + (i + 1)]
      BY <1>2, <1>3
    <3> QED BY <1>1, <1>3, <3>2, <3>3
  <2> QED BY <1>1, <2>1, <2>2 DEF Feed!FeedInv, Feed!FeedSound, Feed!EventsAreCounted
<1>6. Feed!SentNext'
  <2>1. 1 \in DOMAIN queue /\ Len(taken) - Len(queue) + 1 = went + failed + 1
    BY <1>2, <1>3
  <2> QED BY <1>1, <1>2, <1>3, <2>1 DEF Feed!SentNext
<1> QED BY <1>1, <1>4, <1>5, <1>6
        DEF Feed!FeedInv, Feed!FeedSound, Feed!ConsoleFollowsRows, Feed!InOrder, Feed!TakenOnce,
            Feed!WireBehind, Feed!Left

\* The event that was being sent leaves, to the subscription or past it.
LEMMA SentLeaves ==
  ASSUME Feed!FeedInv, Feed!TypeOK', sending # Feed!NoCall, sending' = Feed!NoCall,
         MayGrow(wire, sending, wire'),
         NEW left \in Nat, left = went + failed, went' + failed' = left + 1,
         went' \in Nat, failed' \in Nat,
         UNCHANGED <<recorded, told, queue, taken, dropped, console>>
  PROVE  Feed!FeedInv'
<1>1. failed \in Nat /\ went \in Nat /\ wire \in Seq(Calls) /\ sending \in Calls
  BY DEF Feed!FeedInv, Feed!TypeOK
<1>2. left \in Nat /\ left = went + failed /\ went' + failed' = left + 1
  OBVIOUS
<1>3. left + 1 \in DOMAIN taken
  BY FeedLeft
<1>4. sending = taken[left + 1]
  BY DEF Feed!FeedInv, Feed!SentNext
<1>5. /\ DOMAIN wire' \subseteq Nat /\ Len(wire) \in Nat /\ DOMAIN wire = 1..Len(wire)
      /\ \A n \in DOMAIN wire' :
           \/ n \in DOMAIN wire /\ wire'[n] = wire[n]
           \/ n = Len(wire) + 1 /\ wire'[n] = sending
  BY <1>1, LineGrows
<1>6. Feed!EventsAreCounted'
  <2>1. Len(taken') = Len(queue') + (IF sending' = Feed!NoCall THEN 0 ELSE 1) + went' + failed'
    <3>1. Len(taken) = Len(queue) + 1 + went + failed
      BY DEF Feed!FeedInv, Feed!FeedSound, Feed!EventsAreCounted
    <3>2. Len(queue) \in Nat
      BY DEF Feed!FeedInv, Feed!TypeOK
    <3>4. went \in Nat /\ failed \in Nat /\ went' \in Nat /\ failed' \in Nat
      BY Zenon, <1>1
    <3>5. went' + failed' = (went + failed) + 1
      BY Zenon, <1>2
    <3>6. PICK a \in Nat, b \in Nat, c \in Nat, d \in Nat, n \in Nat :
            a = went /\ b = failed /\ c = went' /\ d = failed' /\ n = Len(queue)
      BY Zenon, <3>2, <3>4
    <3>7. c + d = (a + b) + 1
      BY Zenon, <3>5, <3>6
    <3>8. n + 1 + a + b = n + 0 + c + d
      BY <3>7
    <3>3. Len(queue) + 1 + went + failed = Len(queue) + 0 + went' + failed'
      BY Zenon, <3>6, <3>8
    <3> QED BY <3>1, <3>3
  <2>2. Feed!Cardinality(told)' = Len(taken') + dropped'
    BY DEF Feed!FeedInv, Feed!FeedSound, Feed!EventsAreCounted
  <2>3. \A i \in DOMAIN queue' : queue'[i] = taken'[Len(taken') - Len(queue') + i]
    BY DEF Feed!FeedInv, Feed!FeedSound, Feed!EventsAreCounted
  <2> QED BY <2>1, <2>2, <2>3 DEF Feed!EventsAreCounted
<1>7. Feed!ConsoleFollowsRows' /\ Feed!TakenOnce' /\ Feed!SentNext'
  BY DEF Feed!FeedInv, Feed!FeedSound, Feed!ConsoleFollowsRows, Feed!InOrder, Feed!TakenOnce,
         Feed!SentNext
\* Whatever is in a line left before it.
<1>8. ASSUME NEW line, Feed!Left(line), NEW n \in DOMAIN line, NEW i \in DOMAIN taken,
             line[n] = taken[i]
      PROVE  i < left + 1
  <2>1. PICK k \in 1..left : line[n] = taken[k]
    BY <1>8 DEF Feed!Left
  <2>2. k \in DOMAIN taken
    BY <2>1, FeedLeft
  <2>3. i = k
    BY <1>8, <2>1, <2>2 DEF Feed!FeedInv, Feed!TakenOnce
  <2> QED BY <1>2, <2>1, <2>3
<1>9. Feed!Left(console) /\ Feed!Left(wire)
  BY DEF Feed!FeedInv, Feed!WireBehind
<1>10. \A n \in DOMAIN wire' : wire'[n] = sending \/ (n \in DOMAIN wire /\ wire'[n] = wire[n])
  BY <1>5
<1>11. Feed!Left(console)' /\ Feed!Left(wire)'
  <2>1. \A k \in 1..left : k \in 1..(left + 1)
    BY <1>2
  <2>2. left + 1 \in 1..(left + 1) /\ went' + failed' = left + 1
    BY <1>2
  <2>3. Feed!Left(console)'
    <3> SUFFICES ASSUME NEW n \in DOMAIN console
                 PROVE  \E k \in 1..(left + 1) : console[n] = taken[k]
      BY <2>2 DEF Feed!Left
    <3> QED BY <1>9, <2>1 DEF Feed!Left
  <2>4. Feed!Left(wire)'
    <3> SUFFICES ASSUME NEW n \in DOMAIN wire'
                 PROVE  \E k \in 1..(left + 1) : wire'[n] = taken[k]
      BY <2>2 DEF Feed!Left
    <3> QED BY <1>3, <1>4, <1>9, <1>10, <2>1, <2>2 DEF Feed!Left
  <2> QED BY <2>3, <2>4
<1>12. ASSUME NEW n \in DOMAIN console, NEW m \in DOMAIN wire',
             NEW i \in DOMAIN taken, NEW j \in DOMAIN taken,
             console[n] = taken[i], wire'[m] = taken[j]
      PROVE  i < j
  <2>1. CASE m \in DOMAIN wire /\ wire'[m] = wire[m]
    BY <1>12, <2>1 DEF Feed!FeedInv, Feed!WireBehind
  <2>2. CASE wire'[m] = sending
    <3>1. j = left + 1
      BY <1>3, <1>4, <1>12, <2>2 DEF Feed!FeedInv, Feed!TakenOnce
    <3> QED BY <1>8, <1>9, <1>12, <3>1
  <2> QED BY <1>10, <2>1, <2>2
<1>13. Feed!InOrder(wire)'
  <2>1. \A n \in DOMAIN wire' : \E i \in DOMAIN taken : wire'[n] = taken[i]
    BY <1>3, <1>4, <1>10 DEF Feed!FeedInv, Feed!WireBehind, Feed!InOrder
  <2>2. ASSUME NEW n \in DOMAIN wire', NEW m \in DOMAIN wire', n < m,
               NEW i \in DOMAIN taken, NEW j \in DOMAIN taken,
               wire'[n] = taken[i], wire'[m] = taken[j]
        PROVE  i < j
    <3>1. n \in DOMAIN wire /\ wire'[n] = wire[n]
      BY <1>5, <2>2
    <3>2. CASE m \in DOMAIN wire /\ wire'[m] = wire[m]
      BY <2>2, <3>1, <3>2 DEF Feed!FeedInv, Feed!WireBehind, Feed!InOrder
    <3>3. CASE wire'[m] = sending
      <4>1. j = left + 1
        BY <1>3, <1>4, <2>2, <3>3 DEF Feed!FeedInv, Feed!TakenOnce
      <4> QED BY <1>8, <1>9, <2>2, <3>1, <4>1
    <3> QED BY <1>10, <3>2, <3>3
  <2> QED BY <2>1, <2>2 DEF Feed!InOrder
<1> QED BY <1>6, <1>7, <1>11, <1>12, <1>13 DEF Feed!FeedInv, Feed!FeedSound, Feed!WireBehind

LEMMA PublishedInv ==
  ASSUME Feed!FeedInv, Feed!Published
  PROVE  Feed!FeedInv'
<1>1. /\ sending # Feed!NoCall /\ sending' = Feed!NoCall
      /\ MayGrow(wire, sending, wire') /\ went' = went + 1
      /\ UNCHANGED <<recorded, told, queue, taken, publisher, late, dropped, failed, listens,
                     console, process, outages>>
  BY DEF MayGrow, Feed!Published, Feed!Heard, Feed!Queued
<1>2. went \in Nat /\ failed \in Nat /\ wire \in Seq(Calls) /\ sending \in Calls
  BY <1>1 DEF Feed!FeedInv, Feed!TypeOK
<1>3. /\ went' \in Nat /\ failed' \in Nat /\ wire' \in Seq(Calls)
      /\ went + failed \in Nat /\ went' + failed' = (went + failed) + 1
  BY <1>1, <1>2, LineGrows
<1>4. Feed!TypeOK'
  BY <1>1, <1>3 DEF Feed!FeedInv, Feed!TypeOK
<1> QED BY Zenon, <1>1, <1>3, <1>4, SentLeaves

LEMMA UnpublishedInv ==
  ASSUME Feed!FeedInv, Feed!Unpublished
  PROVE  Feed!FeedInv'
<1>1. /\ sending # Feed!NoCall /\ sending' = Feed!NoCall
      /\ MayGrow(wire, sending, wire') /\ failed' = failed + 1
      /\ UNCHANGED <<recorded, told, queue, taken, publisher, late, dropped, went, listens,
                     console, process>>
      /\ outages' \in 0..MaxOutages
  BY FeedConstants DEF MayGrow, Feed!Unpublished, Feed!Failure, Feed!Heard, Feed!FeedInv, Feed!TypeOK
<1>2. went \in Nat /\ failed \in Nat /\ wire \in Seq(Calls) /\ sending \in Calls
  BY <1>1 DEF Feed!FeedInv, Feed!TypeOK
<1>3. /\ went' \in Nat /\ failed' \in Nat /\ wire' \in Seq(Calls)
      /\ went + failed \in Nat /\ went' + failed' = (went + failed) + 1
  BY <1>1, <1>2, LineGrows
<1>4. Feed!TypeOK'
  BY <1>1, <1>3 DEF Feed!FeedInv, Feed!TypeOK
<1> QED BY Zenon, <1>1, <1>3, <1>4, SentLeaves

\* A subscription that opens or closes holds nothing.
LEMMA WireDropped ==
  ASSUME Feed!FeedInv, listens' \in {"off", "on", "left"}, wire' = <<>>, outages' \in 0..MaxOutages,
         UNCHANGED <<recorded, told, queue, taken, publisher, late, sending, dropped, failed, went,
                     console, process>>
  PROVE  Feed!FeedInv'
<1>1. wire' \in Seq(Calls) /\ DOMAIN wire' = {}
  OBVIOUS
<1>2. Feed!TypeOK'
  BY <1>1 DEF Feed!FeedInv, Feed!TypeOK
<1> QED BY <1>1, <1>2
        DEF Feed!FeedInv, Feed!FeedSound, Feed!EventsAreCounted, Feed!ConsoleFollowsRows,
            Feed!InOrder, Feed!TakenOnce, Feed!SentNext, Feed!WireBehind, Feed!Left

\* What the console shows next is what the subscription held first.
LEMMA MirrorInv ==
  ASSUME Feed!FeedInv, Feed!Mirror
  PROVE  Feed!FeedInv'
<1>1. /\ wire # <<>> /\ wire' = Tail(wire) /\ MayGrow(console, Head(wire), console')
      /\ outages' \in 0..MaxOutages
      /\ UNCHANGED <<recorded, told, queue, taken, publisher, late, sending, dropped, failed, went,
                     listens, process>>
  BY FeedConstants DEF MayGrow, Feed!Mirror, Feed!Queued, Feed!Publisher, Feed!Counters, Feed!FeedInv, Feed!TypeOK
<1>2. wire \in Seq(Calls) /\ console \in Seq(Calls) /\ taken \in Seq(Calls)
  BY DEF Feed!FeedInv, Feed!TypeOK
<1>9. /\ wire' \in Seq(Calls) /\ 1 \in DOMAIN wire /\ Head(wire) = wire[1] /\ wire[1] \in Calls
      /\ \A n \in DOMAIN wire' : n + 1 \in DOMAIN wire /\ wire'[n] = wire[n + 1] /\ n \in Nat \ {0}
  BY <1>1, <1>2, LineShrinks
<1>10. /\ console' \in Seq(Calls) /\ DOMAIN console' \subseteq Nat
       /\ Len(console) \in Nat /\ DOMAIN console = 1..Len(console)
       /\ \A n \in DOMAIN console' :
            \/ n \in DOMAIN console /\ console'[n] = console[n]
            \/ n = Len(console) + 1 /\ console'[n] = wire[1]
  BY <1>1, <1>2, <1>9, LineGrows
<1>3. /\ wire' \in Seq(Calls) /\ console' \in Seq(Calls) /\ 1 \in DOMAIN wire
      /\ \A n \in DOMAIN wire' : n + 1 \in DOMAIN wire /\ wire'[n] = wire[n + 1] /\ n \in Nat \ {0}
      /\ \A n \in DOMAIN console' :
           \/ n \in DOMAIN console /\ console'[n] = console[n]
           \/ console'[n] = wire[1]
  BY <1>9, <1>10
<1>4. Feed!TypeOK'
  BY <1>1, <1>3 DEF Feed!FeedInv, Feed!TypeOK
<1>5. Feed!Left(wire)' /\ Feed!Left(console)'
  <2> DEFINE left == 1..(went + failed)
  <2>1. /\ \A n \in DOMAIN wire : \E i \in left : wire[n] = taken[i]
        /\ \A n \in DOMAIN console : \E i \in left : console[n] = taken[i]
    BY DEF Feed!FeedInv, Feed!WireBehind, Feed!Left
  <2>2. /\ Feed!Left(wire)' <=> \A n \in DOMAIN wire' : \E i \in left : wire'[n] = taken[i]
        /\ Feed!Left(console)' <=> \A n \in DOMAIN console' : \E i \in left : console'[n] = taken[i]
    BY <1>1 DEF Feed!Left
  <2> HIDE DEF left
  <2> QED BY <1>3, <2>1, <2>2
<1>6. Feed!InOrder(wire)'
  <2>1. \A n \in DOMAIN wire' : \E i \in DOMAIN taken : wire'[n] = taken[i]
    BY <1>3 DEF Feed!FeedInv, Feed!WireBehind, Feed!InOrder
  <2>2. ASSUME NEW n \in DOMAIN wire', NEW m \in DOMAIN wire', n < m
        PROVE  \A i, j \in DOMAIN taken : wire'[n] = taken[i] /\ wire'[m] = taken[j] => i < j
    <3>1. /\ n + 1 \in DOMAIN wire /\ m + 1 \in DOMAIN wire /\ n + 1 < m + 1
          /\ wire'[n] = wire[n + 1] /\ wire'[m] = wire[m + 1]
      BY <1>3, <2>2
    <3>2. Feed!InOrder(wire)
      BY DEF Feed!FeedInv, Feed!WireBehind
    <3>3. \A i, j \in DOMAIN taken : wire[n + 1] = taken[i] /\ wire[m + 1] = taken[j] => i < j
      BY Zenon, <3>1, <3>2 DEF Feed!InOrder
    <3> QED BY <3>1, <3>3
  <2> QED BY <1>1, <2>1, <2>2 DEF Feed!InOrder
<1>7. Feed!ConsoleFollowsRows'
  <2>1. ASSUME NEW n \in DOMAIN console'
        PROVE  recorded[console'[n]] = "row" /\ \E i \in DOMAIN taken : console'[n] = taken[i]
    <3>1. CASE n \in DOMAIN console /\ console'[n] = console[n]
      BY <3>1 DEF Feed!FeedInv, Feed!FeedSound, Feed!ConsoleFollowsRows, Feed!InOrder
    <3>2. CASE console'[n] = wire[1]
      <4>1. wire[1] \in told
        BY <1>3, FeedLeft
      <4> QED BY <1>3, <3>2, <4>1 DEF Feed!FeedInv, Feed!TakenOnce, Feed!WireBehind, Feed!InOrder
    <3> QED BY <1>3, <3>1, <3>2
  <2>2. ASSUME NEW n \in DOMAIN console', NEW m \in DOMAIN console', n < m,
               NEW i \in DOMAIN taken, NEW j \in DOMAIN taken,
               console'[n] = taken[i], console'[m] = taken[j]
        PROVE  i < j
    <3>1. n \in DOMAIN console /\ console'[n] = console[n]
      BY <1>10, <2>2
    <3>2. CASE m \in DOMAIN console /\ console'[m] = console[m]
      BY <2>2, <3>1, <3>2 DEF Feed!FeedInv, Feed!FeedSound, Feed!ConsoleFollowsRows, Feed!InOrder
    <3>3. CASE console'[m] = wire[1]
      <4>1. console[n] = taken[i] /\ wire[1] = taken[j] /\ 1 \in DOMAIN wire
        BY <1>3, <2>2, <3>1, <3>3
      <4>2. \A b \in DOMAIN console, f \in DOMAIN wire : \A u, v \in DOMAIN taken :
              console[b] = taken[u] /\ wire[f] = taken[v] => u < v
        BY DEF Feed!FeedInv, Feed!WireBehind
      <4> QED BY Zenon, <2>2, <3>1, <4>1, <4>2
    <3> QED BY <1>3, <3>2, <3>3
  <2> QED BY <1>1, <2>1, <2>2 DEF Feed!ConsoleFollowsRows, Feed!InOrder
<1>8. Feed!WireBehind'
  <2>1. ASSUME NEW n \in DOMAIN console', NEW m \in DOMAIN wire',
               NEW i \in DOMAIN taken, NEW j \in DOMAIN taken,
               console'[n] = taken[i], wire'[m] = taken[j]
        PROVE  i < j
    <3>1. m + 1 \in DOMAIN wire /\ wire[m + 1] = taken[j] /\ 1 < m + 1
      BY <1>3, <2>1
    <3>2. CASE n \in DOMAIN console /\ console'[n] = console[n]
      BY <2>1, <3>1, <3>2 DEF Feed!FeedInv, Feed!WireBehind
    <3>3. CASE console'[n] = wire[1]
      BY <1>3, <2>1, <3>1, <3>3 DEF Feed!FeedInv, Feed!WireBehind, Feed!InOrder
    <3> QED BY <1>3, <3>2, <3>3
  <2> QED BY <1>1, <1>5, <1>6, <2>1 DEF Feed!WireBehind
<1> QED BY <1>1, <1>4, <1>7, <1>8
        DEF Feed!FeedInv, Feed!FeedSound, Feed!EventsAreCounted, Feed!TakenOnce, Feed!SentNext

LEMMA FeedStep ==
  ASSUME Feed!FeedInv, Feed!Next
  PROVE  Feed!FeedInv'
<1>1. CASE Feed!Drain \/ Feed!Leave \/ Feed!DrainExpires \/ Feed!Close \/ Feed!StopWorkers \/ Feed!Exit
  <2>1. /\ UNCHANGED <<recorded, told, queue, taken, sending, dropped, failed, went, listens, wire,
                       console, outages>>
        /\ publisher' \in {"up", "drains", "left"} /\ late' \in BOOLEAN
        /\ process' \in {"up", "closing", "stopping", "gone"}
    <3>1. late \in BOOLEAN /\ publisher \in {"up", "drains", "left"}
          /\ process \in {"up", "closing", "stopping", "gone"}
      BY DEF Feed!FeedInv, Feed!TypeOK
    <3>2. late' \in BOOLEAN
      BY Zenon, <1>1, <3>1 DEF Feed!Drain, Feed!Leave, Feed!DrainExpires, Feed!Close, Feed!StopWorkers,
                        Feed!Exit, Feed!Publisher
    <3> QED BY <1>1, <3>1, <3>2 DEF Feed!Drain, Feed!Leave, Feed!DrainExpires, Feed!Close,
               Feed!StopWorkers, Feed!Exit, Feed!Publisher, Feed!Queued, Feed!Counters, Feed!Consumer
  <2>2. Feed!TypeOK'
    BY <2>1 DEF Feed!FeedInv, Feed!TypeOK
  <2> QED BY <2>1, <2>2, FeedStays
<1>2. CASE Feed!Subscribe \/ Feed!Break \/ Feed!Unsubscribe
  <2>1. /\ listens' \in {"off", "on", "left"} /\ wire' = <<>> /\ outages' \in 0..MaxOutages
        /\ UNCHANGED <<recorded, told, queue, taken, publisher, late, sending, dropped, failed,
                       went, console, process>>
    BY <1>2, FeedConstants
       DEF Feed!Subscribe, Feed!Break, Feed!Unsubscribe, Feed!FeedInv, Feed!TypeOK, Feed!Queued,
           Feed!Publisher, Feed!Counters
  <2> QED BY <2>1, WireDropped
<1>3. ASSUME NEW c \in Calls, Feed!Store(c) \/ Feed!Tell(c) \/ Feed!Withhold(c)
      PROVE  Feed!FeedInv'
  BY <1>3, StoreInv, TellInv, WithholdInv
<1> QED BY <1>1, <1>2, <1>3, TakeInv, PublishedInv, UnpublishedInv, MirrorInv
        DEF Feed!Next, Feed!Workers

LEMMA FeedStart == ASSUME Feed!Init PROVE Feed!FeedInv
<1>1. /\ recorded = [c \in Calls |-> "open"] /\ publisher = "up" /\ listens = "off" /\ process = "up"
      /\ queue = <<>> /\ taken = <<>> /\ wire = <<>> /\ console = <<>>
      /\ told = {} /\ sending = Feed!NoCall
      /\ dropped = 0 /\ failed = 0 /\ went = 0 /\ outages = 0
  BY DEF Feed!Init
<1>2. late \in BOOLEAN
  BY Zenon DEF Feed!Init
<1>3. IsFiniteSet(told) /\ Cardinality(told) = 0
  BY <1>1, FS_EmptySet
<1>4. Feed!TypeOK
  BY <1>1, <1>2, FeedConstants DEF Feed!TypeOK, Feed!Fates
<1>5. Feed!EventsAreCounted
  BY <1>1, <1>3 DEF Feed!EventsAreCounted, Feed!Cardinality, Cardinality
<1>6. Feed!TakenOnce
  BY <1>1, <1>3 DEF Feed!TakenOnce, Feed!IsFiniteSet, IsFiniteSet
<1> QED BY <1>1, <1>4, <1>5, <1>6 DEF Feed!FeedInv, Feed!FeedSound, Feed!ConsoleFollowsRows,
                                Feed!InOrder, Feed!SentNext, Feed!WireBehind, Feed!Left

\* Whatever the broker loses and whenever the process stops, the console shows stored calls
\* once and in the order they were told in, and no encoded event is lost uncounted; and a
\* frame of the live view draws every call being routed that it can know of and nothing that
\* began before the window (service/usage_event_publish.go, usage_event_consume.go,
\* repository/redis/usage_active_store.go).
THEOREM ViewHolds == Spec => []ViewSound
<1> DEFINE Inv == /\ part = "feed" => Feed!FeedInv
                  /\ part = "markers" => Markers!LiveInv
<1>1. Init => Inv
  BY FeedStart, MarkerStart DEF Init
<1>2. ASSUME Inv, [Next]_partsVars, part' = "feed" PROVE Feed!FeedInv'
  <2>1. CASE Next
    <3>1. part = "feed" /\ Feed!Next
      BY <1>2, <2>1 DEF Next
    <3> QED BY <1>2, <3>1, FeedStep
  <2>2. CASE UNCHANGED partsVars
    <3>1. /\ part = "feed"
          /\ UNCHANGED <<recorded, told, queue, sending, dropped, failed, taken, went, publisher,
                         late, listens, wire, console, process, outages>>
      BY <1>2, <2>2 DEF partsVars
    <3>2. Feed!TypeOK'
      BY <1>2, <3>1 DEF Feed!FeedInv, Feed!TypeOK
    <3> QED BY <1>2, <3>1, <3>2, FeedStays
  <2> QED BY <1>2, <2>1, <2>2
<1>3. ASSUME Inv, [Next]_partsVars, part' = "markers" PROVE Markers!LiveInv'
  <2>1. CASE Next
    <3>1. part = "markers" /\ Markers!Next
      BY <1>3, <2>1 DEF Next
    <3> QED BY <1>3, <3>1, MarkerStep
  <2>2. CASE UNCHANGED partsVars
    <3>1. /\ part = "markers"
          /\ UNCHANGED <<attempt, started, marked, stray, missed, drawn, shown, timeouts>>
      BY <1>3, <2>2 DEF partsVars
    <3> QED BY <1>3, <3>1 DEF Markers!LiveInv, Markers!TypeOK, Markers!LiveSound,
            Markers!NothingStaleShown, Markers!RunningIsShown, Markers!MarkersBegan,
            Markers!RunningIsMarked, Markers!Running
  <2> QED BY <1>3, <2>1, <2>2
<1>4. Inv /\ [Next]_partsVars => Inv'
  BY <1>2, <1>3
<1>5. Inv => ViewSound
  BY DEF ViewSound, Feed!FeedInv, Markers!LiveInv
<1> QED BY <1>1, <1>4, <1>5, PTL DEF Spec

---------------------------------------------------------------------------
(* Signing in to a vendor                                                  *)

LEMMA SignInConstants ==
  /\ IsFiniteSet(Rounds) /\ Cardinality(Rounds) \in Nat
  /\ MaxSignCalls \in Nat /\ MaxTouches \in Nat /\ MaxSignFaults \in Nat
  /\ SignIns!NoRound \notin Rounds /\ SignIns!NoRound \notin People
<1>1. SignIns!OAuthSignInAssumption
  BY PartsAssumption
<1>2. IsFiniteSet(Rounds)
  BY <1>1 DEF SignIns!OAuthSignInAssumption, SignIns!IsFiniteSet, IsFiniteSet
<1>3. Cardinality(Rounds) \in Nat
  BY <1>2, FS_CardinalityType
<1> QED BY <1>1, <1>2, <1>3 DEF SignIns!OAuthSignInAssumption

\* The parts of the invariant that a request's record enters, of one record.
Holds(x) == x.at \in {"exchange", "find", "load", "write", "create"}
SignInMay(t, x) ==
  /\ x \in SignIns!Tab
  /\ x.at # "idle" => x.round \in Rounds
  /\ Holds(x) =>
       /\ state'[x.round] = "gone" /\ landed[x.round] = 0
       /\ \A u \in Tabs : u # t /\ SignIns!Holding(u) => tab[u].round # x.round
  /\ x.at \in {"load", "write"} =>
       /\ flow[x.round].named
       /\ x.row \in Rounds /\ SignIns!Identity(x.row) = SignIns!Identity(x.round)
  /\ x.at = "create" /\ flow[x.round].named =>
       /\ x.label = flow[x.round].who
       /\ flow[x.round].who \notin torn =>
            \A a \in accounts : a.identity = flow[x.round].who => a.label = flow[x.round].who

\* The stage of a round and the vendor's word on it move forward.
Onward ==
  /\ state' \in [Rounds -> {"new", "staged", "gone"}]
  /\ grant' \in [Rounds -> {"none", "given", "spent"}]
  /\ \A r \in Rounds : state[r] = "gone" => state'[r] = "gone"
  /\ calls' \in 0..MaxSignCalls /\ touches' \in 0..MaxTouches /\ signFaults' \in 0..MaxSignFaults

LEMMA RoundMoves ==
  ASSUME SignIns!SignInInv, Onward, UNCHANGED <<flow, tab, accounts, landed, torn>>
  PROVE  SignIns!SignInInv'
<1>1. SignIns!TypeOK'
  BY DEF SignIns!SignInInv, SignIns!TypeOK, Onward
<1>2. SignIns!SignInSound'
  BY DEF SignIns!SignInInv, SignIns!SignInSound, SignIns!ConnectedOnce, SignIns!CredentialsStayHome
<1>3. SignIns!HeldOnce'
  BY DEF SignIns!SignInInv, SignIns!HeldOnce, SignIns!Holding, Onward
<1>4. SignIns!RowsOwned'
  BY DEF SignIns!SignInInv, SignIns!RowsOwned, SignIns!Identity
<1>5. SignIns!RowsFound'
  BY DEF SignIns!SignInInv, SignIns!RowsFound, SignIns!Identity
<1>6. SignIns!LandedAreGone'
  BY DEF SignIns!SignInInv, SignIns!LandedAreGone, Onward
<1>7. SignIns!LabelsHold'
  BY DEF SignIns!SignInInv, SignIns!LabelsHold
<1> QED BY <1>1, <1>2, <1>3, <1>4, <1>5, <1>6, <1>7 DEF SignIns!SignInInv

LEMMA TabMoves ==
  ASSUME SignIns!SignInInv, NEW t \in Tabs, NEW x, SignInMay(t, x), SignIns!Become(t, x), Onward,
         UNCHANGED <<flow, accounts, landed, torn>>
  PROVE  SignIns!SignInInv'
<1>0. /\ tab \in [Tabs -> SignIns!Tab] /\ x \in SignIns!Tab /\ tab' = [tab EXCEPT ![t] = x]
      /\ flow' = flow /\ accounts' = accounts /\ landed' = landed /\ torn' = torn
  BY DEF SignIns!SignInInv, SignIns!TypeOK, SignInMay, SignIns!Become
<1>1. tab'[t] = x /\ \A u \in Tabs \ {t} : tab'[u] = tab[u]
  BY <1>0
<1>2. SignIns!TypeOK'
  BY <1>0 DEF SignIns!SignInInv, SignIns!TypeOK, Onward
<1>3. SignIns!SignInSound'
  BY <1>0 DEF SignIns!SignInInv, SignIns!SignInSound, SignIns!ConnectedOnce, SignIns!CredentialsStayHome
<1>4. SignIns!HeldOnce'
  <2>1. SignIns!HeldOnce
    BY DEF SignIns!SignInInv
  <2>2. ASSUME NEW u \in Tabs PROVE tab'[u].at # "idle" => tab'[u].round \in Rounds
    BY <1>1, <2>1 DEF SignIns!HeldOnce, SignInMay
  <2>3. ASSUME NEW u \in Tabs, Holds(tab'[u])
        PROVE  state'[tab'[u].round] = "gone" /\ landed[tab'[u].round] = 0
    <3>1. CASE u = t
      BY <3>1, <1>1, <2>3 DEF SignInMay
    <3>2. CASE u # t
      <4>1. tab'[u] = tab[u] /\ SignIns!Holding(u)
        BY <3>2, <1>1, <2>3 DEF SignIns!Holding, Holds
      <4>2. tab[u].round \in Rounds /\ state[tab[u].round] = "gone" /\ landed[tab[u].round] = 0
        BY <4>1, <2>1 DEF SignIns!HeldOnce, SignIns!Holding
      <4> QED BY <4>1, <4>2 DEF Onward
    <3> QED BY <3>1, <3>2
  <2>4. ASSUME NEW u \in Tabs, NEW v \in Tabs, Holds(tab'[u]), Holds(tab'[v]),
               tab'[u].round = tab'[v].round
        PROVE  u = v
    <3>1. CASE u = t /\ v # t
      BY <3>1, <1>1, <2>4 DEF SignInMay, SignIns!Holding, Holds
    <3>2. CASE v = t /\ u # t
      BY <3>2, <1>1, <2>4 DEF SignInMay, SignIns!Holding, Holds
    <3>3. CASE u # t /\ v # t
      BY <3>3, <1>1, <2>1, <2>4 DEF SignIns!HeldOnce, SignIns!Holding, Holds
    <3> QED BY <3>1, <3>2, <3>3
  <2> QED BY <1>0, <2>2, <2>3, <2>4 DEF SignIns!HeldOnce, SignIns!Holding, Holds
<1>5. SignIns!RowsOwned'
  BY <1>0 DEF SignIns!SignInInv, SignIns!RowsOwned, SignIns!Identity
<1>6. SignIns!RowsFound'
  BY <1>0, <1>1 DEF SignIns!SignInInv, SignIns!RowsFound, SignIns!Identity, SignInMay
<1>7. SignIns!LandedAreGone'
  BY <1>0 DEF SignIns!SignInInv, SignIns!LandedAreGone, Onward
<1>8. SignIns!LabelsHold'
  BY <1>0, <1>1 DEF SignIns!SignInInv, SignIns!LabelsHold, SignInMay
<1> QED BY <1>2, <1>3, <1>4, <1>5, <1>6, <1>7, <1>8 DEF SignIns!SignInInv

LEMMA SignInIdle ==
  /\ SignIns!Idle \in SignIns!Tab /\ SignIns!Idle.at = "idle"
  /\ \A t \in Tabs : SignInMay(t, SignIns!Idle)
<1>1. SignIns!Idle \in SignIns!Tab /\ SignIns!Idle.at = "idle"
  BY DEF SignIns!Idle, SignIns!Tab, SignIns!Labels, SignIns!NoLabel
<1> QED BY <1>1 DEF SignInMay, Holds

LEMMA RoundStepInv ==
  ASSUME SignIns!SignInInv, NEW r \in Rounds,
         SignIns!Start(r) \/ SignIns!Approve(r) \/ SignIns!Expire(r)
  PROVE  SignIns!SignInInv'
<1>1. Onward
  BY DEF SignIns!Start, SignIns!Approve, SignIns!Expire, SignIns!Bounds, Onward,
         SignIns!SignInInv, SignIns!TypeOK
<1>2. UNCHANGED <<flow, tab, accounts, landed, torn>>
  BY DEF SignIns!Start, SignIns!Approve, SignIns!Expire, SignIns!Stored
<1> QED BY <1>1, <1>2, RoundMoves
LEMMA CallbackInv ==
  ASSUME SignIns!SignInInv, NEW t \in Tabs, NEW r \in Rounds, SignIns!Callback(t, r)
  PROVE  SignIns!SignInInv'
<1> DEFINE x == [SignIns!Idle EXCEPT !.at = "exchange", !.round = r]
<1>1. /\ SignIns!Become(t, x) /\ UNCHANGED <<flow, accounts, landed, torn>>
      /\ state[r] = "staged" /\ state' = [state EXCEPT ![r] = "gone"]
  BY DEF SignIns!Callback, SignIns!Begin, SignIns!Takes, SignIns!Stored
<1>2. Onward
  BY SignInConstants
  DEF SignIns!Callback, SignIns!Begin, Onward, SignIns!SignInInv, SignIns!TypeOK
<1>3. x \in SignIns!Tab /\ x.at = "exchange" /\ x.round = r
  BY DEF SignIns!Idle, SignIns!Tab, SignIns!Labels, SignIns!NoLabel
<1>4. state'[r] = "gone" /\ landed[r] = 0
  BY <1>1 DEF SignIns!SignInInv, SignIns!TypeOK, SignIns!LandedAreGone
<1>5. \A u \in Tabs : SignIns!Holding(u) => tab[u].round # r
  BY <1>1 DEF SignIns!SignInInv, SignIns!HeldOnce
<1> HIDE DEF x
<1>6. SignInMay(t, x)
  BY <1>3, <1>4, <1>5 DEF SignInMay, Holds
<1> QED BY <1>1, <1>2, <1>6, TabMoves

LEMMA PollInv ==
  ASSUME SignIns!SignInInv, NEW t \in Tabs, NEW r \in Rounds, SignIns!Poll(t, r)
  PROVE  SignIns!SignInInv'
<1> DEFINE x == [SignIns!Idle EXCEPT !.at = "ask", !.round = r]
<1>1. SignIns!Become(t, x) /\ UNCHANGED <<flow, accounts, landed, torn>>
  BY DEF SignIns!Poll, SignIns!Begin, SignIns!Stored
<1>2. Onward
  BY SignInConstants
  DEF SignIns!Poll, SignIns!Begin, Onward, SignIns!SignInInv, SignIns!TypeOK
<1>3. x \in SignIns!Tab /\ x.at = "ask" /\ x.round = r
  BY DEF SignIns!Idle, SignIns!Tab, SignIns!Labels, SignIns!NoLabel
<1> HIDE DEF x
<1>4. SignInMay(t, x)
  BY <1>3 DEF SignInMay, Holds
<1> QED BY <1>1, <1>2, <1>4, TabMoves

\* A request ends and nothing is written: so does every call that fails.
LEMMA TabEnds ==
  ASSUME SignIns!SignInInv, NEW t \in Tabs, SignIns!Become(t, SignIns!Idle), Onward,
         UNCHANGED <<flow, accounts, landed, torn>>
  PROVE  SignIns!SignInInv'
  BY SignInIdle, TabMoves

\* A request goes on with the round it holds, its account and label still to be found.
LEMMA TabHolds ==
  ASSUME SignIns!SignInInv, NEW t \in Tabs, SignIns!Holding(t), NEW x \in SignIns!Tab,
         x.round = tab[t].round, x.at # "idle", Onward,
         x.at \in {"load", "write"} =>
           /\ flow[x.round].named
           /\ x.row \in Rounds /\ SignIns!Identity(x.row) = SignIns!Identity(x.round),
         x.at = "create" /\ flow[x.round].named =>
           /\ x.label = flow[x.round].who
           /\ \A a \in accounts : a.identity # flow[x.round].who
  PROVE  SignInMay(t, x)
<1>1. /\ tab[t].at # "idle" /\ tab[t].round \in Rounds
      /\ state[tab[t].round] = "gone" /\ landed[tab[t].round] = 0
      /\ \A u \in Tabs : u # t /\ SignIns!Holding(u) => tab[u].round # tab[t].round
  BY DEF SignIns!SignInInv, SignIns!HeldOnce, SignIns!Holding
<1>2. state'[tab[t].round] = "gone"
  BY <1>1 DEF Onward
<1> QED BY <1>1, <1>2 DEF SignInMay

LEMMA ExchangeInv ==
  ASSUME SignIns!SignInInv, NEW t \in Tabs, SignIns!Exchange(t)
  PROVE  SignIns!SignInInv'
<1> DEFINE x == [tab[t] EXCEPT !.at = "find"]
<1>1. /\ UNCHANGED <<flow, accounts, landed, torn>> /\ tab[t].at = "exchange"
      /\ SignIns!Become(t, x) \/ SignIns!Become(t, SignIns!Idle)
  BY DEF SignIns!Exchange, SignIns!Stored
<1>2. Onward
  <2>1. /\ grant \in [Rounds -> {"none", "given", "spent"}]
        /\ state \in [Rounds -> {"new", "staged", "gone"}] /\ state' = state
        /\ calls \in 0..MaxSignCalls /\ calls' = calls /\ touches' = touches
        /\ touches \in 0..MaxTouches /\ signFaults \in 0..MaxSignFaults
    BY DEF SignIns!Exchange, SignIns!SignInInv, SignIns!TypeOK
  <2>2. /\ grant' \in {grant, [grant EXCEPT ![tab[t].round] = "spent"]}
        /\ signFaults' = signFaults \/ (signFaults < MaxSignFaults /\ signFaults' = signFaults + 1)
    BY DEF SignIns!Exchange
  <2> QED BY <2>1, <2>2, SignInConstants DEF Onward
<1>3. tab[t] \in SignIns!Tab
  BY DEF SignIns!SignInInv, SignIns!TypeOK
<1>4. x \in SignIns!Tab /\ x.at = "find" /\ x.round = tab[t].round
  BY <1>3 DEF SignIns!Tab
<1>5. SignIns!Holding(t)
  BY <1>1 DEF SignIns!Holding
<1> HIDE DEF x
<1>6. SignInMay(t, x)
  BY <1>2, <1>4, <1>5, TabHolds
<1> QED BY <1>1, <1>2, <1>6, TabMoves, TabEnds

LEMMA AskInv ==
  ASSUME SignIns!SignInInv, NEW t \in Tabs, SignIns!Ask(t)
  PROVE  SignIns!SignInInv'
<1> DEFINE x == [tab[t] EXCEPT !.at = "take"]
<1>1. /\ UNCHANGED <<flow, accounts, landed, torn>> /\ tab[t].at = "ask"
      /\ SignIns!Become(t, x) \/ SignIns!Become(t, SignIns!Idle)
  BY DEF SignIns!Ask, SignIns!Stored
<1>2. Onward
  BY DEF SignIns!Ask, SignIns!Bounds, Onward, SignIns!SignInInv, SignIns!TypeOK
<1>3. tab[t] \in SignIns!Tab /\ tab[t].round \in Rounds
  BY <1>1 DEF SignIns!SignInInv, SignIns!TypeOK, SignIns!HeldOnce
<1>4. x \in SignIns!Tab /\ x.at = "take" /\ x.round = tab[t].round
  BY <1>3 DEF SignIns!Tab
<1> HIDE DEF x
<1>5. SignInMay(t, x)
  BY <1>3, <1>4 DEF SignInMay, Holds
<1> QED BY <1>1, <1>2, <1>5, TabMoves, TabEnds

LEMMA TakeStateInv ==
  ASSUME SignIns!SignInInv, NEW t \in Tabs, SignIns!TakeState(t)
  PROVE  SignIns!SignInInv'
<1> DEFINE r == tab[t].round
           x == [tab[t] EXCEPT !.at = "find"]
<1>1. /\ UNCHANGED <<flow, accounts, landed, torn>> /\ tab[t].at = "take"
      /\ state' = [state EXCEPT ![r] = "gone"]
      /\ SignIns!Become(t, IF SignIns!Takes(r) THEN x ELSE SignIns!Idle)
  BY DEF SignIns!TakeState, SignIns!Stored
<1>2. Onward
  BY DEF SignIns!TakeState, SignIns!Bounds, Onward, SignIns!SignInInv, SignIns!TypeOK
<1>3. tab[t] \in SignIns!Tab /\ r \in Rounds
  BY <1>1 DEF SignIns!SignInInv, SignIns!TypeOK, SignIns!HeldOnce
<1>4. x \in SignIns!Tab /\ x.at = "find" /\ x.round = r
  BY <1>3 DEF SignIns!Tab
<1>5. ASSUME SignIns!Takes(r) PROVE SignInMay(t, x)
  <2>1. state[r] = "staged" /\ state'[r] = "gone"
    BY <1>1, <1>3, <1>5 DEF SignIns!Takes, SignIns!SignInInv, SignIns!TypeOK
  <2>2. landed[r] = 0
    BY <1>3, <2>1 DEF SignIns!SignInInv, SignIns!TypeOK, SignIns!LandedAreGone
  <2>3. \A u \in Tabs : SignIns!Holding(u) => tab[u].round # r
    BY <2>1 DEF SignIns!SignInInv, SignIns!HeldOnce
  <2> HIDE DEF x
  <2> QED BY <1>3, <1>4, <2>1, <2>2, <2>3 DEF SignInMay, Holds
<1> HIDE DEF x
<1>6. CASE SignIns!Takes(r)
  BY <1>1, <1>2, <1>5, <1>6, TabMoves
<1>7. CASE ~SignIns!Takes(r)
  BY <1>1, <1>2, <1>7, TabEnds
<1> QED BY <1>6, <1>7

LEMMA SignInFailInv ==
  ASSUME SignIns!SignInInv, NEW t \in Tabs, SignIns!Fail(t)
  PROVE  SignIns!SignInInv'
<1>1. UNCHANGED <<flow, accounts, landed, torn>> /\ SignIns!Become(t, SignIns!Idle)
  BY DEF SignIns!Fail, SignIns!Stored
<1>2. Onward
  BY SignInConstants DEF SignIns!Fail, Onward, SignIns!SignInInv, SignIns!TypeOK
<1> QED BY <1>1, <1>2, TabEnds

LEMMA LoadRowInv ==
  ASSUME SignIns!SignInInv, NEW t \in Tabs, SignIns!LoadRow(t)
  PROVE  SignIns!SignInInv'
<1>1. /\ UNCHANGED <<flow, accounts, landed, torn>> /\ tab[t].at = "load"
  BY DEF SignIns!LoadRow, SignIns!Stored
<1>2. Onward
  BY DEF SignIns!LoadRow, SignIns!Bounds, Onward, SignIns!SignInInv, SignIns!TypeOK
<1>3. CASE SignIns!Rows(tab[t].row) = {}
  BY <1>1, <1>2, <1>3, TabEnds DEF SignIns!LoadRow
<1>4. CASE SignIns!Rows(tab[t].row) # {}
  <2> DEFINE a == CHOOSE a \in SignIns!Rows(tab[t].row) : TRUE
             x == [tab[t] EXCEPT !.at = "write", !.loaded = a.credential]
  <2>1. a \in accounts
    BY <1>4 DEF SignIns!Rows
  <2>2. a.credential \in SignIns!Credentials
    BY <2>1 DEF SignIns!SignInInv, SignIns!TypeOK, SignIns!Account
  <2>3. SignIns!Become(t, x)
    BY <1>4 DEF SignIns!LoadRow
  <2> HIDE DEF a
  <2>4. tab[t] \in SignIns!Tab
    BY DEF SignIns!SignInInv, SignIns!TypeOK
  <2>5. x \in SignIns!Tab /\ x.at = "write" /\ x.round = tab[t].round /\ x.row = tab[t].row
    BY <2>2, <2>4 DEF SignIns!Tab
  <2>6. /\ SignIns!Holding(t) /\ flow[tab[t].round].named /\ tab[t].row \in Rounds
        /\ SignIns!Identity(tab[t].row) = SignIns!Identity(tab[t].round)
    BY <1>1 DEF SignIns!Holding, SignIns!SignInInv, SignIns!RowsFound
  <2> HIDE DEF x
  <2>7. SignInMay(t, x)
    BY <1>2, <2>5, <2>6, TabHolds
  <2> QED BY <1>1, <1>2, <2>3, <2>7, TabMoves
<1> QED BY <1>3, <1>4

\* A set of numbers that is not empty has a least one (the well-foundedness of <).
LEMMA LeastExists ==
  ASSUME NEW S, S \subseteq Nat, S # {}
  PROVE  \E n \in S : \A m \in S : n <= m
<1>1. \E n \in S : \A m \in S : <<m, n>> \notin OpToRel(<, Nat)
  BY NatLessThanWellFounded, WFMin
<1>2. PICK n \in S : \A m \in S : <<m, n>> \notin OpToRel(<, Nat)
  BY <1>1
<1>3. \A m \in S : ~ (m < n)
  BY <1>2 DEF OpToRel
<1> QED BY <1>3

\* One number more than there are rounds: rows have ids of their own and labels of their
\* own, so some number is no row's label, and there is a first one.
LEMMA LabelIsFree ==
  ASSUME SignIns!SignInInv
  PROVE  SignIns!FreeLabel \in SignIns!Numbered
<1> DEFINE N == SignIns!Numbered
           free == {n \in N : \A a \in accounts : a.label # n}
<1>1. N = 1..(Cardinality(Rounds) + 1)
  BY DEF SignIns!Numbered, SignIns!Cardinality, Cardinality
<1>2. IsFiniteSet(N) /\ Cardinality(N) = Cardinality(Rounds) + 1 /\ N \subseteq Nat
  BY <1>1, SignInConstants, FS_Interval
<1> HIDE DEF N
<1>3. free # {}
  <2> SUFFICES ASSUME free = {} PROVE FALSE
    OBVIOUS
  <2> DEFINE rowOf == [n \in N |-> CHOOSE a \in accounts : a.label = n]
             f == [n \in N |-> rowOf[n].id]
  <2>1. ASSUME NEW n \in N PROVE rowOf[n] \in accounts /\ rowOf[n].label = n
    <3>1. \E a \in accounts : a.label = n
      OBVIOUS
    <3> QED BY <3>1
  <2>2. accounts \subseteq SignIns!Account /\ \A a, b \in accounts : a # b => a.id # b.id
    BY DEF SignIns!SignInInv, SignIns!TypeOK, SignIns!SignInSound, SignIns!CredentialsStayHome
  <2> HIDE DEF rowOf
  <2>3. f \in [N -> Rounds]
    BY <2>1, <2>2 DEF SignIns!Account
  <2>4. \E m, n \in N : m # n /\ f[m] = f[n]
    <3>1. Cardinality(Rounds) < Cardinality(N)
      BY <1>2, SignInConstants
    <3>2. IsFiniteSet(N) /\ IsFiniteSet(Rounds)
      BY <1>2, SignInConstants
    <3> HIDE DEF f, free
    <3> QED BY <2>3, <3>1, <3>2, FS_PigeonHole, Zenon
  <2>5. PICK m \in N, n \in N : m # n /\ f[m] = f[n]
    BY <2>4
  <2>6. rowOf[m].id = rowOf[n].id
    BY <2>5
  <2>7. rowOf[m] # rowOf[n]
    BY <2>1, <2>5
  <2> QED BY <2>1, <2>2, <2>6, <2>7
<1>4. PICK n \in free : \A m \in free : n <= m
  BY <1>2, <1>3, LeastExists
<1>5. /\ n \in N /\ \A a \in accounts : a.label # n
      /\ \A m \in N : m < n => \E a \in accounts : a.label = m
  <2>1. \A m \in N : m < n => m \notin free
    BY <1>2, <1>4
  <2> QED BY <2>1
<1> HIDE DEF free
<1> QED BY <1>5 DEF SignIns!FreeLabel, N

LEMMA FindInv ==
  ASSUME SignIns!SignInInv, NEW t \in Tabs, SignIns!Find(t)
  PROVE  SignIns!SignInInv'
<1> DEFINE r == tab[t].round
           label == IF flow[r].named THEN flow[r].who ELSE SignIns!FreeLabel
           known == {a \in accounts : SignIns!Matches(a, r)}
           found(a) == [tab[t] EXCEPT !.at = "load", !.row = a.id]
           unknown == [tab[t] EXCEPT !.at = "create", !.label = label]
<1>1. UNCHANGED <<flow, accounts, landed, torn>> /\ tab[t].at = "find"
  BY DEF SignIns!Find, SignIns!Stored
<1>2. Onward
  BY DEF SignIns!Find, SignIns!Bounds, Onward, SignIns!SignInInv, SignIns!TypeOK
<1>3. tab[t] \in SignIns!Tab /\ r \in Rounds /\ SignIns!Holding(t)
  BY <1>1 DEF SignIns!SignInInv, SignIns!TypeOK, SignIns!HeldOnce, SignIns!Holding
<1>4. /\ flow \in [Rounds -> [kind : {"code", "device"}, who : People, named : BOOLEAN]]
      /\ accounts \subseteq SignIns!Account
  BY DEF SignIns!SignInInv, SignIns!TypeOK
<1>5. ASSUME NEW a \in known, SignIns!Become(t, found(a)) PROVE SignIns!SignInInv'
  <2>1. a \in accounts /\ a.id \in Rounds /\ flow[r].named /\ a.identity = SignIns!Identity(r)
    BY <1>4 DEF SignIns!Matches, SignIns!Account
  <2>2. SignIns!Identity(a.id) = SignIns!Identity(r)
    BY <2>1 DEF SignIns!SignInInv, SignIns!RowsOwned
  <2>3. found(a) \in SignIns!Tab /\ found(a).at = "load" /\ found(a).round = r /\ found(a).row = a.id
    BY <1>3, <2>1 DEF SignIns!Tab
  <2> HIDE DEF found
  <2>4. SignInMay(t, found(a))
    BY <1>2, <1>3, <2>1, <2>2, <2>3, TabHolds
  <2> QED BY <1>1, <1>2, <1>5, <2>4, TabMoves
<1>6. ASSUME known = {}, SignIns!Become(t, unknown) PROVE SignIns!SignInInv'
  <2>1. label \in SignIns!Labels
    BY <1>3, <1>4, LabelIsFree DEF SignIns!Labels
  <2>2. flow[r].named => label = flow[r].who /\ \A a \in accounts : a.identity # flow[r].who
    BY <1>6 DEF SignIns!Matches, SignIns!Identity
  <2> HIDE DEF label
  <2>3. /\ unknown \in SignIns!Tab /\ unknown.at = "create" /\ unknown.round = r
        /\ unknown.label = label
    BY <1>3, <2>1 DEF SignIns!Tab
  <2> HIDE DEF unknown
  <2>4. SignInMay(t, unknown)
    BY <1>2, <1>3, <2>2, <2>3, TabHolds
  <2> QED BY <1>1, <1>2, <1>6, <2>4, TabMoves
<1> QED BY <1>5, <1>6 DEF SignIns!Find

\* A row gives way to one of the same account, its label kept or one that nobody has.
Replaces(a, b) ==
  /\ a \in accounts /\ b \in SignIns!Account
  /\ b.id = a.id /\ b.owner = a.owner /\ b.identity = a.identity
  /\ flow[b.credential[1]].who = b.owner
  /\ b.label = a.label \/ \A other \in accounts : other.label # b.label
  /\ accounts' = (accounts \ {a}) \union {b}

LEMMA RowReplaced ==
  ASSUME SignIns!SignInInv, NEW a, NEW b, Replaces(a, b), flow' = flow, torn \subseteq torn',
         \A r \in Rounds : landed[r] > 0 => landed'[r] > 0
  PROVE  accounts' \subseteq SignIns!Account /\ SignIns!CredentialsStayHome' /\ SignIns!RowsOwned'
<1>1. /\ accounts \subseteq SignIns!Account /\ a \in accounts /\ b \in SignIns!Account
      /\ b.id = a.id /\ b.owner = a.owner /\ b.identity = a.identity
      /\ accounts' = (accounts \ {a}) \union {b}
  BY DEF SignIns!SignInInv, SignIns!TypeOK, Replaces
<1>2. SignIns!CredentialsStayHome
  BY DEF SignIns!SignInInv, SignIns!SignInSound
<1>3. \A c \in accounts' : flow[c.credential[1]].who = c.owner
  BY <1>1, <1>2 DEF SignIns!CredentialsStayHome, Replaces
<1>4. ASSUME NEW c \in accounts', NEW d \in accounts', c # d PROVE c.label # d.label /\ c.id # d.id
  <2>1. CASE c = b
    BY <1>1, <1>2, <1>4, <2>1 DEF SignIns!CredentialsStayHome, Replaces
  <2>2. CASE d = b
    BY <1>1, <1>2, <1>4, <2>2 DEF SignIns!CredentialsStayHome, Replaces
  <2>3. CASE c # b /\ d # b
    BY <1>1, <1>2, <1>4, <2>3 DEF SignIns!CredentialsStayHome
  <2> QED BY <2>1, <2>2, <2>3
<1>5. ASSUME NEW c \in accounts', NEW d \in accounts', c # d, c.identity # SignIns!NoRound,
             c.identity = d.identity
      PROVE  c.identity \in torn'
  <2>1. CASE c = b
    BY <1>1, <1>2, <1>5, <2>1 DEF SignIns!CredentialsStayHome
  <2>2. CASE d = b
    BY <1>1, <1>2, <1>5, <2>2 DEF SignIns!CredentialsStayHome
  <2>3. CASE c # b /\ d # b
    BY <1>1, <1>2, <1>5, <2>3 DEF SignIns!CredentialsStayHome
  <2> QED BY <2>1, <2>2, <2>3
<1>6. SignIns!CredentialsStayHome'
  BY <1>3, <1>4, <1>5 DEF SignIns!CredentialsStayHome
<1>7. SignIns!RowsOwned'
  <2>1. SignIns!RowsOwned
    BY DEF SignIns!SignInInv
  <2>2. \A c \in accounts : landed'[c.id] > 0
    BY <1>1, <2>1 DEF SignIns!RowsOwned, SignIns!Account
  <2> QED BY <1>1, <2>1, <2>2 DEF SignIns!RowsOwned, SignIns!Identity
<1> QED BY <1>1, <1>6, <1>7

\* The worker or an operator touched an account: no sign-in moved.
LEMMA Touched ==
  ASSUME SignIns!SignInInv, SignIns!Touch, torn \subseteq torn', torn' \subseteq People,
         accounts' \subseteq SignIns!Account, SignIns!CredentialsStayHome', SignIns!RowsOwned',
         SignIns!LabelsHold'
  PROVE  SignIns!SignInInv'
<1>1. /\ UNCHANGED <<flow, state, grant, tab, landed, calls, signFaults>>
      /\ touches < MaxTouches /\ touches' = touches + 1
  BY DEF SignIns!Touch
<1>2. SignIns!TypeOK'
  BY <1>1, SignInConstants DEF SignIns!SignInInv, SignIns!TypeOK
<1>3. SignIns!SignInSound'
  BY <1>1 DEF SignIns!SignInInv, SignIns!SignInSound, SignIns!ConnectedOnce
<1>4. SignIns!HeldOnce'
  BY <1>1 DEF SignIns!SignInInv, SignIns!HeldOnce, SignIns!Holding
<1>5. SignIns!RowsFound'
  BY <1>1 DEF SignIns!SignInInv, SignIns!RowsFound, SignIns!Identity
<1>6. SignIns!LandedAreGone'
  BY <1>1 DEF SignIns!SignInInv, SignIns!LandedAreGone
<1> QED BY <1>2, <1>3, <1>4, <1>5, <1>6 DEF SignIns!SignInInv

LEMMA RefreshInv ==
  ASSUME SignIns!SignInInv, NEW a \in accounts, SignIns!Refresh(a)
  PROVE  SignIns!SignInInv'
<1> DEFINE b == [a EXCEPT !.credential = <<a.credential[1], a.credential[2] + 1>>]
<1>1. /\ SignIns!Touch /\ torn' = torn /\ accounts' = (accounts \ {a}) \union {b}
      /\ flow' = flow /\ tab' = tab /\ landed' = landed
  BY DEF SignIns!Refresh, SignIns!Touch
<1>2. a \in SignIns!Account /\ torn \subseteq People
  BY DEF SignIns!SignInInv, SignIns!TypeOK
<1>3. /\ b \in SignIns!Account /\ b.id = a.id /\ b.owner = a.owner /\ b.identity = a.identity
      /\ b.label = a.label /\ b.credential[1] = a.credential[1]
  BY <1>2 DEF SignIns!Account, SignIns!Credentials
<1>4. flow[a.credential[1]].who = a.owner
  BY DEF SignIns!SignInInv, SignIns!SignInSound, SignIns!CredentialsStayHome
<1> HIDE DEF b
<1>5. Replaces(a, b)
  BY <1>1, <1>3, <1>4 DEF Replaces
<1>6. SignIns!LabelsHold'
  BY <1>1, <1>3 DEF SignIns!SignInInv, SignIns!LabelsHold
<1> QED BY <1>1, <1>2, <1>5, <1>6, RowReplaced, Touched

LEMMA DeleteInv ==
  ASSUME SignIns!SignInInv, NEW a \in accounts, SignIns!Delete(a)
  PROVE  SignIns!SignInInv'
<1>1. /\ SignIns!Touch /\ torn' = torn /\ accounts' = accounts \ {a}
      /\ flow' = flow /\ tab' = tab /\ landed' = landed
  BY DEF SignIns!Delete, SignIns!Touch
<1>2. accounts' \subseteq SignIns!Account /\ torn \subseteq People
  BY <1>1 DEF SignIns!SignInInv, SignIns!TypeOK
<1>3. SignIns!CredentialsStayHome'
  BY <1>1 DEF SignIns!SignInInv, SignIns!SignInSound, SignIns!CredentialsStayHome
<1>4. SignIns!RowsOwned'
  BY <1>1 DEF SignIns!SignInInv, SignIns!RowsOwned, SignIns!Identity
<1>5. SignIns!LabelsHold'
  BY <1>1 DEF SignIns!SignInInv, SignIns!LabelsHold
<1> QED BY <1>1, <1>2, <1>3, <1>4, <1>5, Touched

\* A rename that a pending insert does not see makes its person one who may be split.
LEMMA RenameInv ==
  ASSUME SignIns!SignInInv, NEW a \in accounts, SignIns!Rename(a)
  PROVE  SignIns!SignInInv'
<1>1. PICK label \in SignIns!Numbered \union People :
        /\ \A other \in accounts : other.label # label
        /\ accounts' = (accounts \ {a}) \union {[a EXCEPT !.label = label]}
  BY DEF SignIns!Rename
<1> DEFINE b == [a EXCEPT !.label = label]
<1>2. /\ SignIns!Touch /\ flow' = flow /\ tab' = tab /\ landed' = landed
      /\ torn' = torn \union IF SignIns!Inserting(a.identity) THEN {a.identity} ELSE {}
  BY DEF SignIns!Rename, SignIns!Touch
<1>3. a \in SignIns!Account /\ torn \subseteq People
  BY DEF SignIns!SignInInv, SignIns!TypeOK
<1>4. /\ b \in SignIns!Account /\ b.id = a.id /\ b.owner = a.owner /\ b.identity = a.identity
      /\ b.label = label /\ b.credential = a.credential
  BY <1>3 DEF SignIns!Account, SignIns!Labels
<1>5. flow[a.credential[1]].who = a.owner
  BY DEF SignIns!SignInInv, SignIns!SignInSound, SignIns!CredentialsStayHome
<1>6. accounts' = (accounts \ {a}) \union {b}
  BY <1>1
<1> HIDE DEF b
<1>7. Replaces(a, b)
  BY <1>1, <1>4, <1>5, <1>6 DEF Replaces
<1>8. torn \subseteq torn' /\ torn' \subseteq People
  BY <1>2, <1>3 DEF SignIns!Inserting, SignIns!Account
<1>9. SignIns!LabelsHold'
  <2>1. SignIns!LabelsHold
    BY DEF SignIns!SignInInv
  <2>2. ASSUME NEW u \in Tabs, tab[u].at = "create", flow[tab[u].round].named,
               flow[tab[u].round].who \notin torn', NEW c \in accounts',
               c.identity = flow[tab[u].round].who
        PROVE  c.label = flow[tab[u].round].who
    <3>1. CASE c = b
      <4>1. SignIns!Identity(tab[u].round) = a.identity
        BY <1>4, <2>2, <3>1 DEF SignIns!Identity
      <4>2. a.identity # SignIns!NoRound
        <5>1. tab[u].round \in Rounds
          BY <2>2 DEF SignIns!SignInInv, SignIns!HeldOnce
        <5>2. flow[tab[u].round].who \in People
          BY <5>1 DEF SignIns!SignInInv, SignIns!TypeOK
        <5> QED BY <1>4, <2>2, <3>1, <5>2, SignInConstants
      <4>3. SignIns!Inserting(a.identity)
        BY <2>2, <4>1, <4>2 DEF SignIns!Inserting
      <4> QED BY <1>2, <1>4, <2>2, <3>1, <4>3
    <3>2. CASE c # b
      BY <1>6, <1>8, <2>1, <2>2, <3>2 DEF SignIns!LabelsHold
    <3> QED BY <3>1, <3>2
  <2> QED BY <1>2, <2>1, <2>2 DEF SignIns!LabelsHold
<1> QED BY <1>2, <1>7, <1>8, <1>9, RowReplaced, Touched

\* A request that writes its round's tokens lands it, and ends.
Lands(t) ==
  /\ SignIns!Holding(t) /\ SignIns!Become(t, SignIns!Idle)
  /\ landed' = [landed EXCEPT ![tab[t].round] = @ + 1]
  /\ UNCHANGED <<flow, state, grant, torn, calls, touches, signFaults>>

LEMMA LandsOnce ==
  ASSUME SignIns!SignInInv, NEW t \in Tabs, Lands(t)
  PROVE  /\ tab[t].round \in Rounds /\ landed[tab[t].round] = 0 /\ landed'[tab[t].round] = 1
         /\ \A r \in Rounds : landed[r] > 0 => landed'[r] > 0
<1>1. tab[t].round \in Rounds /\ landed[tab[t].round] = 0
  BY DEF Lands, SignIns!SignInInv, SignIns!HeldOnce, SignIns!Holding
<1>2. landed \in [Rounds -> Nat]
  BY DEF SignIns!SignInInv, SignIns!TypeOK
<1> QED BY <1>1, <1>2 DEF Lands

LEMMA LandedInv ==
  ASSUME SignIns!SignInInv, NEW t \in Tabs, Lands(t),
         accounts' \subseteq SignIns!Account, SignIns!CredentialsStayHome', SignIns!RowsOwned',
         SignIns!LabelsHold'
  PROVE  SignIns!SignInInv'
<1> DEFINE r == tab[t].round
<1>1. /\ r \in Rounds /\ landed[r] = 0 /\ state[r] = "gone"
      /\ landed \in [Rounds -> Nat] /\ landed' = [landed EXCEPT ![r] = @ + 1]
      /\ \A u \in Tabs : u # t /\ SignIns!Holding(u) => tab[u].round # r
  BY LandsOnce DEF Lands, SignIns!SignInInv, SignIns!TypeOK, SignIns!HeldOnce
<1>2. /\ tab \in [Tabs -> SignIns!Tab] /\ tab' = [tab EXCEPT ![t] = SignIns!Idle]
      /\ UNCHANGED <<flow, state, grant, torn, calls, touches, signFaults>>
  BY DEF SignIns!SignInInv, SignIns!TypeOK, Lands, SignIns!Become
<1>3. tab'[t] = SignIns!Idle /\ \A u \in Tabs \ {t} : tab'[u] = tab[u]
  BY <1>2
<1>4. landed'[r] = 1 /\ \A q \in Rounds \ {r} : landed'[q] = landed[q]
  BY <1>1
<1>5. SignIns!TypeOK'
  BY <1>1, <1>2, SignInIdle DEF SignIns!SignInInv, SignIns!TypeOK
<1>6. SignIns!SignInSound'
  BY <1>1, <1>4 DEF SignIns!SignInInv, SignIns!SignInSound, SignIns!ConnectedOnce
<1>7. SignIns!HeldOnce'
  <2>1. SignIns!HeldOnce
    BY DEF SignIns!SignInInv
  <2>2. ASSUME NEW u \in Tabs PROVE tab'[u].at # "idle" => tab'[u].round \in Rounds
    BY <1>3, <2>1, SignInIdle DEF SignIns!HeldOnce
  <2>3. ASSUME NEW u \in Tabs, Holds(tab'[u])
        PROVE  /\ u # t /\ tab'[u] = tab[u] /\ SignIns!Holding(u)
               /\ state'[tab'[u].round] = "gone" /\ landed'[tab'[u].round] = 0
    <3>1. u # t
      BY <1>3, <2>3, SignInIdle DEF Holds
    <3>2. tab'[u] = tab[u] /\ SignIns!Holding(u)
      BY <1>3, <2>3, <3>1 DEF SignIns!Holding, Holds
    <3>3. tab[u].round \in Rounds /\ state[tab[u].round] = "gone" /\ landed[tab[u].round] = 0
      BY <2>1, <3>2 DEF SignIns!HeldOnce, SignIns!Holding
    <3>4. tab[u].round # r
      BY <1>1, <3>1, <3>2
    <3> QED BY <1>2, <1>4, <3>1, <3>2, <3>3, <3>4
  <2>4. ASSUME NEW u \in Tabs, NEW v \in Tabs, Holds(tab'[u]), Holds(tab'[v]),
               tab'[u].round = tab'[v].round
        PROVE  u = v
    BY <2>1, <2>3, <2>4 DEF SignIns!HeldOnce
  <2> QED BY <2>2, <2>3, <2>4 DEF SignIns!HeldOnce, SignIns!Holding, Holds
<1>8. SignIns!RowsFound'
  BY <1>2, <1>3, SignInIdle DEF SignIns!SignInInv, SignIns!RowsFound, SignIns!Identity
<1>9. SignIns!LandedAreGone'
  BY <1>1, <1>2, <1>4 DEF SignIns!SignInInv, SignIns!LandedAreGone
<1> QED BY <1>5, <1>6, <1>7, <1>8, <1>9 DEF SignIns!SignInInv

\* Two rounds that state the same identity are the same person's.
LEMMA SameIdentity ==
  ASSUME SignIns!SignInInv, NEW q \in Rounds, NEW r \in Rounds, flow[r].named,
         SignIns!Identity(q) = SignIns!Identity(r)
  PROVE  flow[q].named /\ flow[q].who = flow[r].who
<1>1. flow[r].who \in People
  BY DEF SignIns!SignInInv, SignIns!TypeOK
<1> QED BY <1>1, SignInConstants DEF SignIns!Identity

LEMMA SignInUpdateInv ==
  ASSUME SignIns!SignInInv, NEW t \in Tabs, SignIns!Update(t)
  PROVE  SignIns!SignInInv'
<1> DEFINE r == tab[t].round
<1>1. /\ tab[t].at = "write" /\ SignIns!Become(t, SignIns!Idle)
      /\ UNCHANGED <<flow, state, grant, torn, calls, touches, signFaults>>
  BY DEF SignIns!Update, SignIns!Bounds
<1>2. CASE UNCHANGED <<accounts, landed>>
  <2>1. Onward
    BY <1>1 DEF Onward, SignIns!SignInInv, SignIns!TypeOK
  <2> QED BY <1>1, <1>2, <2>1, TabEnds
<1>3. CASE \E a \in SignIns!Rows(tab[t].row) :
             /\ accounts' = (accounts \ {a}) \union {[a EXCEPT !.credential = <<r, 0>>]}
             /\ landed' = [landed EXCEPT ![r] = @ + 1]
  <2>1. PICK a \in SignIns!Rows(tab[t].row) :
             /\ accounts' = (accounts \ {a}) \union {[a EXCEPT !.credential = <<r, 0>>]}
             /\ landed' = [landed EXCEPT ![r] = @ + 1]
    BY <1>3
  <2> DEFINE b == [a EXCEPT !.credential = <<r, 0>>]
  <2>2. a \in accounts /\ a.id = tab[t].row
    BY DEF SignIns!Rows
  <2>3. Lands(t)
    BY <1>1, <2>1 DEF Lands, SignIns!Holding
  <2>4. /\ a \in SignIns!Account /\ r \in Rounds /\ tab \in [Tabs -> SignIns!Tab]
        /\ \A q \in Rounds : landed[q] > 0 => landed'[q] > 0
    BY <2>2, <2>3, LandsOnce DEF SignIns!SignInInv, SignIns!TypeOK
  <2>5. /\ b \in SignIns!Account /\ b.id = a.id /\ b.owner = a.owner /\ b.identity = a.identity
        /\ b.label = a.label /\ b.credential[1] = r
    BY <2>4 DEF SignIns!Account, SignIns!Credentials
  <2>6. accounts' = (accounts \ {a}) \union {b}
    BY <2>1
  <2> HIDE DEF b
  <2>7. flow[r].who = a.owner
    <3>1. flow[r].named /\ a.id \in Rounds /\ SignIns!Identity(a.id) = SignIns!Identity(r)
      BY <1>1, <2>2 DEF SignIns!SignInInv, SignIns!RowsFound
    <3>2. flow[a.id].who = flow[r].who
      BY <2>4, <3>1, SameIdentity
    <3> QED BY <2>2, <3>2 DEF SignIns!SignInInv, SignIns!RowsOwned
  <2>8. Replaces(a, b)
    BY <2>2, <2>5, <2>6, <2>7 DEF Replaces
  <2>9. accounts' \subseteq SignIns!Account /\ SignIns!CredentialsStayHome' /\ SignIns!RowsOwned'
    BY <1>1, <2>4, <2>8, RowReplaced
  <2>10. SignIns!LabelsHold'
    <3>1. tab' = [tab EXCEPT ![t] = SignIns!Idle]
      BY <1>1 DEF SignIns!Become
    <3>2. \A u \in Tabs : tab'[u].at = "create" => tab'[u] = tab[u]
      BY <2>4, <3>1, SignInIdle
    <3>3. \A c \in accounts' : \E d \in accounts : d.identity = c.identity /\ d.label = c.label
      BY <2>2, <2>5, <2>6
    <3> QED BY <1>1, <3>2, <3>3 DEF SignIns!SignInInv, SignIns!LabelsHold
  <2> QED BY <2>3, <2>9, <2>10, LandedInv
<1> QED BY <1>2, <1>3 DEF SignIns!Update

\* The label is the guard: whoever has an account under their identity has it under their
\* label, or was renamed meanwhile.
LEMMA SignInCreateInv ==
  ASSUME SignIns!SignInInv, NEW t \in Tabs, SignIns!Create(t)
  PROVE  SignIns!SignInInv'
<1> DEFINE r == tab[t].round
           new == [id |-> r, owner |-> flow[r].who, identity |-> SignIns!Identity(r),
                   label |-> tab[t].label, credential |-> <<r, 0>>]
<1>1. /\ tab[t].at = "create" /\ SignIns!Become(t, SignIns!Idle)
      /\ UNCHANGED <<flow, state, grant, torn, calls, touches, signFaults>>
  BY DEF SignIns!Create, SignIns!Bounds
<1>2. CASE UNCHANGED <<accounts, landed>>
  <2>1. Onward
    BY <1>1 DEF Onward, SignIns!SignInInv, SignIns!TypeOK
  <2> QED BY <1>1, <1>2, <2>1, TabEnds
<1>3. CASE /\ \A a \in accounts : a.label # tab[t].label
           /\ accounts' = accounts \union {new} /\ landed' = [landed EXCEPT ![r] = @ + 1]
  <2>1. Lands(t)
    BY <1>1, <1>3 DEF Lands, SignIns!Holding
  <2>2. /\ r \in Rounds /\ landed[r] = 0 /\ landed'[r] = 1
        /\ \A q \in Rounds : landed[q] > 0 => landed'[q] > 0
    BY <2>1, LandsOnce
  <2>3. /\ accounts \subseteq SignIns!Account /\ tab \in [Tabs -> SignIns!Tab]
        /\ flow[r].who \in People /\ flow[r].named \in BOOLEAN
    BY <2>2 DEF SignIns!SignInInv, SignIns!TypeOK
  <2>4. SignIns!Identity(r) \in People \union {SignIns!NoRound}
    BY <2>3 DEF SignIns!Identity
  <2>5. /\ new.id = r /\ new.owner = flow[r].who /\ new.identity = SignIns!Identity(r)
        /\ new.label = tab[t].label /\ new.credential[1] = r
    OBVIOUS
  <2>6. new \in SignIns!Account
    BY <2>2, <2>3, <2>4 DEF SignIns!Account, SignIns!Credentials, SignIns!Tab
  <2> HIDE DEF new
  <2>7. \A a \in accounts : a.id # r
    BY <2>2 DEF SignIns!SignInInv, SignIns!RowsOwned
  <2>8. ASSUME NEW a \in accounts, a.identity = new.identity, new.identity # SignIns!NoRound
        PROVE  a.identity \in torn
    <3>1. flow[r].named /\ a.identity = flow[r].who
      BY <2>5, <2>8 DEF SignIns!Identity
    <3>2. tab[t].label = flow[r].who /\ (flow[r].who \notin torn => a.label = flow[r].who)
      BY <1>1, <3>1 DEF SignIns!SignInInv, SignIns!LabelsHold
    <3> QED BY <1>3, <3>1, <3>2
  <2>9. SignIns!CredentialsStayHome'
    <3>1. SignIns!CredentialsStayHome
      BY DEF SignIns!SignInInv, SignIns!SignInSound
    <3>2. \A a \in accounts' : flow[a.credential[1]].who = a.owner
      BY <1>3, <2>5, <3>1 DEF SignIns!CredentialsStayHome
    <3>3. \A a, b \in accounts' : a # b => a.label # b.label /\ a.id # b.id
      BY <1>3, <2>5, <2>7, <3>1 DEF SignIns!CredentialsStayHome
    <3>4. \A a, b \in accounts' :
            a # b /\ a.identity # SignIns!NoRound /\ a.identity = b.identity => a.identity \in torn
      BY <1>3, <2>8, <3>1 DEF SignIns!CredentialsStayHome
    <3> QED BY <1>1, <3>2, <3>3, <3>4 DEF SignIns!CredentialsStayHome
  <2>10. SignIns!RowsOwned'
    <3>1. SignIns!RowsOwned
      BY DEF SignIns!SignInInv
    <3>2. \A a \in accounts : landed'[a.id] > 0
      BY <2>2, <2>3, <3>1 DEF SignIns!RowsOwned, SignIns!Account
    <3> QED BY <1>1, <1>3, <2>2, <2>5, <3>1, <3>2 DEF SignIns!RowsOwned, SignIns!Identity
  <2>11. SignIns!LabelsHold'
    <3>1. tab' = [tab EXCEPT ![t] = SignIns!Idle]
      BY <1>1 DEF SignIns!Become
    <3>2. \A u \in Tabs : tab'[u].at = "create" => tab'[u] = tab[u]
      BY <2>3, <3>1, SignInIdle
    <3>3. ASSUME NEW u \in Tabs, tab[u].at = "create", flow[tab[u].round].named,
                 new.identity = flow[tab[u].round].who
          PROVE  new.label = flow[tab[u].round].who
      <4>1. tab[u].round \in Rounds
        BY <3>3 DEF SignIns!SignInInv, SignIns!HeldOnce
      <4>2. SignIns!Identity(r) = SignIns!Identity(tab[u].round)
        BY <2>5, <3>3 DEF SignIns!Identity
      <4>3. flow[r].named /\ flow[r].who = flow[tab[u].round].who
        BY <2>2, <3>3, <4>1, <4>2, SameIdentity
      <4> QED BY <1>1, <2>5, <4>3 DEF SignIns!SignInInv, SignIns!LabelsHold
    <3>4. SignIns!LabelsHold
      BY DEF SignIns!SignInInv
    <3>5. ASSUME NEW u \in Tabs, tab'[u].at = "create", flow[tab'[u].round].named
          PROVE  /\ tab'[u].label = flow[tab'[u].round].who
                 /\ flow[tab'[u].round].who \notin torn =>
                      \A a \in accounts' : a.identity = flow[tab'[u].round].who =>
                                             a.label = flow[tab'[u].round].who
      <4>1. tab'[u] = tab[u]
        BY <3>2, <3>5
      <4> QED BY <1>3, <3>3, <3>4, <3>5, <4>1 DEF SignIns!LabelsHold
    <3> QED BY <1>1, <3>5 DEF SignIns!LabelsHold
  <2>12. accounts' \subseteq SignIns!Account
    BY <1>3, <2>3, <2>6
  <2> QED BY <2>1, <2>9, <2>10, <2>11, <2>12, LandedInv
<1> QED BY <1>2, <1>3 DEF SignIns!Create

LEMMA SignInStep ==
  ASSUME SignIns!SignInInv, SignIns!Next
  PROVE  SignIns!SignInInv'
<1>1. ASSUME NEW r \in Rounds, SignIns!Start(r) \/ SignIns!Approve(r) \/ SignIns!Expire(r)
      PROVE  SignIns!SignInInv'
  BY <1>1, RoundStepInv
<1>2. ASSUME NEW t \in Tabs, NEW r \in Rounds, SignIns!Callback(t, r) \/ SignIns!Poll(t, r)
      PROVE  SignIns!SignInInv'
  BY <1>2, CallbackInv, PollInv
<1>3. ASSUME NEW t \in Tabs,
             \/ SignIns!Exchange(t) \/ SignIns!Ask(t) \/ SignIns!TakeState(t) \/ SignIns!Find(t)
             \/ SignIns!LoadRow(t) \/ SignIns!Update(t) \/ SignIns!Create(t) \/ SignIns!Fail(t)
      PROVE  SignIns!SignInInv'
  BY <1>3, ExchangeInv, AskInv, TakeStateInv, FindInv, LoadRowInv, SignInUpdateInv,
     SignInCreateInv, SignInFailInv
<1>4. ASSUME NEW a \in accounts, SignIns!Refresh(a) \/ SignIns!Delete(a) \/ SignIns!Rename(a)
      PROVE  SignIns!SignInInv'
  BY <1>4, RefreshInv, DeleteInv, RenameInv
<1> QED BY <1>1, <1>2, <1>3, <1>4 DEF SignIns!Next

LEMMA SignInStart == ASSUME SignIns!Init PROVE SignIns!SignInInv
<1>1. /\ accounts = {} /\ torn = {} /\ landed = [r \in Rounds |-> 0]
      /\ tab = [t \in Tabs |-> SignIns!Idle]
  BY DEF SignIns!Init
<1>2. SignIns!TypeOK
  BY SignInIdle, SignInConstants DEF SignIns!Init, SignIns!TypeOK
<1>3. \A t \in Tabs : tab[t].at = "idle"
  BY <1>1, SignInIdle
<1>4. SignIns!SignInSound
  BY <1>1 DEF SignIns!SignInSound, SignIns!ConnectedOnce, SignIns!CredentialsStayHome
<1> QED BY <1>1, <1>2, <1>3, <1>4
        DEF SignIns!SignInInv, SignIns!HeldOnce, SignIns!Holding, SignIns!RowsOwned,
            SignIns!RowsFound, SignIns!LandedAreGone, SignIns!LabelsHold

\* The row that a write replaces is the one with the id and the credential it loaded.
LEMMA NoneUndone ==
  ASSUME SignIns!SignInInv
  PROVE  ~SignIns!RotationUndone
<1> SUFFICES ASSUME NEW t \in Tabs, NEW a \in accounts, SignIns!Update(t), tab[t].row = a.id,
                    accounts' # accounts, a.credential # tab[t].loaded
             PROVE  FALSE
  BY DEF SignIns!RotationUndone
<1>1. PICK b \in SignIns!Rows(tab[t].row) : SignIns!Unchanged(b, tab[t].loaded)
  BY DEF SignIns!Update
<1>2. b \in accounts /\ b.id = a.id /\ b.credential = tab[t].loaded
  BY <1>1 DEF SignIns!Rows, SignIns!Unchanged
<1>3. a = b
  BY <1>2 DEF SignIns!SignInInv, SignIns!SignInSound, SignIns!CredentialsStayHome
<1> QED BY <1>2, <1>3

\* However many callbacks and polls carry a sign-in, and whatever fails, is refreshed, renamed
\* or deleted beside them: one sign-in connects at most once, a credential stays with the
\* account of its person, one identity has one account unless a rename hid it from an insert,
\* and no write undoes a rotation it did not see (service/oauth_flow_connect.go,
\* oauth_flow_callback.go, oauth_flow_device_poll.go).
THEOREM SignInsStaySound == Spec => SignInSound
<1> DEFINE Inv == part = "signin" => SignIns!SignInInv
<1>1. Init => Inv
  BY SignInStart DEF Init
<1>2. Inv /\ [Next]_partsVars => Inv'
  <2> SUFFICES ASSUME Inv, [Next]_partsVars, part' = "signin" PROVE SignIns!SignInInv'
    OBVIOUS
  <2>1. CASE Next
    <3>1. part = "signin" /\ SignIns!Next
      BY <2>1 DEF Next
    <3> QED BY <3>1, SignInStep
  <2>2. CASE UNCHANGED partsVars
    <3>1. /\ part = "signin"
          /\ UNCHANGED <<flow, state, grant, tab, accounts, landed, torn, calls, touches, signFaults>>
      BY <2>2 DEF partsVars
    <3>2. Onward
      BY <3>1 DEF Onward, SignIns!SignInInv, SignIns!TypeOK
    <3> QED BY <3>1, <3>2, RoundMoves
  <2> QED BY <2>1, <2>2
<1>3. Inv => (part = "signin" => SignIns!TypeOK /\ SignIns!SignInSound)
  BY DEF SignIns!SignInInv
<1>4. Inv /\ [Next]_partsVars => [part = "signin" => ~SignIns!RotationUndone]_accounts
  BY NoneUndone
<1> QED BY <1>1, <1>2, <1>3, <1>4, PTL DEF Spec, SignInSound

---------------------------------------------------------------------------
(* The way out through the proxies                                         *)

LEMMA RouteConstants ==
  /\ Pool \in Seq(Route!Proxies) /\ Pool # <<>>
  /\ CacheTicks \in Nat \ {0} /\ MaxClients \in Nat \ {0} /\ MaxAttempts \in Nat \ {0}
  /\ ReadTicks \in Nat
  BY PartsAssumption DEF Route!ProxyRouteAssumption, Route!Proxies

LEMMA ModRange ==
  ASSUME NEW n \in Nat, NEW d \in Nat \ {0}
  PROVE  n % d \in 0..(d - 1)
  OBVIOUS

\* What the operators that make a plan return: the same number of the same candidates.
LEMMA RotatedTyped ==
  ASSUME NEW S, NEW s \in Seq(S), s # <<>>, NEW n \in Nat
  PROVE  Route!RotateRefs(s, n) \in Seq(S) /\ Len(Route!RotateRefs(s, n)) = Len(s)
<1>1. Len(s) \in Nat \ {0}
  BY EmptySeq
<1>2. ASSUME NEW i \in 1..Len(s) PROVE s[((n + i - 1) % Len(s)) + 1] \in S
  <2>1. n + i - 1 \in Nat
    BY <1>1
  <2>2. (n + i - 1) % Len(s) \in 0..(Len(s) - 1)
    BY <1>1, <2>1, ModRange
  <2>3. ((n + i - 1) % Len(s)) + 1 \in 1..Len(s)
    BY <1>1, <2>2
  <2> QED BY <2>3, ElementOfSeq
<1> QED BY <1>1, <1>2 DEF Route!RotateRefs

LEMMA FrontedTyped ==
  ASSUME NEW S, NEW s \in Seq(S), NEW p
  PROVE  Route!ToFront(s, p) \in Seq(S) /\ Len(Route!ToFront(s, p)) = Len(s)
<1> DEFINE at == CHOOSE i \in DOMAIN s : s[i] = p
           fronted == [i \in 1..Len(s) |-> IF i = 1 THEN p ELSE IF i <= at THEN s[i - 1] ELSE s[i]]
<1>1. CASE p \in Route!Range(s)
  <2>1. \E i \in DOMAIN s : s[i] = p
    BY <1>1 DEF Route!Range
  <2>2. p \in S
    BY <2>1
  <2>3. \A i \in 1..Len(s) :
          (IF i = 1 THEN p ELSE IF i <= at THEN s[i - 1] ELSE s[i]) \in S
    <3> SUFFICES ASSUME NEW i \in 1..Len(s), i # 1
                 PROVE  s[i - 1] \in S /\ s[i] \in S
      BY <2>2
    <3> QED BY ElementOfSeq
  <2> HIDE DEF at
  <2>4. fronted \in Seq(S) /\ Len(fronted) = Len(s)
    BY <2>3
  <2> QED BY <1>1, <2>4 DEF Route!ToFront, at
<1>2. CASE p \notin Route!Range(s)
  BY <1>2 DEF Route!ToFront
<1> QED BY <1>1, <1>2

LEMMA AtMostTyped ==
  ASSUME NEW S, NEW s \in Seq(S), s # <<>>, NEW n \in Nat \ {0}
  PROVE  Route!AtMost(s, n) \in Seq(S) /\ Route!AtMost(s, n) # <<>>
<1> DEFINE m == IF Len(s) < n THEN Len(s) ELSE n
<1>1. Len(s) \in Nat \ {0}
  BY EmptySeq
<1>2. m \in 1..Len(s) /\ m \in Nat \ {0}
  BY <1>1
<1> HIDE DEF m
<1>3. \A i \in 1..m : s[i] \in S
  BY <1>1, <1>2, ElementOfSeq
<1>4. SubSeq(s, 1, m) \in Seq(S) /\ Len(SubSeq(s, 1, m)) = m
  BY <1>2, <1>3, SubSeqProperties
<1>5. SubSeq(s, 1, m) # <<>>
  BY <1>2, <1>4, EmptySeq
<1> QED BY <1>4, <1>5 DEF Route!AtMost, m

LEMMA ListedTyped ==
  ASSUME NEW listing, NEW s \in Route!Listed(listing)
  PROVE  s \in Seq(listing)
<1>1. PICK n \in 0..Len(Pool) : s \in [1..n -> listing]
  BY DEF Route!Listed
<1>2. Len(Pool) \in Nat
  BY RouteConstants
<1> QED BY <1>1, <1>2

RouteMay(w) ==
  /\ w \in Route!Walk
  /\ w.at = "store" => \A p \in w.rows : idle[p] <= w.lag
  /\ w.at \in {"client", "keep", "call"} => w.left # <<>>

LEMMA WalkMoves ==
  ASSUME Route!RouteInv, NEW r \in Requests, NEW w, RouteMay(w), Route!Become(r, w),
         UNCHANGED <<usable, idle, clients, order>>, turn' \in Nat,
         cached' \in [rows : SUBSET Route!Proxies, age : 0..CacheTicks], Route!PoolFresh'
  PROVE  Route!RouteInv'
<1>0. /\ walk \in [Requests -> Route!Walk] /\ walk' = [walk EXCEPT ![r] = w] /\ w \in Route!Walk
      /\ usable' = usable /\ idle' = idle /\ clients' = clients /\ order' = order
  BY DEF Route!RouteInv, Route!TypeOK, RouteMay, Route!Become
<1>1. walk'[r] = w /\ \A q \in Requests \ {r} : walk'[q] = walk[q]
  BY <1>0
<1>2. Route!TypeOK'
  BY <1>0 DEF Route!RouteInv, Route!TypeOK
<1>3. Route!RouteSound' /\ Route!UsableNow' /\ Route!ListedOnce'
  BY <1>0 DEF Route!RouteInv, Route!RouteSound, Route!ClientsListed, Route!UsableNow, Route!ListedOnce,
              Route!Cardinality, Route!Range, Route!IsFiniteSet
<1>4. Route!ReadsFresh' /\ Route!WalksAhead'
  BY <1>0, <1>1 DEF Route!RouteInv, Route!ReadsFresh, Route!WalksAhead, RouteMay
<1> QED BY <1>2, <1>3, <1>4 DEF Route!RouteInv

\* A walk that goes on and leaves pool, copy and clients alone.
LEMMA WalkOnly ==
  ASSUME Route!RouteInv, NEW r \in Requests, NEW w, RouteMay(w), Route!Become(r, w),
         UNCHANGED <<usable, idle, cached, clients, order>>, turn' \in Nat
  PROVE  Route!RouteInv'
<1>1. cached' \in [rows : SUBSET Route!Proxies, age : 0..CacheTicks]
  BY DEF Route!RouteInv, Route!TypeOK
<1>2. Route!PoolFresh'
  BY DEF Route!RouteInv, Route!RouteSound, Route!PoolFresh
<1> QED BY <1>1, <1>2, WalkMoves

LEMMA NoWalkMay == RouteMay(Route!NoWalk) /\ Route!NoWalk.at = "idle" /\ Route!NoWalk.lag = 0
<1>1. <<>> \in Seq(Route!Candidates)
  BY EmptySeq
<1> QED BY <1>1, RouteConstants DEF RouteMay, Route!NoWalk, Route!Walk

LEMMA ReadCachedInv ==
  ASSUME Route!RouteInv, NEW r \in Requests, Route!ReadCached(r)
  PROVE  Route!RouteInv'
<1> DEFINE w == [Route!NoWalk EXCEPT !.at = "order", !.rows = cached.rows]
<1>1. /\ Route!Become(r, w) /\ UNCHANGED <<usable, idle, cached, clients, order, turn>>
  BY DEF Route!ReadCached, Route!Touched, Route!Pooled, Route!Cache
<1>2. turn \in Nat /\ cached.rows \subseteq Route!Proxies
  BY DEF Route!RouteInv, Route!TypeOK
<1>3. w \in Route!Walk /\ w.at = "order"
  BY <1>2, NoWalkMay DEF RouteMay, Route!Walk
<1> HIDE DEF w
<1>4. RouteMay(w)
  BY <1>3 DEF RouteMay
<1> QED BY <1>1, <1>2, <1>4, WalkOnly

\* What is read now is usable now.
LEMMA ReadPoolInv ==
  ASSUME Route!RouteInv, NEW r \in Requests, Route!ReadPool(r)
  PROVE  Route!RouteInv'
<1> DEFINE w == [Route!NoWalk EXCEPT !.at = "store", !.rows = usable]
<1>1. /\ Route!Become(r, w) /\ UNCHANGED <<usable, idle, cached, clients, order, turn>>
  BY DEF Route!ReadPool, Route!Pooled, Route!Cache
<1>2. turn \in Nat /\ usable \subseteq Route!Proxies /\ \A p \in usable : idle[p] = 0
  BY DEF Route!RouteInv, Route!TypeOK, Route!UsableNow
<1>3. w \in Route!Walk /\ w.at = "store" /\ w.rows = usable /\ w.lag = 0
  BY <1>2, NoWalkMay DEF RouteMay, Route!Walk
<1> HIDE DEF w
<1>4. RouteMay(w)
  BY <1>2, <1>3 DEF RouteMay
<1> QED BY <1>1, <1>2, <1>4, WalkOnly

LEMMA StorePoolInv ==
  ASSUME Route!RouteInv, NEW r \in Requests, Route!StorePool(r)
  PROVE  Route!RouteInv'
<1> DEFINE w == [walk[r] EXCEPT !.at = "order", !.lag = 0]
<1>1. /\ Route!Become(r, w) /\ UNCHANGED <<usable, idle, clients, order, turn>>
      /\ cached' = [rows |-> walk[r].rows, age |-> 0] /\ walk[r].at = "store"
  BY DEF Route!StorePool, Route!Pooled, Route!Cache
<1>2. /\ turn \in Nat /\ walk[r] \in Route!Walk
      /\ \A p \in walk[r].rows : idle[p] <= walk[r].lag
      /\ idle \in [Route!Proxies -> 0..Route!StaleTicks + 1]
  BY <1>1 DEF Route!RouteInv, Route!TypeOK, Route!ReadsFresh
<1>3. walk[r].rows \subseteq Route!Proxies /\ walk[r].lag \in 0..ReadTicks
  BY <1>2 DEF Route!Walk
<1>4. w \in Route!Walk /\ w.at = "order"
  <2>1. walk[r] \in Route!Walk /\ 0 \in 0..ReadTicks
    BY <1>2, RouteConstants
  <2> QED BY <2>1 DEF Route!Walk
<1> HIDE DEF w
<1>5. RouteMay(w)
  BY <1>4 DEF RouteMay
<1>6. cached' \in [rows : SUBSET Route!Proxies, age : 0..CacheTicks]
  BY <1>1, <1>3, RouteConstants
<1>7. Route!PoolFresh'
  <2>1. ASSUME NEW p \in walk[r].rows PROVE idle[p] <= 0 + ReadTicks
    <3>1. idle[p] \in Int /\ idle[p] <= walk[r].lag
      BY <1>2, <1>3, RouteConstants DEF Route!StaleTicks
    <3> QED BY <1>3, <3>1, RouteConstants
  <2> QED BY <1>1, <2>1 DEF Route!PoolFresh
<1> QED BY <1>1, <1>2, <1>5, <1>6, <1>7, WalkMoves

LEMMA OrderInv ==
  ASSUME Route!RouteInv, NEW r \in Requests, Route!Order(r)
  PROVE  Route!RouteInv'
<1>1. /\ UNCHANGED <<usable, idle, cached, clients, order>> /\ walk[r] \in Route!Walk
      /\ turn \in Nat
  BY DEF Route!Order, Route!Pooled, Route!Cache, Route!RouteInv, Route!TypeOK
<1>2. walk[r].rows \subseteq Route!Proxies
  BY <1>1 DEF Route!Walk
<1>3. PICK stored \in Route!Listed(walk[r].rows) :
        LET turning == binding.rotates /\ Len(stored) > 1 IN
        \E ids \in {stored} \union IF turning THEN {Route!RotateRefs(stored, turn)} ELSE {} :
          LET plan == Route!ToFront(ids, binding.pin) \o IF binding.on THEN <<Route!Static>> ELSE <<>> IN
          /\ turn' = IF turning THEN (turn + 1) % 6 ELSE turn
          /\ Route!Become(r, IF stored = <<>> THEN Route!NoWalk
                   ELSE [walk[r] EXCEPT !.at = "client", !.rows = {}, !.left = Route!AtMost(plan, MaxAttempts)])
  BY Zenon DEF Route!Order
<1>4. PICK ids : /\ ids = stored \/ (Len(stored) > 1 /\ ids = Route!RotateRefs(stored, turn))
                 /\ turn' = turn \/ turn' = (turn + 1) % 6
                 /\ Route!Become(r, IF stored = <<>> THEN Route!NoWalk
                      ELSE [walk[r] EXCEPT !.at = "client", !.rows = {}, !.left = Route!AtMost(
                              Route!ToFront(ids, binding.pin) \o IF binding.on THEN <<Route!Static>> ELSE <<>>,
                              MaxAttempts)])
  BY <1>3, Zenon
<1>5. turn' \in Nat
  <2>1. (turn + 1) % 6 \in 0..(6 - 1)
    BY <1>1, ModRange
  <2> QED BY <1>1, <1>4, <2>1
<1>6. CASE stored = <<>>
  BY <1>1, <1>4, <1>5, <1>6, NoWalkMay, WalkOnly
<1>7. CASE stored # <<>>
  <2> DEFINE tail == IF binding.on THEN <<Route!Static>> ELSE <<>>
             plan == Route!ToFront(ids, binding.pin) \o tail
             w == [walk[r] EXCEPT !.at = "client", !.rows = {}, !.left = Route!AtMost(plan, MaxAttempts)]
  <2>1. stored \in Seq(Route!Candidates) /\ Len(stored) \in Nat \ {0}
    BY <1>2, <1>7, ListedTyped, EmptySeq DEF Route!Candidates
  <2>2. ids \in Seq(Route!Candidates) /\ Len(ids) = Len(stored)
    BY <1>1, <1>4, <1>7, <2>1, RotatedTyped
  <2>3. /\ Route!ToFront(ids, binding.pin) \in Seq(Route!Candidates)
        /\ Len(Route!ToFront(ids, binding.pin)) = Len(ids)
    BY <2>2, FrontedTyped
  <2>4. tail \in Seq(Route!Candidates) /\ Len(tail) \in Nat
    <3>1. Route!Static \in Route!Candidates
      BY DEF Route!Candidates
    <3>2. CASE binding.on
      <4>1. tail = <<Route!Static>>
        BY <3>2
      <4> QED BY <3>1, <4>1
    <3>3. CASE ~binding.on
      <4>1. tail = <<>>
        BY <3>3
      <4> QED BY <4>1, EmptySeq
    <3> QED BY <3>2, <3>3
  <2>5. plan \in Seq(Route!Candidates) /\ plan # <<>>
    <3> DEFINE front == Route!ToFront(ids, binding.pin)
    <3> HIDE DEF tail, front
    <3>1. plan \in Seq(Route!Candidates) /\ Len(plan) = Len(ids) + Len(tail)
      <4>1. front \in Seq(Route!Candidates) /\ Len(front) = Len(ids)
        BY <2>3 DEF front
      <4>2. /\ front \o tail \in Seq(Route!Candidates)
            /\ Len(front \o tail) = Len(front) + Len(tail)
        BY <2>4, <4>1, ConcatProperties
      <4> QED BY <4>1, <4>2 DEF front
    <3>2. Len(plan) # 0
      BY <2>1, <2>2, <2>4, <3>1
    <3> QED BY <3>1, <3>2, EmptySeq
  <2>6. Route!Become(r, w)
    BY <1>4, <1>7
  <2> HIDE DEF plan
  <2>7. /\ Route!AtMost(plan, MaxAttempts) \in Seq(Route!Candidates)
        /\ Route!AtMost(plan, MaxAttempts) # <<>>
    BY <2>5, AtMostTyped, RouteConstants
  <2>8. w \in Route!Walk /\ w.at = "client" /\ w.left # <<>>
    BY <1>1, <2>7 DEF Route!Walk
  <2> HIDE DEF w
  <2>9. RouteMay(w)
    BY <2>8 DEF RouteMay
  <2> QED BY <1>1, <1>5, <2>6, <2>9, WalkOnly
<1> QED BY <1>6, <1>7

\* A walk at one of its candidates asks it, keeps a client for it or goes on.
LEMMA CandidateMay ==
  ASSUME Route!RouteInv, NEW r \in Requests, walk[r].at \in {"client", "keep", "call"},
         NEW at \in {"client", "keep", "call"}
  PROVE  /\ RouteMay([walk[r] EXCEPT !.at = at]) /\ Head(walk[r].left) \in Route!Candidates
         /\ walk[r] \in Route!Walk /\ walk[r].left \in Seq(Route!Candidates) /\ walk[r].left # <<>>
<1>1. walk[r] \in Route!Walk /\ walk[r].left # <<>>
  BY DEF Route!RouteInv, Route!TypeOK, Route!WalksAhead
<1>2. walk[r].left \in Seq(Route!Candidates)
  BY <1>1 DEF Route!Walk
<1>3. Head(walk[r].left) \in Route!Candidates
  BY <1>1, <1>2, HeadTailProperties
<1> DEFINE w == [walk[r] EXCEPT !.at = at]
<1>4. w \in Route!Walk /\ w.at = at /\ w.left = walk[r].left
  BY <1>1 DEF Route!Walk
<1> HIDE DEF w
<1>5. RouteMay(w)
  BY <1>1, <1>4 DEF RouteMay
<1> QED BY <1>1, <1>2, <1>3, <1>5 DEF w

\* The age list and the clients: a new one goes to its end, the oldest leaves both.
Aged(s, C) ==
  /\ IsFiniteSet(C) /\ Cardinality(C) = Len(s) /\ Route!Range(s) = C
  /\ \A i, j \in DOMAIN s : s[i] = s[j] => i = j

LEMMA AgedGrows ==
  ASSUME NEW S, NEW s \in Seq(S), NEW C, Aged(s, C), NEW c \in S, c \notin C
  PROVE  Append(s, c) \in Seq(S) /\ Len(Append(s, c)) = Len(s) + 1 /\ Aged(Append(s, c), C \union {c})
<1> DEFINE g == Append(s, c)
<1>1. /\ g \in Seq(S) /\ Len(g) = Len(s) + 1 /\ Len(s) \in Nat
      /\ \A i \in 1..Len(s) : g[i] = s[i]
      /\ g[Len(s) + 1] = c
  BY AppendProperties, LenProperties
<1>2. DOMAIN s = 1..Len(s) /\ DOMAIN g = 1..Len(s) + 1
  BY <1>1, LenProperties
<1> HIDE DEF g
<1>3. \A i \in DOMAIN s : s[i] \in C
  BY DEF Aged, Route!Range
<1>4. Route!Range(g) = C \union {c}
  <2>1. ASSUME NEW x \in C PROVE \E i \in DOMAIN g : g[i] = x
    <3>1. PICK i \in DOMAIN s : s[i] = x
      BY DEF Aged, Route!Range
    <3> QED BY <1>1, <1>2, <3>1
  <2>2. \A i \in DOMAIN g : g[i] \in C \union {c}
    BY <1>1, <1>2, <1>3
  <2>3. \E i \in DOMAIN g : g[i] = c
    BY <1>1, <1>2
  <2> QED BY <2>1, <2>2, <2>3 DEF Route!Range
<1>5. \A i, j \in DOMAIN g : g[i] = g[j] => i = j
  <2> SUFFICES ASSUME NEW i \in DOMAIN g, NEW j \in DOMAIN g, g[i] = g[j] PROVE i = j
    OBVIOUS
  <2>1. CASE i \in DOMAIN s /\ j \in DOMAIN s
    BY <1>1, <1>2, <2>1 DEF Aged
  <2>2. CASE i \notin DOMAIN s /\ j \in DOMAIN s
    BY <1>1, <1>2, <1>3, <2>2
  <2>3. CASE i \in DOMAIN s /\ j \notin DOMAIN s
    BY <1>1, <1>2, <1>3, <2>3
  <2>4. CASE i \notin DOMAIN s /\ j \notin DOMAIN s
    BY <1>1, <1>2, <2>4
  <2> QED BY <2>1, <2>2, <2>3, <2>4
<1>6. IsFiniteSet(C \union {c}) /\ Cardinality(C \union {c}) = Len(s) + 1
  BY FS_AddElement DEF Aged
<1>7. Aged(g, C \union {c})
  BY <1>1, <1>4, <1>5, <1>6 DEF Aged
<1> QED BY <1>1, <1>7 DEF g

LEMMA AgedShrinks ==
  ASSUME NEW S, NEW s \in Seq(S), s # <<>>, NEW C, Aged(s, C)
  PROVE  /\ Tail(s) \in Seq(S) /\ Len(Tail(s)) = Len(s) - 1
         /\ Aged(Tail(s), C \ {Head(s)})
<1> DEFINE t == Tail(s)
           h == Head(s)
<1>1. /\ t \in Seq(S) /\ Len(t) = Len(s) - 1 /\ Len(s) \in Nat \ {0}
      /\ \A i \in 1..Len(t) : t[i] = s[i + 1]
      /\ h = s[1]
  BY HeadTailProperties, EmptySeq
<1>2. DOMAIN s = 1..Len(s) /\ DOMAIN t = 1..(Len(s) - 1)
  BY <1>1, LenProperties
<1> HIDE DEF t, h
<1>3. /\ \A i \in DOMAIN t : i + 1 \in DOMAIN s /\ t[i] = s[i + 1] /\ i + 1 # 1
      /\ \A i \in DOMAIN s : i # 1 => i - 1 \in DOMAIN t /\ t[i - 1] = s[i]
      /\ 1 \in DOMAIN s
  BY <1>1, <1>2
<1>4. Route!Range(t) = C \ {h}
  <2>1. ASSUME NEW i \in DOMAIN t PROVE t[i] \in C /\ t[i] # h
    <3>1. i + 1 \in DOMAIN s /\ t[i] = s[i + 1] /\ i + 1 # 1 /\ 1 \in DOMAIN s
      BY <1>3
    <3>2. s[i + 1] \in C
      BY <3>1 DEF Aged, Route!Range
    <3>3. s[i + 1] # s[1]
      BY <3>1 DEF Aged
    <3> QED BY <1>1, <3>1, <3>2, <3>3
  <2>2. ASSUME NEW x \in C, x # h PROVE \E i \in DOMAIN t : t[i] = x
    <3>1. PICK i \in DOMAIN s : s[i] = x
      BY DEF Aged, Route!Range
    <3>2. i # 1
      BY <1>1, <2>2, <3>1
    <3> QED BY <1>3, <3>1, <3>2
  <2> QED BY <2>1, <2>2 DEF Route!Range
<1>5. \A i, j \in DOMAIN t : t[i] = t[j] => i = j
  <2> SUFFICES ASSUME NEW i \in DOMAIN t, NEW j \in DOMAIN t, t[i] = t[j] PROVE i = j
    OBVIOUS
  <2>1. i + 1 = j + 1
    BY <1>3 DEF Aged
  <2> QED BY <1>2, <2>1
<1>6. h \in C
  BY <1>1, <1>3 DEF Aged, Route!Range
<1>7. IsFiniteSet(C \ {h}) /\ Cardinality(C \ {h}) = Len(t)
  <2>1. IsFiniteSet(C) /\ Cardinality(C) = Len(s)
    BY DEF Aged
  <2>2. IsFiniteSet(C \ {h}) /\ Cardinality(C \ {h}) = Cardinality(C) - 1
    BY <1>6, <2>1, FS_RemoveElement
  <2> QED BY <1>1, <2>1, <2>2
<1>8. Aged(t, C \ {h})
  BY <1>4, <1>5, <1>7 DEF Aged
<1> QED BY <1>1, <1>8 DEF t, h

LEMMA AgedClients ==
  Route!RouteInv => /\ order \in Seq(Route!Candidates) /\ clients \subseteq Route!Candidates
                    /\ Aged(order, clients) /\ Len(order) <= MaxClients
  BY DEF Route!RouteInv, Route!TypeOK, Route!RouteSound, Route!ClientsListed, Route!ListedOnce, Aged,
         Route!Cardinality, Cardinality, Route!IsFiniteSet, IsFiniteSet

LEMMA ClientFoundInv ==
  ASSUME Route!RouteInv, NEW r \in Requests, Route!ClientFound(r) \/ Route!ClientBuilt(r)
  PROVE  Route!RouteInv'
<1>1. /\ UNCHANGED <<usable, idle, cached, clients, order, turn>> /\ walk[r].at = "client"
      /\ \E at \in {"keep", "call"} : Route!Become(r, [walk[r] EXCEPT !.at = at])
  BY DEF Route!ClientFound, Route!ClientBuilt, Route!Pooled, Route!Cache
<1>2. turn \in Nat
  BY DEF Route!RouteInv, Route!TypeOK
<1> QED BY <1>1, <1>2, CandidateMay, WalkOnly

LEMMA ClientKeptInv ==
  ASSUME Route!RouteInv, NEW r \in Requests, Route!ClientKept(r)
  PROVE  Route!RouteInv'
<1> DEFINE c == Head(walk[r].left)
           w == [walk[r] EXCEPT !.at = "call"]
           grown == IF Route!Keeps(c) THEN Append(order, c) ELSE order
           over == Len(grown) > MaxClients
<1>1. /\ UNCHANGED <<usable, idle, cached, turn>> /\ walk[r].at = "keep" /\ Route!Become(r, w)
      /\ order' = IF over THEN Tail(grown) ELSE grown
      /\ clients' = (clients \union {c}) \ IF over THEN {Head(grown)} ELSE {}
  BY DEF Route!ClientKept, Route!Pooled
<1>2. RouteMay(w) /\ c \in Route!Candidates
  BY <1>1, CandidateMay
<1>3. /\ grown \in Seq(Route!Candidates) /\ Aged(grown, clients \union {c})
      /\ Len(grown) \in Nat /\ Len(grown) <= MaxClients + 1
  <2>1. CASE c \in clients
    <3>1. grown = order /\ clients \union {c} = clients
      BY <2>1 DEF Route!Keeps
    <3>2. /\ order \in Seq(Route!Candidates) /\ Aged(order, clients) /\ Len(order) <= MaxClients
      BY AgedClients
    <3>3. Len(order) \in Nat
      BY <3>2, LenProperties
    <3>4. Len(order) <= MaxClients + 1
      BY <3>2, <3>3, RouteConstants
    <3> QED BY <3>1, <3>2, <3>3, <3>4
  <2>2. CASE c \notin clients
    <3>1. grown = Append(order, c)
      BY <2>2 DEF Route!Keeps
    <3>2. order \in Seq(Route!Candidates) /\ Aged(order, clients) /\ Len(order) <= MaxClients
      BY AgedClients
    <3>3. Len(order) \in Nat
      BY <3>2, LenProperties
    <3> QED BY <1>2, <2>2, <3>1, <3>2, <3>3, AgedGrows, RouteConstants
  <2> QED BY <2>1, <2>2
<1> HIDE DEF grown
<1>4. order' \in Seq(Route!Candidates) /\ Aged(order', clients') /\ Len(order') <= MaxClients
  <2>1. CASE over
    <3>1. Len(grown) = MaxClients + 1 /\ grown # <<>>
      BY <1>3, <2>1, RouteConstants, EmptySeq
    <3>2. order' = Tail(grown) /\ clients' = (clients \union {c}) \ {Head(grown)}
      BY <1>1, <2>1
    <3>3. /\ Tail(grown) \in Seq(Route!Candidates) /\ Len(Tail(grown)) = Len(grown) - 1
          /\ Aged(Tail(grown), (clients \union {c}) \ {Head(grown)})
      BY <1>3, <3>1, AgedShrinks
    <3> QED BY <3>1, <3>2, <3>3, RouteConstants
  <2>2. CASE ~over
    <3>1. order' = grown /\ clients' = clients \union {c}
      BY <1>1, <2>2
    <3>2. Len(grown) <= MaxClients
      BY <1>3, <2>2, RouteConstants
    <3> QED BY <1>3, <3>1, <3>2
  <2> QED BY <2>1, <2>2
<1> HIDE DEF over, w
<1>5. clients' \subseteq Route!Candidates
  BY <1>1, <1>2, AgedClients
<1>6. /\ walk \in [Requests -> Route!Walk] /\ walk' = [walk EXCEPT ![r] = w] /\ w \in Route!Walk
  BY <1>1, <1>2 DEF Route!RouteInv, Route!TypeOK, RouteMay, Route!Become
<1>7. Route!TypeOK'
  BY <1>1, <1>4, <1>5, <1>6 DEF Route!RouteInv, Route!TypeOK
<1>8. Route!RouteSound' /\ Route!ListedOnce'
  <2>1. Route!PoolFresh'
    BY <1>1 DEF Route!RouteInv, Route!RouteSound, Route!PoolFresh
  <2>2. Route!ClientsListed' /\ Route!ListedOnce'
    BY <1>4 DEF Route!ClientsListed, Route!ListedOnce, Aged, Route!Range,
                Route!Cardinality, Cardinality, Route!IsFiniteSet, IsFiniteSet
  <2> QED BY <2>1, <2>2 DEF Route!RouteSound
<1>9. Route!UsableNow' /\ Route!ReadsFresh' /\ Route!WalksAhead'
  BY <1>1, <1>2, <1>6 DEF Route!RouteInv, Route!UsableNow, Route!ReadsFresh, Route!WalksAhead, RouteMay
<1> QED BY <1>7, <1>8, <1>9 DEF Route!RouteInv

LEMMA WalkEnds ==
  ASSUME Route!RouteInv, NEW r \in Requests, Route!Become(r, Route!NoWalk),
         UNCHANGED <<usable, idle, cached, clients, order, turn>>
  PROVE  Route!RouteInv'
<1>1. turn \in Nat
  BY DEF Route!RouteInv, Route!TypeOK
<1> QED BY <1>1, NoWalkMay, WalkOnly

LEMMA GoOnInv ==
  ASSUME Route!RouteInv, NEW r \in Requests, Route!Calling(r), NEW n \in Nat, Route!GoOn(r, n)
  PROVE  Route!RouteInv'
<1> DEFINE w == [walk[r] EXCEPT !.at = "client", !.left = Tail(@), !.sent = n]
<1>1. /\ UNCHANGED <<usable, idle, cached, clients, order, turn>> /\ walk[r].at = "call"
      /\ Route!Become(r, IF Len(walk[r].left) = 1 THEN Route!NoWalk ELSE w)
  BY DEF Route!Calling, Route!Pooled, Route!Cache, Route!GoOn
<1>2. walk[r] \in Route!Walk /\ walk[r].left \in Seq(Route!Candidates) /\ walk[r].left # <<>>
  BY <1>1, CandidateMay
<1>3. turn \in Nat
  BY DEF Route!RouteInv, Route!TypeOK
<1>4. CASE Len(walk[r].left) = 1
  BY <1>1, <1>4, WalkEnds
<1>5. CASE Len(walk[r].left) # 1
  <2>1. /\ Tail(walk[r].left) \in Seq(Route!Candidates)
        /\ Len(Tail(walk[r].left)) = Len(walk[r].left) - 1 /\ Len(walk[r].left) \in Nat \ {0}
    BY <1>2, HeadTailProperties, EmptySeq
  <2>2. Tail(walk[r].left) # <<>>
    <3>1. Len(Tail(walk[r].left)) # 0
      BY <1>5, <2>1
    <3>2. Len(<<>>) = 0
      BY EmptySeq
    <3> QED BY <3>1, <3>2
  <2>3. w \in Route!Walk /\ w.at = "client" /\ w.left = Tail(walk[r].left)
    BY <1>2, <2>1 DEF Route!Walk
  <2> HIDE DEF w
  <2>4. RouteMay(w)
    BY <2>2, <2>3 DEF RouteMay
  <2> QED BY <1>1, <1>3, <1>5, <2>4, WalkOnly
<1> QED BY <1>4, <1>5

LEMMA CallInv ==
  ASSUME Route!RouteInv, NEW r \in Requests,
         \/ Route!PoolUnread(r) \/ Route!Served(r) \/ Route!AddressRefused(r)
         \/ Route!ConnectFailed(r) \/ Route!BrokenAfterSend(r)
  PROVE  Route!RouteInv'
<1>1. /\ UNCHANGED <<usable, idle, cached, clients, order, turn>>
      /\ \/ Route!Become(r, Route!NoWalk)
         \/ Route!Calling(r) /\ \E n \in {walk[r].sent, walk[r].sent + 1} : Route!GoOn(r, n)
  BY DEF Route!PoolUnread, Route!Served, Route!AddressRefused, Route!ConnectFailed,
         Route!BrokenAfterSend, Route!Calling, Route!Pooled, Route!Cache
<1>2. walk[r].sent \in Nat
  BY DEF Route!RouteInv, Route!TypeOK, Route!Walk
<1> QED BY <1>1, <1>2, GoOnInv, WalkEnds

LEMMA ChangeInv ==
  ASSUME Route!RouteInv, Route!Change
  PROVE  Route!RouteInv'
<1>1. /\ usable' \subseteq Route!Proxies
      /\ idle' = [p \in Route!Proxies |-> IF p \in usable' THEN 0 ELSE idle[p]]
      /\ UNCHANGED <<cached, turn, clients, order, walk>>
      /\ idle \in [Route!Proxies -> 0..Route!StaleTicks + 1]
  BY DEF Route!Change, Route!Cache, Route!RouteInv, Route!TypeOK
<1>2. Route!StaleTicks \in Nat
  BY RouteConstants DEF Route!StaleTicks
<1>3. /\ idle' \in [Route!Proxies -> 0..Route!StaleTicks + 1]
      /\ \A p \in Route!Proxies : idle'[p] <= idle[p] /\ idle[p] \in Nat /\ idle'[p] \in Nat
  BY <1>1, <1>2
<1>4. Route!TypeOK'
  BY <1>1, <1>3 DEF Route!RouteInv, Route!TypeOK
<1>5. Route!PoolFresh'
  <2>1. cached.rows \subseteq Route!Proxies /\ cached.age \in Nat
    BY RouteConstants DEF Route!RouteInv, Route!TypeOK
  <2>2. ASSUME cached.age < CacheTicks, NEW p \in cached.rows PROVE idle'[p] <= cached.age + ReadTicks
    <3>1. idle[p] <= cached.age + ReadTicks
      BY <2>2 DEF Route!RouteInv, Route!RouteSound, Route!PoolFresh
    <3> QED BY <1>3, <2>1, <3>1, RouteConstants
  <2> QED BY <1>1, <2>2 DEF Route!PoolFresh
<1>6. Route!ReadsFresh'
  <2>1. ASSUME NEW r \in Requests, walk[r].at = "store", NEW p \in walk[r].rows
        PROVE  idle'[p] <= walk[r].lag
    <3>1. walk[r].rows \subseteq Route!Proxies /\ walk[r].lag \in 0..ReadTicks
      BY DEF Route!RouteInv, Route!TypeOK, Route!Walk
    <3>2. idle[p] <= walk[r].lag
      BY <2>1 DEF Route!RouteInv, Route!ReadsFresh
    <3> QED BY <1>3, <3>1, <3>2, RouteConstants
  <2> QED BY <1>1, <2>1 DEF Route!ReadsFresh
<1>7. Route!UsableNow'
  BY <1>1 DEF Route!UsableNow
<1>8. Route!ClientsListed' /\ Route!ListedOnce' /\ Route!WalksAhead'
  BY <1>1 DEF Route!RouteInv, Route!RouteSound, Route!ClientsListed, Route!ListedOnce, Route!WalksAhead,
              Route!Cardinality, Route!Range, Route!IsFiniteSet
<1> QED BY <1>4, <1>5, <1>6, <1>7, <1>8 DEF Route!RouteInv, Route!RouteSound

\* A tick ages what is not usable, the copy and the reads under way alike.
LEMMA RouteTickInv ==
  ASSUME Route!RouteInv, Route!Tick
  PROVE  Route!RouteInv'
<1>1. /\ \A r \in Requests : walk[r].at = "store" => walk[r].lag < ReadTicks
      /\ cached' = [cached EXCEPT !.age = IF @ < CacheTicks THEN @ + 1 ELSE @]
      /\ idle' = [p \in Route!Proxies |-> IF p \in usable THEN 0 ELSE Route!Capped(idle[p])]
      /\ walk' = [r \in Requests |->
           IF walk[r].at = "store" THEN [walk[r] EXCEPT !.lag = @ + 1] ELSE walk[r]]
      /\ UNCHANGED <<usable, turn, clients, order>>
  BY DEF Route!Tick, Route!Cache
<1>2. /\ idle \in [Route!Proxies -> 0..Route!StaleTicks + 1] /\ usable \subseteq Route!Proxies
      /\ walk \in [Requests -> Route!Walk]
      /\ cached \in [rows : SUBSET Route!Proxies, age : 0..CacheTicks]
      /\ Route!StaleTicks \in Nat /\ ReadTicks \in Nat /\ CacheTicks \in Nat
  BY RouteConstants DEF Route!RouteInv, Route!TypeOK, Route!StaleTicks
<1>3. ASSUME NEW p \in Route!Proxies
      PROVE  /\ idle[p] \in Nat /\ idle'[p] \in 0..Route!StaleTicks + 1
             /\ idle'[p] <= idle[p] + 1
  BY <1>1, <1>2 DEF Route!Capped
<1>4. ASSUME NEW r \in Requests
      PROVE  /\ walk'[r] \in Route!Walk /\ walk'[r].at = walk[r].at /\ walk'[r].left = walk[r].left
             /\ walk'[r].rows = walk[r].rows /\ walk[r].rows \subseteq Route!Proxies
             /\ walk[r].lag \in Nat /\ (walk[r].at = "store" => walk'[r].lag = walk[r].lag + 1)
  <2>1. walk[r] \in Route!Walk
    BY <1>2
  <2>2. CASE walk[r].at = "store"
    <3> DEFINE w == [walk[r] EXCEPT !.lag = @ + 1]
    <3>0. walk[r].lag \in 0..ReadTicks /\ walk[r].lag < ReadTicks
      <4>1. walk[r].lag \in 0..ReadTicks
        BY <2>1 DEF Route!Walk
      <4>2. walk[r].lag < ReadTicks
        BY <1>1, <2>2
      <4> QED BY <4>1, <4>2
    <3>1. walk[r].lag \in Nat /\ walk[r].lag + 1 \in 0..ReadTicks
      BY <1>2, <3>0
    <3>2. /\ w \in Route!Walk /\ w.at = walk[r].at /\ w.left = walk[r].left
          /\ w.rows = walk[r].rows /\ walk[r].rows \subseteq Route!Proxies
          /\ w.lag = walk[r].lag + 1
      BY <2>1, <3>1 DEF Route!Walk
    <3>3. walk'[r] = w
      BY <1>1, <2>2
    <3> HIDE DEF w
    <3> QED BY <3>1, <3>2, <3>3
  <2>3. CASE walk[r].at # "store"
    BY <1>1, <1>2, <2>1, <2>3 DEF Route!Walk
  <2> QED BY <2>2, <2>3
<1>5. Route!TypeOK'
  <2>1. idle' \in [Route!Proxies -> 0..Route!StaleTicks + 1]
    BY <1>1, <1>3
  <2>2. walk' \in [Requests -> Route!Walk]
    BY <1>1, <1>4
  <2>3. cached' \in [rows : SUBSET Route!Proxies, age : 0..CacheTicks]
    BY <1>1, <1>2
  <2> QED BY <1>1, <2>1, <2>2, <2>3 DEF Route!RouteInv, Route!TypeOK
<1>6. Route!PoolFresh'
  <2> SUFFICES ASSUME cached'.age < CacheTicks, NEW p \in cached'.rows
               PROVE  idle'[p] <= cached'.age + ReadTicks
    BY DEF Route!PoolFresh
  <2>1. /\ p \in cached.rows /\ p \in Route!Proxies /\ cached.age \in Nat /\ cached.age < CacheTicks
        /\ cached'.age = cached.age + 1
    BY <1>1, <1>2
  <2>2. idle[p] <= cached.age + ReadTicks
    BY <2>1 DEF Route!RouteInv, Route!RouteSound, Route!PoolFresh
  <2>3. idle[p] \in Nat /\ idle'[p] \in Nat /\ idle'[p] <= idle[p] + 1
    BY <1>2, <1>3, <2>1
  <2> QED BY <1>2, <2>1, <2>2, <2>3
<1>7. Route!ReadsFresh'
  <2> SUFFICES ASSUME NEW r \in Requests, walk'[r].at = "store", NEW p \in walk'[r].rows
               PROVE  idle'[p] <= walk'[r].lag
    BY DEF Route!ReadsFresh
  <2>1. /\ walk[r].at = "store" /\ p \in walk[r].rows /\ p \in Route!Proxies
        /\ walk[r].lag \in Nat /\ walk'[r].lag = walk[r].lag + 1
    BY <1>4
  <2>2. idle[p] <= walk[r].lag
    BY <2>1 DEF Route!RouteInv, Route!ReadsFresh
  <2>3. idle[p] \in Nat /\ idle'[p] \in Nat /\ idle'[p] <= idle[p] + 1
    BY <1>2, <1>3, <2>1
  <2> QED BY <2>1, <2>2, <2>3
<1>8. Route!UsableNow' /\ Route!WalksAhead'
  BY <1>1, <1>2, <1>4 DEF Route!RouteInv, Route!UsableNow, Route!WalksAhead
<1>9. Route!ClientsListed' /\ Route!ListedOnce'
  BY <1>1 DEF Route!RouteInv, Route!RouteSound, Route!ClientsListed, Route!ListedOnce,
              Route!Cardinality, Route!Range, Route!IsFiniteSet
<1> QED BY <1>5, <1>6, <1>7, <1>8, <1>9 DEF Route!RouteInv, Route!RouteSound

LEMMA RouteStep ==
  ASSUME Route!RouteInv, Route!Next
  PROVE  Route!RouteInv'
<1>1. ASSUME NEW r \in Requests,
             \/ Route!ReadCached(r) \/ Route!ReadPool(r) \/ Route!StorePool(r)
             \/ Route!PoolUnread(r) \/ Route!Order(r)
             \/ Route!ClientFound(r) \/ Route!ClientBuilt(r) \/ Route!ClientKept(r)
             \/ Route!Served(r) \/ Route!AddressRefused(r) \/ Route!ConnectFailed(r)
             \/ Route!BrokenAfterSend(r)
      PROVE  Route!RouteInv'
  BY <1>1, ReadCachedInv, ReadPoolInv, StorePoolInv, OrderInv, ClientFoundInv, ClientKeptInv, CallInv
<1> QED BY <1>1, ChangeInv, RouteTickInv DEF Route!Next

LEMMA RouteStart == ASSUME Route!Init PROVE Route!RouteInv
<1>1. /\ usable = Route!Proxies /\ idle = [p \in Route!Proxies |-> 0]
      /\ cached = [rows |-> {}, age |-> CacheTicks] /\ turn = 0 /\ clients = {} /\ order = <<>>
      /\ walk = [r \in Requests |-> Route!NoWalk]
  BY DEF Route!Init
<1>2. Route!TypeOK
  BY <1>1, NoWalkMay, RouteConstants, EmptySeq DEF Route!TypeOK, RouteMay, Route!StaleTicks
<1>3. Route!ClientsListed /\ Route!ListedOnce
  <2>1. IsFiniteSet(clients) /\ Cardinality(clients) = 0 /\ Len(order) = 0
    BY <1>1, FS_EmptySet
  <2> QED BY <1>1, <2>1, RouteConstants
          DEF Route!ClientsListed, Route!ListedOnce, Route!Range,
              Route!Cardinality, Cardinality, Route!IsFiniteSet, IsFiniteSet
<1>4. \A r \in Requests : walk[r].at = "idle"
  BY <1>1, NoWalkMay
<1> QED BY <1>1, <1>2, <1>3, <1>4
        DEF Route!RouteInv, Route!RouteSound, Route!PoolFresh, Route!UsableNow, Route!ReadsFresh,
            Route!WalksAhead

\* However reads of the pool overtake edits and each other, a plan names no proxy that was
\* taken out longer ago than the copy's age and one read; and whoever builds clients for one
\* candidate at once, the cache and its age list agree, within the size
\* (service/proxy_route_order.go, dataplane/proxy_route.go).
THEOREM RouteHolds == Spec => []RouteSound
<1> DEFINE Inv == part = "route" => Route!RouteInv
<1>1. Init => Inv
  BY RouteStart DEF Init
<1>2. Inv /\ [Next]_partsVars => Inv'
  <2> SUFFICES ASSUME Inv, [Next]_partsVars, part' = "route" PROVE Route!RouteInv'
    OBVIOUS
  <2>1. CASE Next
    <3>1. part = "route" /\ Route!Next
      BY <2>1 DEF Next
    <3> QED BY <3>1, RouteStep
  <2>2. CASE UNCHANGED partsVars
    <3>1. /\ part = "route"
          /\ UNCHANGED <<usable, idle, binding, cached, turn, clients, order, walk, plans, changes>>
      BY <2>2 DEF partsVars
    <3> QED BY <3>1
            DEF Route!RouteInv, Route!TypeOK, Route!RouteSound, Route!PoolFresh, Route!ClientsListed,
                Route!UsableNow, Route!ReadsFresh, Route!WalksAhead, Route!ListedOnce,
                Route!Cardinality, Route!Range, Route!IsFiniteSet
  <2> QED BY <2>1, <2>2
<1>3. Inv => RouteSound
  BY DEF RouteSound, Route!RouteInv
<1> QED BY <1>1, <1>2, <1>3, PTL DEF Spec

---------------------------------------------------------------------------
(* The panel that is asked at once                                         *)

LEMMA PanelConstants == Size \in Nat /\ FanLimit \in Nat \ {0}
  BY PartsAssumption DEF Panel!FusionAssumption

\* A set of numbers listed upwards is a sequence of its members, each of them somewhere.
LEMMA AscendingListed ==
  ASSUME NEW T, NEW s \in Panel!Ascending(T)
  PROVE  /\ s \in Seq(T) /\ Len(s) \in 0..Size /\ DOMAIN s = 1..Len(s)
         /\ s \in [1..Len(s) -> T]
         /\ \A x \in T : \E i \in 1..Len(s) : s[i] = x
         /\ \A i, j \in 1..Len(s) : i < j => s[i] < s[j]
<1>1. PICK n \in 0..Size : s \in [1..n -> T]
  BY DEF Panel!Ascending
<1>2. s \in Seq(T) /\ Len(s) = n /\ DOMAIN s = 1..n
  BY <1>1, PanelConstants
<1>3. Panel!Range(s) = T /\ \A i, j \in DOMAIN s : i < j => s[i] < s[j]
  BY DEF Panel!Ascending
<1> QED BY <1>1, <1>2, <1>3 DEF Panel!Range

\* The least of a set of numbers.
LEMMA MinIsLeast ==
  ASSUME NEW S, S \subseteq Nat, S # {}
  PROVE  Panel!Min(S) \in S /\ \A x \in S : Panel!Min(S) <= x
<1>1. \E x \in S : \A y \in S : x <= y
  BY LeastExists
<1> QED BY <1>1 DEF Panel!Min

LEMMA MinIs ==
  ASSUME NEW S, S \subseteq Nat, NEW m \in S, \A x \in S : m <= x
  PROVE  Panel!Min(S) = m
<1> DEFINE least == Panel!Min(S)
<1>1. least \in S /\ least <= m /\ m <= least
  BY MinIsLeast
<1>2. least \in Nat /\ m \in Nat
  BY <1>1
<1> HIDE DEF least
<1>3. least = m
  BY <1>1, <1>2
<1> QED BY <1>3 DEF least

\* Who asks, and what taking a place or giving it back does to their number.
Asking(s) == {p \in DOMAIN s : s[p] = "asks"}

LEMMA AskingFinite ==
  ASSUME NEW n \in Nat, NEW s, DOMAIN s = 1..n
  PROVE  IsFiniteSet(Asking(s)) /\ Cardinality(Asking(s)) \in Nat
<1>1. IsFiniteSet(1..n)
  BY FS_Interval
<1>2. IsFiniteSet(Asking(s))
  BY <1>1, FS_Subset DEF Asking
<1> QED BY <1>2, FS_CardinalityType

LEMMA PlaceTaken ==
  ASSUME NEW n \in Nat, NEW s, DOMAIN s = 1..n, NEW p \in 1..n, s[p] = "waits"
  PROVE  Cardinality(Asking([s EXCEPT ![p] = "asks"])) = Cardinality(Asking(s)) + 1
<1>1. Asking([s EXCEPT ![p] = "asks"]) = Asking(s) \union {p} /\ p \notin Asking(s)
  BY DEF Asking
<1> QED BY <1>1, AskingFinite, FS_AddElement

LEMMA PlaceLeft ==
  ASSUME NEW n \in Nat, NEW s, DOMAIN s = 1..n, NEW p \in 1..n, s[p] = "asks"
  PROVE  Cardinality(Asking([s EXCEPT ![p] = "left"])) = Cardinality(Asking(s)) - 1
<1>1. Asking([s EXCEPT ![p] = "left"]) = Asking(s) \ {p} /\ p \in Asking(s)
  BY DEF Asking
<1> QED BY <1>1, AskingFinite, FS_RemoveElement

\* What the instance's typing says, with the positions spelled out.
LEMMA PanelTyped ==
  ASSUME Panel!TypeOK
  PROVE  /\ members \in Seq(1..Size) /\ Len(members) \in Nat
         /\ DOMAIN members = 1..Len(members)
         /\ DOMAIN seat = 1..Len(members) /\ DOMAIN results = 1..Len(members)
         /\ held \in 0..FanLimit /\ FanLimit \in Nat \ {0}
         /\ \A p \in 1..Len(members) : members[p] \in 1..Size
         /\ \A p \in 1..Len(members) :
              results[p] \in [member : (1..Size) \union {0}, leg : Panel!Legs]
<1>1. /\ members \in Seq(1..Size)
      /\ seat \in [1..Len(members) -> {"waits", "asks", "left"}]
      /\ results \in [1..Len(members) -> [member : (1..Size) \union {0}, leg : Panel!Legs]]
      /\ held \in 0..FanLimit
  BY DEF Panel!TypeOK, Panel!Refs, Panel!Positions, Panel!NoOne
<1>2. Len(members) \in Nat /\ DOMAIN members = 1..Len(members)
  BY <1>1
<1>3. \A p \in 1..Len(members) : members[p] \in 1..Size
  BY <1>1, <1>2, ElementOfSeq
<1> QED BY <1>1, <1>2, <1>3, PanelConstants

\* Once everybody has left and the client still waits, the results are the members' own
\* answers: as many texts as members with a text.
LEMMA AnswersTold ==
  ASSUME Panel!FusionInv, ~gone, stage # "members",
         \A p \in 1..Len(members) : seat[p] = "left"
  PROVE  /\ members \in Panel!Ascending(Panel!Resolved)
         /\ \A p \in 1..Len(members) :
              results[p].member = members[p] /\ results[p].leg = answers[members[p]]
         /\ \A p \in 1..Len(members) : p \in Panel!Texts <=> members[p] \in Panel!Texted
         /\ Panel!Texts \subseteq 1..Len(members)
<1>1. members \in Panel!Ascending(Panel!Resolved)
  BY DEF Panel!FusionInv, Panel!MembersResolved
<1>2. \A p \in 1..Len(members) :
        results[p].member = members[p] /\ results[p].leg = answers[members[p]]
  BY DEF Panel!FusionInv, Panel!ResultsTold, Panel!Positions
<1>3. Panel!TypeOK
  BY DEF Panel!FusionInv
<1> QED BY <1>1, <1>2, <1>3, PanelTyped DEF Panel!Texts, Panel!Texted, Panel!Refs, Panel!Answered

\* Every member with a text answered at one place in the results, and no other.
LEMMA TextsCounted ==
  ASSUME Panel!FusionInv, ~gone, stage # "members",
         \A p \in 1..Len(members) : seat[p] = "left"
  PROVE  /\ IsFiniteSet(Panel!Texts) /\ IsFiniteSet(Panel!Texted)
         /\ Cardinality(Panel!Texts) = Cardinality(Panel!Texted)
<1>1. Panel!Texts \subseteq 1..Len(members)
  BY AnswersTold
<1>2. /\ \A p \in 1..Len(members) : members[p] \in Panel!Resolved
      /\ \A x \in Panel!Resolved : \E i \in 1..Len(members) : members[i] = x
      /\ \A i, j \in 1..Len(members) : i < j => members[i] < members[j]
      /\ Len(members) \in Nat
  BY AnswersTold, AscendingListed
<1>3. IsFiniteSet(Panel!Texts)
  <2>1. IsFiniteSet(1..Len(members))
    BY <1>2, FS_Interval
  <2> QED BY <1>1, <2>1, FS_Subset
<1>4. \A p, q \in 1..Len(members) : members[p] = members[q] => p = q
  <2> SUFFICES ASSUME NEW p \in 1..Len(members), NEW q \in 1..Len(members), p # q
               PROVE  members[p] # members[q]
    OBVIOUS
  <2>1. members[p] \in Nat /\ members[q] \in Nat
    BY <1>2, PanelConstants DEF Panel!Resolved, Panel!Refs
  <2>2. p \in Nat /\ q \in Nat /\ (p < q \/ q < p)
    BY <1>2
  <2>3. members[p] < members[q] \/ members[q] < members[p]
    BY <1>2, <2>2
  <2> QED BY <2>1, <2>3
<1> DEFINE f == [p \in Panel!Texts |-> members[p]]
<1>5. f \in [Panel!Texts -> Panel!Texted]
  BY <1>1, AnswersTold
<1>6. \A p, q \in Panel!Texts : f[p] = f[q] => p = q
  BY <1>1, <1>4
<1>7. \A x \in Panel!Texted : \E p \in Panel!Texts : f[p] = x
  <2> SUFFICES ASSUME NEW x \in Panel!Texted PROVE \E p \in Panel!Texts : f[p] = x
    OBVIOUS
  <2>1. x \in Panel!Resolved
    BY DEF Panel!Texted, Panel!Resolved, Panel!Answered
  <2>2. PICK p \in 1..Len(members) : members[p] = x
    BY <1>2, <2>1
  <2>3. p \in Panel!Texts
    BY <2>2, AnswersTold
  <2> QED BY <2>2, <2>3
<1> HIDE DEF f
<1>8. f \in Bijection(Panel!Texts, Panel!Texted)
  BY <1>5, <1>6, <1>7 DEF Bijection, Injection, Surjection, IsInjective
<1>9. ExistsBijection(Panel!Texts, Panel!Texted)
  BY <1>8 DEF ExistsBijection
<1> QED BY <1>3, <1>9, FS_Bijection

LEMMA SameCount == \A S : Panel!Cardinality(S) = Cardinality(S)
  BY DEF Panel!Cardinality, Cardinality, Panel!IsFiniteSet, IsFiniteSet

\* The judge reads the texts in the combo's order.
LEMMA ReadInOrder ==
  ASSUME Panel!FusionInv, ~gone, stage # "members",
         \A p \in 1..Len(members) : seat[p] = "left",
         NEW texts \in Panel!Ascending(Panel!Texts)
  PROVE  [n \in DOMAIN texts |-> results[texts[n]].member] \in Panel!Ascending(Panel!Texted)
<1> DEFINE heard == [n \in DOMAIN texts |-> results[texts[n]].member]
<1>1. /\ Len(texts) \in 0..Size /\ DOMAIN texts = 1..Len(texts)
      /\ texts \in [1..Len(texts) -> Panel!Texts]
      /\ \A x \in Panel!Texts : \E i \in 1..Len(texts) : texts[i] = x
      /\ \A i, j \in 1..Len(texts) : i < j => texts[i] < texts[j]
  BY AscendingListed
<1>2. /\ \A p \in 1..Len(members) : results[p].member = members[p]
      /\ \A p \in 1..Len(members) : p \in Panel!Texts <=> members[p] \in Panel!Texted
      /\ Panel!Texts \subseteq 1..Len(members)
  BY AnswersTold
<1>3. /\ \A x \in Panel!Resolved : \E i \in 1..Len(members) : members[i] = x
      /\ \A i, j \in 1..Len(members) : i < j => members[i] < members[j]
  BY AnswersTold, AscendingListed
<1>4. DOMAIN heard = 1..Len(texts) /\ \A n \in 1..Len(texts) : heard[n] = members[texts[n]]
  BY <1>1, <1>2
<1>5. \A n \in 1..Len(texts) : texts[n] \in 1..Len(members) /\ heard[n] \in Panel!Texted
  BY <1>1, <1>2, <1>4
<1>6. \A i, j \in 1..Len(texts) : i < j => heard[i] < heard[j]
  BY <1>1, <1>3, <1>4, <1>5
<1>7. \A x \in Panel!Texted : \E n \in 1..Len(texts) : heard[n] = x
  <2> SUFFICES ASSUME NEW x \in Panel!Texted PROVE \E n \in 1..Len(texts) : heard[n] = x
    OBVIOUS
  <2>1. x \in Panel!Resolved
    BY DEF Panel!Texted, Panel!Resolved, Panel!Answered
  <2>2. PICK p \in 1..Len(members) : members[p] = x
    BY <1>3, <2>1
  <2>3. p \in Panel!Texts
    BY <1>2, <2>2
  <2>4. PICK n \in 1..Len(texts) : texts[n] = p
    BY <1>1, <2>3
  <2> QED BY <1>4, <2>2, <2>4
<1>8. heard \in [1..Len(texts) -> Panel!Texted]
  BY <1>4, <1>5
<1> HIDE DEF heard
<1>9. Panel!Range(heard) = Panel!Texted
  BY <1>4, <1>5, <1>7 DEF Panel!Range
<1>10. heard \in Panel!Ascending(Panel!Texted)
  BY <1>1, <1>4, <1>6, <1>8, <1>9 DEF Panel!Ascending
<1> QED BY <1>10 DEF heard

\* With no text, the first failure is the first member's, and it is the first of those that
\* failed.
LEMMA FirstFailure ==
  ASSUME Panel!FusionInv, ~gone, stage # "members",
         \A p \in 1..Len(members) : seat[p] = "left", members # <<>>, Panel!Texts = {}
  PROVE  /\ Panel!Texted = {} /\ Panel!Failing # {}
         /\ Panel!FirstOf(Panel!Failures).member = Panel!Min(Panel!Failing)
         /\ Panel!FirstOf(Panel!Failures).leg = answers[Panel!Min(Panel!Failing)]
<1>1. /\ \A p \in 1..Len(members) : members[p] \in Panel!Resolved
      /\ \A x \in Panel!Resolved : \E i \in 1..Len(members) : members[i] = x
      /\ \A i, j \in 1..Len(members) : i < j => members[i] < members[j]
  BY AnswersTold, AscendingListed
<1>2. Panel!TypeOK
  BY DEF Panel!FusionInv
<1>3. 1 \in 1..Len(members) /\ DOMAIN results = 1..Len(members) /\ Len(members) \in Nat
  BY <1>2, PanelTyped, EmptySeq
<1>4. Panel!Texted = {}
  <2> SUFFICES ASSUME NEW x \in Panel!Texted PROVE FALSE
    OBVIOUS
  <2>1. x \in Panel!Resolved
    BY DEF Panel!Texted, Panel!Resolved, Panel!Answered
  <2>2. PICK p \in 1..Len(members) : members[p] = x
    BY <1>1, <2>1
  <2> QED BY <2>2, AnswersTold
<1>5. Panel!Failing = Panel!Resolved
  BY <1>4 DEF Panel!Failing, Panel!Resolved, Panel!Texted
<1>6. Panel!Min(Panel!Failures) = 1
  <2>1. Panel!Failures = 1..Len(members)
    BY <1>3 DEF Panel!Failures
  <2>2. 1..Len(members) \subseteq Nat /\ \A x \in 1..Len(members) : 1 <= x
    BY <1>3
  <2>3. Panel!Min(1..Len(members)) = 1
    BY <1>3, <2>2, MinIs
  <2> QED BY <2>1, <2>3
<1>7. Panel!Min(Panel!Failing) = members[1]
  <2>1. Panel!Resolved \subseteq Nat /\ members[1] \in Panel!Resolved
    BY <1>1, <1>3, PanelConstants DEF Panel!Resolved, Panel!Refs
  <2>2. ASSUME NEW x \in Panel!Resolved PROVE members[1] <= x
    <3>1. PICK i \in 1..Len(members) : members[i] = x
      BY <1>1
    <3>2. i = 1 \/ 1 < i
      BY <1>3
    <3>3. members[1] = x \/ members[1] < x
      BY <1>1, <1>3, <3>1, <3>2
    <3>4. members[1] \in Nat /\ x \in Nat
      BY <2>1
    <3> QED BY <3>3, <3>4
  <2> QED BY <1>5, <2>1, <2>2, MinIs
<1> QED BY <1>1, <1>3, <1>4, <1>5, <1>6, <1>7, AnswersTold DEF Panel!FirstOf

\* What stays when only the seats, the results and the count of places move.
LEMMA FanMoves ==
  ASSUME Panel!FusionInv, stage = "fan", UNCHANGED <<answers, wants, judges, stage, members, gone, read, served>>,
         seat' \in [1..Len(members) -> {"waits", "asks", "left"}],
         results' \in [1..Len(members) -> [member : Panel!Refs \union {Panel!NoOne}, leg : Panel!Legs]],
         held' \in 0..FanLimit, held' = Cardinality(Asking(seat')),
         \A p \in 1..Len(members) : seat'[p] = "left" =>
           /\ results'[p].member = members[p]
           /\ ~gone => results'[p].leg = answers[members[p]]
  PROVE  Panel!FusionInv'
<1>1. Panel!TypeOK'
  BY DEF Panel!FusionInv, Panel!TypeOK, Panel!Positions, Panel!Range, Panel!Refs
<1>2. Panel!PlacesAreHeld'
  BY SameCount, PanelConstants DEF Panel!PlacesAreHeld, Asking
<1>3. Panel!ServedAsInOrder'
  BY DEF Panel!ServedAsInOrder
<1>4. Panel!MembersResolved'
  BY DEF Panel!FusionInv, Panel!MembersResolved, Panel!Resolved, Panel!Refs, Panel!Ascending,
         Panel!Range
<1>5. Panel!ResultsTold'
  BY DEF Panel!ResultsTold, Panel!Positions
<1>6. Panel!ChosenAfterAll'
  BY DEF Panel!FusionInv, Panel!ChosenAfterAll
<1> QED BY <1>1, <1>2, <1>3, <1>4, <1>5, <1>6 DEF Panel!FusionInv, Panel!FusionSound

LEMMA EnterInv ==
  ASSUME Panel!FusionInv, NEW p \in Panel!Positions, Panel!Enter(p)
  PROVE  Panel!FusionInv'
<1>1. /\ stage = "fan" /\ seat[p] = "waits" /\ held < FanLimit /\ held' = held + 1
      /\ seat' = [seat EXCEPT ![p] = "asks"]
      /\ UNCHANGED <<answers, wants, judges, stage, members, gone, read, served>>
      /\ results' = results
  BY DEF Panel!Enter, Panel!Given
<1>2. Panel!TypeOK /\ Panel!PlacesAreHeld /\ Panel!ResultsTold
  BY DEF Panel!FusionInv, Panel!FusionSound
<1>3. /\ DOMAIN seat = 1..Len(members) /\ Len(members) \in Nat
      /\ held \in 0..FanLimit /\ FanLimit \in Nat \ {0} /\ p \in 1..Len(members)
  BY <1>2, PanelTyped DEF Panel!Positions
<1>4. /\ seat \in [1..Len(members) -> {"waits", "asks", "left"}]
      /\ results \in [1..Len(members) -> [member : Panel!Refs \union {Panel!NoOne}, leg : Panel!Legs]]
  BY <1>2 DEF Panel!TypeOK, Panel!Positions
<1>5. held = Cardinality(Asking(seat))
  BY <1>2, SameCount DEF Panel!PlacesAreHeld, Asking
<1>6. held' = Cardinality(Asking(seat'))
  BY <1>1, <1>3, <1>5, PlaceTaken
<1>7. held' \in 0..FanLimit
  BY <1>1, <1>3
<1>8. seat' \in [1..Len(members) -> {"waits", "asks", "left"}]
  BY <1>1, <1>4
<1>9. ASSUME NEW q \in 1..Len(members), seat'[q] = "left"
      PROVE  /\ results'[q].member = members[q]
             /\ ~gone => results'[q].leg = answers[members[q]]
  <2>1. seat[q] = "left"
    BY <1>1, <1>3, <1>9
  <2> QED BY <1>1, <1>2, <2>1 DEF Panel!ResultsTold, Panel!Positions
<1> QED BY <1>1, <1>4, <1>6, <1>7, <1>8, <1>9, FanMoves

LEMMA LeaveFanInv ==
  ASSUME Panel!FusionInv, NEW p \in Panel!Positions, Panel!Leave(p)
  PROVE  Panel!FusionInv'
<1>1. PICK ending \in {answers[members[p]]} \union IF gone THEN {"failed"} ELSE {} :
        /\ stage = "fan" /\ seat[p] = "asks"
        /\ results' = [results EXCEPT ![p] = [member |-> members[p], leg |-> ending]]
        /\ seat' = [seat EXCEPT ![p] = "left"] /\ held' = held - 1
        /\ UNCHANGED <<answers, wants, judges, stage, members, gone, read, served>>
  BY DEF Panel!Leave, Panel!Slot, Panel!Released, Panel!Given
<1>2. Panel!TypeOK /\ Panel!PlacesAreHeld /\ Panel!ResultsTold
  BY DEF Panel!FusionInv, Panel!FusionSound
<1>3. /\ DOMAIN seat = 1..Len(members) /\ Len(members) \in Nat
      /\ DOMAIN results = 1..Len(members)
      /\ held \in 0..FanLimit /\ FanLimit \in Nat \ {0} /\ p \in 1..Len(members)
  BY <1>2, PanelTyped DEF Panel!Positions
<1>4. /\ seat \in [1..Len(members) -> {"waits", "asks", "left"}]
      /\ results \in [1..Len(members) -> [member : Panel!Refs \union {Panel!NoOne}, leg : Panel!Legs]]
  BY <1>2 DEF Panel!TypeOK, Panel!Positions
<1>5. held = Cardinality(Asking(seat))
  BY <1>2, SameCount DEF Panel!PlacesAreHeld, Asking
<1>6. held' = Cardinality(Asking(seat')) /\ held' \in 0..FanLimit
  <2>1. held' = Cardinality(Asking(seat'))
    BY <1>1, <1>3, <1>5, PlaceLeft
  <2>2. DOMAIN seat' = 1..Len(members)
    BY <1>1, <1>3
  <2>3. held' \in Nat
    BY <1>3, <2>1, <2>2, AskingFinite
  <2> QED BY <1>1, <1>3, <2>1, <2>3
<1>7. seat' \in [1..Len(members) -> {"waits", "asks", "left"}]
  BY <1>1, <1>4
<1>8. members[p] \in Panel!Resolved
  <2>1. members \in Panel!Ascending(Panel!Resolved)
    BY <1>1 DEF Panel!FusionInv, Panel!MembersResolved
  <2> QED BY <1>3, <2>1, AscendingListed
<1>9. members[p] \in Panel!Refs /\ answers[members[p]] \in Panel!Legs
  BY <1>2, <1>8 DEF Panel!Resolved, Panel!TypeOK
<1>10. ending \in Panel!Legs
  BY <1>1, <1>9 DEF Panel!Legs
<1>11. results' \in [1..Len(members) -> [member : Panel!Refs \union {Panel!NoOne}, leg : Panel!Legs]]
  BY <1>1, <1>4, <1>9, <1>10
<1>12. ASSUME NEW q \in 1..Len(members), seat'[q] = "left"
       PROVE  /\ results'[q].member = members[q]
              /\ ~gone => results'[q].leg = answers[members[q]]
  <2>1. CASE q = p
    BY <1>1, <1>3, <2>1
  <2>2. CASE q # p
    <3>1. seat[q] = "left" /\ results'[q] = results[q]
      BY <1>1, <1>3, <1>12, <2>2
    <3> QED BY <1>2, <3>1 DEF Panel!ResultsTold, Panel!Positions
  <2> QED BY <2>1, <2>2
<1> QED BY <1>1, <1>6, <1>7, <1>11, <1>12, FanMoves

LEMMA ResolveInv ==
  ASSUME Panel!FusionInv, Panel!Resolve
  PROVE  Panel!FusionInv'
<1>1. /\ stage = "members" /\ members' \in Panel!Ascending(Panel!Resolved)
      /\ seat' = [p \in 1..Len(members') |-> "waits"]
      /\ results' = [p \in 1..Len(members') |-> Panel!Unwritten]
      /\ IF members' = <<>> THEN stage' = "done" /\ served' = [from |-> 0, error |-> TRUE]
                            ELSE stage' = "fan" /\ UNCHANGED served
      /\ UNCHANGED <<answers, wants, judges, held, gone, read>>
  BY DEF Panel!Resolve, Panel!Given, Panel!Serve, Panel!Resolved, Panel!NoOne
<1>2. /\ Panel!TypeOK /\ Panel!PlacesAreHeld /\ members = <<>> /\ read = <<>>
  BY <1>1 DEF Panel!FusionInv, Panel!FusionSound, Panel!MembersResolved
<1>3. /\ members' \in Seq(Panel!Resolved) /\ Len(members') \in 0..Size
      /\ \A x \in Panel!Resolved : \E i \in 1..Len(members') : members'[i] = x
  BY <1>1, AscendingListed
<1>4. Panel!Resolved \subseteq Panel!Refs
  BY DEF Panel!Resolved
<1>5. Asking(seat) = {} /\ Asking(seat') = {} /\ held = 0
  <2>1. DOMAIN seat = 1..0
    BY <1>2, PanelTyped, EmptySeq
  <2>2. Asking(seat) = {}
    BY <2>1 DEF Asking
  <2>3. Asking(seat') = {}
    BY <1>1 DEF Asking
  <2>4. held = 0
    BY <1>2, <2>2, SameCount, FS_EmptySet DEF Panel!PlacesAreHeld, Asking
  <2> QED BY <2>2, <2>3, <2>4
<1>6. Panel!TypeOK'
  <2>1. members' \in Seq(Panel!Refs)
    BY <1>3, <1>4
  <2>2. /\ seat' \in [1..Len(members') -> {"waits", "asks", "left"}]
        /\ results' \in [1..Len(members') -> [member : Panel!Refs \union {Panel!NoOne}, leg : Panel!Legs]]
    BY <1>1 DEF Panel!Unwritten, Panel!Legs
  <2>3. [from |-> 0, error |-> TRUE] \in
          [from : Panel!Refs \union {Panel!NoOne, Panel!Judge}, error : BOOLEAN]
    BY DEF Panel!NoOne
  <2>4. served' \in [from : Panel!Refs \union {Panel!NoOne, Panel!Judge}, error : BOOLEAN]
    BY <1>1, <1>2, <2>3 DEF Panel!TypeOK
  <2>5. stage' \in {"members", "fan", "again", "judge", "done"}
    BY <1>1
  <2> QED BY <1>1, <1>2, <2>1, <2>2, <2>4, <2>5 DEF Panel!TypeOK, Panel!Positions, Panel!Range
<1>7. Panel!PlacesAreHeld'
  <2>1. {p \in DOMAIN seat' : seat'[p] = "asks"} = {}
    BY <1>5 DEF Asking
  <2>2. Panel!Cardinality({}) = 0
    BY SameCount, FS_EmptySet
  <2>3. Panel!Cardinality({p \in DOMAIN seat' : seat'[p] = "asks"}) = 0
    BY <2>1, <2>2
  <2>4. held' = 0 /\ 0 <= FanLimit
    BY <1>1, <1>5, PanelConstants
  <2> QED BY <2>3, <2>4 DEF Panel!PlacesAreHeld
<1>8. Panel!ServedAsInOrder'
  <2> SUFFICES ASSUME stage' = "done" PROVE Panel!ServedAsInOrder'
    BY DEF Panel!ServedAsInOrder
  <2>1. members' = <<>> /\ served' = [from |-> 0, error |-> TRUE]
    BY <1>1
  <2>2. Panel!Resolved = {}
    BY <1>3, <2>1, EmptySeq
  <2>3. Panel!Texted = {} /\ Panel!Failing = {}
    BY <2>2 DEF Panel!Texted, Panel!Failing, Panel!Resolved, Panel!Answered
  <2>4. Panel!Texted' = {} /\ Panel!Failing' = {}
    BY <1>1, <2>3 DEF Panel!Texted, Panel!Failing
  <2>5. Panel!Cardinality({}) = 0
    BY SameCount, FS_EmptySet
  <2> QED BY <2>1, <2>4, <2>5 DEF Panel!ServedAsInOrder, Panel!NoOne
<1>9. Panel!MembersResolved'
  BY <1>1 DEF Panel!MembersResolved, Panel!Resolved, Panel!Ascending, Panel!Range
<1>10. Panel!ResultsTold'
  BY <1>1 DEF Panel!ResultsTold, Panel!Positions
<1>11. Panel!ChosenAfterAll'
  <2>1. stage' = "done" => \A p \in 1..Len(members') : FALSE
    BY <1>1, EmptySeq
  <2> QED BY <1>1, <1>2, <2>1 DEF Panel!ChosenAfterAll, Panel!Positions
<1> QED BY <1>6, <1>7, <1>8, <1>9, <1>10, <1>11 DEF Panel!FusionInv, Panel!FusionSound

\* What stays when the members have been heard and only what is served, or read, moves.
LEMMA HeardMoves ==
  ASSUME Panel!FusionInv, stage \in {"fan", "again", "judge"},
         \A p \in Panel!Positions : seat[p] = "left",
         UNCHANGED <<answers, wants, judges, members, seat, held, results, gone>>,
         stage' \in {"again", "judge", "done"}, Panel!Range(read') \subseteq Panel!Refs,
         served' \in [from : Panel!Refs \union {Panel!NoOne, Panel!Judge}, error : BOOLEAN],
         Panel!ServedAsInOrder',
         stage' = "again" => read' = <<>> /\ Panel!Cardinality(Panel!Texts) = 1 /\ wants,
         stage' = "judge" /\ ~gone =>
           Panel!Cardinality(Panel!Texted) > 1 /\ read' \in Panel!Ascending(Panel!Texted)
  PROVE  Panel!FusionInv'
<1>1. Panel!TypeOK'
  BY DEF Panel!FusionInv, Panel!TypeOK, Panel!Positions, Panel!Refs, Panel!Range
<1>2. Panel!PlacesAreHeld'
  BY DEF Panel!FusionInv, Panel!FusionSound, Panel!PlacesAreHeld, Panel!Cardinality, Panel!IsFiniteSet
<1>3. Panel!MembersResolved'
  BY DEF Panel!FusionInv, Panel!MembersResolved, Panel!Resolved, Panel!Refs, Panel!Ascending,
         Panel!Range
<1>4. Panel!ResultsTold'
  BY DEF Panel!FusionInv, Panel!ResultsTold, Panel!Positions
<1>5. Panel!ChosenAfterAll'
  <2>1. Panel!Texts' = Panel!Texts /\ Panel!Texted' = Panel!Texted
    BY DEF Panel!Texts, Panel!Texted
  <2>2. Panel!Cardinality(Panel!Texts)' = Panel!Cardinality(Panel!Texts)
    BY <2>1 DEF Panel!Cardinality, Panel!IsFiniteSet
  <2>3. Panel!Cardinality(Panel!Texted)' = Panel!Cardinality(Panel!Texted)
    BY <2>1 DEF Panel!Cardinality, Panel!IsFiniteSet
  <2>4. Panel!Ascending(Panel!Texted)' = Panel!Ascending(Panel!Texted)
    BY <2>1 DEF Panel!Ascending, Panel!Range
  <2>5. \A p \in Panel!Positions' : seat'[p] = "left"
    BY DEF Panel!Positions
  <2> QED BY <2>2, <2>3, <2>4, <2>5 DEF Panel!ChosenAfterAll
<1> QED BY <1>1, <1>2, <1>3, <1>4, <1>5 DEF Panel!FusionInv, Panel!FusionSound

\* What the client was served, stated over the state it was served in.
LEMMA ServedMoves ==
  ASSUME UNCHANGED <<answers, wants, judges, gone>>,
         stage' = "done" /\ ~gone =>
           /\ Panel!Cardinality(Panel!Texted) > 1 =>
                /\ read' \in Panel!Ascending(Panel!Texted)
                /\ served' = [from |-> IF judges = "gone" THEN Panel!NoOne ELSE Panel!Judge,
                              error |-> judges # "text"]
           /\ Panel!Cardinality(Panel!Texted) = 1 =>
                /\ read' = <<>> /\ served'.from \in Panel!Texted
                /\ served'.error => wants
           /\ Panel!Texted = {} =>
                served' = [from |-> IF Panel!Failing # {} /\ answers[Panel!Min(Panel!Failing)] # "panic"
                                    THEN Panel!Min(Panel!Failing) ELSE Panel!NoOne,
                           error |-> TRUE]
  PROVE  Panel!ServedAsInOrder'
<1>1. Panel!Texted' = Panel!Texted /\ Panel!Failing' = Panel!Failing
  BY DEF Panel!Texted, Panel!Failing
<1>2. Panel!Cardinality(Panel!Texted)' = Panel!Cardinality(Panel!Texted)
  BY <1>1 DEF Panel!Cardinality, Panel!IsFiniteSet
<1>3. Panel!Ascending(Panel!Texted)' = Panel!Ascending(Panel!Texted)
  BY <1>1 DEF Panel!Ascending, Panel!Range
<1>4. Panel!Min(Panel!Failing)' = Panel!Min(Panel!Failing)
  BY <1>1 DEF Panel!Min
<1> QED BY <1>1, <1>2, <1>3, <1>4 DEF Panel!ServedAsInOrder

\* Everybody has left: the results name their members, and the texts are finitely many.
LEMMA Heard ==
  ASSUME Panel!FusionInv, stage \in {"fan", "again", "judge"},
         \A p \in Panel!Positions : seat[p] = "left"
  PROVE  /\ \A p \in 1..Len(members) : seat[p] = "left"
         /\ stage # "members" /\ Panel!Texts \subseteq 1..Len(members)
         /\ Panel!Texts \subseteq Nat /\ IsFiniteSet(Panel!Texts)
         /\ \A p \in 1..Len(members) : results[p].member = members[p] /\ members[p] \in Panel!Refs
         /\ DOMAIN results = 1..Len(members) /\ Len(members) \in Nat
<1>1. Panel!TypeOK /\ Panel!ResultsTold
  BY DEF Panel!FusionInv
<1>2. /\ DOMAIN results = 1..Len(members) /\ Len(members) \in Nat
      /\ \A p \in 1..Len(members) : members[p] \in 1..Size
  BY <1>1, PanelTyped
<1>3. Panel!Texts \subseteq 1..Len(members)
  BY <1>2 DEF Panel!Texts
<1>4. IsFiniteSet(1..Len(members))
  BY <1>2, FS_Interval
<1>5. IsFiniteSet(Panel!Texts)
  BY <1>3, <1>4, FS_Subset
<1> QED BY <1>1, <1>2, <1>3, <1>5 DEF Panel!ResultsTold, Panel!Positions, Panel!Refs

\* The one text is one of the members', and of one that has a text to give.
LEMMA OneText ==
  ASSUME Panel!FusionInv, stage \in {"fan", "again"},
         \A p \in Panel!Positions : seat[p] = "left", Panel!Cardinality(Panel!Texts) = 1
  PROVE  /\ Panel!FirstOf(Panel!Texts).member \in Panel!Refs
         /\ ~gone => /\ Panel!Cardinality(Panel!Texted) = 1
                     /\ Panel!FirstOf(Panel!Texts).member \in Panel!Texted
<1>1. Panel!Texts # {}
  <2>1. Cardinality(Panel!Texts) = 1
    BY SameCount
  <2> QED BY <2>1, FS_EmptySet
<1>2. Panel!Min(Panel!Texts) \in Panel!Texts
  BY <1>1, Heard, MinIsLeast
<1> DEFINE p == Panel!Min(Panel!Texts)
<1>3. p \in 1..Len(members) /\ results[p].member = members[p] /\ members[p] \in Panel!Refs
  BY <1>2, Heard
<1>4. ASSUME ~gone
      PROVE  Panel!Cardinality(Panel!Texted) = 1 /\ members[p] \in Panel!Texted
  <2>1. \A q \in 1..Len(members) : seat[q] = "left"
    BY Heard
  <2>2. Panel!Cardinality(Panel!Texted) = 1
    BY <1>4, <2>1, TextsCounted, SameCount
  <2>3. members[p] \in Panel!Texted
    BY <1>2, <1>3, <1>4, <2>1, AnswersTold
  <2> QED BY <2>2, <2>3
<1> QED BY <1>3, <1>4 DEF Panel!FirstOf

LEMMA ChooseNone ==
  ASSUME Panel!FusionInv, Panel!Choose, Panel!Texts = {}, stage' = "done", read' = read,
         served' = [from |-> IF Panel!FirstOf(Panel!Failures).leg = "panic" THEN Panel!NoOne
                             ELSE Panel!FirstOf(Panel!Failures).member, error |-> TRUE]
  PROVE  Panel!FusionInv'
<1>1. /\ stage = "fan" /\ \A p \in Panel!Positions : seat[p] = "left"
      /\ UNCHANGED <<answers, wants, judges, members, seat, held, results, gone>>
  BY DEF Panel!Choose, Panel!Given
<1> DEFINE first == Panel!FirstOf(Panel!Failures)
<1>2. Panel!TypeOK /\ members # <<>>
  BY <1>1 DEF Panel!FusionInv, Panel!MembersResolved
<1>3. first.member \in Panel!Refs
  <2>1. Panel!Failures = 1..Len(members) /\ 1 \in 1..Len(members)
    BY <1>1, <1>2, Heard, EmptySeq DEF Panel!Failures
  <2>2. 1..Len(members) \subseteq Nat /\ 1..Len(members) # {}
    BY <2>1
  <2>3. Panel!Min(1..Len(members)) \in 1..Len(members)
    BY <2>2, MinIsLeast
  <2>4. first = results[Panel!Min(1..Len(members))]
    BY <2>1 DEF Panel!FirstOf
  <2> QED BY <1>1, <2>3, <2>4, Heard
<1>4. ASSUME ~gone
      PROVE  /\ Panel!Texted = {} /\ Panel!Failing # {}
             /\ first.member = Panel!Min(Panel!Failing)
             /\ first.leg = answers[Panel!Min(Panel!Failing)]
  BY <1>1, <1>2, <1>4, Heard, FirstFailure
<1>5. Panel!Cardinality({}) = 0
  BY SameCount, FS_EmptySet
<1> HIDE DEF first
<1>6. served' = [from |-> IF first.leg = "panic" THEN Panel!NoOne ELSE first.member, error |-> TRUE]
  BY DEF first
<1>7. Panel!ServedAsInOrder'
  <2>1. ASSUME ~gone
        PROVE  served' = [from |-> IF Panel!Failing # {} /\ answers[Panel!Min(Panel!Failing)] # "panic"
                                   THEN Panel!Min(Panel!Failing) ELSE Panel!NoOne,
                          error |-> TRUE]
    BY <1>4, <1>6, <2>1
  <2>2. ~gone => Panel!Cardinality(Panel!Texted) = 0
    BY <1>4, <1>5
  <2> QED BY <1>1, <2>1, <2>2, ServedMoves
<1>8. served' \in [from : Panel!Refs \union {Panel!NoOne, Panel!Judge}, error : BOOLEAN]
  <2>1. (IF first.leg = "panic" THEN Panel!NoOne ELSE first.member)
          \in Panel!Refs \union {Panel!NoOne, Panel!Judge}
    BY <1>3
  <2> QED BY <1>6, <2>1
<1>9. Panel!Range(read') \subseteq Panel!Refs
  BY <1>2 DEF Panel!TypeOK
<1> QED BY <1>1, <1>7, <1>8, <1>9, HeardMoves

LEMMA ChooseOne ==
  ASSUME Panel!FusionInv, Panel!Choose, Panel!Cardinality(Panel!Texts) = 1, read' = read,
         \/ ~wants /\ Panel!Serve(Panel!FirstOf(Panel!Texts).member, FALSE)
         \/ wants /\ stage' = "again" /\ UNCHANGED served
  PROVE  Panel!FusionInv'
<1>1. /\ stage = "fan" /\ \A p \in Panel!Positions : seat[p] = "left"
      /\ UNCHANGED <<answers, wants, judges, members, seat, held, results, gone>>
  BY DEF Panel!Choose, Panel!Given
<1> DEFINE who == Panel!FirstOf(Panel!Texts).member
<1>2. Panel!TypeOK /\ read = <<>>
  BY <1>1 DEF Panel!FusionInv, Panel!ChosenAfterAll
<1>3. /\ who \in Panel!Refs
      /\ ~gone => Panel!Cardinality(Panel!Texted) = 1 /\ who \in Panel!Texted
  BY <1>1, OneText
<1> HIDE DEF who
<1>4. \/ ~wants /\ stage' = "done" /\ served' = [from |-> who, error |-> FALSE]
      \/ wants /\ stage' = "again" /\ UNCHANGED served
  BY DEF Panel!Serve, who
<1>5. Panel!Cardinality({}) = 0
  BY SameCount, FS_EmptySet
<1>6. Panel!ServedAsInOrder'
  BY <1>1, <1>2, <1>3, <1>4, <1>5, ServedMoves
<1>7. served' \in [from : Panel!Refs \union {Panel!NoOne, Panel!Judge}, error : BOOLEAN]
  <2>1. [from |-> who, error |-> FALSE] \in [from : Panel!Refs \union {Panel!NoOne, Panel!Judge}, error : BOOLEAN]
    BY <1>3
  <2>2. served \in [from : Panel!Refs \union {Panel!NoOne, Panel!Judge}, error : BOOLEAN]
    BY <1>2 DEF Panel!TypeOK
  <2> QED BY <1>4, <2>1, <2>2
<1>8. Panel!Range(read') \subseteq Panel!Refs
  BY <1>2 DEF Panel!TypeOK
<1>9. stage' \in {"again", "done"}
  BY <1>4
<1> QED BY <1>1, <1>2, <1>4, <1>6, <1>7, <1>8, <1>9, HeardMoves

LEMMA ChooseMany ==
  ASSUME Panel!FusionInv, Panel!Choose, Panel!Cardinality(Panel!Texts) > 1, stage' = "judge",
         NEW texts \in Panel!Ascending(Panel!Texts),
         read' = [n \in DOMAIN texts |-> results[texts[n]].member], UNCHANGED served
  PROVE  Panel!FusionInv'
<1>1. /\ stage = "fan" /\ \A p \in Panel!Positions : seat[p] = "left"
      /\ UNCHANGED <<answers, wants, judges, members, seat, held, results, gone>>
  BY DEF Panel!Choose, Panel!Given
<1>2. Panel!TypeOK
  BY DEF Panel!FusionInv
<1>3. ASSUME ~gone
      PROVE  Panel!Cardinality(Panel!Texted) > 1 /\ read' \in Panel!Ascending(Panel!Texted)
  BY <1>1, <1>3, Heard, TextsCounted, ReadInOrder, SameCount
<1>4. Panel!Range(read') \subseteq Panel!Refs
  <2>1. DOMAIN texts = 1..Len(texts) /\ texts \in [1..Len(texts) -> Panel!Texts]
    BY AscendingListed
  <2>2. \A n \in 1..Len(texts) : results[texts[n]].member \in Panel!Refs
    BY <1>1, <2>1, Heard
  <2> QED BY <2>1, <2>2 DEF Panel!Range
<1>5. served' \in [from : Panel!Refs \union {Panel!NoOne, Panel!Judge}, error : BOOLEAN]
  BY <1>2 DEF Panel!TypeOK
<1>6. Panel!ServedAsInOrder'
  BY <1>1, ServedMoves
<1>7. stage' = "judge"
  OBVIOUS
<1> QED BY <1>1, <1>3, <1>4, <1>5, <1>6, <1>7, HeardMoves

LEMMA ChooseInv ==
  ASSUME Panel!FusionInv, Panel!Choose
  PROVE  Panel!FusionInv'
<1>1. CASE /\ Panel!Texts = {} /\ UNCHANGED read
           /\ LET first == Panel!FirstOf(Panel!Failures) IN
              Panel!Serve(IF first.leg = "panic" THEN Panel!NoOne ELSE first.member, TRUE)
  BY <1>1, ChooseNone DEF Panel!Serve
<1>2. CASE /\ Panel!Cardinality(Panel!Texts) = 1 /\ ~wants /\ UNCHANGED read
           /\ Panel!Serve(Panel!FirstOf(Panel!Texts).member, FALSE)
  BY <1>2, ChooseOne
<1>3. CASE /\ Panel!Cardinality(Panel!Texts) = 1 /\ wants /\ stage' = "again"
           /\ UNCHANGED <<read, served>>
  BY <1>3, ChooseOne
<1>4. CASE /\ Panel!Cardinality(Panel!Texts) > 1 /\ stage' = "judge" /\ UNCHANGED served
           /\ \E texts \in Panel!Ascending(Panel!Texts) :
                read' = [n \in DOMAIN texts |-> results[texts[n]].member]
  BY <1>4, ChooseMany
<1> QED BY <1>1, <1>2, <1>3, <1>4 DEF Panel!Choose

LEMMA AskAgainInv ==
  ASSUME Panel!FusionInv, Panel!AskAgain
  PROVE  Panel!FusionInv'
<1> DEFINE who == Panel!FirstOf(Panel!Texts).member
<1>1. PICK error \in BOOLEAN :
        /\ stage = "again" /\ stage' = "done" /\ served' = [from |-> who, error |-> error]
        /\ UNCHANGED <<answers, wants, judges, members, seat, held, results, gone, read>>
  BY DEF Panel!AskAgain, Panel!Given, Panel!Serve
<1>2. /\ Panel!TypeOK /\ read = <<>> /\ wants /\ Panel!Cardinality(Panel!Texts) = 1
      /\ \A p \in Panel!Positions : seat[p] = "left"
  BY <1>1 DEF Panel!FusionInv, Panel!ChosenAfterAll
<1>3. /\ who \in Panel!Refs
      /\ ~gone => Panel!Cardinality(Panel!Texted) = 1 /\ who \in Panel!Texted
  BY <1>1, <1>2, OneText
<1> HIDE DEF who
<1>4. Panel!Cardinality({}) = 0
  BY SameCount, FS_EmptySet
<1>5. Panel!ServedAsInOrder'
  BY <1>1, <1>2, <1>3, <1>4, ServedMoves
<1>6. served' \in [from : Panel!Refs \union {Panel!NoOne, Panel!Judge}, error : BOOLEAN]
  BY <1>1, <1>3
<1>7. Panel!Range(read') \subseteq Panel!Refs
  BY <1>1, <1>2 DEF Panel!TypeOK
<1> QED BY <1>1, <1>2, <1>5, <1>6, <1>7, HeardMoves

LEMMA AskJudgeInv ==
  ASSUME Panel!FusionInv, Panel!AskJudge
  PROVE  Panel!FusionInv'
<1>1. PICK ending \in {judges} \union IF gone /\ judges # "gone" THEN {"failed"} ELSE {} :
        /\ stage = "judge" /\ stage' = "done"
        /\ served' = [from |-> IF ending = "gone" THEN Panel!NoOne ELSE Panel!Judge,
                      error |-> ending # "text"]
        /\ UNCHANGED <<answers, wants, judges, members, seat, held, results, gone, read>>
  BY DEF Panel!AskJudge, Panel!Given, Panel!Serve, Panel!Answered
<1>2. /\ Panel!TypeOK
      /\ ~gone => Panel!Cardinality(Panel!Texted) > 1 /\ read \in Panel!Ascending(Panel!Texted)
      /\ \A p \in Panel!Positions : seat[p] = "left"
  BY <1>1 DEF Panel!FusionInv, Panel!ChosenAfterAll
<1>3. Panel!Cardinality({}) = 0
  BY SameCount, FS_EmptySet
<1>4. ~gone => Panel!Cardinality(Panel!Texted) # 1 /\ Panel!Texted # {}
  BY <1>2, <1>3
<1>5. ~gone => ending = judges
  BY <1>1
<1>6. Panel!ServedAsInOrder'
  BY <1>1, <1>2, <1>4, <1>5, ServedMoves
<1>7. served' \in [from : Panel!Refs \union {Panel!NoOne, Panel!Judge}, error : BOOLEAN]
  BY <1>1
<1>8. Panel!Range(read') \subseteq Panel!Refs
  BY <1>1, <1>2 DEF Panel!TypeOK
<1> QED BY <1>1, <1>2, <1>6, <1>7, <1>8, HeardMoves

LEMMA HangUpInv ==
  ASSUME Panel!FusionInv, Panel!HangUp
  PROVE  Panel!FusionInv'
<1>1. /\ gone' = TRUE
      /\ UNCHANGED <<answers, wants, judges, stage, members, seat, held, results, read, served>>
  BY DEF Panel!HangUp, Panel!Given
<1>2. Panel!TypeOK'
  BY <1>1 DEF Panel!FusionInv, Panel!TypeOK, Panel!Positions, Panel!Range
<1>3. Panel!PlacesAreHeld'
  BY <1>1 DEF Panel!FusionInv, Panel!FusionSound, Panel!PlacesAreHeld, Panel!Cardinality, Panel!IsFiniteSet
<1>4. Panel!ServedAsInOrder'
  BY <1>1 DEF Panel!ServedAsInOrder
<1>5. Panel!MembersResolved'
  BY <1>1 DEF Panel!FusionInv, Panel!MembersResolved, Panel!Resolved, Panel!Ascending, Panel!Range
<1>6. Panel!ResultsTold'
  BY <1>1 DEF Panel!FusionInv, Panel!ResultsTold, Panel!Positions
<1>7. Panel!ChosenAfterAll'
  BY <1>1 DEF Panel!FusionInv, Panel!ChosenAfterAll, Panel!Positions, Panel!Texts,
              Panel!Cardinality, Panel!IsFiniteSet
<1> QED BY <1>2, <1>3, <1>4, <1>5, <1>6, <1>7 DEF Panel!FusionInv, Panel!FusionSound

LEMMA FusionStep ==
  ASSUME Panel!FusionInv, Panel!Next
  PROVE  Panel!FusionInv'
BY ResolveInv, ChooseInv, AskAgainInv, AskJudgeInv, EnterInv, LeaveFanInv, HangUpInv
   DEF Panel!Next, Panel!Ends

LEMMA FusionStart == ASSUME Panel!Init PROVE Panel!FusionInv
<1>1. /\ members = <<>> /\ seat = <<>> /\ results = <<>> /\ held = 0 /\ stage = "members"
      /\ gone = FALSE /\ read = <<>> /\ served = [from |-> 0, error |-> FALSE]
      /\ answers \in [Panel!Refs -> Panel!Legs \union {"gone"}]
      /\ wants \in BOOLEAN /\ judges \in {"text", "failed", "gone"}
  BY DEF Panel!Init, Panel!Nothing, Panel!NoOne
<1>2. 1..Len(members) = {} /\ DOMAIN members = {} /\ DOMAIN seat = {} /\ DOMAIN results = {}
  BY <1>1
<1>3. Panel!TypeOK
  <2>1. Panel!Range(read) = {}
    BY <1>1 DEF Panel!Range
  <2>2. /\ seat \in [1..Len(members) -> {"waits", "asks", "left"}]
        /\ results \in [1..Len(members) -> [member : Panel!Refs \union {Panel!NoOne}, leg : Panel!Legs]]
    BY <1>1, <1>2
  <2>3. held \in 0..FanLimit
    BY <1>1, PanelConstants
  <2>4. [from |-> 0, error |-> FALSE] \in
          [from : Panel!Refs \union {Panel!NoOne, Panel!Judge}, error : BOOLEAN]
    BY DEF Panel!NoOne
  <2>5. members \in Seq(Panel!Refs)
    BY <1>1
  <2> QED BY <1>1, <2>1, <2>2, <2>3, <2>4, <2>5 DEF Panel!TypeOK, Panel!Positions
<1>4. Panel!PlacesAreHeld
  <2>1. {p \in DOMAIN seat : seat[p] = "asks"} = {}
    BY <1>2
  <2>2. Panel!Cardinality({}) = 0
    BY SameCount, FS_EmptySet
  <2> QED BY <1>1, <2>1, <2>2, PanelConstants DEF Panel!PlacesAreHeld
<1> QED BY <1>1, <1>2, <1>3, <1>4
        DEF Panel!FusionInv, Panel!FusionSound, Panel!ServedAsInOrder, Panel!MembersResolved,
            Panel!ResultsTold, Panel!ChosenAfterAll, Panel!Positions

\* However a panel's members interleave on the places there are, every place is held by a
\* member being asked, and a client that waits is served what asking them in turn would
\* have given (dataplane/engine_fusion.go).
THEOREM FusionHolds == Spec => []FusionSound
<1> DEFINE Inv == part = "fusion" => Panel!FusionInv
<1>1. Init => Inv
  BY FusionStart DEF Init
<1>2. Inv /\ [Next]_partsVars => Inv'
  <2> SUFFICES ASSUME Inv, [Next]_partsVars, part' = "fusion" PROVE Panel!FusionInv'
    OBVIOUS
  <2>1. CASE Next
    <3>1. part = "fusion" /\ Panel!Next
      BY <2>1 DEF Next
    <3> QED BY <3>1, FusionStep
  <2>2. CASE UNCHANGED partsVars
    <3>1. /\ part = "fusion"
          /\ UNCHANGED <<answers, wants, judges, stage, members, seat, held, results, gone, read, served>>
      BY <2>2 DEF partsVars
    <3> QED BY <3>1
            DEF Panel!FusionInv, Panel!TypeOK, Panel!FusionSound, Panel!PlacesAreHeld,
                Panel!ServedAsInOrder, Panel!MembersResolved, Panel!ResultsTold,
                Panel!ChosenAfterAll, Panel!Positions, Panel!Texts, Panel!Texted, Panel!Failing,
                Panel!Resolved, Panel!Ascending, Panel!Range, Panel!Cardinality,
                Panel!IsFiniteSet, Panel!Min
  <2> QED BY <2>1, <2>2
<1>3. Inv => FusionSound
  BY DEF FusionSound, Panel!FusionInv
<1> QED BY <1>1, <1>2, <1>3, PTL DEF Spec

-----------------------------------------------------------------------------
(* The walk over the credentials. *)

---------------------------------------------------------------------------
(* Whose turn it is                                                        *)

LEMMA SelectionConstants ==
  /\ Accounts \in Seq(Walk!AccountSet) /\ HeldKeys \in [Walk!AccountSet -> Seq(Walk!AllKeys)]
  /\ Sticky \in Nat \ {0}
  BY PartsAssumption DEF Walk!SelectionWalkAssumption

\* What a remainder is, and that the next position of several is another one.
LEMMA ModParts ==
  ASSUME NEW n \in Nat \ {0}, NEW k \in Nat
  PROVE  k = n * (k \div n) + (k % n) /\ k \div n \in Nat /\ k % n \in 0..(n - 1)
  OBVIOUS

LEMMA ModOfSum ==
  ASSUME NEW n \in Nat \ {0}, NEW d \in Nat, NEW m \in 0..(n - 1)
  PROVE  (n * d + m) % n = m
  OBVIOUS

LEMMA ModOfSmall ==
  ASSUME NEW n \in Nat \ {0}, NEW m \in 0..(n - 1)
  PROVE  m % n = m
  OBVIOUS

LEMMA ModMoves ==
  ASSUME NEW n \in Nat, n > 1, NEW at \in 0..(n - 1)
  PROVE  (at + 1) % n \in 0..(n - 1) /\ (at + 1) % n # at
<1>1. CASE at + 1 < n
  <2>1. at + 1 \in 0..(n - 1) /\ n \in Nat \ {0}
    BY <1>1
  <2>2. (at + 1) % n = at + 1
    BY <2>1, ModOfSmall
  <2> QED BY <2>1, <2>2
<1>2. CASE at + 1 = n
  <2>1. n * 1 + 0 = n /\ 0 \in 0..(n - 1) /\ 1 \in Nat /\ n \in Nat \ {0}
    OBVIOUS
  <2>2. (n * 1 + 0) % n = 0
    BY <2>1, ModOfSum
  <2> QED BY <1>2, <2>1, <2>2
<1> QED BY <1>1, <1>2

\* Going round from anywhere reaches every place.
LEMMA ModHits ==
  ASSUME NEW n \in Nat \ {0}, NEW k \in Nat, NEW j \in 0..(n - 1)
  PROVE  \E i \in 0..(n - 1) : (k + i) % n = j
<1> DEFINE o == k % n
           d == k \div n
<1>1. k = n * d + o /\ d \in Nat /\ o \in 0..(n - 1)
  BY ModParts
<1> HIDE DEF o, d
<1>2. CASE o <= j
  <2>1. j - o \in 0..(n - 1) /\ k + (j - o) = n * d + j
    BY <1>1, <1>2
  <2> QED BY <1>1, <2>1, ModOfSum
<1>3. CASE j < o
  <2>1. (j - o) + n \in 0..(n - 1)
    BY <1>1, <1>3
  <2>2. n * (d + 1) = n * d + n /\ d + 1 \in Nat /\ n * d \in Nat
    BY <1>1
  <2>3. k + ((j - o) + n) = n * (d + 1) + j
    BY <1>1, <2>2
  <2> QED BY <2>1, <2>2, <2>3, ModOfSum
<1> QED BY <1>1, <1>2, <1>3

\* A run goes on, a run ends after its Sticky turns, or the size is met anew.
LEMMA RunGoesOn ==
  ASSUME NEW h \in Seq(Nat), h # <<>>, NEW size, NEW u \in Nat, u < Sticky,
         Walk!TurnsTaken(h, size), NEW s, Walk!LastRun(h, s, u)
  PROVE  /\ Walk!TurnsTaken(Append(h, h[Len(h)]), size)
         /\ Walk!LastRun(Append(h, h[Len(h)]), s, u + 1)
         /\ s \in Walk!RunsFrom(Append(h, h[Len(h)]))
<1> DEFINE x == h[Len(h)]
           g == Append(h, x)
           L == Len(h)
<1>1. L \in Nat \ {0} /\ DOMAIN h = 1..L /\ x \in Nat
  BY EmptySeq
<1>2. Len(g) = L + 1 /\ DOMAIN g = 1..(L + 1) /\ g[L + 1] = x /\ \A i \in 1..L : g[i] = h[i]
  BY <1>1
<1> HIDE DEF g
<1>3. Walk!RunsFrom(g) = Walk!RunsFrom(h)
  BY <1>1, <1>2 DEF Walk!RunsFrom
<1>4. \A i : Walk!After(g, i) = Walk!After(h, i) /\ Walk!NextRun(g, i) = Walk!NextRun(h, i)
  BY <1>3 DEF Walk!After, Walk!NextRun
<1>5. Walk!RunsFrom(h) \subseteq 1..L
  BY <1>1 DEF Walk!RunsFrom
<1>6. /\ s \in 1..L /\ s \in Walk!RunsFrom(h) /\ L + 1 - s <= u /\ (s = 1 \/ L + 1 - s = u)
      /\ \A i \in Walk!RunsFrom(h) : i <= s
      /\ \A i \in s..L : h[i] = h[s]
  BY <1>5 DEF Walk!LastRun
<1>7. ASSUME NEW i \in Walk!RunsFrom(g)
      PROVE  IF Walk!After(g, i) = {} THEN Len(g) + 1 - i <= Sticky
             ELSE /\ Walk!NextRun(g, i) - i <= Sticky
                  /\ i = 1 \/ Walk!NextRun(g, i) - i = Sticky
                  /\ g[Walk!NextRun(g, i)] = (g[i] + 1) % size
  <2>1. i \in Walk!RunsFrom(h) /\ i \in 1..L
    BY <1>3, <1>5
  <2>2. CASE Walk!After(h, i) = {}
    <3>1. s <= i /\ i <= s
      BY <1>6, <2>1, <2>2, <1>5 DEF Walk!After
    <3>2. Len(g) + 1 - i <= Sticky
      BY <1>1, <1>2, <1>6, <2>1, <3>1, SelectionConstants
    <3> QED BY <1>4, <2>2, <3>2
  <2>3. CASE Walk!After(h, i) # {}
    <3>1. Walk!After(h, i) \subseteq 1..L /\ Walk!After(h, i) \subseteq Nat
      BY <1>1, <1>5 DEF Walk!After
    <3>2. \E j \in Walk!After(h, i) : \A k \in Walk!After(h, i) : j <= k
      BY <2>3, <3>1, LeastExists
    <3>3. Walk!NextRun(h, i) \in 1..L
      BY <3>1, <3>2 DEF Walk!NextRun
    <3>4. /\ Walk!NextRun(h, i) - i <= Sticky
          /\ i = 1 \/ Walk!NextRun(h, i) - i = Sticky
          /\ h[Walk!NextRun(h, i)] = (h[i] + 1) % size
      BY <2>1, <2>3 DEF Walk!TurnsTaken
    <3> QED BY <1>2, <1>4, <2>1, <2>3, <3>3, <3>4
  <2> QED BY <2>2, <2>3
<1>8. Walk!TurnsTaken(g, size)
  BY <1>7 DEF Walk!TurnsTaken
<1>9. Walk!LastRun(g, s, u + 1)
  <2>1. \A i \in s..(L + 1) : g[i] = g[s]
    BY <1>1, <1>2, <1>6
  <2> QED BY <1>1, <1>2, <1>3, <1>6, <2>1 DEF Walk!LastRun
<1>10. s \in Walk!RunsFrom(g)
  BY <1>3, <1>6
<1> QED BY <1>8, <1>9, <1>10 DEF g

LEMMA RunEnds ==
  ASSUME NEW h \in Seq(Nat), h # <<>>, NEW size, NEW x \in Nat, x # h[Len(h)],
         x = (h[Len(h)] + 1) % size,
         Walk!TurnsTaken(h, size), NEW s, Walk!LastRun(h, s, Sticky)
  PROVE  /\ Walk!TurnsTaken(Append(h, x), size)
         /\ Walk!LastRun(Append(h, x), Len(h) + 1, 1)
         /\ Len(h) + 1 \in Walk!RunsFrom(Append(h, x))
<1> DEFINE g == Append(h, x)
           L == Len(h)
<1>1. L \in Nat \ {0} /\ DOMAIN h = 1..L
  BY EmptySeq
<1>2. Len(g) = L + 1 /\ DOMAIN g = 1..(L + 1) /\ g[L + 1] = x /\ \A i \in 1..L : g[i] = h[i]
  BY <1>1
<1> HIDE DEF g
<1>3. Walk!RunsFrom(g) = Walk!RunsFrom(h) \union {L + 1}
  BY <1>1, <1>2 DEF Walk!RunsFrom
<1>4. Walk!RunsFrom(h) \subseteq 1..L
  BY <1>1 DEF Walk!RunsFrom
<1>5. /\ s \in 1..L /\ s \in Walk!RunsFrom(h) /\ L + 1 - s <= Sticky /\ (s = 1 \/ L + 1 - s = Sticky)
      /\ \A i \in Walk!RunsFrom(h) : i <= s
      /\ h[L] = h[s]
  BY <1>1, <1>4 DEF Walk!LastRun
<1>6. \A i \in Walk!RunsFrom(h) : Walk!After(g, i) = Walk!After(h, i) \union {L + 1}
  BY <1>1, <1>3, <1>4 DEF Walk!After
<1>7. Walk!After(g, L + 1) = {}
  BY <1>1, <1>3, <1>4 DEF Walk!After
<1>8. ASSUME NEW i \in Walk!RunsFrom(g)
      PROVE  IF Walk!After(g, i) = {} THEN Len(g) + 1 - i <= Sticky
             ELSE /\ Walk!NextRun(g, i) - i <= Sticky
                  /\ i = 1 \/ Walk!NextRun(g, i) - i = Sticky
                  /\ g[Walk!NextRun(g, i)] = (g[i] + 1) % size
  <2>1. CASE i = L + 1
    <3>1. Len(g) + 1 - i = 1 /\ 1 <= Sticky
      BY <1>1, <1>2, <2>1, SelectionConstants
    <3> QED BY <1>7, <2>1, <3>1
  <2>2. CASE i \in Walk!RunsFrom(h) /\ Walk!After(h, i) = {}
    <3>1. i = s
      BY <1>4, <1>5, <2>2 DEF Walk!After
    <3>2. Walk!After(g, i) = {L + 1}
      BY <1>6, <2>2
    <3>3. Walk!NextRun(g, i) = L + 1
      BY <1>1, <3>2 DEF Walk!NextRun
    <3>4. g[L + 1] = (g[i] + 1) % size
      BY <1>1, <1>2, <1>5, <3>1
    <3> QED BY <1>5, <3>1, <3>2, <3>3, <3>4
  <2>3. CASE i \in Walk!RunsFrom(h) /\ Walk!After(h, i) # {}
    <3>1. Walk!After(h, i) \subseteq 1..L /\ Walk!After(h, i) \subseteq Nat
      BY <1>1, <1>4 DEF Walk!After
    <3>2. \E j \in Walk!After(h, i) : \A k \in Walk!After(h, i) : j <= k
      BY <2>3, <3>1, LeastExists
    <3>3. /\ Walk!NextRun(h, i) \in Walk!After(h, i)
          /\ \A k \in Walk!After(h, i) : Walk!NextRun(h, i) <= k
      BY <3>2 DEF Walk!NextRun
    <3> DEFINE m == Walk!NextRun(h, i)
    <3>4. m \in 1..L /\ \A k \in Walk!After(g, i) : m <= k
      BY <1>1, <1>6, <2>3, <3>1, <3>3
    <3>5. m \in Walk!After(g, i)
      BY <1>6, <2>3, <3>3
    <3>6. Walk!NextRun(g, i) \in Walk!After(g, i) /\ \A k \in Walk!After(g, i) : Walk!NextRun(g, i) <= k
      BY <3>4, <3>5 DEF Walk!NextRun
    <3> DEFINE next == Walk!NextRun(g, i)
    <3>7. next \in 1..(L + 1) /\ next <= m /\ m <= next
      BY <1>1, <1>6, <2>3, <3>1, <3>4, <3>5, <3>6
    <3> HIDE DEF m, next
    <3>8. next = m
      BY <1>1, <3>4, <3>7
    <3>9. /\ m - i <= Sticky
          /\ i = 1 \/ m - i = Sticky
          /\ h[m] = (h[i] + 1) % size
      BY <2>3 DEF Walk!TurnsTaken, m
    <3>10. Walk!After(g, i) # {} /\ i \in 1..L
      BY <1>4, <2>3, <3>5
    <3> QED BY <1>2, <3>4, <3>8, <3>9, <3>10 DEF next
  <2> QED BY <1>3, <2>1, <2>2, <2>3
<1>9. Walk!TurnsTaken(g, size)
  BY <1>8 DEF Walk!TurnsTaken
<1>10. L + 1 \in Walk!RunsFrom(g)
  BY <1>3
<1>11. Walk!LastRun(g, L + 1, 1)
  BY <1>1, <1>2, <1>3, <1>4, <1>10 DEF Walk!LastRun
<1> QED BY <1>9, <1>10, <1>11 DEF g

LEMMA RunBegins ==
  ASSUME NEW x \in Nat, NEW size, NEW u \in Nat \ {0}
  PROVE  /\ Walk!TurnsTaken(<<x>>, size) /\ Walk!LastRun(<<x>>, 1, u)
         /\ 1 \in Walk!RunsFrom(<<x>>)
<1> DEFINE g == <<x>>
<1>1. Len(g) = 1 /\ DOMAIN g = {1} /\ g[1] = x
  OBVIOUS
<1> HIDE DEF g
<1>2. Walk!RunsFrom(g) = {1}
  BY <1>1 DEF Walk!RunsFrom
<1>3. Walk!After(g, 1) = {}
  BY <1>2 DEF Walk!After
<1>4. Walk!TurnsTaken(g, size)
  BY <1>1, <1>2, <1>3, SelectionConstants DEF Walk!TurnsTaken
<1>5. Walk!LastRun(g, 1, u)
  BY <1>1, <1>2 DEF Walk!LastRun
<1> QED BY <1>2, <1>4, <1>5 DEF g

\* Going round a list from any position passes everything on it.
LEMMA RotatedAll ==
  ASSUME NEW S, NEW s \in Seq(S), NEW k \in Nat
  PROVE  /\ Walk!Rotated(s, k) \in Seq(S) /\ Len(Walk!Rotated(s, k)) = Len(s)
         /\ Walk!Range(Walk!Rotated(s, k)) = Walk!Range(s)
<1> DEFINE r == Walk!Rotated(s, k)
           n == Len(s)
<1>1. n \in Nat /\ DOMAIN s = 1..n /\ \A i \in 1..n : s[i] \in S
  BY ElementOfSeq
<1>2. r = [i \in 1..n |-> s[((k + i - 1) % n) + 1]]
  BY DEF Walk!Rotated
<1> HIDE DEF r
<1>3. ASSUME NEW i \in 1..n
      PROVE  ((k + i - 1) % n) + 1 \in 1..n
  <2>1. k + i - 1 \in Nat /\ n \in Nat \ {0}
    BY <1>1
  <2>2. (k + i - 1) % n \in 0..(n - 1)
    BY <2>1, ModParts
  <2> QED BY <1>1, <2>2
<1>4. DOMAIN r = 1..n /\ \A i \in 1..n : r[i] \in S
  BY <1>1, <1>2, <1>3
<1>5. r \in Seq(S) /\ Len(r) = n
  <2>1. r \in [1..n -> S]
    BY <1>2, <1>4
  <2> QED BY <1>1, <2>1
<1>6. ASSUME NEW j \in 1..n
      PROVE  \E i \in 1..n : r[i] = s[j]
  <2>1. n \in Nat \ {0} /\ j - 1 \in 0..(n - 1)
    BY <1>1
  <2>2. PICK m \in 0..(n - 1) : (k + m) % n = j - 1
    BY <2>1, ModHits
  <2>3. m + 1 \in 1..n /\ k + (m + 1) - 1 = k + m
    BY <1>1
  <2>4. r[m + 1] = s[(j - 1) + 1]
    BY <1>2, <2>2, <2>3
  <2>5. (j - 1) + 1 = j
    BY <1>1
  <2> QED BY <2>3, <2>4, <2>5
<1>7. \A i \in 1..n : \E j \in 1..n : r[i] = s[j]
  BY <1>2, <1>3
<1>8. Walk!Range(r) = Walk!Range(s)
  <2>1. Walk!Range(r) = {r[i] : i \in 1..n} /\ Walk!Range(s) = {s[i] : i \in 1..n}
    BY <1>1, <1>4 DEF Walk!Range
  <2>2. {r[i] : i \in 1..n} \subseteq {s[i] : i \in 1..n}
    BY <1>7
  <2>3. {s[i] : i \in 1..n} \subseteq {r[i] : i \in 1..n}
    BY <1>6
  <2> QED BY <2>1, <2>2, <2>3
<1> QED BY <1>5, <1>8 DEF r

\* A list thinned out holds what was kept of it.
LEMMA AmongAll ==
  ASSUME NEW S, NEW s \in Seq(S), NEW K, NEW t \in Walk!Among(s, K)
  PROVE  t \in Seq(Walk!Range(s) \intersect K) /\ Walk!Range(t) = Walk!Range(s) \intersect K
<1> DEFINE kept == {i \in DOMAIN s : s[i] \in K}
<1>1. /\ t \in UNION {[1..n -> Walk!Range(s) \intersect K] : n \in 0..Len(s)}
      /\ \E at \in [DOMAIN t -> kept] :
           Walk!Range(at) = kept /\ \A i \in DOMAIN t : t[i] = s[at[i]]
  BY DEF Walk!Among
<1>2. PICK n \in 0..Len(s) : t \in [1..n -> Walk!Range(s) \intersect K]
  BY <1>1
<1>3. t \in Seq(Walk!Range(s) \intersect K) /\ DOMAIN t = 1..n
  BY <1>2
<1>4. PICK at \in [DOMAIN t -> kept] :
        Walk!Range(at) = kept /\ \A i \in DOMAIN t : t[i] = s[at[i]]
  BY <1>1
<1>5. \A x \in Walk!Range(s) \intersect K : \E i \in DOMAIN t : t[i] = x
  BY <1>4 DEF Walk!Range
<1>6. \A i \in DOMAIN t : t[i] \in Walk!Range(s) \intersect K
  BY <1>2
<1>7. Walk!Range(t) = Walk!Range(s) \intersect K
  BY <1>5, <1>6 DEF Walk!Range
<1> QED BY <1>3, <1>7

LEMMA FirstUnspentIs ==
  ASSUME NEW w, NEW S, NEW s \in Seq(S)
  PROVE  \/ Walk!FirstUnspent(w, s) = {} /\ Walk!Range(s) \subseteq w.spent
         \/ \E k \in Walk!Range(s) : Walk!FirstUnspent(w, s) = {k}
<1> DEFINE found == {i \in DOMAIN s : s[i] \notin w.spent}
<1>1. DOMAIN s = 1..Len(s) /\ Len(s) \in Nat
  OBVIOUS
<1>2. CASE found = {}
  BY <1>2 DEF Walk!FirstUnspent, Walk!Range
<1>3. CASE found # {}
  <2>1. found \subseteq Nat
    BY <1>1
  <2>2. \E i \in found : \A j \in found : i <= j
    BY <1>3, <2>1, LeastExists
  <2> DEFINE first == CHOOSE i \in found : \A j \in found : i <= j
  <2>3. first \in DOMAIN s
    BY <2>2
  <2>4. Walk!FirstUnspent(w, s) = {s[first]}
    BY <1>3 DEF Walk!FirstUnspent
  <2> HIDE DEF first
  <2> QED BY <2>3, <2>4 DEF Walk!Range
<1> QED BY <1>2, <1>3

LEMMA KeysAreUnits ==
  ASSUME NEW w, NEW a \in Walk!AccountSet
  PROVE  /\ HeldKeys[a] \in Seq(Walk!AllKeys)
         /\ Walk!ValidKeys(w, a) = Walk!Range(HeldKeys[a]) \intersect Walk!ValidKeys(w, a)
         /\ Walk!ValidKeys(w, a) \subseteq Walk!Units /\ a \in Walk!Units
  BY SelectionConstants DEF Walk!ValidKeys, Walk!Units, Walk!AllKeys

\* What a keyed account offers: one of its valid keys, or nothing when all are spent.
LEMMA ChosenIs ==
  ASSUME NEW w, NEW a \in Walk!AccountSet, NEW offset,
         rotates => offset \in Nat \union {Walk!NoCounter}, NEW c \in Walk!Chosen(w, a, offset)
  PROVE  \/ c = {} /\ Walk!ValidKeys(w, a) \subseteq w.spent
         \/ \E k \in Walk!ValidKeys(w, a) : c = {k}
<1>1. CASE rotates /\ offset = Walk!NoCounter
  BY <1>1 DEF Walk!Chosen
<1>2. CASE ~(rotates /\ offset = Walk!NoCounter)
  <2>1. PICK valid \in Walk!Among(HeldKeys[a], Walk!ValidKeys(w, a)) :
          c = Walk!FirstUnspent(w, IF rotates THEN Walk!Rotated(valid, offset) ELSE valid)
    BY <1>2 DEF Walk!Chosen
  <2>2. valid \in Seq(Walk!ValidKeys(w, a)) /\ Walk!Range(valid) = Walk!ValidKeys(w, a)
    <3>1. /\ HeldKeys[a] \in Seq(Walk!AllKeys)
          /\ Walk!Range(HeldKeys[a]) \intersect Walk!ValidKeys(w, a) = Walk!ValidKeys(w, a)
      BY KeysAreUnits
    <3>2. /\ valid \in Seq(Walk!Range(HeldKeys[a]) \intersect Walk!ValidKeys(w, a))
          /\ Walk!Range(valid) = Walk!Range(HeldKeys[a]) \intersect Walk!ValidKeys(w, a)
      BY <3>1, AmongAll
    <3> QED BY <3>1, <3>2, Zenon
  <2>3. CASE rotates
    <3>1. offset \in Nat
      BY <1>2, <2>3
    <3>2. /\ Walk!Rotated(valid, offset) \in Seq(Walk!ValidKeys(w, a))
          /\ Walk!Range(Walk!Rotated(valid, offset)) = Walk!ValidKeys(w, a)
      BY <2>2, <3>1, RotatedAll
    <3>3. c = Walk!FirstUnspent(w, Walk!Rotated(valid, offset))
      BY <2>1, <2>3
    <3> QED BY <3>2, <3>3, FirstUnspentIs
  <2>4. CASE ~rotates
    <3>1. c = Walk!FirstUnspent(w, valid)
      BY <2>1, <2>4
    <3> QED BY <2>2, <3>1, FirstUnspentIs
  <2> QED BY <2>3, <2>4
<1> QED BY <1>1, <1>2

\* An account that may be asked and offers nothing has nothing unspent that can be read.
NothingLeft(w, a) ==
  IF HeldKeys[a] = <<>> THEN a \in w.spent \/ w.health[a] = "unreadable"
  ELSE \/ Walk!ValidKeys(w, a) \subseteq w.spent
       \/ \E k \in Walk!ValidKeys(w, a) : w.health[k] = "unreadable"

LEMMA OffersIs ==
  ASSUME NEW w, NEW a \in Walk!AccountSet, NEW offset,
         rotates /\ HeldKeys[a] # <<>> /\ w.health[a] # "parked" /\ ~Walk!Over(w, a) =>
           offset \in Nat \union {Walk!NoCounter},
         NEW o \in Walk!Offers(w, a, offset)
  PROVE  /\ o \subseteq Walk!Units
         /\ o = {} /\ w.health[a] # "parked" /\ ~Walk!Over(w, a) => NothingLeft(w, a)
<1>1. CASE w.health[a] = "parked" \/ Walk!Over(w, a)
  <2>1. o = {}
    BY <1>1 DEF Walk!Offers
  <2> QED BY <1>1, <2>1
<1>2. CASE ~(w.health[a] = "parked" \/ Walk!Over(w, a)) /\ HeldKeys[a] = <<>>
  <2>1. o = IF w.health[a] = "unreadable" THEN {} ELSE {a} \ w.spent
    BY <1>2 DEF Walk!Offers
  <2> QED BY <1>2, <2>1, KeysAreUnits DEF NothingLeft
<1>3. CASE ~(w.health[a] = "parked" \/ Walk!Over(w, a)) /\ HeldKeys[a] # <<>>
  <2>1. PICK c \in Walk!Chosen(w, a, offset) :
          o = IF \E k \in c : w.health[k] = "unreadable" THEN {} ELSE c
    BY <1>3 DEF Walk!Offers
  <2>2. rotates => offset \in Nat \union {Walk!NoCounter}
    BY <1>3
  <2>3. \/ c = {} /\ Walk!ValidKeys(w, a) \subseteq w.spent
        \/ \E k \in Walk!ValidKeys(w, a) : c = {k}
    BY <2>2, ChosenIs
  <2> QED BY <1>3, <2>1, <2>3, KeysAreUnits DEF NothingLeft
<1> QED BY <1>1, <1>2, <1>3

\* What stays when one leg becomes another walk.
LEMMA LegMoves ==
  ASSUME Walk!WalkInv, NEW l \in Walkers, NEW w \in Walk!Walks,
         w.at = "gaveup" => Walk!Complete(w), leg' = [leg EXCEPT ![l] = w],
         UNCHANGED <<listed, health, spentUp, rotates, flips>>, begun' \in Nat,
         cursor' \in [offset : Nat, used : 0..Sticky], counter' \in [Walk!AccountSet -> Nat],
         turns' \in [size : Nat, handed : Seq(Nat)],
         Walk!LegsTakeTurns', Walk!LastRunCounted'
  PROVE  Walk!WalkInv'
<1>1. Walk!TypeOK /\ Walk!LegComplete
  BY DEF Walk!WalkInv, Walk!WalkSound
<1>2. leg \in [Walkers -> Walk!Walks]
  BY <1>1 DEF Walk!TypeOK
<1>3. leg' \in [Walkers -> Walk!Walks]
  BY <1>2
<1>4. Walk!TypeOK'
  BY <1>1, <1>3 DEF Walk!TypeOK
<1>5. \A q \in Walkers : leg'[q].at = "gaveup" => Walk!Complete(leg'[q])
  BY <1>1, <1>2 DEF Walk!LegComplete
<1>6. Walk!LegComplete'
  BY <1>5 DEF Walk!LegComplete, Walk!Complete, Walk!Usable, Walk!ValidKeys, Walk!Range
<1> QED BY <1>4, <1>6 DEF Walk!WalkInv, Walk!WalkSound

LEMMA TurnsStay ==
  ASSUME Walk!WalkInv, UNCHANGED <<cursor, turns>>
  PROVE  /\ Walk!LegsTakeTurns' /\ Walk!LastRunCounted'
         /\ cursor' \in [offset : Nat, used : 0..Sticky]
         /\ turns' \in [size : Nat, handed : Seq(Nat)]
<1>1. Walk!LegsTakeTurns'
  BY DEF Walk!WalkInv, Walk!WalkSound, Walk!LegsTakeTurns, Walk!TurnsTaken, Walk!RunsFrom,
         Walk!After, Walk!NextRun
<1>2. Walk!LastRunCounted'
  BY DEF Walk!WalkInv, Walk!LastRunCounted, Walk!LastRun, Walk!RunsFrom
<1>3. cursor' \in [offset : Nat, used : 0..Sticky] /\ turns' \in [size : Nat, handed : Seq(Nat)]
  BY DEF Walk!WalkInv, Walk!TypeOK
<1> QED BY <1>1, <1>2, <1>3

LEMMA NoLegTyped ==
  ASSUME Walk!TypeOK
  PROVE  /\ Walk!NoLeg \in Walk!Walks /\ Walk!NoLeg.at = "idle"
  BY DEF Walk!NoLeg, Walk!Walks, Walk!WalkStages, Walk!Conditions

LEMMA LoadLegInv ==
  ASSUME Walk!WalkInv, NEW l \in Walkers, Walk!Load(l)
  PROVE  Walk!WalkInv'
<1>1. PICK ranked \in Walk!Among(Accounts, listed) :
        leg' = [leg EXCEPT ![l] = [Walk!NoLeg EXCEPT
          !.at = IF rotates THEN "position" ELSE "ask", !.pool = ranked, !.health = health]]
  BY DEF Walk!Load
<1>2. /\ begun' = begun + 1
      /\ UNCHANGED <<listed, health, spentUp, rotates, flips, cursor, counter, turns>>
  BY DEF Walk!Load, Walk!World
<1>3. Walk!TypeOK
  BY DEF Walk!WalkInv
<1>4. ranked \in Seq(Walk!AccountSet)
  <2>1. ranked \in Seq(Walk!Range(Accounts) \intersect listed)
    BY SelectionConstants, AmongAll
  <2>2. \A i \in 1..Len(ranked) : ranked[i] \in Walk!AccountSet
    BY <2>1, ElementOfSeq DEF Walk!AccountSet
  <2> QED BY <2>1, <2>2
<1> DEFINE w == [Walk!NoLeg EXCEPT
          !.at = IF rotates THEN "position" ELSE "ask", !.pool = ranked, !.health = health]
<1>5. w \in Walk!Walks /\ w.at # "gaveup"
  <2>1. health \in [Walk!Units -> Walk!Conditions] /\ Walk!NoLeg \in Walk!Walks
    BY <1>3, NoLegTyped DEF Walk!TypeOK
  <2> QED BY <1>4, <2>1 DEF Walk!Walks, Walk!WalkStages
<1> HIDE DEF w
<1>6. leg' = [leg EXCEPT ![l] = w]
  BY <1>1 DEF w
<1>7. begun' \in Nat /\ counter' \in [Walk!AccountSet -> Nat]
  BY <1>2, <1>3 DEF Walk!TypeOK
<1> QED BY <1>2, <1>5, <1>6, <1>7, TurnsStay, LegMoves

\* The script: the position stays for Sticky legs, then the next account leads.
LEMMA AdvancedIs ==
  ASSUME NEW c \in [offset : Nat, used : 0..Sticky], NEW n \in Nat, n > 1
  PROVE  /\ c.offset % n \in 0..(n - 1)
         /\ \/ /\ c.used < Sticky
               /\ Walk!Advanced(c, n) = [offset |-> c.offset % n, used |-> c.used + 1]
            \/ /\ c.used = Sticky
               /\ Walk!Advanced(c, n) = [offset |-> ((c.offset % n) + 1) % n, used |-> 1]
         /\ ((c.offset % n) + 1) % n \in 0..(n - 1) /\ ((c.offset % n) + 1) % n # c.offset % n
<1>1. c.offset \in Nat /\ c.used \in 0..Sticky /\ n \in Nat \ {0}
  OBVIOUS
<1>2. c.offset % n \in 0..(n - 1)
  BY <1>1, ModParts
<1>3. ((c.offset % n) + 1) % n \in 0..(n - 1) /\ ((c.offset % n) + 1) % n # c.offset % n
  BY <1>2, ModMoves
<1>4. c.used < Sticky \/ c.used = Sticky
  BY <1>1, SelectionConstants
<1>5. CASE c.used < Sticky
  BY <1>2, <1>3, <1>5 DEF Walk!Advanced
<1>6. CASE c.used = Sticky
  <2>1. ~(c.used < Sticky)
    BY <1>6, SelectionConstants
  <2> QED BY <1>2, <1>3, <1>6, <2>1 DEF Walk!Advanced
<1> QED BY <1>4, <1>5, <1>6

LEMMA AppendToEmpty == ASSUME NEW x PROVE Append(<<>>, x) = <<x>>
OBVIOUS

LEMMA PositionInv ==
  ASSUME Walk!WalkInv, NEW l \in Walkers, Walk!Position(l)
  PROVE  Walk!WalkInv'
<1> DEFINE n == Len(leg[l].pool)
           next == Walk!Advanced(cursor, n)
           at == cursor.offset % n
           stood == IF next.offset = at THEN cursor.offset ELSE next.offset
           h == IF turns.size = n THEN turns.handed ELSE <<>>
<1>1. /\ n > 1 /\ cursor' = [next EXCEPT !.offset = stood]
      /\ leg' = [leg EXCEPT ![l].at = "ask", ![l].offset = next.offset]
      /\ turns' = [size |-> n, handed |-> Append(h, next.offset)]
      /\ UNCHANGED <<listed, health, spentUp, rotates, flips, counter, begun>>
  BY DEF Walk!Position, Walk!World
<1>2. Walk!TypeOK /\ Walk!LegsTakeTurns /\ Walk!LastRunCounted
  BY DEF Walk!WalkInv, Walk!WalkSound
<1>3. /\ leg \in [Walkers -> Walk!Walks] /\ cursor \in [offset : Nat, used : 0..Sticky]
      /\ turns \in [size : Nat, handed : Seq(Nat)] /\ counter \in [Walk!AccountSet -> Nat]
      /\ begun \in Nat
  BY <1>2 DEF Walk!TypeOK
<1>4. n \in Nat
  BY <1>3 DEF Walk!Walks
<1> HIDE DEF n
<1>5. /\ at \in 0..(n - 1)
      /\ \/ cursor.used < Sticky /\ next = [offset |-> at, used |-> cursor.used + 1]
         \/ cursor.used = Sticky /\ next = [offset |-> (at + 1) % n, used |-> 1]
      /\ (at + 1) % n \in 0..(n - 1) /\ (at + 1) % n # at
  BY <1>1, <1>3, <1>4, AdvancedIs
<1> HIDE DEF next
<1>6. /\ next.offset \in 0..(n - 1) /\ next.offset \in Nat /\ next.used \in 1..Sticky
      /\ next = [offset |-> next.offset, used |-> next.used]
  BY <1>3, <1>5, SelectionConstants
<1>7. stood \in Nat /\ stood % n = next.offset
  <2>1. CASE next.offset = at
    BY <1>3, <1>5, <2>1
  <2>2. CASE next.offset # at
    BY <1>1, <1>4, <1>6, <2>2, ModOfSmall
  <2> QED BY <2>1, <2>2
<1> HIDE DEF stood
<1>8. cursor' = [offset |-> stood, used |-> next.used]
  BY <1>1, <1>6
<1>9. h \in Seq(Nat)
  BY <1>3
<1>10. turns' \in [size : Nat, handed : Seq(Nat)]
  BY <1>1, <1>4, <1>6, <1>9
<1>11. cursor' \in [offset : Nat, used : 0..Sticky] /\ cursor'.offset % n = next.offset
  BY <1>6, <1>7, <1>8, SelectionConstants
<1>12. /\ Walk!TurnsTaken(Append(h, next.offset), n)
       /\ \E s \in Walk!RunsFrom(Append(h, next.offset)) :
            Walk!LastRun(Append(h, next.offset), s, next.used)
  <2>1. CASE h = <<>>
    <3> HIDE DEF h
    <3>1. Append(h, next.offset) = <<next.offset>>
      BY <1>6, <2>1, AppendToEmpty
    <3>2. next.used \in Nat \ {0}
      BY <1>6
    <3> QED BY <1>6, <3>1, <3>2, RunBegins
  <2>2. CASE h # <<>>
    <3>1. h = turns.handed /\ turns.size = n
      BY <2>2
    <3>2. /\ Walk!TurnsTaken(h, n) /\ h[Len(h)] = at
          /\ \E s \in Walk!RunsFrom(h) : Walk!LastRun(h, s, cursor.used)
      BY <1>2, <2>2, <3>1 DEF Walk!LegsTakeTurns, Walk!LastRunCounted
    <3> HIDE DEF h, at
    <3>3. PICK s \in Walk!RunsFrom(h) : Walk!LastRun(h, s, cursor.used)
      BY <3>2
    <3>4. cursor.used \in Nat
      BY <1>3
    <3>5. CASE cursor.used < Sticky
      <4>1. next.offset = h[Len(h)] /\ next.used = cursor.used + 1
        BY <1>5, <3>2, <3>4, <3>5, SelectionConstants
      <4> QED BY <1>9, <2>2, <3>2, <3>3, <3>4, <3>5, <4>1, RunGoesOn
    <3>6. CASE cursor.used = Sticky
      <4>1. /\ next.offset = (h[Len(h)] + 1) % n /\ next.offset # h[Len(h)] /\ next.used = 1
        BY <1>5, <3>2, <3>4, <3>6, SelectionConstants
      <4>2. Walk!LastRun(h, s, Sticky)
        BY <3>3, <3>6
      <4> QED BY <1>6, <1>9, <2>2, <3>2, <4>1, <4>2, RunEnds
    <3> QED BY <1>5, <3>5, <3>6
  <2> QED BY <2>1, <2>2
<1>13. Append(h, next.offset)[Len(Append(h, next.offset))] = next.offset
  BY <1>6, <1>9
<1> HIDE DEF h
<1>14. turns'.handed = Append(h, next.offset) /\ turns'.size = n
  BY <1>1
<1>15. Walk!LegsTakeTurns'
  <2>1. Walk!TurnsTaken(turns'.handed, turns'.size)
    BY <1>12, <1>14
  <2> QED BY <2>1 DEF Walk!LegsTakeTurns, Walk!TurnsTaken, Walk!RunsFrom, Walk!After, Walk!NextRun
<1>16. cursor'.used = next.used
  BY <1>8
<1>17. Walk!LastRunCounted'
  <2>1. turns'.size > 1 /\ turns'.handed[Len(turns'.handed)] = cursor'.offset % turns'.size
    BY <1>1, <1>11, <1>13, <1>14
  <2>2. \E s \in Walk!RunsFrom(turns'.handed) : Walk!LastRun(turns'.handed, s, cursor'.used)
    BY <1>12, <1>14, <1>16
  <2> QED BY <2>1, <2>2 DEF Walk!LastRunCounted, Walk!RunsFrom, Walk!LastRun
<1> DEFINE w == [leg[l] EXCEPT !.at = "ask", !.offset = next.offset]
<1>18. w \in Walk!Walks /\ w.at # "gaveup"
  BY <1>3, <1>6 DEF Walk!Walks, Walk!WalkStages
<1>19. leg' = [leg EXCEPT ![l] = w]
  BY <1>1, <1>3
<1> HIDE DEF w
<1> QED BY <1>1, <1>3, <1>10, <1>11, <1>15, <1>17, <1>18, <1>19, LegMoves

\* A leg moves on its own, the cursors stay.
LEMMA LegAlone ==
  ASSUME Walk!WalkInv, NEW l \in Walkers, NEW w \in Walk!Walks, w.at # "gaveup",
         leg' = [leg EXCEPT ![l] = w],
         UNCHANGED <<listed, health, spentUp, rotates, flips, cursor, counter, turns, begun>>
  PROVE  Walk!WalkInv'
<1>1. begun' \in Nat /\ counter' \in [Walk!AccountSet -> Nat]
  BY DEF Walk!WalkInv, Walk!TypeOK
<1> QED BY <1>1, TurnsStay, LegMoves

LEMMA NoPositionInv ==
  ASSUME Walk!WalkInv, NEW l \in Walkers, Walk!NoPosition(l)
  PROVE  Walk!WalkInv'
<1>1. /\ leg' = [leg EXCEPT ![l].at = "ask"] /\ leg \in [Walkers -> Walk!Walks]
      /\ UNCHANGED <<listed, health, spentUp, rotates, flips, cursor, counter, turns, begun>>
  BY DEF Walk!NoPosition, Walk!World, Walk!WalkInv, Walk!TypeOK
<1> DEFINE w == [leg[l] EXCEPT !.at = "ask"]
<1>2. w \in Walk!Walks /\ w.at # "gaveup" /\ leg' = [leg EXCEPT ![l] = w]
  BY <1>1 DEF Walk!Walks, Walk!WalkStages
<1> HIDE DEF w
<1> QED BY <1>1, <1>2, LegAlone

LEMMA FailOverInv ==
  ASSUME Walk!WalkInv, NEW l \in Walkers, Walk!FailOver(l)
  PROVE  Walk!WalkInv'
<1>1. /\ leg' = [leg EXCEPT ![l].at = "ask", ![l].spent = @ \union leg[l].picked, ![l].picked = {}]
      /\ leg \in [Walkers -> Walk!Walks]
      /\ UNCHANGED <<listed, health, spentUp, rotates, flips, cursor, counter, turns, begun>>
  BY DEF Walk!FailOver, Walk!World, Walk!WalkInv, Walk!TypeOK
<1> DEFINE w == [leg[l] EXCEPT !.at = "ask", !.spent = @ \union leg[l].picked, !.picked = {}]
<1>2. w \in Walk!Walks /\ w.at # "gaveup"
  BY <1>1 DEF Walk!Walks, Walk!WalkStages
<1>3. leg' = [leg EXCEPT ![l] = w]
  BY <1>1
<1> HIDE DEF w
<1> QED BY <1>1, <1>2, <1>3, LegAlone

LEMMA EndLegInv ==
  ASSUME Walk!WalkInv, NEW l \in Walkers, Walk!End(l)
  PROVE  Walk!WalkInv'
<1>1. /\ leg' = [leg EXCEPT ![l] = Walk!NoLeg] /\ Walk!TypeOK
      /\ UNCHANGED <<listed, health, spentUp, rotates, flips, cursor, counter, turns, begun>>
  BY DEF Walk!End, Walk!World, Walk!WalkInv
<1>2. Walk!NoLeg \in Walk!Walks /\ Walk!NoLeg.at # "gaveup"
  BY <1>1, NoLegTyped
<1> QED BY <1>1, <1>2, LegAlone

LEMMA FlipInv ==
  ASSUME Walk!WalkInv, Walk!Flip
  PROVE  Walk!WalkInv'
<1>1. /\ UNCHANGED <<rotates, cursor, counter, leg, turns, begun>> /\ flips' = flips + 1
      /\ \/ /\ \E u \in Walk!Units, c \in Walk!Conditions : health' = [health EXCEPT ![u] = c]
            /\ UNCHANGED <<listed, spentUp>>
         \/ /\ \E a \in Walk!AccountSet : listed' = (listed \ {a}) \union ({a} \ listed)
            /\ UNCHANGED <<health, spentUp>>
         \/ /\ \E a \in Walk!AccountSet : spentUp' = (spentUp \ {a}) \union ({a} \ spentUp)
            /\ UNCHANGED <<health, listed>>
  BY DEF Walk!Flip
<1>2. Walk!TypeOK'
  BY <1>1 DEF Walk!WalkInv, Walk!TypeOK
<1>3. Walk!LegComplete'
  BY <1>1 DEF Walk!WalkInv, Walk!WalkSound, Walk!LegComplete, Walk!Complete, Walk!Usable,
              Walk!ValidKeys, Walk!Range
<1> QED BY <1>1, <1>2, <1>3, TurnsStay DEF Walk!WalkInv, Walk!WalkSound

LEMMA AskLegInv ==
  ASSUME Walk!WalkInv, NEW l \in Walkers, Walk!Ask(l)
  PROVE  Walk!WalkInv'
<1> DEFINE w == leg[l]
           ranked == Walk!Rotated(w.pool, w.offset)
<1>1. PICK said \in BOOLEAN, upto \in 0..Len(ranked) :
        LET offers(i) == Walk!Offers(w, ranked[i], Walk!KeyOffset(w, ranked[i], said))
            passed == {ranked[i] : i \in 1..upto}
            reached == {a \in passed : w.health[a] # "parked"} IN
        \E pick \in IF upto = 0 THEN {{}} ELSE offers(upto) :
          /\ \A i \in 1..(upto - 1) : {} \in offers(i)
          /\ pick = {} => upto = Len(ranked)
          /\ leg' = [leg EXCEPT ![l] =
               [w EXCEPT !.at = IF pick = {} THEN "gaveup" ELSE "called", !.picked = pick,
                         !.within = @ \union {a \in reached : ~Walk!Over(w, a)},
                         !.over = @ \union {a \in reached : Walk!Over(w, a)},
                         !.keyOffset = [a \in Walk!AccountSet |->
                            IF a \in passed THEN Walk!KeyOffset(w, a, said) ELSE @[a]]]]
          /\ counter' = [a \in Walk!AccountSet |->
               IF a \in passed /\ Walk!Rolls(w, a) /\ said THEN counter[a] + 1 ELSE counter[a]]
  BY Zenon DEF Walk!Ask
<1> DEFINE passed == {ranked[i] : i \in 1..upto}
           reached == {a \in passed : w.health[a] # "parked"}
           kept == {a \in reached : ~Walk!Over(w, a)}
           beyond == {a \in reached : Walk!Over(w, a)}
           offsets == [a \in Walk!AccountSet |->
                         IF a \in passed THEN Walk!KeyOffset(w, a, said) ELSE w.keyOffset[a]]
<1>2. PICK pick :
        /\ pick \in IF upto = 0 THEN {{}}
                    ELSE Walk!Offers(w, ranked[upto], Walk!KeyOffset(w, ranked[upto], said))
        /\ \A i \in 1..(upto - 1) : {} \in Walk!Offers(w, ranked[i], Walk!KeyOffset(w, ranked[i], said))
        /\ pick = {} => upto = Len(ranked)
        /\ leg' = [leg EXCEPT ![l] =
             [w EXCEPT !.at = IF pick = {} THEN "gaveup" ELSE "called", !.picked = pick,
                       !.within = @ \union kept, !.over = @ \union beyond, !.keyOffset = offsets]]
        /\ counter' = [a \in Walk!AccountSet |->
             IF a \in passed /\ Walk!Rolls(w, a) /\ said THEN counter[a] + 1 ELSE counter[a]]
  BY <1>1
<1>3. UNCHANGED <<listed, health, spentUp, rotates, flips, cursor, turns, begun>>
  BY DEF Walk!Ask, Walk!World
<1>4. Walk!TypeOK
  BY DEF Walk!WalkInv
<1>5. w \in Walk!Walks /\ counter \in [Walk!AccountSet -> Nat] /\ begun \in Nat
  BY <1>4 DEF Walk!TypeOK
<1>6. /\ w.pool \in Seq(Walk!AccountSet) /\ w.offset \in Nat
      /\ w.keyOffset \in [Walk!AccountSet -> Nat \union {Walk!NoCounter, Walk!Unread}]
      /\ w.within \subseteq Walk!AccountSet /\ w.over \subseteq Walk!AccountSet
  BY <1>5 DEF Walk!Walks
<1>7. /\ ranked \in Seq(Walk!AccountSet) /\ Walk!Range(ranked) = Walk!Range(w.pool)
      /\ Len(ranked) \in Nat /\ DOMAIN ranked = 1..Len(ranked)
  BY <1>6, RotatedAll
<1> HIDE DEF ranked
<1>8. \A i \in 1..Len(ranked) : ranked[i] \in Walk!AccountSet
  BY <1>7, ElementOfSeq
<1>9. ASSUME NEW a \in Walk!AccountSet
      PROVE  /\ Walk!KeyOffset(w, a, said) \in Nat \union {Walk!NoCounter, Walk!Unread}
             /\ rotates /\ HeldKeys[a] # <<>> /\ w.health[a] # "parked" /\ ~Walk!Over(w, a) =>
                  Walk!KeyOffset(w, a, said) \in Nat \union {Walk!NoCounter}
  <2>1. w.keyOffset[a] \in Nat \union {Walk!NoCounter, Walk!Unread} /\ counter[a] + 1 \in Nat
    BY <1>5, <1>6
  <2> HIDE DEF w
  <2> QED BY <2>1 DEF Walk!KeyOffset, Walk!Rolls
<1>10. \A i \in 1..upto : ranked[i] \in Walk!AccountSet
  BY <1>7, <1>8
<1>11. pick \subseteq Walk!Units
  <2>1. CASE upto = 0
    BY <1>2, <2>1
  <2>2. CASE upto # 0
    <3>1. ranked[upto] \in Walk!AccountSet
      BY <1>7, <1>10, <2>2
    <3>2. pick \in Walk!Offers(w, ranked[upto], Walk!KeyOffset(w, ranked[upto], said))
      BY <1>2, <2>2
    <3> QED BY <1>9, <3>1, <3>2, OffersIs
  <2> QED BY <2>1, <2>2
<1>12. passed \subseteq Walk!AccountSet
  BY <1>10
<1>13. offsets \in [Walk!AccountSet -> Nat \union {Walk!NoCounter, Walk!Unread}]
  BY <1>6, <1>9
<1>14. kept \subseteq Walk!AccountSet /\ beyond \subseteq Walk!AccountSet
  BY <1>12
<1>15. counter' \in [Walk!AccountSet -> Nat]
  BY <1>2, <1>5
<1> DEFINE new == [w EXCEPT !.at = IF pick = {} THEN "gaveup" ELSE "called", !.picked = pick,
                            !.within = @ \union kept, !.over = @ \union beyond,
                            !.keyOffset = offsets]
<1>16. leg' = [leg EXCEPT ![l] = new]
  BY <1>2
<1>17. ASSUME pick = {}, NEW a \in Walk!Range(w.pool), w.health[a] # "parked", a \notin beyond
       PROVE  NothingLeft(w, a)
  <2>1. PICK i \in 1..Len(ranked) : ranked[i] = a
    BY <1>7, <1>17 DEF Walk!Range
  <2>2. upto = Len(ranked) /\ i \in 1..upto /\ upto # 0
    BY <1>2, <1>7, <1>17, <2>1
  <2>3. a \in passed /\ a \in Walk!AccountSet
    BY <1>12, <2>1, <2>2
  <2>4. ~Walk!Over(w, a)
    BY <1>17, <2>3
  <2>5. {} \in Walk!Offers(w, a, Walk!KeyOffset(w, a, said))
    <3>1. CASE i = upto
      BY <1>2, <1>17, <2>1, <2>2, <3>1
    <3>2. CASE i # upto
      <4>1. upto \in Nat /\ i \in Nat /\ 1 <= i /\ i <= upto
        BY <1>7, <2>1, <2>2
      <4>2. i \in 1..(upto - 1)
        BY <3>2, <4>1
      <4> QED BY <1>2, <2>1, <4>2
    <3> QED BY <3>1, <3>2
  <2> QED BY <1>9, <1>17, <2>3, <2>4, <2>5, OffersIs
<1> HIDE DEF kept, beyond, offsets, passed, reached
<1>18. /\ new \in Walk!Walks /\ new.pool = w.pool /\ new.health = w.health /\ new.spent = w.spent
       /\ new.over = w.over \union beyond /\ (new.at = "gaveup" => pick = {})
  BY <1>5, <1>11, <1>13, <1>14 DEF Walk!Walks, Walk!WalkStages
<1> HIDE DEF new, w
<1>19. new.at = "gaveup" => Walk!Complete(new)
  <2> SUFFICES ASSUME pick = {}, NEW a \in Walk!Range(new.pool), Walk!Usable(new, a)
               PROVE  IF HeldKeys[a] = <<>> THEN a \in new.spent \/ new.health[a] = "unreadable"
                      ELSE \/ Walk!ValidKeys(new, a) \subseteq new.spent
                           \/ \E k \in Walk!ValidKeys(new, a) : new.health[k] = "unreadable"
    BY <1>18 DEF Walk!Complete
  <2>1. a \in Walk!Range(w.pool) /\ w.health[a] # "parked" /\ a \notin beyond
    BY <1>18 DEF Walk!Usable
  <2>2. NothingLeft(w, a)
    BY <1>17, <2>1
  <2>3. Walk!ValidKeys(new, a) = Walk!ValidKeys(w, a)
    BY <1>18 DEF Walk!ValidKeys
  <2> QED BY <1>18, <2>2, <2>3 DEF NothingLeft
<1>20. begun' \in Nat
  BY <1>3, <1>5
<1> QED BY <1>3, <1>15, <1>16, <1>18, <1>19, <1>20, TurnsStay, LegMoves

LEMMA SelectionStep ==
  ASSUME Walk!WalkInv, Walk!Next
  PROVE  Walk!WalkInv'
BY LoadLegInv, PositionInv, NoPositionInv, AskLegInv, FailOverInv, EndLegInv, FlipInv DEF Walk!Next

LEMMA SelectionStart == ASSUME Walk!Init PROVE Walk!WalkInv
<1>1. /\ listed = Walk!AccountSet /\ health = [u \in Walk!Units |-> "healthy"] /\ spentUp = {}
      /\ rotates \in BOOLEAN /\ cursor = [offset |-> 0, used |-> 0]
      /\ counter = [a \in Walk!AccountSet |-> 0] /\ leg = [l \in Walkers |-> Walk!NoLeg]
      /\ turns = [size |-> 0, handed |-> <<>>] /\ begun = 0 /\ flips = 0
  BY DEF Walk!Init
<1>2. Walk!NoLeg \in Walk!Walks /\ Walk!NoLeg.at = "idle"
  BY DEF Walk!NoLeg, Walk!Walks, Walk!WalkStages, Walk!Conditions
<1>3. Walk!TypeOK
  BY <1>1, <1>2, SelectionConstants DEF Walk!TypeOK, Walk!Conditions
<1>4. Walk!LegComplete
  BY <1>1, <1>2 DEF Walk!LegComplete
<1>5. Walk!LegsTakeTurns /\ Walk!LastRunCounted
  <2>1. turns.handed = <<>> /\ Walk!RunsFrom(turns.handed) = {}
    BY <1>1 DEF Walk!RunsFrom
  <2> QED BY <2>1 DEF Walk!LegsTakeTurns, Walk!TurnsTaken, Walk!LastRunCounted
<1> QED BY <1>3, <1>4, <1>5 DEF Walk!WalkInv, Walk!WalkSound

\* For any accounts and keys, whatever parks, recovers or runs out of budget meanwhile, a leg
\* gives up only when it has spent what its snapshot offered; and though legs step one cursor
\* at once, every account leads Sticky legs in a row (dataplane/selection_plan.go,
\* redis/endpoint_cursor.go).
THEOREM WalkHolds == Spec => []WalkSound
<1> DEFINE Inv == part = "walk" => Walk!WalkInv
<1>1. Init => Inv
  BY SelectionStart DEF Init
<1>2. Inv /\ [Next]_partsVars => Inv'
  <2> SUFFICES ASSUME Inv, [Next]_partsVars, part' = "walk" PROVE Walk!WalkInv'
    OBVIOUS
  <2>1. CASE Next
    <3>1. part = "walk" /\ Walk!Next
      BY <2>1 DEF Next
    <3> QED BY <3>1, SelectionStep
  <2>2. CASE UNCHANGED partsVars
    <3>1. /\ part = "walk"
          /\ UNCHANGED <<listed, health, spentUp, rotates, cursor, counter, leg, turns, begun, flips>>
      BY <2>2 DEF partsVars
    <3>2. Walk!TypeOK'
      BY <3>1 DEF Walk!WalkInv, Walk!TypeOK
    <3>3. Walk!LegComplete'
      BY <3>1 DEF Walk!WalkInv, Walk!WalkSound, Walk!LegComplete, Walk!Complete, Walk!Usable,
                  Walk!ValidKeys, Walk!Range
    <3> QED BY <3>1, <3>2, <3>3, TurnsStay DEF Walk!WalkInv, Walk!WalkSound
  <2> QED BY <2>1, <2>2
<1>3. Inv => WalkSound
  BY DEF WalkSound, Walk!WalkInv
<1> QED BY <1>1, <1>2, <1>3, PTL DEF Spec
=============================================================================
