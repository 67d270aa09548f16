------------------------------ MODULE GatewayKeys ------------------------------
(***************************************************************************)
(* The data plane's front door: the request window of the client's address *)
(* (router/limiter.go), the gateway key the call presents (ChatService's   *)
(* Authenticate) and the panel that issues, edits and revokes the keys     *)
(* (service/gateway_key.go).  A panel request reads a key, changes its     *)
(* copy and writes it back; a PATCH writes name and status whatever it     *)
(* changed.  Digests are left out: a token is the key it hashes to.        *)
(***************************************************************************)
EXTENDS Integers

CONSTANTS
  Keys,
  Panels,         \* panel requests that may be in flight together
  Callers,        \* data plane requests of one client address
  Limit,          \* RATE_LIMIT_PER_MIN
  WindowTicks,    \* the window, in half seconds
  MaxEdits,       \* bound: panel requests
  MaxCalls,       \* bound: calls of one window
  MaxUses         \* bound: a key's use counter

GatewayKeysAssumption ==
  /\ {Limit, WindowTicks} \subseteq Nat \ {0}
  /\ {MaxEdits, MaxCalls, MaxUses} \subseteq Nat

VARIABLES
  key,       \* gateway_keys, one row a key
  edit,      \* per panel request, the copy it will write
  required,  \* settings.requireApiKey
  window,    \* pannelai:rate:<address>: the counter and its time left
  call,      \* per data plane request, where it is
  let,       \* history: calls of this window let in before its last half second
  revoked,   \* history: the keys whose revocation was stored
  edits      \* history: panel requests, for the bound

doorVars == <<key, edit, required, window, call, let, revoked, edits>>

Statuses == {"active", "disabled", "revoked"}
Row == [issued : BOOLEAN, status : Statuses, revokedAt : BOOLEAN, uses : Nat]
NoToken == "no token"
NoEdit == [does |-> "nothing"]
NoCall == [at |-> "idle"]

Init ==
  /\ key = [k \in Keys |-> [issued |-> FALSE, status |-> "active", revokedAt |-> FALSE, uses |-> 0]]
  /\ edit = [p \in Panels |-> NoEdit]
  /\ required \in BOOLEAN
  /\ window = [count |-> 0, left |-> 0]
  /\ call = [c \in Callers |-> NoCall]
  /\ let = 0
  /\ revoked = {}
  /\ edits = 0

-----------------------------------------------------------------------------
(* The panel. *)

Create(k) ==
  /\ ~key[k].issued
  /\ key' = [key EXCEPT ![k].issued = TRUE]
  /\ UNCHANGED <<edit, required, window, call, let, revoked, edits>>

\* Transition: revocation is terminal, judged on the copy. A rename asks nothing.
Patched(row, status) ==
  CASE status = "unchanged" -> {row.status}
    [] status # "unchanged" /\ row.status = "revoked" -> {}
    [] OTHER -> {status}

Update(p, k) ==
  \E status \in {"unchanged", "active", "disabled"} : \E new \in Patched(key[k], status) :
    /\ key[k].issued /\ edit[p] = NoEdit /\ edits < MaxEdits
    /\ edit' = [edit EXCEPT ![p] = [does |-> "update", key |-> k, status |-> new]]
    /\ edits' = edits + 1
    /\ UNCHANGED <<key, required, window, call, let, revoked>>

UpdateWrites(p) ==
  /\ edit[p].does = "update"
  /\ key' = [key EXCEPT ![edit[p].key].status = edit[p].status]
  /\ edit' = [edit EXCEPT ![p] = NoEdit]
  /\ UNCHANGED <<required, window, call, let, revoked, edits>>

Revoke(p, k) ==
  /\ key[k].issued /\ key[k].status # "revoked" /\ edit[p] = NoEdit /\ edits < MaxEdits
  /\ edit' = [edit EXCEPT ![p] = [does |-> "revoke", key |-> k]]
  /\ edits' = edits + 1
  /\ UNCHANGED <<key, required, window, call, let, revoked>>

Retire(row) == [row EXCEPT !.status = "revoked", !.revokedAt = TRUE]

RevokeWrites(p) ==
  /\ edit[p].does = "revoke"
  /\ key' = [key EXCEPT ![edit[p].key] = Retire(@)]
  /\ revoked' = revoked \union {edit[p].key}
  /\ edit' = [edit EXCEPT ![p] = NoEdit]
  /\ UNCHANGED <<required, window, call, let, edits>>

SetRequired ==
  /\ edits < MaxEdits
  /\ required' = ~required
  /\ edits' = edits + 1
  /\ UNCHANGED <<key, edit, window, call, let, revoked>>

-----------------------------------------------------------------------------
(* A call: the window, the rule, the key, its counter. *)

\* TTL answers whole seconds, rounded: in the last half second it says 0, which
\* reads as "not limited".
TTL(w) == w.left \div 2

Counted(w) ==
  [count |-> w.count + 1, left |-> IF w.count = 0 THEN WindowTicks ELSE w.left]

Over(w) == w.count > Limit

Arrive(c) ==
  \E token \in Keys \union {NoToken} :
    LET w == Counted(window)
        refused == Over(w) /\ TTL(w) > 0 IN
    /\ call[c] = NoCall /\ window.count < MaxCalls
    /\ window' = w
    /\ let' = IF refused \/ w.left = 1 THEN let ELSE let + 1
    /\ call' = [call EXCEPT ![c] =
         IF refused THEN NoCall ELSE [at |-> "rule", token |-> token, dead |-> revoked]]
    /\ UNCHANGED <<key, edit, required, revoked, edits>>

Step(c, at) == call' = [call EXCEPT ![c].at = at]
Refuse(c) == call' = [call EXCEPT ![c] = NoCall]
Behind == <<key, edit, required, window, let, revoked, edits>>

\* The setting decides whether a key is asked for; a read that fails refuses.
ReadRule(c) ==
  /\ call[c].at = "rule"
  /\ \/ ~required /\ Step(c, "open")
     \/ required /\ call[c].token # NoToken /\ Step(c, "lookup")
     \/ Refuse(c)
  /\ UNCHANGED Behind

\* GetByValueHash: the predicate of the query is the whole check.
\* mutant: the status alone admits
AdmitsByStatus(row) == row.issued /\ row.status = "active"
Admits(row) == row.issued /\ row.status = "active" /\ ~row.revokedAt

Lookup(c) ==
  /\ call[c].at = "lookup"
  /\ IF Admits(key[call[c].token]) THEN Step(c, "use") ELSE Refuse(c)
  /\ UNCHANGED Behind

\* RecordUse: the database's own addition; a failed write is swallowed.
RecordUse(c) ==
  /\ call[c].at = "use"
  /\ \/ /\ key[call[c].token].uses < MaxUses
        /\ key' = [key EXCEPT ![call[c].token].uses = @ + 1]
     \/ UNCHANGED key
  /\ Step(c, "served")
  /\ UNCHANGED <<edit, required, window, let, revoked, edits>>

Leave(c) ==
  /\ call[c].at \in {"open", "served"}
  /\ Refuse(c)
  /\ UNCHANGED Behind

Tick ==
  /\ window.left > 0
  /\ window' = IF window.left = 1 THEN [count |-> 0, left |-> 0]
               ELSE [window EXCEPT !.left = @ - 1]
  /\ let' = IF window.left = 1 THEN 0 ELSE let
  /\ UNCHANGED <<key, edit, required, call, revoked, edits>>

Next ==
  \/ \E k \in Keys : Create(k)
  \/ \E p \in Panels : UpdateWrites(p) \/ RevokeWrites(p)
  \/ \E p \in Panels, k \in Keys : Update(p, k) \/ Revoke(p, k)
  \/ SetRequired
  \/ \E c \in Callers : Arrive(c) \/ ReadRule(c) \/ Lookup(c) \/ RecordUse(c) \/ Leave(c)
  \/ Tick

Spec == Init /\ [][Next]_doorVars
-----------------------------------------------------------------------------
EditUpdate == [does : {"update"}, key : Keys, status : Statuses]
EditRevoke == [does : {"revoke"}, key : Keys]
Call == [at : {"rule", "open", "lookup", "use", "served"},
         token : Keys \union {NoToken}, dead : SUBSET Keys]

TypeOK ==
  /\ key \in [Keys -> Row]
  /\ edit \in [Panels -> {NoEdit} \union EditUpdate \union EditRevoke]
  /\ required \in BOOLEAN
  /\ window \in [count : Nat, left : 0..WindowTicks]
  /\ call \in [Callers -> {NoCall} \union Call]
  /\ let \in Nat /\ edits \in Nat
  /\ revoked \subseteq Keys

\* A call that arrived after a key's revocation was stored is never served on that key,
\* even when a PATCH that read the row before it writes "active" back over it.
RevokedStaysOut == \A c \in Callers : call[c].at \in {"use", "served"} => call[c].token \notin call[c].dead

\* A window lets in Limit calls, and more only in its last half second, where the
\* refusal's own wait rounds to none.
WindowHolds == let <= Limit

DoorSound == RevokedStaysOut /\ WindowHolds

\* The strengthening of the proof: a revocation stays readable in the row, a call knows of
\* no others, a key is looked up before it is used; the counter outruns the calls let in.
RevocationsStored ==
  /\ \A k \in revoked : key[k].revokedAt
  /\ \A c \in Callers : call[c] # NoCall =>
       /\ call[c].dead \subseteq revoked
       /\ call[c].at \in {"lookup", "use", "served"} => call[c].token \in Keys
WindowCounted ==
  /\ let <= window.count
  /\ window.count > 0 => window.left > 0
DoorInv == TypeOK /\ DoorSound /\ RevocationsStored /\ WindowCounted

\* What the panel's reader expects and the code does not give: a revoked key reads
\* revoked, whoever edited it meanwhile.
RevokedReadsRevoked == \A k \in revoked : key[k].status = "revoked"
=============================================================================
