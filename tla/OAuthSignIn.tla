------------------------------- MODULE OAuthSignIn -------------------------------
(***************************************************************************)
(* Connecting an OAuth account: a round staged under a single-use state    *)
(* (service/oauth_flow.go, repository/redis/oauth_state.go), brought to an *)
(* end by the vendor's callback (oauth_flow_callback.go) or by polling     *)
(* (oauth_flow_device.go, oauth_flow_device_poll.go), and the write of its *)
(* tokens to the account they belong to (oauth_flow_connect.go), beside    *)
(* the refresh worker and an operator who edits the accounts.              *)
(***************************************************************************)
EXTENDS Integers, Sequences, FiniteSets

CONSTANTS
  Rounds,        \* sign-ins
  People,        \* the vendor's accounts
  Tabs,          \* requests that run together: a browser's callback twice, two polls
  MaxCalls,      \* bound: requests begun
  MaxTouches,    \* bound: refreshes, renames and deletions
  MaxSignFaults  \* bound: calls that fail

NoRound == "no round"

OAuthSignInAssumption ==
  /\ IsFiniteSet(Rounds) /\ {MaxCalls, MaxTouches, MaxSignFaults} \subseteq Nat
  /\ NoRound \notin Rounds \union People

NoLabel == 0
Numbered == 1..(Cardinality(Rounds) + 1)      \* "Account N"

VARIABLES
  flow,      \* per round: its kind, who signs in, whether the vendor states an identity
  state,     \* per round: "new", "staged", "gone"
  grant,     \* per round, at the vendor: "none", "given", "spent"
  tab,       \* per request
  accounts,  \* stored rows: id, owner, identity (or NoRound), label, credential
  landed,    \* history: per round, connects that were stored
  torn,      \* history: who was renamed while a first sign-in of theirs was about to insert
  calls, touches, signFaults

signVars == <<flow, state, grant, tab, accounts, landed, torn, calls, touches, signFaults>>

Idle == [at |-> "idle", round |-> NoRound, row |-> NoRound, loaded |-> <<>>, label |-> NoLabel]

Init ==
  /\ flow \in [Rounds -> [kind : {"code", "device"}, who : People, named : BOOLEAN]]
  /\ state = [r \in Rounds |-> "new"]
  /\ grant = [r \in Rounds |-> "none"]
  /\ tab = [t \in Tabs |-> Idle]
  /\ accounts = {} /\ torn = {}
  /\ landed = [r \in Rounds |-> 0]
  /\ calls = 0 /\ touches = 0 /\ signFaults = 0

Become(t, x) == tab' = [tab EXCEPT ![t] = x]
Bounds == <<calls, touches, signFaults>>
Stored == <<accounts, landed, torn>>

Start(r) ==
  /\ state[r] = "new"
  /\ state' = [state EXCEPT ![r] = "staged"]
  /\ UNCHANGED <<flow, grant, tab, Stored, Bounds>>

\* The person approves the round at the vendor.
Approve(r) ==
  /\ state[r] # "new" /\ grant[r] = "none"
  /\ grant' = [grant EXCEPT ![r] = "given"]
  /\ UNCHANGED <<flow, state, tab, Stored, Bounds>>

\* The state's lifetime, and the vendor's, are over.
Expire(r) ==
  /\ state[r] = "staged"
  /\ state' = [state EXCEPT ![r] = "gone"]
  /\ UNCHANGED <<flow, grant, tab, Stored, Bounds>>

Begin(t, r, at) ==
  /\ tab[t].at = "idle" /\ calls < MaxCalls
  /\ calls' = calls + 1
  /\ Become(t, [Idle EXCEPT !.at = at, !.round = r])

\* takeStateScript
Takes(r) == state[r] = "staged"

\* Callback: the state is taken before anything else is known.
Callback(t, r) ==
  /\ flow[r].kind = "code" /\ Takes(r)
  /\ Begin(t, r, "exchange")
  /\ state' = [state EXCEPT ![r] = "gone"]
  /\ UNCHANGED <<flow, grant, Stored, touches, signFaults>>

\* Grant, then UserInfo: the vendor honours a code once; an identity that cannot be read
\* ends the round.
Exchange(t) ==
  LET r == tab[t].round IN
  /\ tab[t].at = "exchange"
  /\ \/ grant[r] = "given" /\ grant' = [grant EXCEPT ![r] = "spent"]
        /\ Become(t, [tab[t] EXCEPT !.at = "find"]) /\ UNCHANGED signFaults
     \/ grant[r] # "given" /\ Become(t, Idle) /\ UNCHANGED <<grant, signFaults>>
     \/ /\ signFaults < MaxSignFaults /\ signFaults' = signFaults + 1
        /\ grant' \in {grant, [grant EXCEPT ![r] = "spent"]}
        /\ Become(t, Idle)
  /\ UNCHANGED <<flow, state, Stored, calls, touches>>

\* DevicePoll: the state is only read; every poll that finds it asks the vendor.
Poll(t, r) ==
  /\ flow[r].kind = "device" /\ state[r] = "staged"
  /\ Begin(t, r, "ask")
  /\ UNCHANGED <<flow, state, grant, Stored, touches, signFaults>>

\* pollRound: pending, or the token, which the vendor may hand out again.
Ask(t) ==
  LET r == tab[t].round IN
  /\ tab[t].at = "ask"
  /\ Become(t, IF grant[r] = "none" THEN Idle ELSE [tab[t] EXCEPT !.at = "take"])
  /\ UNCHANGED <<flow, state, grant, Stored, Bounds>>

\* Consume before connecting: the poll that finds the state taken stops here.
TakeState(t) ==
  LET r == tab[t].round IN
  /\ tab[t].at = "take"
  /\ Become(t, IF Takes(r) THEN [tab[t] EXCEPT !.at = "find"] ELSE Idle)
  /\ state' = [state EXCEPT ![r] = "gone"]
  /\ UNCHANGED <<flow, grant, Stored, Bounds>>

Identity(r) == IF flow[r].named THEN flow[r].who ELSE NoRound

\* FindOAuthEndpoint: an address or a workspace that is stated, and equal.
Matches(row, r) == flow[r].named /\ row.identity = Identity(r)

FreeLabel == CHOOSE n \in Numbered :
  /\ \A row \in accounts : row.label # n
  /\ \A m \in Numbered : m < n => \E row \in accounts : row.label = m

\* connectAccount: the row of this identity, or a label for a new one.
Find(t) ==
  LET r == tab[t].round
      known == {row \in accounts : Matches(row, r)} IN
  /\ tab[t].at = "find"
  /\ \/ \E row \in known : Become(t, [tab[t] EXCEPT !.at = "load", !.row = row.id])
     \/ /\ known = {}
        /\ Become(t, [tab[t] EXCEPT !.at = "create",
                      !.label = IF flow[r].named THEN flow[r].who ELSE FreeLabel])
  /\ UNCHANGED <<flow, state, grant, Stored, Bounds>>

Rows(id) == {row \in accounts : row.id = id}

LoadRow(t) ==
  /\ tab[t].at = "load"
  /\ Become(t, IF Rows(tab[t].row) = {} THEN Idle
               ELSE [tab[t] EXCEPT !.at = "write",
                     !.loaded = (CHOOSE row \in Rows(tab[t].row) : TRUE).credential])
  /\ UNCHANGED <<flow, state, grant, Stored, Bounds>>

\* mutant: the write does not look at what it replaces
UnchangedAny(row, loaded) == TRUE
\* updateEndpointTokens: only over the tokens it loaded.
Unchanged(row, loaded) == row.credential = loaded

Update(t) ==
  LET r == tab[t].round IN
  /\ tab[t].at = "write"
  /\ \/ \E row \in Rows(tab[t].row) :
          /\ Unchanged(row, tab[t].loaded)
          /\ accounts' = (accounts \ {row}) \union {[row EXCEPT !.credential = <<r, 0>>]}
          /\ landed' = [landed EXCEPT ![r] = @ + 1]
     \/ /\ \A row \in Rows(tab[t].row) : ~Unchanged(row, tab[t].loaded)
        /\ UNCHANGED <<accounts, landed>>
  /\ Become(t, Idle)
  /\ UNCHANGED <<flow, state, grant, torn, Bounds>>

\* Create: a label already used is a conflict, and the granted login is lost.
Create(t) ==
  LET r == tab[t].round
      taken == \E row \in accounts : row.label = tab[t].label IN
  /\ tab[t].at = "create"
  /\ IF taken THEN UNCHANGED <<accounts, landed>>
     ELSE /\ accounts' = accounts \union
               {[id |-> r, owner |-> flow[r].who, identity |-> Identity(r),
                 label |-> tab[t].label, credential |-> <<r, 0>>]}
          /\ landed' = [landed EXCEPT ![r] = @ + 1]
  /\ Become(t, Idle)
  /\ UNCHANGED <<flow, state, grant, torn, Bounds>>

\* Sealing, a read or a write fails.
Fail(t) ==
  /\ tab[t].at \in {"ask", "take", "find", "load", "write", "create"}
  /\ signFaults < MaxSignFaults /\ signFaults' = signFaults + 1
  /\ Become(t, Idle)
  /\ UNCHANGED <<flow, state, grant, Stored, calls, touches>>

Touch ==
  /\ touches < MaxTouches /\ touches' = touches + 1
  /\ UNCHANGED <<flow, state, grant, tab, landed, calls, signFaults>>

\* The refresh worker rotates a credential.
Refresh(row) ==
  /\ Touch /\ UNCHANGED torn
  /\ accounts' = (accounts \ {row}) \union
       {[row EXCEPT !.credential = <<row.credential[1], row.credential[2] + 1>>]}

Delete(row) == Touch /\ UNCHANGED torn /\ accounts' = accounts \ {row}

Inserting(id) == id # NoRound /\ \E t \in Tabs : tab[t].at = "create" /\ Identity(tab[t].round) = id

\* An operator's label, or one that a whole-row write of an older snapshot brings back: the
\* statement writes neither tokens nor identity.
Rename(row) ==
  /\ Touch
  /\ \E label \in Numbered \union People :
       /\ \A other \in accounts : other.label # label
       /\ accounts' = (accounts \ {row}) \union {[row EXCEPT !.label = label]}
  /\ torn' = torn \union IF Inserting(row.identity) THEN {row.identity} ELSE {}

Next ==
  \/ \E r \in Rounds : Start(r) \/ Approve(r) \/ Expire(r)
  \/ \E t \in Tabs, r \in Rounds : Callback(t, r) \/ Poll(t, r)
  \/ \E t \in Tabs : Exchange(t) \/ Ask(t) \/ TakeState(t) \/ Find(t) \/ LoadRow(t)
                     \/ Update(t) \/ Create(t) \/ Fail(t)
  \/ \E row \in accounts : Refresh(row) \/ Delete(row) \/ Rename(row)

Spec == Init /\ [][Next]_signVars

-----------------------------------------------------------------------------

Labels == Numbered \union People \union {NoLabel}
Credentials == Rounds \X Nat
Tab == [at : {"idle", "exchange", "ask", "take", "find", "load", "write", "create"},
        round : Rounds \union {NoRound}, row : Rounds \union {NoRound},
        loaded : Credentials \union {<<>>}, label : Labels]
Account == [id : Rounds, owner : People, identity : People \union {NoRound}, label : Labels,
            credential : Credentials]

TypeOK ==
  /\ flow \in [Rounds -> [kind : {"code", "device"}, who : People, named : BOOLEAN]]
  /\ state \in [Rounds -> {"new", "staged", "gone"}]
  /\ grant \in [Rounds -> {"none", "given", "spent"}]
  /\ tab \in [Tabs -> Tab] /\ accounts \subseteq Account
  /\ landed \in [Rounds -> Nat] /\ torn \subseteq People
  /\ calls \in 0..MaxCalls /\ touches \in 0..MaxTouches /\ signFaults \in 0..MaxSignFaults

\* One sign-in connects at most once, however many callbacks or polls carry it and whichever
\* of them fails (oauth_flow_device_poll.go: "a success can never write twice").
ConnectedOnce == \A r \in Rounds : landed[r] <= 1

\* An account holds the credential of the person it was created for, never another's, and
\* two rows of one provider never share a label: a login whose vendor states no identity
\* does not fall onto another anonymous account (deviceAccountEmail: "the second login would
\* spend the first one's credential"). One identity has one account, for want of a unique
\* index by its label alone: only a rename that lands between the lookup and the insert of a
\* second first sign-in splits it (connectAccount: "an account cannot split in two").
CredentialsStayHome ==
  /\ \A row \in accounts : flow[row.credential[1]].who = row.owner
  /\ \A a, b \in accounts : a # b => a.label # b.label /\ a.id # b.id
  /\ \A a, b \in accounts :
       a # b /\ a.identity # NoRound /\ a.identity = b.identity => a.identity \in torn

\* A credential is replaced only by one that was obtained with it in sight: a sign-in that
\* loaded a row never undoes a rotation that came after (updateEndpointTokens).
RotationUndone ==
  \E t \in Tabs, row \in accounts :
    Update(t) /\ tab[t].row = row.id /\ accounts' # accounts /\ row.credential # tab[t].loaded
RotationNotUndone == [][~RotationUndone]_signVars

SignInSound == ConnectedOnce /\ CredentialsStayHome

\* The strengthening of the proof. A round whose tokens are in hand is in one request's, its
\* state is taken and it has not landed; a row keeps the identity its own round stated; the
\* row in hand is of the identity that signs in; and who is about to be inserted finds their
\* label on every account of theirs.
Holding(t) == tab[t].at \in {"exchange", "find", "load", "write", "create"}
HeldOnce ==
  /\ \A t \in Tabs : tab[t].at # "idle" => tab[t].round \in Rounds
  /\ \A t \in Tabs : Holding(t) => state[tab[t].round] = "gone" /\ landed[tab[t].round] = 0
  /\ \A t, u \in Tabs : Holding(t) /\ Holding(u) /\ tab[t].round = tab[u].round => t = u
RowsOwned ==
  \A row \in accounts :
    /\ landed[row.id] > 0
    /\ row.identity = Identity(row.id) /\ row.owner = flow[row.id].who
RowsFound ==
  \A t \in Tabs : tab[t].at \in {"load", "write"} =>
    /\ flow[tab[t].round].named
    /\ tab[t].row \in Rounds /\ Identity(tab[t].row) = Identity(tab[t].round)
LandedAreGone == \A r \in Rounds : landed[r] > 0 => state[r] = "gone"
LabelsHold ==
  \A t \in Tabs : tab[t].at = "create" /\ flow[tab[t].round].named =>
    LET w == flow[tab[t].round].who IN
    /\ tab[t].label = w
    /\ w \notin torn => \A row \in accounts : row.identity = w => row.label = w
SignInInv == TypeOK /\ SignInSound /\ HeldOnce /\ RowsOwned /\ RowsFound /\ LandedAreGone /\ LabelsHold

\* What DevicePoll states of its failures: the staged state stays, so the panel's next poll
\* may still connect.
FailureIsRetryable ==
  [][\A t \in Tabs :
       (Fail(t) /\ flow[tab[t].round].kind = "device" /\ landed[tab[t].round] = 0)
         => state[tab[t].round] = "staged"]_signVars

=============================================================================
