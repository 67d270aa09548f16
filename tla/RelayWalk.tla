----------------------------- MODULE RelayWalk -----------------------------
(***************************************************************************)
(* One client request walked over a chain of members, each a provider with *)
(* several credentials (internal/dataplane/engine_relay_walk.go, Relay;    *)
(* engine_relay.go, relayOnce). The walk spends a shared budget of time    *)
(* and attempts, turns every failure into "next credential", "next member" *)
(* or "stop", holds a truncated answer aside for a later member, and is    *)
(* committed to a member by the first frame the client reads.              *)
(*                                                                         *)
(* The walk is one goroutine. Around it the clock of the budget runs out,  *)
(* the client leaves, and rests it imposed end. What a failure does to a   *)
(* stored row is KeyHealth's and AccountHealth's subject; here a credential *)
(* is parked or not.                                                       *)
(***************************************************************************)
EXTENDS ParkWindow

CONSTANTS
  Credentials,
  Chain,          \* the members in walk order, each with the credentials it has
  MaxAttempts,    \* FailoverBudget.MaxAttempts, normalized
  Streams,        \* whether the client asked for a stream
  Policies,       \* the budgets the settings may resolve to
  Refusals,       \* what an upstream may answer, classified
  Written,        \* FALSE when a health write may fail (it is swallowed)
  NoCred

Members == 1..Len(Chain)

NoCode == ""
Budgeted == "UPSTREAM_TIMEOUT"
Unavailable == "NO_PROVIDER_AVAILABLE"
Code == {"UPSTREAM_ERROR", "UPSTREAM_TIMEOUT", "RATE_LIMITED",
         "BILLING_EXHAUSTED", "UPSTREAM_REJECTED", "NO_PROVIDER_AVAILABLE",
         "MODEL_NOT_FOUND", "VALIDATION_ERROR"}

\* An upstream's refusal: the parking class and what the recogniser stamped.
Refusal == [class : KeyClass, rest : Rest]

ASSUME RelayAssumption ==
  /\ Chain \in Seq(SUBSET Credentials) /\ Len(Chain) > 0
  /\ MaxAttempts \in Positive
  /\ Streams \subseteq BOOLEAN /\ Written \subseteq BOOLEAN
  /\ Policies \subseteq Policy /\ Refusals \subseteq Refusal
  /\ NoCred \notin Credentials

VARIABLES
  phase,     \* member (top of the chain), leg (top of the credential loop),
             \* call (transport.Do), refusal (in it, once it reads the body of
             \* one), answer (reading it), done
  stream,    \* Request.Stream
  at,        \* the member of the chain
  closed,    \* what this leg may not pick: unavailable in its plan, or spent
  cred,      \* the credential of the call
  failed,    \* memberErr
  attempts,  \* RequestBudget.attempts
  late,      \* RequestBudget.expired
  gone,      \* the client hung up
  frames,    \* Outcome.FramesWritten
  held,      \* the member whose truncated answer is kept, 0 when none
  pre,       \* preCallErr
  first,     \* firstErr
  lastAt,    \* the member lastErr and lastOutcome belong to, 0 when none
  result,    \* what Relay returned, and the member it names
  parked,    \* the credentials this request parked and that still rest
  calls, called, learned  \* history: calls made, the last one's member, failures seen

budget == <<attempts, late, gone>>
chain == <<held, pre, first, lastAt>>
leg == <<closed, cred, failed>>
history == <<calls, called, learned>>
vars == <<phase, stream, at, leg, budget, frames, chain, result, parked, history>>

Pending == [kind |-> "none", code |-> NoCode, by |-> 0]

Init ==
  /\ phase = "member" /\ at = 1 /\ stream \in Streams
  /\ closed = {} /\ cred = NoCred /\ failed = NoCode
  /\ attempts = MaxAttempts /\ late = FALSE /\ gone = FALSE
  /\ frames = FALSE /\ held = 0 /\ pre = NoCode /\ first = NoCode /\ lastAt = 0
  /\ result = Pending /\ parked = {}
  /\ calls = 0 /\ called = 0 /\ learned = {}

---------------------------------------------------------------------------
(* What a failure says to the walk (engine_failure.go).                    *)

FailoverWorthy(code) ==
  code \in {"UPSTREAM_ERROR", "UPSTREAM_TIMEOUT", "RATE_LIMITED",
            "NO_PROVIDER_AVAILABLE", "BILLING_EXHAUSTED"}

RefusalCode(c) ==
  CASE c \in {"quota", "billing"} -> "BILLING_EXHAUSTED"
    [] c = "ratelimit"            -> "RATE_LIMITED"
    [] c = "request"              -> "UPSTREAM_REJECTED"
    [] OTHER                      -> "UPSTREAM_ERROR"

\* Selector.RecordFailure: the operator's table is read only for a class that may
\* park; for the others the signature answers, or the class.
WalkAction(p, r) ==
  IF ImplicatesCredential(r.class) THEN ActionFor(p, r.rest, r.class)
  ELSE IF r.rest.policy.action # "" THEN r.rest.policy.action
  ELSE DefaultActionFor(r.class)

KeepsWalking(action, code) ==
  action = "rotate" \/ (action # "stop" /\ FailoverWorthy(code))

\* The credential rests at all; the lengths are ParkWindow's.
Rests(p, r) ==
  ImplicatesCredential(r.class) /\ RestUntil(p, r.rest, r.class, 1) > 0

\* RequestBudget.error, by whether an upstream was called.
BudgetCode == IF calls > 0 THEN Budgeted ELSE Unavailable

---------------------------------------------------------------------------
(* The ways out of a leg and of the walk.                                  *)

LegOver == closed' = {} /\ cred' = NoCred /\ failed' = NoCode

Return(kind, code, by) ==
  /\ phase' = "done" /\ result' = [kind |-> kind, code |-> code, by |-> by]
  /\ LegOver
  /\ UNCHANGED at

\* Faulty variant: the walk stays where it is.
AfterStays(i) == i

After(i) == i + 1

NextMember ==
  /\ phase' = "member" /\ at' = After(at)
  /\ LegOver
  /\ UNCHANGED result

\* Faulty variant: what the client is reading commits nobody.
EndsWalkUncommitted(code, stopped) == stopped \/ ~FailoverWorthy(code)

EndsWalk(code, stopped) == frames \/ stopped \/ ~FailoverWorthy(code)

\* relayOnce failed after a call: the failure is the member's.
LegFails(code, stopped) ==
  \/ /\ EndsWalk(code, stopped)
     /\ Return("error", code, at)
     /\ UNCHANGED chain
  \/ /\ ~EndsWalk(code, stopped)
     /\ NextMember
     /\ lastAt' = at /\ first' = IF first = NoCode THEN code ELSE first
     /\ UNCHANGED <<held, pre>>

\* relayOnce failed with a zero outcome: nobody is blamed.
LegRefused(code) ==
  /\ NextMember
  /\ pre' = code
  /\ UNCHANGED <<held, first, lastAt>>

\* The leg ends at its own loop: known once one of its credentials was called.
LegEnds(own, code) ==
  IF failed # NoCode THEN LegFails(own, FALSE) ELSE LegRefused(code)

---------------------------------------------------------------------------
(* The chain (Relay).                                                      *)

AtMember == phase = "member" /\ at \in Members

OutOfTime ==
  /\ AtMember /\ late
  /\ Return("error", BudgetCode, lastAt)
  /\ UNCHANGED <<stream, budget, frames, chain, parked, history>>

\* Unresolvable, untranslatable, no accounts, or their list cannot be read.
RefuseMember ==
  /\ AtMember /\ ~late
  /\ \E code \in {"MODEL_NOT_FOUND", "VALIDATION_ERROR", Unavailable} : LegRefused(code)
  /\ UNCHANGED <<stream, budget, frames, parked, history>>

\* Faulty variant: the leg's plan does not know who rests.
SnapshotBlind(others) == others

\* Selector.BeginPlan: who rests now, and whoever else is parked, switched off,
\* over budget or unreadable.
Snapshot(others) == (parked \cap Chain[at]) \cup others

BeginLeg ==
  /\ AtMember /\ ~late
  /\ \E others \in SUBSET Chain[at] : closed' = Snapshot(others)
  /\ phase' = "leg"
  /\ UNCHANGED <<stream, at, cred, failed, budget, frames, chain, result, parked, history>>

\* The held answer, else the first failure's code with the last one's identity,
\* else the refusal of a member nobody called.
Exhausted ==
  IF held # 0 THEN Return("answer", NoCode, held)
  ELSE IF lastAt # 0 THEN Return("error", first, lastAt)
  ELSE Return("error", pre, 0)

Conclude ==
  /\ phase = "member" /\ at \notin Members
  /\ Exhausted
  /\ UNCHANGED <<stream, budget, frames, chain, parked, history>>

---------------------------------------------------------------------------
(* The credential loop of one member (relayOnce).                          *)

Open == Chain[at] \ closed

LegOutOfTime ==
  /\ phase = "leg" /\ late
  /\ LegEnds(BudgetCode, BudgetCode)
  /\ UNCHANGED <<stream, budget, frames, parked, history>>

NothingLeft ==
  /\ phase = "leg" /\ ~late /\ Open = {}
  /\ LegEnds(failed, Unavailable)
  /\ UNCHANGED <<stream, budget, frames, parked, history>>

Affords == attempts > 0

\* SelectionPlan.Next has chosen and stamped a credential; budget.spend refuses it.
WasteSelection ==
  /\ phase = "leg" /\ ~late /\ Open # {} /\ ~Affords
  /\ LegEnds(BudgetCode, BudgetCode)
  /\ UNCHANGED <<stream, budget, frames, parked, history>>

Ask(c) ==
  /\ phase = "leg" /\ ~late /\ c \in Open /\ Affords
  /\ phase' = "call" /\ cred' = c /\ closed' = closed \cup {c}
  /\ attempts' = attempts - 1
  /\ calls' = calls + 1 /\ called' = at
  /\ UNCHANGED <<stream, at, failed, late, gone, frames, chain, result, parked, learned>>

---------------------------------------------------------------------------
(* The call (transport.Do, recordFailure).                                 *)

CallFails(code, action) ==
  /\ learned' = learned \cup {code}
  /\ \/ /\ KeepsWalking(action, code)
        /\ phase' = "leg" /\ cred' = NoCred /\ failed' = code
        /\ UNCHANGED <<at, closed, chain, result>>
     \/ /\ ~KeepsWalking(action, code)
        /\ LegFails(code, action = "stop")
  /\ UNCHANGED <<stream, budget, frames, calls, called>>

\* transport.Do has the headers of a refusal and reads its body. It may ask again
\* after that, and read another: what a call may come to stays open.
Calling == phase \in {"call", "refusal"}

Refused ==
  /\ phase = "call"
  /\ phase' = "refusal"
  /\ UNCHANGED <<stream, at, leg, budget, frames, chain, result, parked, history>>

Refuse(p, r) ==
  /\ phase = "refusal"
  /\ CallFails(RefusalCode(r.class), WalkAction(p, r))
  /\ \E stored \in Written :
       parked' = IF stored /\ Rests(p, r) THEN parked \cup {cred} ELSE parked

\* No upstream answer: the network, a timeout, a body the connector cannot shape.
\* The failure is the target's, which rotates.
Unreachable ==
  /\ Calling
  /\ \E code \in {"UPSTREAM_ERROR", "UPSTREAM_TIMEOUT", "VALIDATION_ERROR"} :
       CallFails(code, "rotate")
  /\ UNCHANGED parked

\* The client left during the call: nothing is recorded, the code decides.
HangUp ==
  /\ Calling /\ gone
  /\ CallFails("UPSTREAM_TIMEOUT", "")
  /\ UNCHANGED parked

Accept ==
  /\ Calling
  /\ phase' = "answer"
  /\ UNCHANGED <<stream, at, leg, budget, frames, chain, result, parked, history>>

---------------------------------------------------------------------------
(* The answer (answer, relayStream, recordServedOutcome).                  *)

Frame ==
  /\ phase = "answer" /\ stream /\ ~frames
  /\ frames' = TRUE
  /\ UNCHANGED <<phase, stream, at, leg, budget, chain, result, parked, history>>

\* RecordSuccess releases the credential. A stream the client left, or one whose
\* finish the gateway had to make up, records nothing.
Recorded ==
  \/ parked' = parked \ {cred} /\ ~(stream /\ gone)
  \/ UNCHANGED parked /\ (stream \/ FALSE \in Written)

Serve ==
  /\ phase = "answer"
  /\ Return("answer", NoCode, at) /\ Recorded
  /\ UNCHANGED <<stream, budget, frames, chain, history>>

\* An answer cut short with nothing to show, while a later member may do better.
Hold ==
  /\ phase = "answer" /\ ~stream /\ at < Len(Chain)
  /\ NextMember /\ Recorded
  /\ held' = at
  /\ UNCHANGED <<stream, budget, frames, pre, first, lastAt, history>>

\* The answer cannot be read, translated or written. What the recorder says about
\* the walk is not asked here: the leg is over, with credentials left or not.
AnswerFails ==
  /\ phase = "answer"
  /\ \E code \in {"UPSTREAM_ERROR", "UPSTREAM_TIMEOUT", "VALIDATION_ERROR"} :
       LegFails(code, FALSE) /\ learned' = learned \cup {code}
  /\ UNCHANGED <<stream, budget, frames, parked, calls, called>>

---------------------------------------------------------------------------
(* What happens around the walk.                                           *)

Expire ==
  /\ phase # "done" /\ ~late
  /\ late' = TRUE
  /\ UNCHANGED <<phase, stream, at, leg, attempts, gone, frames, chain, result, parked, history>>

Leave ==
  /\ phase # "done" /\ ~gone
  /\ gone' = TRUE
  /\ UNCHANGED <<phase, stream, at, leg, attempts, late, frames, chain, result, parked, history>>

\* A rest elapsed, another request was answered, or an operator enabled it.
Heal(c) ==
  /\ phase # "done" /\ c \in parked
  /\ parked' = parked \ {c}
  /\ UNCHANGED <<phase, stream, at, leg, budget, frames, chain, result, history>>

Walk ==
  \/ OutOfTime \/ RefuseMember \/ BeginLeg \/ Conclude
  \/ LegOutOfTime \/ NothingLeft \/ WasteSelection
  \/ \E c \in Credentials : Ask(c)
  \/ Refused \/ \E p \in Policies, r \in Refusals : Refuse(p, r)
  \/ Unreachable \/ HangUp \/ Accept
  \/ Serve \/ Hold \/ AnswerFails

Next ==
  \/ Walk \/ Frame
  \/ Expire \/ Leave
  \/ \E c \in Credentials : Heal(c)

Spec == Init /\ [][Next]_vars

\* A call and a single body are bounded by timeouts of the transport, and a client that
\* left ends whatever is read for it. While a client waits for a stream two reads have no
\* bound: the stream itself, which lasts while the upstream talks, and the body of a
\* refusal, which is read with no timer (readUpstreamError).
Unbounded == stream /\ ~gone /\ phase \in {"refusal", "answer"}
Timed == Walk /\ ~Unbounded
FairSpec == Spec /\ WF_vars(Timed)

---------------------------------------------------------------------------
(* Properties.                                                             *)

TypeOK ==
  /\ phase \in {"member", "leg", "call", "refusal", "answer", "done"}
  /\ stream \in Streams /\ late \in BOOLEAN /\ gone \in BOOLEAN /\ frames \in BOOLEAN
  /\ at \in 1..(Len(Chain) + 1)
  /\ phase \in {"leg", "call", "refusal", "answer"} => at \in Members
  /\ closed \subseteq Credentials /\ parked \subseteq Credentials
  /\ cred \in Credentials \cup {NoCred}
  /\ phase \in {"call", "refusal", "answer"} => cred \in Credentials
  /\ attempts \in 0..MaxAttempts /\ calls \in Nat /\ called \in 0..Len(Chain)
  /\ {failed, pre, first} \subseteq Code \cup {NoCode} /\ learned \subseteq Code
  /\ held \in 0..Len(Chain) /\ lastAt \in 0..Len(Chain)
  /\ result \in [kind : {"none", "answer", "error"}, code : Code \cup {NoCode},
                 by : 0..Len(Chain)]

Stage ==
  CASE phase \in {"member", "leg"}  -> "idle"
    [] phase \in {"call", "refusal", "answer"} -> "asking"
    [] OTHER -> IF result.kind = "answer" THEN "answered" ELSE "failed"

\* The walk keeps the gateway's promise to its client.
OneAnswer ==
  INSTANCE OneAnswer WITH
    Budget <- MaxAttempts, asked <- calls, stage <- Stage, heard <- frames
OneAnswerSpec == OneAnswer!Spec

\* What a walk that called somebody may report: what it saw, or its own budget.
Reportable == learned \cup (IF late \/ attempts = 0 THEN {Budgeted} ELSE {})

\* "a member that reached an upstream call owns the error and the recorded identity,
\* while a member refused before any call ... is only the fallback answer when no
\* member was called at all" (engine_relay_walk.go:68-71): a walk that called
\* somebody reports a failure it saw, or its own budget's, under the last member it
\* called; one that did not blames nobody. A held answer names nobody either.
ErrorIsOwned ==
  (phase = "done" /\ result.kind = "error") =>
    IF calls = 0
    THEN result.by = 0 /\ result.code # Budgeted
    ELSE (held = 0 => result.by = called) /\ result.code \in Reportable

\* The inductive invariant. Who is blamed is decided from fields filled leg by leg:
\* it rests on what they say in the middle of one.
Counted ==
  /\ attempts + calls = MaxAttempts
  /\ (calls = 0) <=> (called = 0)
  /\ (phase \in {"call", "refusal", "answer"} \/ failed # NoCode) => calls > 0 /\ called = at

Unanswered ==
  /\ phase # "done" => result = Pending
  /\ frames => stream /\ phase \in {"answer", "done"}

Remembered ==
  /\ failed # NoCode => failed \in learned /\ phase \in {"leg", "call", "refusal", "answer"}
  /\ calls = 0 => held = 0 /\ lastAt = 0 /\ pre # Budgeted
  /\ (first = NoCode) <=> (lastAt = 0)
  /\ lastAt # 0 => first \in Reportable
  /\ (phase \in {"member", "leg"} /\ failed = NoCode /\ held = 0) => lastAt = called

Avoided ==
  /\ phase \in {"leg", "call", "refusal"} => parked \cap Chain[at] \subseteq closed
  /\ phase \in {"call", "refusal"} => cred \in closed

WalkInv == TypeOK /\ Counted /\ Unanswered /\ Remembered /\ Avoided /\ ErrorIsOwned

\* "a failover cannot return to an account this request already spent"
\* (engine_relay.go:81-83): a later member on the same account, too, leaves alone a
\* credential that an earlier one parked, for as long as it rests.
RestingNotAsked ==
  [][\A c \in Credentials : (calls' > calls /\ cred' = c) => c \notin parked]_vars

\* "Two bounds cut that" (engine_budget.go:6): whatever members, credentials and
\* upstreams do, the walk ends, unless its client waits for ever for the one stream it is
\* reading, or for the body of a refusal that stays away.
WalkSettles == <>[](phase = "done" \/ Unbounded)

\* "It is held aside instead: a later member may answer properly, and if none does,
\* the body is still what the first member would have served"
\* (engine_relay_walk.go:79-82). Refuted: every return before the end of the chain
\* drops it.
HeldAnswerServed ==
  (phase = "done" /\ held # 0) => result.kind = "answer"

\* "Both bounds stop the walk and report what it already learned"
\* (domain/settings_routing.go:99). Refuted: the code is the budget's own.
BudgetReportsLearned ==
  (phase = "done" /\ result.kind = "error" /\ learned # {}) => result.code \in learned

\* "Both bounds are checked before another credential is picked"
\* (engine_relay.go:94). Refuted: the attempts are asked after the selection.
SelectionIsSpent == [][~WasteSelection]_vars

\* "A failover-worthy failure excludes the credential and tries the next"
\* (engine_relay.go:27). Refuted for an answer that cannot be read.
CredentialFirst ==
  [][(AnswerFails /\ Open # {} /\ ~frames /\ ~late /\ Affords) => at' = at]_vars
===========================================================================
