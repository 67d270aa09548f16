-------------------------- MODULE RelayWalkProofs --------------------------
(***************************************************************************)
(* The walk of a request, for any chain of members, any credentials, any   *)
(* budget and whatever upstreams answer: it keeps the one-answer promise,  *)
(* blames whom it called, and leaves a resting credential alone.           *)
(***************************************************************************)
EXTENDS RelayWalk, TLAPS

\* Where the walk stands is a member, or just past the last one.
LEMMA ChainLength == Len(Chain) \in Nat \ {0} /\ \A i \in Members : Chain[i] \subseteq Credentials
  BY RelayAssumption DEF Members

LEMMA BudgetCodes ==
  /\ Budgeted \in Code /\ Unavailable \in Code /\ BudgetCode \in Code /\ NoCode \notin Code
  /\ Unavailable # Budgeted
  /\ calls = 0 => BudgetCode = Unavailable
  /\ calls # 0 /\ calls \in Nat => BudgetCode = Budgeted
  BY DEF Budgeted, Unavailable, BudgetCode, Code, NoCode

\* The first state: nobody called, nobody blamed.
LEMMA InitWalk == ASSUME Init PROVE WalkInv
<1>1. MaxAttempts \in Nat \ {0}
  BY RelayAssumption DEF Positive
<1>2. NoCode # Budgeted /\ 0 \in 0..Len(Chain)
  BY ChainLength DEF NoCode, Budgeted
<1>3. result \in [kind : {"none", "answer", "error"}, code : Code \cup {NoCode}, by : 0..Len(Chain)]
  BY <1>2 DEF Init, Pending
<1>4. /\ at \in 1..(Len(Chain) + 1) /\ attempts \in 0..MaxAttempts /\ calls \in Nat
      /\ {called, held, lastAt} \subseteq 0..Len(Chain)
      /\ {failed, pre, first} \subseteq Code \cup {NoCode}
  BY <1>1, <1>2, ChainLength DEF Init
<1>5. TypeOK
  BY <1>3, <1>4 DEF Init, TypeOK
<1>6. Counted /\ Unanswered /\ Remembered
  BY <1>1, <1>2 DEF Init, Counted, Unanswered, Remembered
<1>7. Avoided /\ ErrorIsOwned
  BY DEF Init, Avoided, ErrorIsOwned
<1> QED BY <1>5, <1>6, <1>7 DEF WalkInv

---------------------------------------------------------------------------
(* The ways out of a leg.                                                  *)

\* A failure the walk may report, of the member it called last, leaves the account
\* of the walk right, whether it ends there or goes on.
LEMMA LegFailsKeeps ==
  ASSUME WalkInv, NEW code \in Code, NEW stopped, LegFails(code, stopped),
         phase # "done", at \in Members, called = at, calls > 0,
         UNCHANGED <<stream, budget, frames, calls, called>>,
         learned \subseteq learned', learned' \subseteq Code, parked' \subseteq Credentials,
         code \in Reportable'
  PROVE  WalkInv'
<1> USE ChainLength DEF Members
<1>1. CASE EndsWalk(code, stopped)
  <2>1. Return("error", code, at) /\ UNCHANGED chain
    BY <1>1 DEF LegFails
  <2>2. TypeOK'
    BY <2>1 DEF WalkInv, TypeOK, Return, LegOver, chain, budget
  <2>3. Counted' /\ Unanswered' /\ Remembered' /\ Avoided' /\ ErrorIsOwned'
    BY <2>1 DEF WalkInv, Counted, Unanswered, Remembered, Avoided, ErrorIsOwned,
                Reportable, Return, LegOver, chain, budget
  <2> QED BY <2>2, <2>3 DEF WalkInv
<1>2. CASE ~EndsWalk(code, stopped)
  <2>1. /\ NextMember /\ lastAt' = at /\ UNCHANGED <<held, pre>>
        /\ first' = IF first = NoCode THEN code ELSE first
    BY <1>2 DEF LegFails
  <2>2. ~frames
    BY <1>2 DEF EndsWalk
  <2>3. TypeOK'
    BY <2>1 DEF WalkInv, TypeOK, NextMember, After, LegOver, budget
  <2>4. Counted' /\ Unanswered' /\ Avoided' /\ ErrorIsOwned'
    BY <2>1, <2>2 DEF WalkInv, Counted, Unanswered, Avoided, ErrorIsOwned,
                      NextMember, LegOver, budget
  <2>5. Remembered'
    BY <2>1, BudgetCodes DEF WalkInv, Remembered, Reportable, NextMember, LegOver, budget
  <2> QED BY <2>3, <2>4, <2>5 DEF WalkInv
<1> QED BY <1>1, <1>2

\* A member refused before any call is remembered aside and blamed for nothing.
LEMMA LegRefusedKeeps ==
  ASSUME WalkInv, NEW code \in Code, LegRefused(code),
         phase \in {"member", "leg"}, at \in Members, failed = NoCode,
         calls = 0 => code # Budgeted,
         UNCHANGED <<stream, budget, frames, parked, history>>
  PROVE  WalkInv'
<1> USE ChainLength DEF Members
<1>1. NextMember /\ pre' = code /\ UNCHANGED <<held, first, lastAt>>
  BY DEF LegRefused
<1>2. TypeOK'
  BY <1>1 DEF WalkInv, TypeOK, NextMember, After, LegOver, budget, history
<1>3. Counted' /\ Unanswered' /\ Avoided' /\ ErrorIsOwned'
  BY <1>1 DEF WalkInv, Counted, Unanswered, Avoided, ErrorIsOwned, NextMember, LegOver,
              budget, history
<1>4. Remembered'
  BY <1>1 DEF WalkInv, Remembered, Reportable, NextMember, LegOver, budget, history
<1> QED BY <1>2, <1>3, <1>4 DEF WalkInv

\* The leg ends at its own loop, for want of time, attempts or credentials.
LEMMA LegEndsKeeps ==
  ASSUME WalkInv, phase = "leg", NEW own \in Code \cup {NoCode}, NEW code \in Code,
         LegEnds(own, code),
         failed # NoCode => own \in Reportable /\ own # NoCode,
         calls = 0 => code # Budgeted,
         UNCHANGED <<stream, budget, frames, parked, history>>
  PROVE  WalkInv'
<1>1. at \in Members
  BY DEF WalkInv, TypeOK
<1>2. CASE failed = NoCode
  BY <1>1, <1>2, LegRefusedKeeps DEF LegEnds
<1>3. CASE failed # NoCode
  <2>1. called = at /\ calls > 0 /\ LegFails(own, FALSE)
    BY <1>3 DEF WalkInv, Counted, LegEnds
  <2>2. own \in Reportable' /\ own \in Code
    BY <1>3 DEF Reportable, budget, history
  <2>3. /\ UNCHANGED <<stream, budget, frames, calls, called>>
        /\ learned \subseteq learned' /\ learned' \subseteq Code /\ parked' \subseteq Credentials
    BY DEF WalkInv, TypeOK, history
  <2> QED BY <1>1, <2>1, <2>2, <2>3, LegFailsKeeps
<1> QED BY <1>2, <1>3

---------------------------------------------------------------------------
(* The steps.                                                              *)

\* The top of the chain.
LEMMA ChainStepKeeps ==
  ASSUME WalkInv, OutOfTime \/ RefuseMember \/ BeginLeg \/ Conclude
  PROVE  WalkInv'
<1> USE ChainLength DEF Members
<1>1. CASE OutOfTime
  <2>1. /\ phase = "member" /\ late /\ Return("error", BudgetCode, lastAt)
        /\ UNCHANGED <<stream, budget, frames, chain, parked, history>>
    BY <1>1 DEF OutOfTime, AtMember
  <2>2. failed = NoCode /\ calls \in Nat
    BY <2>1 DEF WalkInv, Remembered, TypeOK
  <2>3. TypeOK'
    BY <2>1, BudgetCodes DEF WalkInv, TypeOK, Return, LegOver, chain, budget, history
  <2>4. Counted' /\ Unanswered' /\ Remembered' /\ Avoided'
    BY <2>1 DEF WalkInv, Counted, Unanswered, Remembered, Avoided,
                Reportable, Return, LegOver, chain, budget, history
  <2>5. ErrorIsOwned'
    BY <2>1, <2>2, BudgetCodes
       DEF WalkInv, ErrorIsOwned, Remembered, Reportable, Return, chain, budget, history
  <2> QED BY <2>3, <2>4, <2>5 DEF WalkInv
<1>2. CASE RefuseMember
  <2>1. PICK code \in {"MODEL_NOT_FOUND", "VALIDATION_ERROR", Unavailable} : LegRefused(code)
    BY <1>2 DEF RefuseMember
  <2>2. code \in Code /\ code # Budgeted
    BY <2>1 DEF Code, Budgeted, Unavailable
  <2>3. failed = NoCode
    BY <1>2 DEF WalkInv, Remembered, RefuseMember, AtMember
  <2> QED BY <1>2, <2>1, <2>2, <2>3, LegRefusedKeeps DEF RefuseMember, AtMember
<1>3. CASE BeginLeg
  <2>1. PICK others \in SUBSET Chain[at] : closed' = (parked \cap Chain[at]) \cup others
    BY <1>3 DEF BeginLeg, Snapshot
  <2>2. closed' \subseteq Credentials /\ parked \cap Chain[at] \subseteq closed'
    BY <1>3, <2>1 DEF BeginLeg, AtMember
  <2>3. TypeOK'
    BY <1>3, <2>2 DEF WalkInv, TypeOK, BeginLeg, AtMember, chain, budget, history
  <2>4. Counted' /\ Unanswered' /\ Remembered' /\ Avoided' /\ ErrorIsOwned'
    BY <1>3, <2>2 DEF WalkInv, Counted, Unanswered, Remembered, Avoided, ErrorIsOwned,
                      Reportable, BeginLeg, AtMember, chain, budget, history
  <2> QED BY <2>3, <2>4 DEF WalkInv
<1>4. CASE Conclude
  <2>1. /\ phase = "member" /\ Exhausted
        /\ UNCHANGED <<stream, budget, frames, chain, parked, history>>
    BY <1>4 DEF Conclude
  <2>2. failed = NoCode /\ ~frames
    BY <2>1 DEF WalkInv, Remembered, Unanswered
  <2>3. CASE held # 0
    <3>1. Return("answer", NoCode, held)
      BY <2>1, <2>3 DEF Exhausted
    <3>2. TypeOK'
      BY <2>1, <3>1 DEF WalkInv, TypeOK, Return, LegOver, chain, budget, history
    <3>3. Counted' /\ Unanswered' /\ Remembered' /\ Avoided' /\ ErrorIsOwned'
      BY <2>1, <2>2, <3>1 DEF WalkInv, Counted, Unanswered, Remembered, Avoided, ErrorIsOwned,
                     Reportable, Return, LegOver, chain, budget, history
    <3> QED BY <3>2, <3>3 DEF WalkInv
  <2>4. CASE held = 0 /\ lastAt # 0
    <3>1. Return("error", first, lastAt)
      BY <2>1, <2>4 DEF Exhausted
    <3>2. TypeOK'
      BY <2>1, <3>1 DEF WalkInv, TypeOK, Return, LegOver, chain, budget, history
    <3>3. Counted' /\ Unanswered' /\ Remembered' /\ Avoided' /\ ErrorIsOwned'
      BY <2>1, <2>2, <2>4, <3>1 DEF WalkInv, Counted, Unanswered, Remembered, Avoided,
                     ErrorIsOwned, Reportable, Return, LegOver, chain, budget, history
    <3> QED BY <3>2, <3>3 DEF WalkInv
  <2>5. CASE held = 0 /\ lastAt = 0
    <3>1. Return("error", pre, 0) /\ calls = 0
      BY <2>1, <2>2, <2>5 DEF Exhausted, WalkInv, Remembered, Counted
    <3>2. TypeOK'
      BY <2>1, <3>1 DEF WalkInv, TypeOK, Return, LegOver, chain, budget, history
    <3>3. Counted' /\ Unanswered' /\ Remembered' /\ Avoided' /\ ErrorIsOwned'
      BY <2>1, <2>2, <2>5, <3>1 DEF WalkInv, Counted, Unanswered, Remembered, Avoided,
                     ErrorIsOwned, Reportable, Return, LegOver, chain, budget, history
    <3> QED BY <3>2, <3>3 DEF WalkInv
  <2> QED BY <2>3, <2>4, <2>5
<1> QED BY <1>1, <1>2, <1>3, <1>4

\* The top of a credential loop.
LEMMA LoopStepKeeps ==
  ASSUME WalkInv, LegOutOfTime \/ NothingLeft \/ WasteSelection
  PROVE  WalkInv'
<1>1. /\ phase = "leg" /\ calls \in Nat /\ attempts \in Nat
      /\ failed \in Code \cup {NoCode}
      /\ UNCHANGED <<stream, budget, frames, parked, history>>
  BY DEF WalkInv, TypeOK, LegOutOfTime, NothingLeft, WasteSelection
<1>2. failed # NoCode => calls # 0 /\ failed \in learned
  BY <1>1 DEF WalkInv, Counted, Remembered
<1>3. CASE LegOutOfTime \/ WasteSelection
  <2>1. LegEnds(BudgetCode, BudgetCode) /\ (late \/ attempts = 0)
    BY <1>1, <1>3 DEF LegOutOfTime, WasteSelection, Affords
  <2>2. failed # NoCode => BudgetCode \in Reportable /\ BudgetCode # NoCode
    BY <1>1, <1>2, <2>1, BudgetCodes DEF Reportable
  <2> QED BY <1>1, <2>1, <2>2, BudgetCodes, LegEndsKeeps
<1>4. CASE NothingLeft
  <2>1. LegEnds(failed, Unavailable)
    BY <1>4 DEF NothingLeft
  <2> QED BY <1>1, <1>2, <2>1, BudgetCodes, LegEndsKeeps DEF Reportable
<1> QED BY <1>3, <1>4

\* One more call, within the budget.
LEMMA AskKeeps == ASSUME WalkInv, NEW c \in Credentials, Ask(c) PROVE WalkInv'
<1>1. /\ at \in Members /\ attempts \in 1..MaxAttempts /\ calls \in Nat
      /\ Len(Chain) \in Nat
  BY ChainLength DEF WalkInv, TypeOK, Ask, Affords
<1>2. /\ attempts' \in 0..MaxAttempts /\ calls' \in Nat /\ called' \in 0..Len(Chain)
      /\ closed' \subseteq Credentials /\ cred' \in Credentials
  <2>1. MaxAttempts \in Nat
    BY RelayAssumption DEF Positive
  <2> QED BY <1>1, <2>1 DEF WalkInv, TypeOK, Ask, Members
<1>3. TypeOK'
  <2>1. UNCHANGED <<stream, at, failed, late, gone, frames, held, pre, first, lastAt, result,
                    parked, learned>> /\ phase' = "call"
    BY DEF Ask, chain
  <2> QED BY <1>1, <1>2, <2>1 DEF WalkInv, TypeOK
<1>4. Counted'
  BY <1>1 DEF WalkInv, Counted, TypeOK, Ask, Members
<1>5. Unanswered' /\ Avoided' /\ ErrorIsOwned'
  BY <1>1 DEF WalkInv, Unanswered, Avoided, ErrorIsOwned, Ask, Open
<1>6. Remembered'
  BY <1>1 DEF WalkInv, Remembered, Reportable, Ask, chain
<1> QED BY <1>3, <1>4, <1>5, <1>6 DEF WalkInv

\* A call that failed: the next credential, or the end of the leg.
LEMMA CallFailsKeeps ==
  ASSUME WalkInv, Calling, NEW code \in Code, NEW action, CallFails(code, action),
         parked' \subseteq Credentials, parked' \subseteq parked \cup {cred}
  PROVE  WalkInv'
<1>1. /\ phase \in {"call", "refusal"} /\ at \in Members /\ called = at /\ calls > 0
      /\ cred \in closed
      /\ UNCHANGED <<stream, budget, frames, calls, called>>
      /\ learned' = learned \cup {code} /\ learned' \subseteq Code /\ code # NoCode
  BY BudgetCodes DEF WalkInv, TypeOK, Counted, Avoided, Calling, CallFails
<1>2. CASE KeepsWalking(action, code)
  <2>1. /\ phase' = "leg" /\ cred' = NoCred /\ failed' = code
        /\ UNCHANGED <<at, closed, chain, result>>
    BY <1>2 DEF CallFails
  <2>2. TypeOK'
    BY <1>1, <2>1 DEF WalkInv, TypeOK, chain, budget
  <2>3. Counted' /\ Unanswered' /\ Avoided' /\ ErrorIsOwned'
    BY <1>1, <2>1 DEF WalkInv, Counted, Unanswered, Avoided, ErrorIsOwned, budget
  <2>4. Remembered'
    BY <1>1, <2>1 DEF WalkInv, Remembered, Reportable, chain, budget
  <2> QED BY <2>2, <2>3, <2>4 DEF WalkInv
<1>3. CASE ~KeepsWalking(action, code)
  <2>1. LegFails(code, action = "stop") /\ code \in Reportable'
    BY <1>1, <1>3 DEF CallFails, Reportable
  <2> QED BY <1>1, <2>1, LegFailsKeeps
<1> QED BY <1>2, <1>3

\* What a call may come to.
LEMMA CallStepKeeps ==
  ASSUME WalkInv,
         \/ \E p \in Policies, r \in Refusals : Refuse(p, r)
         \/ Unreachable \/ HangUp \/ Accept \/ Refused
  PROVE  WalkInv'
<1>1. cred \in Credentials \/ ~Calling
  BY DEF WalkInv, TypeOK, Calling
<1>2. parked \subseteq Credentials
  BY DEF WalkInv, TypeOK
<1>3. ASSUME NEW p \in Policies, NEW r \in Refusals, Refuse(p, r) PROVE WalkInv'
  <2>1. RefusalCode(r.class) \in Code
    BY DEF RefusalCode, Code
  <2>2. parked' \subseteq Credentials /\ parked' \subseteq parked \cup {cred}
    BY <1>1, <1>2, <1>3 DEF Refuse, Calling
  <2> QED BY <1>3, <2>1, <2>2, CallFailsKeeps DEF Refuse, Calling
<1>4. CASE Unreachable
  <2>1. PICK code \in {"UPSTREAM_ERROR", "UPSTREAM_TIMEOUT", "VALIDATION_ERROR"} :
          CallFails(code, "rotate")
    BY <1>4 DEF Unreachable
  <2>2. code \in Code
    BY DEF Code
  <2> QED BY <1>2, <1>4, <2>1, <2>2, CallFailsKeeps DEF Unreachable
<1>5. CASE HangUp
  <2>1. "UPSTREAM_TIMEOUT" \in Code
    BY DEF Code
  <2> QED BY <1>2, <1>5, <2>1, CallFailsKeeps DEF HangUp
<1>6. CASE Accept \/ Refused
  <2>1. TypeOK'
    BY <1>6 DEF WalkInv, TypeOK, Accept, Refused, Calling, leg, chain, budget, history
  <2>2. Counted' /\ Unanswered' /\ Remembered' /\ Avoided' /\ ErrorIsOwned'
    BY <1>6 DEF WalkInv, Counted, Unanswered, Remembered, Avoided, ErrorIsOwned,
                Reportable, Accept, Refused, Calling, leg, chain, budget, history
  <2> QED BY <2>1, <2>2 DEF WalkInv
<1> QED BY <1>3, <1>4, <1>5, <1>6

\* What an answer may come to.
LEMMA AnswerStepKeeps ==
  ASSUME WalkInv, Frame \/ Serve \/ Hold \/ AnswerFails
  PROVE  WalkInv'
<1> USE ChainLength DEF Members
<1>1. /\ phase = "answer" /\ at \in Members /\ called = at /\ calls > 0
      /\ parked \subseteq Credentials /\ cred \in Credentials
  BY DEF WalkInv, TypeOK, Counted, Frame, Serve, Hold, AnswerFails
<1>2. CASE Frame
  <2>1. TypeOK'
    BY <1>2 DEF WalkInv, TypeOK, Frame, leg, chain, budget, history
  <2>2. Counted' /\ Unanswered' /\ Remembered' /\ Avoided' /\ ErrorIsOwned'
    BY <1>1, <1>2 DEF WalkInv, Counted, Unanswered, Remembered, Avoided, ErrorIsOwned,
                Reportable, Frame, leg, chain, budget, history
  <2> QED BY <2>1, <2>2 DEF WalkInv
<1>3. Serve \/ Hold => parked' \subseteq Credentials
  BY <1>1 DEF Serve, Hold, Recorded
<1>4. CASE Serve
  <2>1. Return("answer", NoCode, at) /\ UNCHANGED <<stream, budget, frames, chain, history>>
    BY <1>4 DEF Serve
  <2>2. TypeOK'
    BY <1>1, <1>3, <1>4, <2>1 DEF WalkInv, TypeOK, Return, LegOver, chain, budget, history
  <2>3. Counted' /\ Unanswered' /\ Remembered' /\ Avoided' /\ ErrorIsOwned'
    BY <1>1, <2>1 DEF WalkInv, Counted, Unanswered, Remembered, Avoided, ErrorIsOwned,
                Reportable, Return, LegOver, chain, budget, history
  <2> QED BY <2>2, <2>3 DEF WalkInv
<1>5. CASE Hold
  <2>1. /\ NextMember /\ held' = at /\ ~stream
        /\ UNCHANGED <<stream, budget, frames, pre, first, lastAt, history>>
    BY <1>5 DEF Hold
  <2>2. TypeOK'
    BY <1>1, <1>3, <1>5, <2>1 DEF WalkInv, TypeOK, NextMember, After, LegOver, budget, history
  <2>3. Counted' /\ Unanswered' /\ Avoided' /\ ErrorIsOwned'
    BY <1>1, <2>1 DEF WalkInv, Counted, Unanswered, Avoided, ErrorIsOwned,
                      NextMember, LegOver, budget, history
  <2>4. Remembered'
    BY <1>1, <2>1 DEF WalkInv, Remembered, Reportable, NextMember, LegOver, budget, history
  <2> QED BY <2>2, <2>3, <2>4 DEF WalkInv
<1>6. CASE AnswerFails
  <2>1. PICK code \in {"UPSTREAM_ERROR", "UPSTREAM_TIMEOUT", "VALIDATION_ERROR"} :
          LegFails(code, FALSE) /\ learned' = learned \cup {code}
    BY <1>6 DEF AnswerFails
  <2>2. code \in Code
    BY DEF Code
  <2>3. learned' \subseteq Code /\ code \in Reportable'
    BY <2>1, <2>2 DEF Reportable, WalkInv, TypeOK
  <2>4. UNCHANGED <<stream, budget, frames, parked, calls, called>>
    BY <1>6 DEF AnswerFails
  <2> QED BY <1>1, <2>1, <2>2, <2>3, <2>4, LegFailsKeeps
<1> QED BY <1>2, <1>4, <1>5, <1>6

\* The clock, the client, a rest that ends, and nothing at all.
LEMMA AroundKeeps ==
  ASSUME WalkInv, Expire \/ Leave \/ (\E c \in Credentials : Heal(c)) \/ UNCHANGED vars
  PROVE  WalkInv'
<1>1. /\ UNCHANGED <<phase, stream, at, leg, attempts, frames, chain, result, history>>
      /\ parked' \subseteq parked /\ late' \in BOOLEAN /\ gone' \in BOOLEAN
      /\ late => late'
      /\ phase = "done" => late' = late
  BY DEF WalkInv, TypeOK, Expire, Leave, Heal, vars, budget
<1>2. TypeOK'
  BY <1>1 DEF WalkInv, TypeOK, leg, chain, history
<1>3. Counted' /\ Unanswered' /\ Avoided'
  BY <1>1 DEF WalkInv, Counted, Unanswered, Avoided, leg, history
<1>4. Remembered' /\ ErrorIsOwned'
  BY <1>1 DEF WalkInv, Remembered, ErrorIsOwned, Reportable, leg, chain, history
<1> QED BY <1>2, <1>3, <1>4 DEF WalkInv

LEMMA NextKeeps == ASSUME WalkInv, [Next]_vars PROVE WalkInv'
  BY ChainStepKeeps, LoopStepKeeps, AskKeeps, CallStepKeeps, AnswerStepKeeps, AroundKeeps
     DEF Next, Walk

---------------------------------------------------------------------------
(* The theorems.                                                           *)

\* What the walk says in the middle of a leg about the calls made, the failures
\* remembered and the credentials avoided holds at every step.
THEOREM WalkInductive == Spec => []WalkInv
<1>1. Init => WalkInv
  BY InitWalk
<1>2. WalkInv /\ [Next]_vars => WalkInv'
  BY NextKeeps
<1> QED BY <1>1, <1>2, PTL DEF Spec

\* Every variable of the walk keeps its type.
THEOREM WalkTypes == Spec => []TypeOK
<1>1. WalkInv => TypeOK
  BY DEF WalkInv
<1> QED BY <1>1, WalkInductive, PTL

\* A walk that called somebody reports a failure it saw, or its budget's, under the
\* member it called last; one that called nobody blames nobody.
THEOREM ErrorsAreOwned == Spec => []ErrorIsOwned
<1>1. WalkInv => ErrorIsOwned
  BY DEF WalkInv
<1> QED BY <1>1, WalkInductive, PTL

\* No leg of a walk asks a credential that the walk itself parked and that still rests.
THEOREM RestingIsLeftAlone == Spec => RestingNotAsked
<1> DEFINE LeftAlone == \A c \in Credentials : (calls' > calls /\ cred' = c) => c \notin parked
<1>1. ASSUME WalkInv, [Next]_vars PROVE LeftAlone \/ UNCHANGED vars
  <2>1. calls \in Nat
    BY <1>1 DEF WalkInv, TypeOK
  <2>2. ASSUME NEW c \in Credentials, Ask(c) PROVE LeftAlone
    <3>1. c \notin parked /\ cred' = c
      BY <1>1, <2>2 DEF WalkInv, Avoided, Ask, Open
    <3> QED BY <3>1
  <2>3. (\E c \in Credentials : Ask(c)) \/ calls' = calls
    BY <1>1 DEF Next, Walk, vars, history, OutOfTime, RefuseMember, BeginLeg, Conclude,
           LegOutOfTime, NothingLeft, WasteSelection, Refuse, Unreachable, HangUp, CallFails,
           Refused, Accept, Serve, Hold, AnswerFails, Frame, Expire, Leave, Heal
  <2> QED BY <2>1, <2>2, <2>3
<1> QED BY <1>1, WalkInductive, PTL DEF Spec, RestingNotAsked

---------------------------------------------------------------------------
(* Every step is a step of the one-answer promise, or none.                *)

Step == [OneAnswer!Next]_(OneAnswer!vars)

\* Where a phase of the walk stands in the promise.
LEMMA Stages ==
  /\ phase \in {"member", "leg"} => Stage = "idle"
  /\ phase \in {"call", "refusal", "answer"} => Stage = "asking"
  /\ phase = "done" => Stage = IF result.kind = "answer" THEN "answered" ELSE "failed"
  BY DEF Stage

LEMMA StagesNext ==
  /\ phase' \in {"member", "leg"} => Stage' = "idle"
  /\ phase' \in {"call", "refusal", "answer"} => Stage' = "asking"
  /\ phase' = "done" => Stage' = IF result'.kind = "answer" THEN "answered" ELSE "failed"
  BY DEF Stage

\* A return answers once, with an answer only if somebody was asked.
LEMMA ReturnIsStep ==
  ASSUME WalkInv, phase # "done", NEW kind, NEW code, NEW by, Return(kind, code, by),
         kind = "answer" => calls > 0, UNCHANGED <<calls, frames>>
  PROVE  Step
<1>1. Stage \in {"idle", "asking"}
  BY Stages DEF WalkInv, TypeOK
<1>2. phase' = "done" /\ result'.kind = kind
  BY DEF Return
<1>3. Stage' = IF kind = "answer" THEN "answered" ELSE "failed"
  BY <1>2, StagesNext
<1> QED BY <1>1, <1>3 DEF Step, OneAnswer!Next, OneAnswer!Finish

\* Going on in silence drops the call, if there was one.
LEMMA GoingOnIsStep ==
  ASSUME WalkInv, phase \in {"member", "leg", "call", "refusal", "answer"}, ~frames,
         phase' \in {"member", "leg"}, UNCHANGED <<calls, frames>>
  PROVE  Step
<1>1. Stage' = "idle"
  BY StagesNext
<1>2. CASE phase \in {"member", "leg"}
  BY <1>1, <1>2, Stages DEF Step, OneAnswer!vars
<1>3. CASE phase \in {"call", "refusal", "answer"}
  BY <1>1, <1>3, Stages DEF Step, OneAnswer!Next, OneAnswer!Drop
<1> QED BY <1>2, <1>3

LEMMA LegFailsIsStep ==
  ASSUME WalkInv, phase \in {"leg", "call", "refusal", "answer"}, NEW code, NEW stopped,
         LegFails(code, stopped), UNCHANGED <<calls, frames>>
  PROVE  Step
<1>1. CASE EndsWalk(code, stopped)
  <2>1. Return("error", code, at)
    BY <1>1 DEF LegFails
  <2> QED BY <2>1, ReturnIsStep
<1>2. CASE ~EndsWalk(code, stopped)
  <2>1. phase' = "member" /\ ~frames
    BY <1>2 DEF LegFails, NextMember, EndsWalk
  <2> QED BY <2>1, GoingOnIsStep
<1> QED BY <1>1, <1>2

LEMMA LegEndsIsStep ==
  ASSUME WalkInv, phase = "leg", NEW own, NEW code, LegEnds(own, code),
         UNCHANGED <<calls, frames>>
  PROVE  Step
<1>1. CASE failed # NoCode
  BY <1>1, LegFailsIsStep DEF LegEnds
<1>2. CASE failed = NoCode
  <2>1. phase' = "member" /\ ~frames
    BY <1>2 DEF LegEnds, LegRefused, NextMember, WalkInv, Unanswered
  <2> QED BY <2>1, GoingOnIsStep
<1> QED BY <1>1, <1>2

\* What the walk does when a call, or the reading of its answer, fails.
LEMMA CallFailsIsStep ==
  ASSUME WalkInv, Calling, NEW code, NEW action, CallFails(code, action)
  PROVE  Step
<1>1. UNCHANGED <<calls, frames>> /\ ~frames
  BY DEF CallFails, WalkInv, Unanswered, Calling
<1>2. CASE KeepsWalking(action, code)
  BY <1>1, <1>2, GoingOnIsStep DEF CallFails, Calling
<1>3. CASE ~KeepsWalking(action, code)
  BY <1>1, <1>3, LegFailsIsStep DEF CallFails, Calling
<1> QED BY <1>2, <1>3

LEMMA ChainStepIsStep ==
  ASSUME WalkInv, OutOfTime \/ RefuseMember \/ BeginLeg \/ Conclude
  PROVE  Step
<1>1. phase = "member" /\ ~frames /\ failed = NoCode /\ UNCHANGED <<calls, frames>>
  BY DEF WalkInv, Unanswered, Remembered, OutOfTime, RefuseMember, BeginLeg, Conclude,
         AtMember, history
<1>2. CASE OutOfTime
  BY <1>1, <1>2, ReturnIsStep DEF OutOfTime
<1>3. CASE RefuseMember \/ BeginLeg
  <2>1. phase' \in {"member", "leg"}
    BY <1>3 DEF RefuseMember, BeginLeg, LegRefused, NextMember
  <2> QED BY <1>1, <2>1, GoingOnIsStep
<1>4. CASE Conclude
  <2>1. held # 0 => calls > 0
    BY DEF WalkInv, Remembered, TypeOK
  <2>2. \/ Return("answer", NoCode, held) /\ held # 0
        \/ Return("error", first, lastAt) \/ Return("error", pre, 0)
    BY <1>4 DEF Conclude, Exhausted
  <2> QED BY <1>1, <2>1, <2>2, ReturnIsStep
<1> QED BY <1>2, <1>3, <1>4

LEMMA AskIsStep == ASSUME WalkInv, NEW c \in Credentials, Ask(c) PROVE Step
<1>1. attempts \in 1..MaxAttempts /\ calls \in Nat /\ attempts + calls = MaxAttempts
  BY DEF WalkInv, TypeOK, Counted, Ask, Affords
<1>2. MaxAttempts \in Nat
  BY RelayAssumption DEF Positive
<1>3. Stage = "idle" /\ Stage' = "asking" /\ ~frames /\ frames' = frames /\ calls' = calls + 1
  BY Stages, StagesNext DEF WalkInv, Unanswered, Ask
<1>4. calls < MaxAttempts
  BY <1>1, <1>2
<1> QED BY <1>3, <1>4 DEF Step, OneAnswer!Next, OneAnswer!Ask

LEMMA AnswerStepIsStep ==
  ASSUME WalkInv, Frame \/ Serve \/ Hold \/ AnswerFails
  PROVE  Step
<1>1. phase = "answer" /\ calls > 0 /\ calls' = calls /\ Stage = "asking"
  BY Stages DEF WalkInv, Counted, Frame, Serve, Hold, AnswerFails, history
<1>2. CASE Frame
  <2>1. Stage' = "asking" /\ ~frames /\ frames'
    BY <1>1, <1>2, StagesNext DEF Frame
  <2> QED BY <1>1, <1>2, <2>1 DEF Frame, Step, OneAnswer!Next, OneAnswer!Speak
<1>3. CASE Serve
  BY <1>1, <1>3, ReturnIsStep DEF Serve
<1>4. CASE Hold
  <2>1. ~frames
    BY <1>4 DEF WalkInv, Unanswered, Hold
  <2>2. phase' = "member" /\ UNCHANGED <<calls, frames>>
    BY <1>4 DEF Hold, NextMember, history
  <2> QED BY <1>1, <2>1, <2>2, GoingOnIsStep
<1>5. CASE AnswerFails
  BY <1>1, <1>5, LegFailsIsStep DEF AnswerFails
<1> QED BY <1>2, <1>3, <1>4, <1>5

LEMMA NextIsStep == ASSUME WalkInv, [Next]_vars PROVE Step
<1>1. ASSUME LegOutOfTime \/ NothingLeft \/ WasteSelection PROVE Step
  <2>1. phase = "leg" /\ UNCHANGED <<calls, frames>> /\ \E own, code : LegEnds(own, code)
    BY <1>1 DEF LegOutOfTime, NothingLeft, WasteSelection, history
  <2> QED BY <2>1, LegEndsIsStep
<1>2. ASSUME (\E p \in Policies, r \in Refusals : Refuse(p, r)) \/ Unreachable \/ HangUp
      PROVE  Step
  BY <1>2, CallFailsIsStep DEF Refuse, Unreachable, HangUp, Calling
<1>3. ASSUME Accept \/ Refused \/ Expire \/ Leave \/ (\E c \in Credentials : Heal(c)) \/ UNCHANGED vars
      PROVE  Step
  <2>1. /\ UNCHANGED <<result, calls, frames>>
        /\ phase' = phase \/ {phase, phase'} \subseteq {"call", "refusal", "answer"}
    BY <1>3 DEF Accept, Refused, Calling, Expire, Leave, Heal, vars, history
  <2>2. Stage' = Stage
    BY <2>1, Stages, StagesNext DEF Stage
  <2> QED BY <2>1, <2>2 DEF Step, OneAnswer!vars
<1> QED BY <1>1, <1>2, <1>3, ChainStepIsStep, AskIsStep, AnswerStepIsStep DEF Next, Walk

\* For any chain, budget and behaviour of upstreams, the walk implements the promise:
\* one upstream at a time, no more than the budget pays for, nobody after the first
\* frame, and one answer.
THEOREM KeepsOneAnswer == Spec => OneAnswerSpec
<1>1. Init => OneAnswer!Init
  BY Stages DEF Init, OneAnswer!Init
<1>2. WalkInv /\ [Next]_vars => Step
  BY NextIsStep
<1> QED BY <1>1, <1>2, WalkInductive, PTL DEF Spec, OneAnswerSpec, OneAnswer!Spec, Step
===========================================================================
