----------------------------- MODULE SelectionWalk -----------------------------
(***************************************************************************)
(* One provider leg's walk over the credentials it may spend               *)
(* (dataplane/selection_plan.go) and the two Redis cursors concurrent legs *)
(* share: the account cursor's script (endpoint_cursor.go) and the         *)
(* per-account key counter (key_cursor.go).  A leg loads one snapshot,     *)
(* takes one account position, and asks for the next credential until one  *)
(* serves or the snapshot has nothing left.  Accounts stand in priority    *)
(* order; so do an account's keys; an account with no keys carries its own *)
(* token and is itself the credential.                                     *)
(***************************************************************************)
EXTENDS Integers, Sequences, FiniteSets, Functions

CONSTANTS
  Accounts,       \* sequence, by priority then id
  KeysOf,         \* per account, its keys by priority
  Legs,           \* requests that walk together
  Sticky,         \* the strategy's sticky limit
  MaxLegs,        \* bound: legs begun
  MaxFlips        \* bound: changes of a credential or of the pool

AccountSet == Range(Accounts)
AllKeys == UNION {Range(KeysOf[a]) : a \in AccountSet}
Units == AccountSet \union AllKeys

SelectionWalkAssumption ==
  /\ Accounts \in Seq(AccountSet) /\ KeysOf \in [AccountSet -> Seq(AllKeys)]
  /\ Sticky \in Nat \ {0}
  /\ {MaxLegs, MaxFlips} \subseteq Nat

Conditions == {"healthy", "parked", "unreadable"}
Unread == -2     \* the account's counter was not asked yet
NoCounter == -1  \* it was, and Redis did not answer

VARIABLES
  listed,    \* accounts the list answers: active ones
  health,    \* per account and key; an unreadable one is healthy by its status
  spentUp,   \* accounts over their quota budget
  rotates,   \* the strategy: round robin, or fill first
  cursor,    \* pannelai:cursor:endpoint: the offset and its consecutive uses
  counter,   \* pannelai:cursor:key, per account
  leg,       \* per request
  turns,     \* history: the positions handed out over one pool size
  begun,     \* history: legs begun
  flips

walkVars == <<listed, health, spentUp, rotates, cursor, counter, leg, turns, begun, flips>>
World == <<listed, health, spentUp, rotates, flips>>

NoLeg == [at |-> "idle", pool |-> <<>>, health |-> [u \in Units |-> "parked"], offset |-> 0,
          keyOffset |-> [a \in AccountSet |-> Unread], within |-> {}, over |-> {},
          spent |-> {}, picked |-> {}]

Init ==
  /\ listed = AccountSet
  /\ health = [u \in Units |-> "healthy"]
  /\ spentUp = {}
  /\ rotates \in BOOLEAN
  /\ cursor = [offset |-> 0, used |-> 0]
  /\ counter = [a \in AccountSet |-> 0]
  /\ leg = [l \in Legs |-> NoLeg]
  /\ turns = [size |-> 0, handed |-> <<>>]
  /\ begun = 0
  /\ flips = 0

-----------------------------------------------------------------------------
(* BeginPlan. *)

\* Those of a sequence that are in S, in its order.
Among(s, S) ==
  LET kept == {i \in DOMAIN s : s[i] \in S} IN
  {t \in UNION {[1..n -> Range(s) \intersect S] : n \in 0..Len(s)} :
     \E at \in [DOMAIN t -> kept] :
       /\ Range(at) = kept
       /\ \A i, j \in DOMAIN t : i < j => at[i] < at[j]
       /\ \A i \in DOMAIN t : t[i] = s[at[i]]}

Load(l) ==
  /\ leg[l].at = "idle" /\ begun < MaxLegs
  /\ begun' = begun + 1
  /\ \E pool \in Among(Accounts, listed) :
       leg' = [leg EXCEPT ![l] = [NoLeg EXCEPT
         !.at = IF rotates THEN "position" ELSE "ask", !.pool = pool, !.health = health]]
  /\ UNCHANGED <<World, cursor, counter, turns>>

\* The script: a position is kept for Sticky legs, then the next account leads.
Advanced(c, n) ==
  LET at == c.offset % n IN
  IF c.used < Sticky THEN [offset |-> at, used |-> c.used + 1]
  ELSE [offset |-> (at + 1) % n, used |-> 1]

\* A stored offset is only written when it moves, so a pool that shrank keeps it.
Position(l) ==
  LET n == Len(leg[l].pool)
      next == Advanced(cursor, n)
      stored == IF next.offset = cursor.offset % n THEN cursor.offset ELSE next.offset IN
  /\ leg[l].at = "position" /\ n > 1
  /\ cursor' = [next EXCEPT !.offset = stored]
  /\ leg' = [leg EXCEPT ![l].at = "ask", ![l].offset = next.offset]
  /\ turns' = [size |-> n,
               handed |-> Append(IF turns.size = n THEN turns.handed ELSE <<>>, next.offset)]
  /\ UNCHANGED <<World, counter, begun>>

\* One account needs no position; a cursor that cannot be read means priority order.
NoPosition(l) ==
  /\ leg[l].at = "position"
  /\ leg' = [leg EXCEPT ![l].at = "ask"]
  /\ UNCHANGED <<World, cursor, counter, turns, begun>>

-----------------------------------------------------------------------------
(* Next. *)

\* mutant: the walk stops at the end of the list instead of wrapping
RotatedShort(s, n) == IF s = <<>> THEN s ELSE SubSeq(s, (n % Len(s)) + 1, Len(s))
Rotated(s, n) == [i \in 1..Len(s) |-> s[((n + i - 1) % Len(s)) + 1]]
\* The first one of a sequence this request has not spent.
FirstUnspent(w, s) ==
  LET found == {i \in DOMAIN s : s[i] \notin w.spent} IN
  IF found = {} THEN {} ELSE {s[CHOOSE i \in found : \A j \in found : i <= j]}

Over(w, a) == IF a \in w.within \union w.over THEN a \in w.over ELSE a \in spentUp
ValidKeys(w, a) == {k \in Range(KeysOf[a]) : w.health[k] # "parked"}

\* The key an account offers: at the counter's offset among the keys that may be
\* spent now, walking past the ones this request has spent. Without the counter it is
\* the one idle for longest, which the stamps decide: any of them.
Chosen(w, a, offset) ==
  IF rotates /\ offset = NoCounter
  THEN {{k} : k \in ValidKeys(w, a) \ w.spent}
       \union IF ValidKeys(w, a) \subseteq w.spent THEN {{}} ELSE {}
  ELSE {FirstUnspent(w, IF rotates THEN Rotated(valid, offset) ELSE valid) :
          valid \in Among(KeysOf[a], ValidKeys(w, a))}

\* What pickFrom answers: a credential, nothing, or an error, which is an account to
\* pass over too.
Offers(w, a, offset) ==
  IF w.health[a] = "parked" \/ Over(w, a) THEN {{}}
  ELSE IF KeysOf[a] = <<>> THEN {IF w.health[a] = "unreadable" THEN {} ELSE {a} \ w.spent}
  ELSE {IF \E k \in c : w.health[k] = "unreadable" THEN {} ELSE c : c \in Chosen(w, a, offset)}

\* The counter of a keyed account on the way is rolled once for the leg.
Rolls(w, a) ==
  rotates /\ w.keyOffset[a] = Unread /\ KeysOf[a] # <<>> /\ w.health[a] # "parked" /\ ~Over(w, a)
KeyOffset(w, a, answered) ==
  IF ~Rolls(w, a) THEN w.keyOffset[a] ELSE IF answered THEN counter[a] + 1 ELSE NoCounter

\* Accounts from the leg's position on, until one offers a credential. The budget of an
\* account on the way is read once.
Ask(l) ==
  LET w == leg[l]
      order == Rotated(w.pool, w.offset) IN
  /\ w.at = "ask"
  /\ \E answered \in BOOLEAN, upto \in 0..Len(order) :
       LET offers(i) == Offers(w, order[i], KeyOffset(w, order[i], answered))
           seen == {order[i] : i \in 1..upto}
           read == {a \in seen : w.health[a] # "parked"} IN
       \E pick \in IF upto = 0 THEN {{}} ELSE offers(upto) :
         /\ \A i \in 1..(upto - 1) : {} \in offers(i)
         /\ pick = {} => upto = Len(order)
         /\ leg' = [leg EXCEPT ![l] =
              [w EXCEPT !.at = IF pick = {} THEN "gaveup" ELSE "called", !.picked = pick,
                        !.within = @ \union {a \in read : ~Over(w, a)},
                        !.over = @ \union {a \in read : Over(w, a)},
                        !.keyOffset = [a \in AccountSet |->
                           IF a \in seen THEN KeyOffset(w, a, answered) ELSE @[a]]]]
         /\ counter' = [a \in AccountSet |->
              IF a \in seen /\ Rolls(w, a) /\ answered THEN counter[a] + 1 ELSE counter[a]]
  /\ UNCHANGED <<World, cursor, turns, begun>>

\* The call failed over: the credential is spent and the leg asks again.
FailOver(l) ==
  /\ leg[l].at = "called"
  /\ leg' = [leg EXCEPT ![l].at = "ask", ![l].spent = @ \union leg[l].picked, ![l].picked = {}]
  /\ UNCHANGED <<World, cursor, counter, turns, begun>>

End(l) ==
  /\ leg[l].at \in {"called", "gaveup"}
  /\ leg' = [leg EXCEPT ![l] = NoLeg]
  /\ UNCHANGED <<World, cursor, counter, turns, begun>>

\* Meanwhile credentials park and recover, seals rot, budgets run out and operators
\* take accounts out.
Flip ==
  /\ flips < MaxFlips /\ flips' = flips + 1
  /\ \/ /\ \E u \in Units, c \in Conditions : health' = [health EXCEPT ![u] = c]
        /\ UNCHANGED <<listed, spentUp>>
     \/ /\ \E a \in AccountSet : listed' = (listed \ {a}) \union ({a} \ listed)
        /\ UNCHANGED <<health, spentUp>>
     \/ /\ \E a \in AccountSet : spentUp' = (spentUp \ {a}) \union ({a} \ spentUp)
        /\ UNCHANGED <<health, listed>>
  /\ UNCHANGED <<rotates, cursor, counter, leg, turns, begun>>

Next ==
  \/ \E l \in Legs : Load(l) \/ Position(l) \/ NoPosition(l) \/ Ask(l) \/ FailOver(l) \/ End(l)
  \/ Flip

Spec == Init /\ [][Next]_walkVars
-----------------------------------------------------------------------------
WalkStages == {"idle", "position", "ask", "called", "gaveup"}
Walks ==
  [at : WalkStages, pool : Seq(AccountSet), health : [Units -> Conditions], offset : Nat,
   keyOffset : [AccountSet -> Nat \union {NoCounter, Unread}],
   within : SUBSET AccountSet, over : SUBSET AccountSet,
   spent : SUBSET Units, picked : SUBSET Units]
TypeOK ==
  /\ listed \subseteq AccountSet /\ spentUp \subseteq AccountSet
  /\ health \in [Units -> Conditions]
  /\ rotates \in BOOLEAN
  /\ cursor \in [offset : Nat, used : 0..Sticky]
  /\ counter \in [AccountSet -> Nat]
  /\ leg \in [Legs -> Walks]
  /\ turns \in [size : Nat, handed : Seq(Nat)]
  /\ begun \in Nat /\ flips \in Nat

\* A leg that gives up has spent every credential its snapshot offered, wherever the
\* cursors stood and whatever the other legs did to them; only the siblings of a
\* credential that cannot be read may be left.
Usable(w, a) == w.health[a] # "parked" /\ a \notin w.over
Complete(w) ==
  \A a \in {b \in Range(w.pool) : Usable(w, b)} :
    IF KeysOf[a] = <<>> THEN a \in w.spent \/ w.health[a] = "unreadable"
    ELSE \/ ValidKeys(w, a) \subseteq w.spent
         \/ \E k \in ValidKeys(w, a) : w.health[k] = "unreadable"
LegComplete == \A l \in Legs : leg[l].at = "gaveup" => Complete(leg[l])

\* While the pool keeps its size every account leads Sticky legs in a row and then the
\* next one leads, though concurrent legs step one cursor; only the run the size was
\* met in may be shorter.
RunsFrom(h) == {i \in DOMAIN h : i = 1 \/ h[i] # h[i - 1]}
After(h, i) == {j \in RunsFrom(h) : j > i}
NextRun(h, i) == CHOOSE j \in After(h, i) : \A k \in After(h, i) : j <= k
TurnsTaken(h, size) ==
  \A i \in RunsFrom(h) :
    IF After(h, i) = {} THEN Len(h) + 1 - i <= Sticky
    ELSE /\ NextRun(h, i) - i <= Sticky
         /\ i = 1 \/ NextRun(h, i) - i = Sticky
         /\ h[NextRun(h, i)] = (h[i] + 1) % size
LegsTakeTurns == TurnsTaken(turns.handed, turns.size)

WalkSound == LegComplete /\ LegsTakeTurns

\* The strengthening of the proof: the last run handed out is the position the cursor stands
\* at, and as long as the cursor counts, unless the pool's size was met in it.
LastRun(h, s, used) ==
  /\ s \in RunsFrom(h) /\ \A i \in RunsFrom(h) : i <= s
  /\ \A i \in s..Len(h) : h[i] = h[s]
  /\ Len(h) + 1 - s <= used /\ (s = 1 \/ Len(h) + 1 - s = used)
LastRunCounted ==
  LET h == turns.handed IN
  h # <<>> => /\ turns.size > 1 /\ h[Len(h)] = cursor.offset % turns.size
              /\ \E s \in RunsFrom(h) : LastRun(h, s, cursor.used)
WalkInv == TypeOK /\ WalkSound /\ LastRunCounted

\* What selection_plan.go says of an unreadable credential and the walk does not do: a
\* later credential serves, the account's own next key too.
LaterOneServes ==
  \A l \in Legs : leg[l].at = "gaveup" =>
    \A a \in {b \in Range(leg[l].pool) : Usable(leg[l], b)} :
      \A k \in ValidKeys(leg[l], a) : k \in leg[l].spent \/ leg[l].health[k] = "unreadable"
=============================================================================
