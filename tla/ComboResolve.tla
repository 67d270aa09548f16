------------------------------ MODULE ComboResolve ------------------------------
(***************************************************************************)
(* How one requested name becomes one provider model                       *)
(* (dataplane/resolve.go, resolve_combo.go, resolve_combo_member.go): the  *)
(* recursive walk over combos and aliases with its three guards and its    *)
(* memo, as the program runs it, against what the names mean.  The stored  *)
(* graph is any graph: edits one at a time can close a cycle that no       *)
(* single edit is refused for, and rows may predate the rules.  Any lookup *)
(* of a name may fail.                                                     *)
(***************************************************************************)
EXTENDS Integers, Sequences, FiniteSets, Functions, TLC

CONSTANTS
  Combos, AliasNames,
  Served, Gone,                                  \* provider/model references
  ComboDepthLimit, ComboExpansionLimit, AliasHopLimit,
  Graphs                                         \* the stored graphs to resolve in

Models == Served \union Gone
Refs == Combos \union AliasNames \union Models

ComboResolveAssumption ==
  /\ \A g \in Graphs :
       /\ g.members \in [Combos -> Seq(Refs)]
       /\ g.target \in [AliasNames -> Refs]
  /\ {ComboDepthLimit, ComboExpansionLimit, AliasHopLimit} \subseteq Nat

VARIABLES
  graph,     \* the combos and aliases as stored
  asked,     \* the name a request carries
  stack,     \* the walk's calls, the innermost last
  answer,    \* what the innermost call returned
  memo,      \* resolveState: the combos answered, and the expansions so far
  expanded,
  stopped,   \* a guard refused a name of this walk
  unread     \* a lookup of this walk failed

resolveVars == <<graph, asked, stack, answer, memo, expanded, stopped, unread>>

Refused == "refused"
Pending == "pending"
Nobody == "nobody"

\* A call resolves a name met as such, as a member, or a combo from its i-th member on.
Within(ref, hops) == [resolves |-> "name", ref |-> ref, depth |-> 0, hops |-> hops, i |-> 0]
Member(ref, depth, hops) == [resolves |-> "member", ref |-> ref, depth |-> depth, hops |-> hops, i |-> 0]
ComboWithin(ref, depth, hops) == [resolves |-> "combo", ref |-> ref, depth |-> depth, hops |-> hops, i |-> 1]

Init ==
  /\ graph \in Graphs
  /\ asked = Nobody
  /\ stack = <<>>
  /\ answer = Pending
  /\ memo = <<>>
  /\ expanded = 0
  /\ stopped = FALSE /\ unread = FALSE

Resolve(name) ==
  /\ stack = <<>>
  /\ asked' = name
  /\ stack' = <<Within(name, 0)>>
  /\ answer' = Pending /\ memo' = <<>> /\ expanded' = 0
  /\ stopped' = FALSE /\ unread' = FALSE
  /\ UNCHANGED graph

Top == stack[Len(stack)]
Below == SubSeq(stack, 1, Len(stack) - 1)
Return(result) == stack' = Below /\ answer' = result
Continue(call) == stack' = Below \o <<call>> /\ answer' = Pending

ResolveReference(ref) == Return(IF ref \in Served THEN ref ELSE Refused)

\* A failure is remembered like a success, under whatever depth it was met.
Remember(combo, result) == memo' = (combo :> result) @@ memo

\* A guard refuses the name, or the lookup of a combo or an alias fails: an error for whoever
\* asked, and a combo among them takes it as one more member that does not resolve.  A
\* provider's model is found in the registry, which does not fail.
Stop == Return(Refused) /\ stopped' = TRUE /\ UNCHANGED unread
LookupFails ==
  /\ Top.ref \notin Models
  /\ Return(Refused) /\ unread' = TRUE /\ UNCHANGED stopped

ResolveWithin ==
  /\ stack # <<>> /\ Top.resolves = "name"
  /\ \/ Top.hops >= AliasHopLimit /\ Stop
     \/ Top.hops < AliasHopLimit /\ LookupFails
     \/ /\ Top.hops < AliasHopLimit
        /\ CASE Top.ref \in Combos ->
                  IF graph.members[Top.ref] = <<>> THEN Return(Refused)
                  ELSE Continue(ComboWithin(Top.ref, 0, 0))
             [] Top.ref \in AliasNames -> Continue(Within(graph.target[Top.ref], Top.hops + 1))
             [] OTHER -> ResolveReference(Top.ref)
        /\ UNCHANGED <<stopped, unread>>
  /\ UNCHANGED <<graph, asked, memo, expanded>>

\* An alias among the members keeps the depth while its target is a combo; a target
\* that is an alias again starts the walk over, one hop on: a loop through it is not
\* stopped by the depth but by the expansions.
ResolveMember ==
  /\ stack # <<>> /\ Top.resolves = "member"
  /\ \/ LookupFails
     \/ /\ LET ref == IF Top.ref \in AliasNames THEN graph.target[Top.ref] ELSE Top.ref IN
           CASE ref \in Combos -> Continue(ComboWithin(ref, Top.depth + 1, Top.hops))
             [] ref # Top.ref /\ ref \notin Combos -> Continue(Within(ref, Top.hops + 1))
             [] OTHER -> ResolveReference(ref)
        /\ UNCHANGED <<stopped, unread>>
  /\ UNCHANGED <<graph, asked, memo, expanded>>

\* mutant: what the memo holds is not looked at
AnsweredNever(combo) == FALSE
Answered(combo) == combo \in DOMAIN memo

Enters == Top.resolves = "combo" /\ Top.i = 1 /\ answer = Pending
ResolveComboWithin ==
  LET members == graph.members[Top.ref] IN
  /\ stack # <<>> /\ Enters
  /\ IF members = <<>>
     THEN Return(Refused) /\ UNCHANGED <<expanded, stopped, unread>>
     ELSE \/ Top.depth >= ComboDepthLimit /\ Stop /\ UNCHANGED expanded
          \/ /\ Top.depth < ComboDepthLimit /\ Answered(Top.ref)
             /\ Return(memo[Top.ref]) /\ UNCHANGED <<expanded, stopped, unread>>
          \/ /\ Top.depth < ComboDepthLimit /\ ~Answered(Top.ref)
             /\ expanded >= ComboExpansionLimit
             /\ Stop /\ UNCHANGED expanded
          \/ /\ Top.depth < ComboDepthLimit /\ ~Answered(Top.ref)
             /\ expanded < ComboExpansionLimit /\ expanded' = expanded + 1
             /\ stack' = Append(stack, Member(members[1], Top.depth, Top.hops))
             /\ UNCHANGED <<answer, stopped, unread>>
  /\ UNCHANGED <<graph, asked, memo>>

\* The i-th member answered: the first one that resolves is the combo's answer.
MemberAnswered ==
  LET members == graph.members[Top.ref] IN
  /\ stack # <<>> /\ Top.resolves = "combo" /\ answer # Pending
  /\ IF answer = Refused /\ Top.i < Len(members)
     THEN /\ stack' = Below \o <<[Top EXCEPT !.i = @ + 1],
                                       Member(members[Top.i + 1], Top.depth, Top.hops)>>
          /\ answer' = Pending
          /\ UNCHANGED memo
     ELSE Return(answer) /\ Remember(Top.ref, answer)
  /\ UNCHANGED <<graph, asked, expanded, stopped, unread>>

Next ==
  \/ \E name \in Combos \union AliasNames : Resolve(name)
  \/ ResolveWithin \/ ResolveMember \/ ResolveComboWithin \/ MemberAnswered

Spec == Init /\ [][Next]_resolveVars
-----------------------------------------------------------------------------
(* What the names mean: a combo is its first member that means anything. *)

Children(ref) ==
  CASE ref \in Combos -> Range(graph.members[ref])
    [] ref \in AliasNames -> {graph.target[ref]}
    [] OTHER -> {}

\* The sets closed under a step of the names, and the least of them.
Least(Closed(_)) == {r \in Refs : \A S \in {T \in SUBSET Refs : Closed(T)} : r \in S}
Reachable(ref) == Least(LAMBDA S : ref \in S /\ \A r \in S : Children(r) \subseteq S)
Meaningful ==
  Least(LAMBDA S : Served \subseteq S /\ \A r \in Refs : Children(r) \intersect S # {} => r \in S)

Cyclic(ref) == \E r \in Reachable(ref) : \E s \in Children(r) : r \in Reachable(s)

\* The member a combo comes to, and the name an alias stands for.
StandsFor(ref) == IF ref \in AliasNames THEN graph.target[ref]
              ELSE SelectSeq(graph.members[ref], LAMBDA r : r \in Meaningful)[1]

\* What every name comes to in n such steps; without a loop no more than there are names.
Means[n \in 0..Cardinality(Refs)] ==
  [ref \in Refs |-> IF ref \in Served THEN ref
                    ELSE IF n = 0 \/ ref \notin Meaningful THEN Refused
                    ELSE Means[n - 1][StandsFor(ref)]]
Meaning(ref) == Means[Cardinality(Refs)][ref]

\* What no guard may refuse: a name without a loop that reaches no more combos than the
\* shorter of the two limits, whatever the paths between them, and fewer aliases than theirs.
Fits(ref) ==
  /\ ~Cyclic(ref)
  /\ Cardinality(Reachable(ref) \intersect Combos) <= ComboDepthLimit
  /\ Cardinality(Reachable(ref) \intersect Combos) <= ComboExpansionLimit
  /\ Cardinality(Reachable(ref) \intersect AliasNames) < AliasHopLimit

\* The walk answers a model the name reaches, or none; whatever the graph, exactly what the
\* name means, unless a guard refused something on the way or a lookup failed; no guard
\* refuses a name that fits; and it ends within the guards, loops or not.
ResolvesMeaning ==
  /\ stack = <<>> /\ asked # Nobody =>
       /\ answer \in (Reachable(asked) \intersect Served) \union {Refused}
       /\ ~stopped /\ ~unread => answer = Meaning(asked)
       /\ Fits(asked) => ~stopped
  /\ expanded <= ComboExpansionLimit /\ Len(stack) <= ComboExpansionLimit + 1

\* What resolve_combo.go says of every combo: only one with no routable entry fails.
RoutableNeverRefused ==
  stack = <<>> /\ ~unread /\ asked \in Meaningful => answer # Refused

\* An instance: combos that loop, one of which is met at the depth limit first and by a
\* short way afterwards.
LoopingNames ==
  {[members |-> "a" :> <<"b">> @@ "b" :> <<"e">> @@ "e" :> <<"a", "c">> @@ "c" :> <<"d">> @@ "d" :> <<"m">>,
    target |-> <<>>]}
=============================================================================
