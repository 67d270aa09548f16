--------------------------------- MODULE Fusion ---------------------------------
(***************************************************************************)
(* A request addressed to a fusion combo (dataplane/engine_fusion.go): its *)
(* members are asked in parallel, at most Limit of them at a time, and the *)
(* judge, or the one member that answered, serves the client.  What a      *)
(* member's own walk of credentials does is RelayWalk; here it ends.       *)
(***************************************************************************)
EXTENDS Integers, Sequences, FiniteSets, FiniteSetsExt

CONSTANTS
  Size,      \* references the combo lists
  Limit      \* fusionFanOutLimit

FusionAssumption == Size \in Nat /\ Limit \in Nat \ {0}

Refs == 1..Size
NoOne == 0
Judge == Size + 1
Answered == "text"
\* How a member's leg can end: prose, an answer with no text in it, a failure that names
\* the attempt it is about, a panic.
Legs == {Answered, "blank", "failed", "panic"}

VARIABLES
  answers,    \* environment: how each member ends, "gone" for a broken reference
  wants,      \* the client's stream flag
  judges,     \* environment: how the judge ends; "gone" when its reference does not resolve
  stage,      \* "members", "fan", "choose", "again", "judge", "done"
  members,    \* the references that resolved, in the combo's order
  seat,       \* per position in members: its goroutine
  held,       \* len(sem)
  results,    \* per position: what its goroutine wrote
  gone,       \* the client hung up
  read,       \* what the judge read, in order
  served      \* what the client gets: who it is from, and whether it is an error

fusionVars == <<answers, wants, judges, stage, members, seat, held, results, gone, read, served>>

Nothing == [from |-> NoOne, error |-> FALSE]
Unwritten == [member |-> NoOne, leg |-> "failed"]

Init ==
  /\ answers \in [Refs -> Legs \union {"gone"}]
  /\ wants \in BOOLEAN
  /\ judges \in {"text", "failed", "gone"}
  /\ stage = "members"
  /\ members = <<>> /\ seat = <<>> /\ results = <<>>
  /\ held = 0
  /\ gone = FALSE
  /\ read = <<>>
  /\ served = Nothing

\* A set of numbers as the sequence that lists them upwards: the order of the combo.
Ascending(T) ==
  {s \in UNION {[1..n -> T] : n \in 0..Size} :
     Range(s) = T /\ \A i, j \in DOMAIN s : i < j => s[i] < s[j]}

Given == <<answers, wants, judges>>
Positions == 1..Len(members)

Serve(from, error) == stage' = "done" /\ served' = [from |-> from, error |-> error]

\* fusionMembers, then one goroutine a member. A combo whose every reference is broken
\* is refused with the last reference's error.
Resolve ==
  /\ stage = "members"
  /\ members' \in Ascending({i \in Refs : answers[i] # "gone"})
  /\ seat' = [p \in 1..Len(members') |-> "waits"]
  /\ results' = [p \in 1..Len(members') |-> Unwritten]
  /\ IF members' = <<>> THEN Serve(NoOne, TRUE) ELSE stage' = "fan" /\ UNCHANGED served
  /\ UNCHANGED <<Given, held, gone, read>>

\* The semaphore is taken inside the goroutine, whether or not the client still waits.
Enter(p) ==
  /\ stage = "fan" /\ seat[p] = "waits"
  /\ held < Limit
  /\ held' = held + 1
  /\ seat' = [seat EXCEPT ![p] = "asks"]
  /\ UNCHANGED <<Given, stage, members, results, gone, read, served>>

\* mutant: answers are collected as they arrive
SlotByArrival(p) == 1 + Cardinality({q \in Positions : seat[q] = "left"})
Slot(p) == p

Released(leg) == held - 1

\* relayOnce returns, the goroutine writes its own result and gives its place up. A
\* client that left fails what still runs, though an answer may beat the cancellation.
Leave(p) ==
  \E leg \in {answers[members[p]]} \union IF gone THEN {"failed"} ELSE {} :
    /\ stage = "fan" /\ seat[p] = "asks"
    /\ results' = [results EXCEPT ![Slot(p)] = [member |-> members[p], leg |-> leg]]
    /\ seat' = [seat EXCEPT ![p] = "left"]
    /\ held' = Released(leg)
    /\ UNCHANGED <<Given, stage, members, gone, read, served>>

\* The positions of those that answered, and the first of some positions.
Texts == {p \in DOMAIN results : results[p].leg = Answered}
Failures == DOMAIN results \ Texts
FirstOf(positions) == results[Min(positions)]

\* wg.Wait, then relayFusion's switch. A panicked member's result carries no identity.
Choose ==
  /\ stage = "fan"
  /\ \A p \in Positions : seat[p] = "left"
  /\ \/ /\ Texts = {}
        /\ LET first == FirstOf(Failures) IN
           Serve(IF first.leg = "panic" THEN NoOne ELSE first.member, TRUE)
        /\ UNCHANGED read
     \/ /\ Cardinality(Texts) = 1 /\ ~wants
        /\ Serve(FirstOf(Texts).member, FALSE)
        /\ UNCHANGED read
     \/ /\ Cardinality(Texts) = 1 /\ wants
        /\ stage' = "again"
        /\ UNCHANGED <<read, served>>
     \/ /\ Cardinality(Texts) > 1
        /\ stage' = "judge"
        /\ \E texts \in Ascending(Texts) :
             read' = [n \in DOMAIN texts |-> results[texts[n]].member]
        /\ UNCHANGED served
  /\ UNCHANGED <<Given, members, seat, held, results, gone>>

\* The surviving member is asked again with the client's own request.
AskAgain ==
  \E error \in BOOLEAN :
    /\ stage = "again"
    /\ Serve(FirstOf(Texts).member, error)
    /\ UNCHANGED <<Given, members, seat, held, results, gone, read>>

AskJudge ==
  \E leg \in {judges} \union IF gone /\ judges # "gone" THEN {"failed"} ELSE {} :
    /\ stage = "judge"
    /\ Serve(IF leg = "gone" THEN NoOne ELSE Judge, leg # Answered)
    /\ UNCHANGED <<Given, members, seat, held, results, gone, read>>

HangUp ==
  /\ stage # "done" /\ ~gone
  /\ gone' = TRUE
  /\ UNCHANGED <<Given, stage, members, seat, held, results, read, served>>

Ends == Resolve \/ Choose \/ AskAgain \/ AskJudge \/ \E p \in Positions : Enter(p) \/ Leave(p)
Next == Ends \/ HangUp

Spec == Init /\ [][Next]_fusionVars

-----------------------------------------------------------------------------

TypeOK ==
  /\ answers \in [Refs -> Legs \union {"gone"}]
  /\ wants \in BOOLEAN /\ gone \in BOOLEAN /\ judges \in {"text", "failed", "gone"}
  /\ stage \in {"members", "fan", "again", "judge", "done"}
  /\ members \in Seq(Refs) /\ Range(read) \subseteq Refs
  /\ seat \in [Positions -> {"waits", "asks", "left"}]
  /\ results \in [Positions -> [member : Refs \union {NoOne}, leg : Legs]]
  /\ held \in 0..Limit
  /\ served \in [from : Refs \union {NoOne, Judge}, error : BOOLEAN]

\* Every place in the semaphore is held by a goroutine that is asking its member, and no
\* more than the limit ask at once: a panic gives its place back like any other ending,
\* so the members that queue behind it are asked too (engine_fusion.go fanOut).
PlacesAreHeld ==
  held = Cardinality({p \in DOMAIN seat : seat[p] = "asks"}) /\ held <= Limit

\* What a sequential loop over the members would have collected.
Texted == {i \in Refs : answers[i] = Answered}
Failing == {i \in Refs : answers[i] \notin {Answered, "gone"}}

\* However the members' answers interleave, a client that waits gets what asking them one
\* after another would have given: the judge reads the answers in the combo's order, one
\* answer is served as its own, and with none the error is about the first member that
\* failed (engine_fusion.go: "in member order so the judge's source labels are stable").
ServedAsInOrder ==
  stage = "done" /\ ~gone =>
    /\ Cardinality(Texted) > 1 =>
         /\ read \in Ascending(Texted)
         /\ served = [from |-> IF judges = "gone" THEN NoOne ELSE Judge, error |-> judges # "text"]
    /\ Cardinality(Texted) = 1 =>
         /\ read = <<>> /\ served.from \in Texted
         /\ served.error => wants
    /\ Texted = {} =>
         served = [from |-> IF Failing # {} /\ answers[Min(Failing)] # "panic"
                            THEN Min(Failing) ELSE NoOne,
                   error |-> TRUE]

FusionSound == PlacesAreHeld /\ ServedAsInOrder

\* The strengthening of the proof: who was asked is who resolved, in order; whoever left wrote
\* of its own member, and what it answered unless the client was gone; everybody has left
\* before one is chosen; and what was chosen is what the answers call for.
Resolved == {i \in Refs : answers[i] # "gone"}
MembersResolved ==
  IF stage = "members" THEN members = <<>> /\ read = <<>>
  ELSE members \in Ascending(Resolved) /\ (stage = "fan" => members # <<>>)
ResultsTold ==
  \A p \in Positions : seat[p] = "left" =>
    /\ results[p].member = members[p]
    /\ ~gone => results[p].leg = answers[members[p]]
ChosenAfterAll ==
  /\ stage \in {"again", "judge", "done"} => \A p \in Positions : seat[p] = "left"
  /\ stage \in {"fan", "again"} => read = <<>>
  /\ stage = "again" => Cardinality(Texts) = 1 /\ wants
  /\ stage = "judge" /\ ~gone => Cardinality(Texted) > 1 /\ read \in Ascending(Texted)
FusionInv == TypeOK /\ FusionSound /\ MembersResolved /\ ResultsTold /\ ChosenAfterAll

=============================================================================
