---------------------------- MODULE RequestTurns ----------------------------
(***************************************************************************)
(* A conversation a client holds, as each of the three client formats      *)
(* writes it, translated for each upstream format (dataplane/              *)
(* engine_translate.go translateUpstreamBody), and what the upstream reads *)
(* in it.  A pair of one format is forwarded verbatim and left out.        *)
(***************************************************************************)
EXTENDS RequestWires

CONSTANTS
  TurnShapes,   \* the turns a conversation is made of
  MaxTurns

Clients == {"chat", "messages", "responses"}
Targets == {"openai", "claude", "responses", "gemini", "gemini-4"}
Verbatim == {<<"chat", "openai">>, <<"messages", "claude">>, <<"responses", "responses">>}

\* The calls of a turn are answered in the next message, with or without a text after the
\* results, unless the conversation ends on them; a turn that broke off in its reasoning is
\* the user's to follow.
Unanswered(turn) == turn.calls # <<>> /\ turn.next = "none"
Interrupted(turn) == turn.think /\ turn.says = <<>> /\ turn.calls = <<>>
Proper(t) ==
  /\ Len(t) = 1 \/ (\E i \in DOMAIN t : t[i].by # "system" /\ t[i].says \o t[i].calls # <<>>)
  /\ \A i \in 1..(Len(t) - 1) :
       ~Unanswered(t[i]) /\ (Interrupted(t[i]) => t[i + 1].by # "assistant")
Talks == {t \in UNION {[1..n -> TurnShapes] : n \in 1..MaxTurns} : Proper(t)}

RequestTurnsAssumption ==
  /\ MaxTurns \in Nat
  /\ \A t \in TurnShapes :
       /\ t.by \in {"system", "user", "assistant"} /\ t.next \in {"none", "results", "text"}
       /\ t.by # "assistant" => t.calls = <<>> /\ ~t.think /\ t.next = "none"

VARIABLES
  talk,    \* the conversation
  pair,    \* the client's format and the upstream's
  sent     \* the body the upstream receives, once it is translated

requestVars == <<talk, pair, sent>>

Unsent == [turns |-> <<>>, items |-> <<>>, messages |-> <<>>, system |-> <<>>]

-----------------------------------------------------------------------------
(* The client's own writing of the conversation. *)

Said(i) == [k \in DOMAIN talk[i].says |-> Piece(talk[i].says[k], 10 * i + k)]
Thought(i) == IF talk[i].think THEN <<Reasoning(10 * i + 3)>> ELSE <<>>
Called(i) == [k \in DOMAIN talk[i].calls |->
                Call(10 * i + 3 + k, talk[i].calls[k].id, talk[i].calls[k].name)]
Answered(i) == IF talk[i].next = "none" THEN <<>>
               ELSE [k \in DOMAIN talk[i].calls |-> Result(10 * i + 3 + k, talk[i].calls[k].id)]
Added(i) == IF talk[i].next = "text" THEN <<Piece(Text, 10 * i + 9)>> ELSE <<>>

Prompted == FlattenSeq([i \in DOMAIN talk |-> IF talk[i].by = "system" THEN Said(i) ELSE <<>>])
Plain(pieces) == Except({"billing"}, pieces)

AsChat ==
  FlattenSeq([i \in DOMAIN talk |->
    <<[Message(talk[i].by, Plain(Said(i))) EXCEPT !.calls = Called(i), !.reasoning = Thought(i)]>> \o
    [k \in DOMAIN Answered(i) |-> Tool(Answered(i)[k])] \o
    (IF Added(i) = <<>> THEN <<>> ELSE <<Message("user", Added(i))>>)])

AsMessages ==
  [system   |-> Prompted,
   messages |-> FlattenSeq([i \in DOMAIN talk |->
     (IF talk[i].by = "system" THEN <<>>
      ELSE <<[role |-> talk[i].by, body |-> Thought(i) \o Said(i) \o Called(i)]>>) \o
     (IF Answered(i) = <<>> THEN <<>>
      ELSE <<[role |-> "user", body |-> Answered(i) \o Added(i)]>>)])]

Item(role, body) == IF body = <<>> THEN <<>> ELSE <<[is |-> "message", role |-> role, body |-> body]>>
AsResponses ==
  LET leads == talk[1].by = "system"
  IN  [system |-> IF leads THEN Plain(Said(1)) ELSE <<>>,
       items  |-> FlattenSeq([i \in DOMAIN talk |->
         IF leads /\ i = 1 THEN <<>>
         ELSE Thought(i) \o Item(talk[i].by, Plain(Said(i))) \o Called(i) \o Answered(i) \o
              Item("user", Added(i))])]

-----------------------------------------------------------------------------
(* translateUpstreamBody *)

Pivot ==
  CASE pair[1] = "chat" -> AsChat
    [] pair[1] = "messages" -> ClaudeToOpenAI(AsMessages)
    [] pair[1] = "responses" -> ResponsesToOpenAI(AsResponses)

Body(messages) ==
  CASE pair[2] = "openai" -> [messages |-> messages] @@ Unsent
    [] pair[2] = "claude" -> OpenAIToClaude(messages) @@ Unsent
    [] pair[2] = "responses" -> OpenAIToResponses(messages) @@ Unsent
    [] OTHER -> OpenAIToGemini(messages, pair[2] = "gemini-4") @@ Unsent

Init ==
  /\ talk \in Talks
  /\ pair \in (Clients \X Targets) \ Verbatim
  /\ sent = Unsent

Send ==
  /\ sent = Unsent
  /\ sent' = Body(Pivot)
  /\ UNCHANGED <<talk, pair>>

Next == Send
Spec == Init /\ [][Next]_requestVars

-----------------------------------------------------------------------------
(* What the upstream reads: who said what, what was called, what was answered. *)

Event(as, piece) ==
  <<CASE piece.is \in {Text, Blank} -> as
      [] piece.is = "response" -> "result"
      [] OTHER -> piece.is, piece.n>>
Events(as, pieces) ==
  LET real == SelectSeq(pieces, LAMBDA p : p.n # 0)
  IN  [k \in DOMAIN real |-> Event(as, real[k])]
Voice(role) == IF role \in {"user", "tool"} THEN "user" ELSE "model"

Pieces(role, pieces) == [k \in DOMAIN pieces |-> [by |-> Voice(role), piece |-> pieces[k]]]
\* The body in the order it is read, each piece with whose it is.
Read ==
  FlattenSeq([i \in DOMAIN sent.messages |->
                IF Hoisted(sent.messages[i]) THEN <<>>
                ELSE Pieces(sent.messages[i].role,
                            sent.messages[i].reasoning \o sent.messages[i].body \o sent.messages[i].calls)])
  \o FlattenSeq([i \in DOMAIN sent.turns |-> Pieces(sent.turns[i].role, sent.turns[i].pieces)])
  \o FlattenSeq([i \in DOMAIN sent.items |->
                IF sent.items[i].is = "message" THEN Pieces(sent.items[i].role, sent.items[i].body)
                ELSE Pieces("assistant", <<sent.items[i]>>)])
Heard == LET told == SelectSeq(Read, LAMBDA r : r.piece.n # 0)
         IN  [k \in DOMAIN told |-> Event(told[k].by, told[k].piece)]
ToldPrompts == IF pair[2] = "openai" THEN Prompts(sent.messages) ELSE sent.system

\* What this pair of formats can carry.
Nameless(piece) == piece.is = "call" /\ piece.name = <<>>
Thinks(i) == Said(i) # <<>> \/ \E k \in DOMAIN talk[i].calls : talk[i].calls[k].name # <<>>
Carries(i, piece) ==
  CASE piece.is = "reasoning" -> pair[2] = "openai" /\ (pair[1] = "messages" \/ Thinks(i))
    [] piece.is = Blank -> pair[2] # "claude"
    [] piece.is = Broken -> pair \in {<<"chat", "responses">>, <<"responses", "openai">>}
    [] Nameless(piece) -> pair = <<"messages", "openai">>
    [] OTHER -> TRUE
Alone == Len(talk) = 1 /\ talk[1].by = "system"
Meant ==
  IF Alone /\ pair[2] \in {"gemini", "gemini-4"} THEN Events("user", Plain(Said(1)))
  ELSE FlattenSeq([i \in DOMAIN talk |->
         IF talk[i].by = "system" THEN <<>>
         ELSE Events(Voice(talk[i].by),
                     SelectSeq(Thought(i) \o Said(i) \o Called(i) \o Answered(i),
                               LAMBDA p : Carries(i, p))) \o Events("user", Added(i))])
MeantPrompts ==
  LET first == CHOOSE i \in DOMAIN talk : /\ talk[i].by = "system"
                                          /\ \A j \in 1..(i - 1) : talk[j].by # "system"
  IN  CASE Prompted = <<>> -> <<>>
        [] Alone /\ pair[2] \in {"gemini", "gemini-4"} -> <<>>
        [] pair[2] = "responses" /\ pair[1] # "messages" -> Plain(Said(first))
        [] OTHER -> Plain(Prompted)

\* Gemini 4 wants results after the text of their turn; the others read them as they came.
Results(events) == SelectSeq(events, LAMBDA e : e[1] = "result")
Words(events) == SelectSeq(events, LAMBDA e : e[1] # "result")

\* Every text, readable image, call and result of the conversation reaches the upstream,
\* once, in order and in the right mouth, and so do the prompts (translate_*_blocks.go,
\* translate_gemini_*.go, translate_responses_*items.go).
ContentKept ==
  sent # Unsent =>
    /\ ToldPrompts = MeantPrompts
    /\ LET heard == Heard
           meant == Meant
       IN  IF pair[2] = "gemini-4" THEN Results(heard) = Results(meant) /\ Words(heard) = Words(meant)
           ELSE heard = meant

\* A result answers, by its id, the call it belongs to: an id is unique only inside its own
\* turn, an upstream may clamp it and Gemini refuses a repeated one.
Calls(read) == {k \in DOMAIN read : read[k].is = "call"}
MayMean(read, k) ==   \* the calls that a result at k can be read as answering
  LET calls == {j \in Calls(read) : read[j].id = read[k].id}
  IN  IF pair[2] \in {"gemini", "gemini-4"} THEN calls
      ELSE {j \in calls : j < k /\ \A i \in calls : i < k => i <= j}
ResultsPaired ==
  LET read == LET told == Read IN [k \in DOMAIN told |-> told[k].piece]
  IN  \A k \in DOMAIN read :
        read[k].is \in {"result", "response"} /\ read[k].n # 0 =>
          LET sends == \E j \in Calls(read) : read[j].n = read[k].n
          IN  /\ sends => {read[j].n : j \in MayMean(read, k)} = {read[k].n}
              /\ ~sends /\ read[k].is = "response" => MayMean(read, k) = {}

\* The order each vendor demands, with neighbours of one role read as one turn.
Numbers(kind, pieces) == {pieces[k].n : k \in {j \in DOMAIN pieces : pieces[j].is = kind}}
Ids(kind, pieces) == {pieces[k].id : k \in {j \in DOMAIN pieces : pieces[j].is = kind}}
Before(kinds, others, pieces) ==
  \A j, k \in DOMAIN pieces : pieces[j].is \in kinds /\ pieces[k].is \in others => j < k
AnswersLead(calls, pieces) ==
  \A j, k \in DOMAIN pieces :
    pieces[j].is = "result" /\ pieces[j].n \in calls /\ pieces[k].is \in {Text, Image} => j < k
ClaudeAccepts ==
  LET turns == FoldLeft(LAMBDA out, t : Merged(FALSE, out, t), <<>>, sent.turns)
  IN  \A i \in DOMAIN turns :
        LET calls == Numbers("call", turns[i].pieces)
        IN  calls # {} =>
              /\ Before({Text}, {"call"}, turns[i].pieces)
              /\ i < Len(turns) => /\ calls \subseteq Numbers("result", turns[i + 1].pieces)
                                   /\ AnswersLead(calls, turns[i + 1].pieces)
GeminiAccepts ==
  \A i \in DOMAIN sent.turns :
    LET pieces == sent.turns[i].pieces
        calls  == Of({"call"}, pieces)
    IN  /\ pieces # <<>>
        /\ sent.turns[i].role = IF i % 2 = 1 THEN "user" ELSE "model"
        /\ Cardinality(Ids("call", pieces)) = Len(calls)
        /\ \A j \in DOMAIN sent.turns \ {i} :
             Ids("call", pieces) \intersect Ids("call", sent.turns[j].pieces) = {}
        /\ calls # <<>> =>
             /\ calls[1].signed
             /\ i < Len(sent.turns)
             /\ \A k \in DOMAIN calls : \E r \in Range(sent.turns[i + 1].pieces) :
                  r.is = "response" /\ r.id = calls[k].id /\ r.name = calls[k].name
        /\ pair[2] = "gemini-4" => Before({Text, Image}, {"response"}, pieces)
OrderAccepted ==
  sent # Unsent =>
    CASE pair[2] = "claude" -> ClaudeAccepts
      [] pair[2] \in {"gemini", "gemini-4"} -> GeminiAccepts
      [] OTHER -> TRUE

TurnsSound == ContentKept /\ ResultsPaired /\ OrderAccepted
=============================================================================
