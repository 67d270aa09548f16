---------------------------- MODULE RequestWires ----------------------------
(***************************************************************************)
(* How the turns of a request are rewritten for an upstream that speaks    *)
(* another format (dataplane/translate_*_blocks.go, translate_gemini_*.go, *)
(* translate_responses_*items.go): every client format into the chat one,  *)
(* and the chat one into each of the others.  A text, an image, a call's   *)
(* arguments and a result are numbers; an id and a tool's name are         *)
(* sequences of letters, because they are cut, numbered and sanitized.     *)
(***************************************************************************)
EXTENDS Integers, Sequences, SequencesExt, TLC

CONSTANTS
  ResponsesCallIDMaxLen,
  GeminiMaxFunctionNameLen,
  Letters, Digits, Marks   \* what a name's letters may be: any other is not Gemini's

Text == "text"
Blank == "blank"   \* text made of spaces
Image == "image"
Broken == "broken" \* an image with neither data nor a remote address

Piece(kind, n) == [is |-> kind, n |-> n]
Call(n, id, name) == [is |-> "call", n |-> n, id |-> id, name |-> name]
Result(n, id) == [is |-> "result", n |-> n, id |-> id]
Reasoning(n) == [is |-> "reasoning", n |-> n]

Of(kinds, pieces) == SelectSeq(pieces, LAMBDA p : p.is \in kinds)
Except(kinds, pieces) == SelectSeq(pieces, LAMBDA p : p.is \notin kinds)
Has(kind, pieces) == \E i \in DOMAIN pieces : pieces[i].is = kind

\* One message of the chat format; a tool message answers the call whose id is in "answers".
Message(role, body) ==
  [role |-> role, body |-> body, reasoning |-> <<>>, calls |-> <<>>, answers |-> <<>>]
Tool(result) == [Message("tool", <<result>>) EXCEPT !.answers = result.id]
Hoisted(message) == message.role \in {"system", "developer"}
Prompts(messages) == FlattenSeq([i \in DOMAIN messages |->
                                   IF Hoisted(messages[i]) THEN messages[i].body ELSE <<>>])

-----------------------------------------------------------------------------
(* Into the chat format. *)

\* openAIMessages: results first, each a message; the rest is one message, whose last
\* thinking block is its reasoning and whose unreadable images are dropped.
OpenAIMessages(message) ==
  LET results  == Of({"result"}, message.body)
      rest     == Except({"result"}, message.body)
      thought  == Of({"reasoning"}, rest)
  IN  [i \in DOMAIN results |-> Tool(results[i])] \o
      (IF rest = <<>> THEN <<>>
       ELSE <<[Message(message.role, Of({Text, Blank, Image}, rest)) EXCEPT
                 !.calls = Of({"call"}, rest),
                 !.reasoning = IF thought = <<>> THEN <<>> ELSE <<Last(thought)>>]>>)

\* normalizedSystemText: a block that is only the client's billing line goes.
NormalizedSystem(blocks) == Except({"billing"}, blocks)

ClaudeToOpenAI(request) ==
  LET prompt == NormalizedSystem(request.system)
  IN  (IF prompt = <<>> THEN <<>> ELSE <<Message("system", prompt)>>) \o
      FlattenSeq([i \in DOMAIN request.messages |-> OpenAIMessages(request.messages[i])])

\* responsesClientMessages: calls gather in a pending turn that any other item but
\* reasoning closes; reasoning waits for the turn that follows it.
Flushed(walk) ==
  [walk EXCEPT !.pending = <<>>,
     !.out = IF walk.pending # <<>> /\ walk.pending[1].calls # <<>> THEN @ \o walk.pending ELSE @]

ClientMessage(walk, item) ==
  LET closed == Flushed(walk)
  IN  [closed EXCEPT
         !.out = Append(@, [Message(item.role, item.body) EXCEPT
                   !.reasoning = IF item.role = "assistant" THEN closed.reasoning ELSE <<>>]),
         !.reasoning = <<>>]

ClientCall(walk, item) ==
  LET turn == IF walk.pending # <<>> THEN walk.pending[1]
              ELSE [Message("assistant", <<>>) EXCEPT !.reasoning = walk.reasoning]
  IN  [walk EXCEPT
         !.pending = <<[turn EXCEPT !.calls = IF item.name = <<>> THEN @ ELSE Append(@, item)]>>,
         !.reasoning = IF walk.pending = <<>> THEN <<>> ELSE @]

ClientItem(walk, item) ==
  CASE item.is = "message"   -> ClientMessage(walk, item)
    [] item.is = "call"      -> ClientCall(walk, item)
    [] item.is = "result"    -> [Flushed(walk) EXCEPT !.out = Append(@, Tool(item))]
    [] item.is = "reasoning" -> [walk EXCEPT !.reasoning = Append(@, item)]

ResponsesClientMessages(items) ==
  Flushed(FoldLeft(ClientItem, [out |-> <<>>, pending |-> <<>>, reasoning |-> <<>>], items)).out

ResponsesToOpenAI(request) ==
  (IF request.system = <<>> THEN <<>> ELSE <<Message("system", request.system)>>) \o
  ResponsesClientMessages(request.items)

-----------------------------------------------------------------------------
(* To an Anthropic upstream. *)

\* claudeBlocks: spaces are no text, and a call without a name is no call.
ClaudeBlocks(message) ==
  CASE message.role = "tool"      -> message.body
    [] message.role = "assistant" ->
         Of({Text}, message.body) \o SelectSeq(message.calls, LAMBDA c : c.name # <<>>)
    [] OTHER -> Of({Text, Blank, Image}, message.body)

Turn(role, pieces) == [role |-> role, pieces |-> pieces]
Close(walk) ==
  [walk EXCEPT !.pending = <<>>,
     !.out = IF walk.pending = <<>> THEN @ ELSE Append(@, Turn(walk.role, walk.pending))]

\* claudeMessages: results close the turn before them and are a turn of their own; a turn
\* ends at its calls.
ClaudeTurn(walk, message) ==
  LET blocks  == IF Hoisted(message) THEN <<>> ELSE ClaudeBlocks(message)
      role    == IF message.role \in {"user", "tool"} THEN "user" ELSE "assistant"
      results == Of({"result"}, blocks)
      rest    == Except({"result"}, blocks)
      told    == IF results = <<>> THEN walk
                 ELSE [Close(walk) EXCEPT !.out = Append(@, Turn("user", results))]
      open    == IF told.role = role THEN told ELSE [Close(told) EXCEPT !.role = role]
      grown   == [open EXCEPT !.pending = @ \o rest]
  IN  IF rest = <<>> THEN told
      ELSE IF role = "assistant" /\ Has("call", rest) THEN Close(grown) ELSE grown

ClaudeMessages(messages) ==
  Close(FoldLeft(ClaudeTurn, [out |-> <<>>, pending |-> <<>>, role |-> ""], messages)).out

OpenAIToClaude(messages) == [system |-> Prompts(messages), turns |-> ClaudeMessages(messages)]

-----------------------------------------------------------------------------
(* To a Responses upstream. *)

ClampCallID(id) == IF Len(id) > ResponsesCallIDMaxLen
                   THEN SubSeq(id, 1, ResponsesCallIDMaxLen) ELSE id

\* A message's own item, then its calls: those without a name are skipped.
ResponsesItems(message) ==
  CASE message.role = "tool" ->
         <<[message.body[1] EXCEPT !.id = ClampCallID(@)]>>
    [] message.role \in {"user", "assistant"} ->
         LET named == SelectSeq(message.calls, LAMBDA c : c.name # <<>>)
         IN  (IF message.body = <<>> THEN <<>>
              ELSE <<[is |-> "message", role |-> message.role, body |-> message.body]>>) \o
             (IF message.role = "assistant"
              THEN [i \in DOMAIN named |-> [named[i] EXCEPT !.id = ClampCallID(@)]] ELSE <<>>)
    [] OTHER -> <<>>

\* The first prompt is the instructions; the others are dropped.
OpenAIToResponses(messages) ==
  LET prompts == SelectSeq(messages, Hoisted)
  IN  [system |-> IF prompts = <<>> THEN <<>> ELSE prompts[1].body,
       items  |-> FlattenSeq([i \in DOMAIN messages |-> ResponsesItems(messages[i])])]

-----------------------------------------------------------------------------
(* To a Gemini upstream. *)

\* sanitizeGeminiFunctionName
Sanitize(name) ==
  LET kept  == [i \in DOMAIN name |->
                  IF name[i] \in Letters \union Digits \union Marks \union {"_"} THEN name[i] ELSE "_"]
      whole == IF name[1] \in Digits \union Marks THEN <<"_">> \o kept ELSE kept
  IN  IF name = <<>> THEN <<"_", "u">>
      ELSE SubSeq(whole, 1, IF Len(whole) < GeminiMaxFunctionNameLen
                            THEN Len(whole) ELSE GeminiMaxFunctionNameLen)

\* geminiHistory: ids taken, the calls an id was declared for, how many were answered.
NewHistory == [used |-> {}, declared |-> <<>>, answered |-> <<>>]

Numbered(id, n) == id \o <<"-", ToString(n)>>
\* free: the id itself, or the first number after it that nobody took.
Free(history, id) ==
  IF id = <<>> \/ id \notin history.used THEN id
  ELSE Numbered(id, CHOOSE n \in 2..100 : /\ Numbered(id, n) \notin history.used
                                          /\ \A m \in 2..(n - 1) : Numbered(id, m) \in history.used)

DeclaredAs(history, id) == SelectSeq(history.declared, LAMBDA c : c.was = id)
AnsweredOf(history, id) == Len(SelectSeq(history.answered, LAMBDA a : a = id))

\* As if a repeated id always meant the call it meant first.
RespondFirst(history, id) ==
  IF DeclaredAs(history, id) = <<>> THEN <<>> ELSE <<DeclaredAs(history, id)[1]>>

\* respond: the next call the id stands for, none when all were answered.
Respond(history, id) ==
  LET seen == AnsweredOf(history, id)
  IN  IF seen < Len(DeclaredAs(history, id)) THEN <<DeclaredAs(history, id)[seen + 1]>> ELSE <<>>

\* geminiModelTurn: each named call takes a free id; the first one carries the signature.
GeminiCall(walk, call) ==
  LET id   == Free(walk.history, call.id)
      name == Sanitize(call.name)
  IN  IF call.name = <<>> THEN walk
      ELSE [walk EXCEPT
              !.history.used = @ \union {id},
              !.history.declared = IF call.id = <<>> THEN @
                                   ELSE Append(@, [was |-> call.id, id |-> id, name |-> name]),
              !.parts = Append(@, [is |-> "call", n |-> call.n, id |-> id, name |-> name,
                                   signed |-> ~Has("call", walk.parts)])]

\* geminiFunctionResponse: under the id and the name of its call, or its own when it has none.
GeminiResponse(history, result) ==
  LET met  == Respond(history, result.id)
      id   == IF met = <<>> THEN Free(history, result.id) ELSE met[1].id
      name == IF met = <<>> THEN result.id ELSE met[1].name
  IN  [history |-> [history EXCEPT !.used = @ \union {id},
                                   !.answered = IF met = <<>> THEN @ ELSE Append(@, result.id)],
       parts   |-> <<[is |-> "response", n |-> result.n, id |-> id, name |-> Sanitize(name)]>>]

GeminiTurn(walk, message) ==
  CASE message.role = "assistant" ->
         LET told == FoldLeft(GeminiCall, [history |-> walk.history, parts |-> Of({Text, Blank}, message.body)],
                              message.calls)
         IN  [history |-> told.history, turns |-> Append(walk.turns, Turn("model", told.parts))]
    [] message.role = "tool" ->
         LET told == GeminiResponse(walk.history, message.body[1])
         IN  IF message.answers = <<>> THEN walk
             ELSE [history |-> told.history, turns |-> Append(walk.turns, Turn("user", told.parts))]
    [] Hoisted(message) -> walk
    [] OTHER -> [walk EXCEPT !.turns = Append(@, Turn("user", Of({Text, Blank, Image}, message.body)))]

\* mergeGeminiTurns: empty turns go, neighbours of one role become one turn.
ResponsesLast(parts) == Except({"response"}, parts) \o Of({"response"}, parts)
Merged(last, turns, turn) ==
  IF turn.pieces = <<>> THEN turns
  ELSE IF turns = <<>> \/ Last(turns).role # turn.role THEN Append(turns, turn)
  ELSE LET both == Last(turns).pieces \o turn.pieces
       IN  Append(Front(turns), Turn(turn.role, IF last THEN ResponsesLast(both) ELSE both))

Filler == Piece("filler", 0)
Opened(turns) ==
  IF turns # <<>> /\ turns[1].role # "user" THEN <<Turn("user", <<Filler>>)>> \o turns ELSE turns

\* appendClosingTurn: calls left standing at the end are answered.
Closed(turns) ==
  LET calls == IF turns = <<>> \/ Last(turns).role # "model" THEN <<>>
               ELSE Of({"call"}, Last(turns).pieces)
  IN  IF calls = <<>> THEN turns
      ELSE Append(turns, Turn("user", [i \in DOMAIN calls |->
             [is |-> "response", n |-> 0, id |-> calls[i].id, name |-> calls[i].name]]))

\* last: the model wants a turn's responses after its text.
OpenAIToGemini(messages, last) ==
  LET alone  == Len(messages) = 1 /\ Hoisted(messages[1])
      walked == FoldLeft(GeminiTurn, [history |-> NewHistory, turns |-> <<>>], messages).turns
      turns  == IF alone THEN <<Turn("user", messages[1].body)>> ELSE walked
  IN  [system |-> IF alone THEN <<>> ELSE Prompts(messages),
       turns  |-> Closed(Opened(FoldLeft(LAMBDA out, t : Merged(last, out, t), <<>>, turns)))]
=============================================================================
