---------------------------- MODULE AnswerWires ----------------------------
(***************************************************************************)
(* The stream translators of the data plane as transducers: four upstream  *)
(* formats are mapped into one chunk vocabulary, and three client wires    *)
(* frame it (dataplane/translate_stream_*.go).  A translator's state holds *)
(* the frames it has written, so one step of it is one operator.           *)
(* Text, reasoning and call arguments are sequences of letters; ids, model *)
(* names and time stamps are left out.                                     *)
(***************************************************************************)
EXTENDS StopGuard, TLC

CONSTANTS Opening, Closing  \* the letters that stand for the inline reasoning tags

Closed == -1                \* no block of that kind is open
Nothing == [think |-> <<>>, text |-> <<>>, calls |-> <<>>, finish |-> "", usage |-> FALSE]

Emit(s, frame) == [s EXCEPT !.wire = Append(@, frame)]

-----------------------------------------------------------------------------
(* Upstream formats into chunks. *)

\* responsesStreamState.chunk: the new mapper state and the chunks (none or one).
ResponsesState == [index |-> 0, saw |-> FALSE, open |-> FALSE]

\* responsesFinishReason: a call the ceiling cut is never a dispatchable call.
ResponsesFinish(ceiling, saw, open) ==
  IF ceiling /\ open THEN "length"
  ELSE IF saw THEN "tool_calls"
  ELSE IF ceiling THEN "length" ELSE "stop"

ResponsesChunk(r, e) ==
  CASE e.at = "text"     -> [state |-> r, chunks |-> <<[Nothing EXCEPT !.text = e.body]>>]
    [] e.at = "thinking" -> [state |-> r, chunks |-> <<[Nothing EXCEPT !.think = e.body]>>]
    [] e.at = "added"    -> [state |-> [r EXCEPT !.saw = TRUE, !.open = TRUE],
         chunks |-> <<[Nothing EXCEPT !.calls = <<[index |-> r.index, id |-> TRUE, args |-> <<>>]>>]>>]
    [] e.at = "args"     -> [state |-> r,
         chunks |-> <<[Nothing EXCEPT !.calls = <<[index |-> r.index, id |-> FALSE, args |-> e.body]>>]>>]
    [] e.at = "done"     -> [state |-> [r EXCEPT !.open = FALSE, !.index = @ + 1], chunks |-> <<>>]
    [] e.at = "completed" -> [state |-> r,
         chunks |-> <<[Nothing EXCEPT !.finish = ResponsesFinish(e.ceiling, r.saw, r.open),
                                      !.usage = TRUE]>>]
    [] e.at = "failed"   -> [state |-> [r EXCEPT !.saw = FALSE],
         chunks |-> <<[Nothing EXCEPT !.text = e.body, !.finish = "stop"]>>]

\* geminiStream.chunk: one frame of parts; its calls continue the indices.
GeminiState == [calls |-> 0, saw |-> FALSE]

GeminiFinish(reason, saw) ==
  CASE reason = "" -> ""
    [] reason = "MAX_TOKENS" -> "length"
    [] OTHER -> IF saw THEN "tool_calls" ELSE "stop"

GeminiChunk(g, e) ==
  LET n   == Len(e.calls)
      now == [calls |-> g.calls + n, saw |-> g.saw \/ n > 0]
  IN  [state |-> now,
       chunks |-> IF e.think = <<>> /\ e.text = <<>> /\ n = 0 /\ e.reason = "" THEN <<>>
                  ELSE <<[Nothing EXCEPT !.think = e.think, !.text = e.text,
                            !.calls = [k \in 1..n |-> [index |-> g.calls + k - 1, id |-> TRUE,
                                                       args |-> e.calls[k]]],
                            !.finish = GeminiFinish(e.reason, now.saw)]>>]

-----------------------------------------------------------------------------
(* The OpenAI client wire: StreamState. *)

ChatState(armed) ==
  [wire |-> <<>>, guard |-> Guard(armed), index |-> <<>>, calls |-> 0, finish |-> "",
   closed |-> FALSE, cut |-> FALSE, usage |-> FALSE, told |-> FALSE]

Chunk(c) == [at |-> "chunk"] @@ c

\* openAIFrames and sanitizeChunk: the vendor's chunk is forwarded, a second finish
\* reason nulled, the text cut at the marker, and a frame the cut emptied withheld.
ChatChunk(s, c) ==
  LET again    == s.closed /\ c.finish # ""
      w        == Write(s.guard, c.text)
      cut      == c.text # <<>> /\ (w.shown # c.text \/ w.guard.hit)
      announce == cut /\ w.guard.hit /\ ~s.cut
      frame    == [c EXCEPT !.text = IF c.text = <<>> THEN @ ELSE w.shown,
                            !.finish = IF announce THEN "stop" ELSE IF again THEN "" ELSE @]
      emptied  == cut /\ [frame EXCEPT !.usage = FALSE] = Nothing /\ ~frame.usage
      after    == [s EXCEPT !.guard = IF c.text = <<>> THEN @ ELSE w.guard,
                            !.finish = IF announce THEN "stop"
                                       ELSE IF c.finish # "" /\ ~again THEN c.finish ELSE @,
                            !.closed = @ \/ c.finish # "" \/ announce,
                            !.cut = @ \/ announce, !.usage = @ \/ c.usage, !.told = @ \/ c.usage]
  IN  IF emptied THEN after ELSE Emit(after, Chunk(frame))

\* The stop reasons of the Anthropic wire as finish reasons, and back.
OpenAIReason(reason) ==
  CASE reason = "max_tokens" -> "length" [] reason = "tool_use" -> "tool_calls" [] OTHER -> "stop"

ClaudeReason(finish) ==
  CASE finish = "length" -> "max_tokens" [] finish = "tool_calls" -> "tool_use"
    [] finish = "content_filter" -> "stop_sequence" [] OTHER -> "end_turn"

\* claudeChunks: one Anthropic event as chunks; the state keeps which call a block is.
Finishes(s) ==
  IF s.closed THEN [state |-> s, chunks |-> <<>>]
  ELSE [state |-> [s EXCEPT !.closed = TRUE],
        chunks |-> <<[Nothing EXCEPT !.finish = IF s.finish = "" THEN "stop" ELSE s.finish]>>]

ClaudeChunks(s, e) ==
  CASE e.at = "message_start" ->
         [state |-> [s EXCEPT !.usage = TRUE], chunks |-> <<Nothing>>]
    [] e.at = "start" ->
         IF e.block # "tool" THEN [state |-> s, chunks |-> <<>>]
         ELSE [state |-> [s EXCEPT !.index = (e.i :> s.calls) @@ @, !.calls = @ + 1],
               chunks |-> <<[Nothing EXCEPT !.calls =
                               <<[index |-> s.calls, id |-> TRUE, args |-> <<>>]>>]>>]
    [] e.at = "delta" ->
         [state |-> s,
          chunks |-> CASE e.block = "text" -> <<[Nothing EXCEPT !.text = e.body]>>
                       [] e.block = "think" -> <<[Nothing EXCEPT !.think = e.body]>>
                       [] e.block = "tool" /\ e.i \notin DOMAIN s.index -> <<>>
                       [] OTHER -> <<[Nothing EXCEPT !.calls =
                             <<[index |-> s.index[e.i], id |-> FALSE, args |-> e.body]>>]>>]
    [] e.at = "message_delta" ->
         Finishes([s EXCEPT !.finish = IF e.reason = "" THEN @ ELSE OpenAIReason(e.reason),
                            !.usage = TRUE])
    [] e.at = "message_stop" -> Finishes(s)
    [] OTHER -> [state |-> s, chunks |-> <<>>]

\* claudeFrames: the chat client reads those chunks as they are, uncut.
ChatClaude(s, e) ==
  LET t == ClaudeChunks(s, e)
  IN  FoldLeft(LAMBDA a, c : Emit(a, Chunk(c)), t.state, t.chunks)

ChatFinish(s, asked) ==
  LET tail == Withheld(s.guard)
      a == IF tail = <<>> THEN s ELSE Emit(s, Chunk([Nothing EXCEPT !.text = tail]))
      b == FoldLeft(LAMBDA x, c : Emit(x, Chunk(c)), a, Finishes(a).chunks)
      c == IF asked /\ s.usage /\ ~s.told
           THEN Emit(b, Chunk([Nothing EXCEPT !.usage = TRUE])) ELSE b
  IN  Emit([c EXCEPT !.closed = TRUE], [at |-> "done"])

-----------------------------------------------------------------------------
(* The Anthropic client wire: ClaudeStreamState. *)

MessagesState(armed) ==
  [wire |-> <<>>, guard |-> Guard(armed), started |-> FALSE, next |-> 0, text |-> Closed,
   think |-> Closed, tools |-> <<>>, reason |-> "", ended |-> FALSE]

MessageStart(m) ==
  IF m.started THEN m ELSE Emit([m EXCEPT !.started = TRUE], [at |-> "message_start"])

CloseText(m) ==
  IF m.text = Closed THEN m ELSE Emit([m EXCEPT !.text = Closed], [at |-> "stop", i |-> m.text])

CloseThinking(m) ==
  IF m.think = Closed THEN m ELSE Emit([m EXCEPT !.think = Closed], [at |-> "stop", i |-> m.think])

Started(m, block) == Emit([m EXCEPT !.next = @ + 1], [at |-> "start", i |-> m.next, block |-> block])
Fed(m, i, block, body) == Emit(m, [at |-> "delta", i |-> i, block |-> block, body |-> body])

Thinking(m, think) ==
  LET a == CloseText(m)
      b == IF a.think = Closed THEN [Started(a, "think") EXCEPT !.think = a.next] ELSE a
  IN  IF think = <<>> THEN m ELSE Fed(b, b.think, "think", think)

EmitText(m, text) ==
  LET a == CloseThinking(m)
      b == IF a.text = Closed THEN [Started(a, "text") EXCEPT !.text = a.next] ELSE a
  IN  IF text = <<>> THEN m ELSE Fed(b, b.text, "text", text)

\* The text half of deltaFrames: every fragment passes the guard, and the marker
\* closes the text block and is the reason the client is told.
Content(m, text) ==
  LET w == Write(m.guard, text)
      a == EmitText([m EXCEPT !.guard = w.guard], w.shown)
  IN  IF text = <<>> THEN m
      ELSE IF w.guard.hit THEN [CloseText(a) EXCEPT !.reason = "stop_sequence"] ELSE a

\* As if every fragment with an id opened a block.
ToolCallReopens(m, c) ==
  LET a == CloseThinking(CloseText(m))
      b == IF c.id
           THEN [Started(a, "tool") EXCEPT
                   !.tools = (c.index :> [block |-> a.next, args |-> <<>>]) @@ @]
           ELSE m
  IN  IF c.index \in DOMAIN b.tools THEN [b EXCEPT !.tools[c.index].args = @ \o c.args] ELSE b

\* toolCallFrames: an id opens a block once, fragments are buffered until it closes.
ToolCall(m, c) ==
  LET known == c.index \in DOMAIN m.tools
      a == CloseThinking(CloseText(m))
      b == IF c.id /\ ~known
           THEN [Started(a, "tool") EXCEPT
                   !.tools = (c.index :> [block |-> a.next, args |-> <<>>]) @@ @]
           ELSE m
  IN  IF c.index \in DOMAIN b.tools THEN [b EXCEPT !.tools[c.index].args = @ \o c.args] ELSE b

MessagesChunk(m, c) ==
  LET a == FoldLeft(ToolCall, Content(Thinking(MessageStart(m), c.think), c.text), c.calls)
  IN  IF c.finish # "" /\ a.reason # "stop_sequence"
      THEN [a EXCEPT !.reason = ClaudeReason(c.finish)] ELSE a

\* closeBlocks: the buffered input of a call is one delta before its stop.
FlushTool(m, i) ==
  LET t == CHOOSE c \in DOMAIN m.tools : m.tools[c].block = i
      a == IF m.tools[t].args = <<>> THEN m ELSE Fed(m, i, "tool", m.tools[t].args)
  IN  IF \E c \in DOMAIN m.tools : m.tools[c].block = i
      THEN Emit(a, [at |-> "stop", i |-> i]) ELSE m

CloseBlocks(m) ==
  [FoldLeft(FlushTool, CloseText(CloseThinking(m)), [k \in 1..m.next |-> k - 1])
     EXCEPT !.tools = <<>>]

MessagesFinish(m) ==
  LET a == EmitText(MessageStart(m), Withheld(m.guard))
      b == CloseBlocks(a)
  IN  Emit(Emit(b, [at |-> "message_delta",
                    reason |-> IF b.reason = "" THEN "end_turn" ELSE b.reason]),
           [at |-> "message_stop"])

\* forwardClaude: an Anthropic upstream's own event, as it arrived.
Forward(m, e) ==
  Emit([m EXCEPT !.started = TRUE, !.ended = @ \/ e.at = "message_stop"], e)

-----------------------------------------------------------------------------
(* The Responses client wire: ResponsesStreamState. *)

ResponsesClient ==
  [wire |-> <<>>, started |-> FALSE, items |-> <<>>, reasoning |-> 0, message |-> 0,
   calls |-> <<>>, thinking |-> FALSE, finish |-> "", chat |-> ChatState(FALSE)]

\* startFrames: created and in_progress, once.
ResponsesStart(s) ==
  IF s.started THEN s
  ELSE Emit(Emit([s EXCEPT !.started = TRUE], [at |-> "created"]), [at |-> "in_progress"])

Running(s, n) == n # 0 /\ ~s.items[n].done

NewItem(s, kind) ==
  Emit([s EXCEPT !.items = Append(@, [kind |-> kind, done |-> FALSE, body |-> <<>>])],
       [at |-> "added", i |-> Len(s.items), kind |-> kind])

Grown(s, n, body) ==
  Emit([s EXCEPT !.items[n].body = @ \o body], [at |-> "grown", i |-> n - 1, body |-> body])

\* closeReasoning, closeMessage and closeCall: the closing event repeats the body.
CloseItem(s, n) ==
  IF ~Running(s, n) THEN s
  ELSE Emit([s EXCEPT !.items[n].done = TRUE],
            [at |-> "item_done", i |-> n - 1, body |-> s.items[n].body])

CloseItems(s) == FoldLeft(CloseItem, s, [n \in 1..Len(s.items) |-> n])

OpenReasoning(s) ==
  IF Running(s, s.reasoning) THEN s
  ELSE [NewItem(s, "reasoning") EXCEPT !.reasoning = Len(s.items) + 1]

OpenMessage(s) ==
  IF Running(s, s.message) THEN s
  ELSE [NewItem(s, "message") EXCEPT !.message = Len(s.items) + 1]

Reason(s, body) ==
  IF body = <<>> \/ ~Running(s, s.reasoning) THEN s ELSE Grown(s, s.reasoning, body)

\* contentEvents: inline reasoning tags route the text to the reasoning item.
Without(text, at) == SubSeq(text, 1, at - 1) \o SubSeq(text, at + 1, Len(text))
FirstOf(text, letter) ==
  LET places == {i \in 1..Len(text) : text[i] = letter} IN IF places = {} THEN 0 ELSE Min(places)

ItemText(s, content) ==
  LET o == FirstOf(content, Opening)
      a == IF o = 0 THEN s ELSE OpenReasoning([s EXCEPT !.thinking = TRUE])
      t == IF o = 0 THEN content ELSE Without(content, o)
      c == FirstOf(t, Closing)
      b == IF c = 0 \/ ~a.thinking THEN a
           ELSE [CloseItem(Reason(a, SubSeq(t, 1, c - 1)), a.reasoning) EXCEPT !.thinking = FALSE]
      u == IF c = 0 THEN t
           ELSE IF a.thinking THEN SubSeq(t, c + 1, Len(t)) ELSE Without(t, c)
      m == OpenMessage(b)
  IN  IF b.thinking THEN Reason(b, u)
      ELSE IF u = <<>> THEN b ELSE Grown(m, m.message, u)

\* callEvent: the first fragment of a call opens its item and ends the text before it.
ItemCall(s, c) ==
  LET known == c.index \in DOMAIN s.calls
      a == CloseItem(s, s.message)
      b == IF known THEN s
           ELSE [NewItem(a, "call") EXCEPT !.calls = (c.index :> Len(a.items) + 1) @@ @]
  IN  IF c.args = <<>> THEN b ELSE Grown(b, b.calls[c.index], c.args)

ItemsChunk(s, c) ==
  LET a == ResponsesStart(s)
      b == IF c.think = <<>> THEN a ELSE Reason(OpenReasoning(a), c.think)
      d == IF c.text = <<>> THEN b ELSE ItemText(b, c.text)
      e == FoldLeft(ItemCall, d, c.calls)
  IN  IF c.finish = "" THEN e ELSE CloseItems([e EXCEPT !.finish = c.finish])

ItemsClaude(s, e) ==
  LET t == ClaudeChunks(s.chat, e)
  IN  FoldLeft(ItemsChunk, [s EXCEPT !.chat = t.state], t.chunks)

ItemsFinish(s) ==
  LET a == CloseItems(ResponsesStart(s))
  IN  Emit(Emit(a, [at |-> IF a.finish = "length" THEN "incomplete" ELSE "completed",
                    output |-> [n \in 1..Len(a.items) |-> a.items[n].body]]),
           [at |-> "done"])
=============================================================================
