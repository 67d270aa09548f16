---------------------------- MODULE AnswerStream ----------------------------
(***************************************************************************)
(* One streamed answer: relayStream and pump (dataplane/engine_stream*.go) *)
(* read an upstream's events, hand each to the client's translator and     *)
(* close the client's wire when the upstream's body ends.  The upstream is *)
(* the environment: it may send any legal sequence of its own format's     *)
(* events, and its body may end or break after any of them.  `told' is     *)
(* what it said, kept as the fold of a forced stream keeps it              *)
(* (dataplane/engine_forced_chat.go), without the translators.             *)
(***************************************************************************)
EXTENDS AnswerWires

CONSTANTS
  Clients, Sources,   \* the client wires and upstream formats to consider
  Fragments,          \* the texts one event may carry
  Tagged,             \* texts with an inline reasoning tag, for the Responses wire
  Thought, Argument,  \* a reasoning fragment and a fragment of a call's arguments
  Trouble,            \* the text a failed response is told with
  MaxFragments,       \* bound: fragments of content per answer
  MaxStated,          \* bound: chunks an OpenAI upstream states its accounting in
  MaxCalls, MaxBlocks \* bounds: tool calls and Anthropic content blocks per answer

VARIABLES
  leg,       \* which client reads which upstream, with which request members
  mapper,    \* the state of the upstream format's event mapping
  state,     \* the client translator: StreamState and its siblings
  up,        \* where the upstream is in its own protocol
  told,      \* what the upstream has said
  phase,     \* streaming, closed, failed or gone
  truncated  \* Outcome.StreamTruncated

vars == <<leg, mapper, state, up, told, phase, truncated>>

Legs == {l \in [client : Clients, source : Sources, armed : BOOLEAN, asked : BOOLEAN] :
           /\ l.armed => l.client # "responses" /\ l.source # "claude"
           /\ l.asked => l.client = "chat"}

Fresh(l) == CASE l.client = "chat" -> ChatState(l.armed)
              [] l.client = "messages" -> MessagesState(l.armed)
              [] OTHER -> ResponsesClient

Silent == [text |-> <<>>, think |-> <<>>, calls |-> <<>>, inside |-> FALSE, usage |-> 0,
           finish |-> FALSE, done |-> FALSE]

Init ==
  /\ leg \in Legs
  /\ mapper = IF leg.source = "gemini" THEN GeminiState ELSE ResponsesState
  /\ state = Fresh(leg)
  /\ up = [sent |-> 0, started |-> FALSE, block |-> "", index |-> 0, finished |-> FALSE]
  /\ told = Silent
  /\ phase = "streaming"
  /\ truncated = FALSE

-----------------------------------------------------------------------------
(* What the upstream said, letter by letter: the inline tags of the        *)
(* Responses wire move text into the reasoning.                            *)
Letter(t, x) ==
  CASE x = Opening -> [t EXCEPT !.inside = TRUE]
    [] x = Closing -> [t EXCEPT !.inside = FALSE]
    [] t.inside -> [t EXCEPT !.think = Append(@, x)]
    [] OTHER -> [t EXCEPT !.text = Append(@, x)]

Said(t, text) == FoldLeft(Letter, t, text)
Thinks(t, body) == [t EXCEPT !.think = @ \o body]
Opens(t) == [t EXCEPT !.calls = Append(@, <<>>)]
Argues(t, n, body) == [t EXCEPT !.calls[n] = @ \o body]

Texts == Fragments \cup (IF leg.client = "responses" THEN Tagged ELSE {})

\* Frames: one chunk, or one event, through the client's translator.
Reads(chunks) ==
  state' = FoldLeft(LAMBDA s, c : CASE leg.client = "chat" -> ChatChunk(s, c)
                                    [] leg.client = "messages" -> MessagesChunk(s, c)
                                    [] OTHER -> ItemsChunk(s, c),
                    state, chunks)

ReadsClaude(e) ==
  state' = CASE leg.client = "chat" -> ChatClaude(state, e)
             [] leg.client = "messages" -> Forward(state, e)
             [] OTHER -> ItemsClaude(state, e)

Speaks(source) == /\ phase = "streaming"
                  /\ leg.source = source
                  /\ ~up.finished
                  /\ UNCHANGED <<leg, phase, truncated>>

Carries == /\ up.sent < MaxFragments
            /\ up' = [up EXCEPT !.sent = @ + 1]

-----------------------------------------------------------------------------
(* An OpenAI upstream: its events are chunks already. *)
OpenAISays(c, t) ==
  /\ Reads(<<c>>)
  /\ told' = t
  /\ UNCHANGED mapper

OpenAIText ==
  /\ Speaks("openai")
  /\ Carries
  /\ \E text \in Texts : OpenAISays([Nothing EXCEPT !.text = text], Said(told, text))

OpenAIThought ==
  /\ Speaks("openai")
  /\ Carries
  /\ OpenAISays([Nothing EXCEPT !.think = Thought], Thinks(told, Thought))

\* A new call carries its id; a later fragment may repeat it.
OpenAICall ==
  /\ Speaks("openai")
  /\ Carries
  /\ \E n \in 1..Len(told.calls) + 1, named \in BOOLEAN, args \in {<<>>, Argument} :
       /\ n <= MaxCalls
       /\ n > Len(told.calls) => named
       /\ n <= Len(told.calls) => args # <<>>
       /\ OpenAISays([Nothing EXCEPT !.calls = <<[index |-> n - 1, id |-> named, args |-> args]>>],
                     Argues(IF n > Len(told.calls) THEN Opens(told) ELSE told, n, args))

\* The finish frame may carry the accounting, or the last text, itself.
OpenAIFinish ==
  /\ Speaks("openai")
  /\ up' = [up EXCEPT !.finished = TRUE]
  /\ \E reason \in {"stop", "length", "tool_calls"}, text \in Fragments \cup {<<>>}, usage \in BOOLEAN :
       /\ reason = "tool_calls" => told.calls # <<>>
       /\ usage => text = <<>>
       /\ OpenAISays([Nothing EXCEPT !.finish = reason, !.text = text, !.usage = usage],
                     [Said(told, text) EXCEPT !.finish = TRUE, !.usage = IF usage THEN 1 ELSE 0])

\* The usage frame of stream_options.include_usage follows the finish frame, which may
\* have carried the numbers already, and a vendor may repeat it.
OpenAIUsage ==
  /\ phase = "streaming" /\ leg.source = "openai"
  /\ up.finished /\ told.usage < MaxStated
  /\ Reads(<<[Nothing EXCEPT !.usage = TRUE]>>)
  /\ told' = [told EXCEPT !.usage = @ + 1]
  /\ UNCHANGED <<leg, mapper, up, phase, truncated>>

-----------------------------------------------------------------------------
(* A Responses upstream: items one after the other, then a terminal event. *)
ResponsesSays(e, t) ==
  /\ LET r == ResponsesChunk(mapper, e)
     IN  mapper' = r.state /\ Reads(r.chunks)
  /\ told' = t

ResponsesText ==
  /\ Speaks("responses")
  /\ up.block = "" /\ Carries
  /\ \E text \in Texts : ResponsesSays([at |-> "text", body |-> text], Said(told, text))

ResponsesThought ==
  /\ Speaks("responses")
  /\ up.block = "" /\ Carries
  /\ ResponsesSays([at |-> "thinking", body |-> Thought], Thinks(told, Thought))

ResponsesCall ==
  /\ Speaks("responses")
  /\ up.block = "" /\ Len(told.calls) < MaxCalls
  /\ up' = [up EXCEPT !.block = "tool"]
  /\ ResponsesSays([at |-> "added"], Opens(told))

ResponsesArguments ==
  /\ Speaks("responses")
  /\ up.block = "tool" /\ Carries
  /\ ResponsesSays([at |-> "args", body |-> Argument], Argues(told, Len(told.calls), Argument))

ResponsesCallDone ==
  /\ Speaks("responses")
  /\ up.block = "tool"
  /\ up' = [up EXCEPT !.block = ""]
  /\ ResponsesSays([at |-> "done"], told)

\* response.completed, and response.incomplete when the ceiling cut the answer.
ResponsesEnd ==
  /\ Speaks("responses")
  /\ up' = [up EXCEPT !.finished = TRUE]
  /\ \E ceiling \in BOOLEAN :
       /\ up.block = "tool" => ceiling
       /\ ResponsesSays([at |-> "completed", ceiling |-> ceiling],
                        [told EXCEPT !.finish = TRUE, !.usage = 1])

ResponsesFailed ==
  /\ Speaks("responses")
  /\ up' = [up EXCEPT !.finished = TRUE]
  /\ ResponsesSays([at |-> "failed", body |-> Trouble],
                   [Said(told, Trouble) EXCEPT !.finish = TRUE])

-----------------------------------------------------------------------------
(* A Gemini upstream: each event is a frame of parts. *)
GeminiSays ==
  /\ Speaks("gemini")
  /\ \E text \in Texts \cup {<<>>}, think \in {<<>>, Thought}, calls \in {<<>>, <<Argument>>},
        reason \in {"", "STOP", "MAX_TOKENS"} :
       LET e == [text |-> text, think |-> think, calls |-> calls, reason |-> reason]
           g == GeminiChunk(mapper, e)
           parts == Cardinality({p \in {"text", "think", "calls"} : e[p] # <<>>})
       IN  /\ parts + (IF reason = "" THEN 0 ELSE 1) > 0
           /\ up.sent + parts <= MaxFragments
           /\ up' = [up EXCEPT !.sent = @ + parts, !.finished = reason # ""]
           /\ mapper' = g.state
           /\ Reads(g.chunks)
           /\ told' = [Said(Thinks(told, think), text) EXCEPT !.calls = @ \o calls,
                                                              !.finish = reason # ""]

-----------------------------------------------------------------------------
(* An Anthropic upstream: content blocks one after the other. *)
ClaudeSays(e, t) ==
  /\ ReadsClaude(e)
  /\ told' = t
  /\ UNCHANGED mapper

ClaudeStart ==
  /\ Speaks("claude")
  /\ ~up.started
  /\ up' = [up EXCEPT !.started = TRUE]
  /\ ClaudeSays([at |-> "message_start"], [told EXCEPT !.usage = 1])

ClaudeBlock ==
  /\ Speaks("claude")
  /\ up.started /\ up.block = "" /\ ~told.finish /\ up.index < MaxBlocks
  /\ \E block \in {"text", "think", "tool"} :
       /\ up' = [up EXCEPT !.block = block]
       /\ ClaudeSays([at |-> "start", i |-> up.index, block |-> block],
                     IF block = "tool" THEN Opens(told) ELSE told)

ClaudeDelta ==
  /\ Speaks("claude")
  /\ up.block # "" /\ Carries
  /\ \E body \in CASE up.block = "text" -> Texts [] up.block = "think" -> {Thought}
                   [] OTHER -> {Argument} :
       ClaudeSays([at |-> "delta", i |-> up.index, block |-> up.block, body |-> body],
                  CASE up.block = "text" -> Said(told, body)
                    [] up.block = "think" -> Thinks(told, body)
                    [] OTHER -> Argues(told, Len(told.calls), body))

ClaudeBlockStop ==
  /\ Speaks("claude")
  /\ up.block # ""
  /\ up' = [up EXCEPT !.block = "", !.index = @ + 1]
  /\ ClaudeSays([at |-> "stop", i |-> up.index], told)

ClaudeMessageDelta ==
  /\ Speaks("claude")
  /\ up.started /\ up.block = "" /\ ~told.finish
  /\ UNCHANGED up
  /\ \E reason \in {"end_turn", "max_tokens", "tool_use"} :
       /\ reason = "tool_use" => told.calls # <<>>
       /\ ClaudeSays([at |-> "message_delta", reason |-> reason], [told EXCEPT !.finish = TRUE])

ClaudeStop ==
  /\ Speaks("claude")
  /\ told.finish
  /\ up' = [up EXCEPT !.finished = TRUE]
  /\ ClaudeSays([at |-> "message_stop"], [told EXCEPT !.done = TRUE])

-----------------------------------------------------------------------------
(* The end of the body, and what relayStream makes of it. *)

\* terminalSeen of each client state, read before Finish adds its own ending.
TerminalSeen(s) ==
  CASE leg.client = "chat" -> s.closed
    [] leg.client = "messages" -> s.ended \/ s.reason # ""
    [] OTHER -> s.finish # ""

Finished(s) == CASE leg.client = "chat" -> ChatFinish(s, leg.asked)
                 [] leg.client = "messages" -> MessagesFinish(s)
                 [] OTHER -> ItemsFinish(s)

\* The body ended: whether the upstream had finished is decided, then Finish runs.
Truncated(done) == ~done /\ ~TerminalSeen(state)

EndOfStream ==
  /\ phase = "streaming"
  /\ \E done \in BOOLEAN :
       /\ done => leg.source = "openai"
       /\ truncated' = Truncated(done)
       /\ told' = [told EXCEPT !.done = @ \/ done]
  /\ state' = Finished(state)
  /\ phase' = "closed"
  /\ UNCHANGED <<leg, mapper, up>>

\* The read broke, the idle guard fired or an event was oversized: no Finish.
ReadFails ==
  /\ phase = "streaming"
  /\ phase' = "failed"
  /\ UNCHANGED <<leg, mapper, state, up, told, truncated>>

\* The caller is gone: the pump stops quietly, Finish writes to nobody, and the
\* answer is not called truncated.
HangUp ==
  /\ phase = "streaming"
  /\ phase' = "gone"
  /\ state' = Finished(state)
  /\ UNCHANGED <<leg, mapper, up, told, truncated>>

Next ==
  \/ OpenAIText \/ OpenAIThought \/ OpenAICall \/ OpenAIFinish \/ OpenAIUsage
  \/ ResponsesText \/ ResponsesThought \/ ResponsesCall \/ ResponsesArguments
  \/ ResponsesCallDone \/ ResponsesEnd \/ ResponsesFailed
  \/ GeminiSays
  \/ ClaudeStart \/ ClaudeBlock \/ ClaudeDelta \/ ClaudeBlockStop \/ ClaudeMessageDelta \/ ClaudeStop
  \/ EndOfStream \/ ReadFails \/ HangUp

Spec == Init /\ [][Next]_vars

-----------------------------------------------------------------------------
(* What a client makes of the frames. *)
frames == state.wire
At(kinds) == {k \in DOMAIN frames : frames[k].at \in kinds}

Joined(part(_)) == FlattenSeq([k \in DOMAIN frames |-> part(frames[k])])

\* The kind of the Responses item a growth belongs to.
ItemKind(i) == frames[CHOOSE k \in At({"added"}) : frames[k].i = i].kind

Body(f, chat, block, item) ==
  CASE f.at = "chunk" -> f[chat]
    [] f.at = "delta" -> IF f.block = block THEN f.body ELSE <<>>
    [] f.at = "grown" -> IF ItemKind(f.i) = item THEN f.body ELSE <<>>
    [] OTHER -> <<>>

ShownText == Joined(LAMBDA f : Body(f, "text", "text", "message"))
ShownThinking == Joined(LAMBDA f : Body(f, "think", "think", "reasoning"))

\* The arguments of the n-th call, as the client pairs them with it.
CallFrame(f, n) ==
  CASE f.at = "chunk" ->
         FlattenSeq([k \in DOMAIN f.calls |-> IF f.calls[k].index = n - 1 THEN f.calls[k].args
                                                ELSE <<>>])
    [] f.at = "delta" /\ f.block = "tool" ->
         IF Cardinality({k \in At({"start"}) : frames[k].block = "tool" /\ frames[k].i <= f.i}) = n
         THEN f.body ELSE <<>>
    [] f.at = "grown" ->
         IF /\ ItemKind(f.i) = "call"
            /\ Cardinality({k \in At({"added"}) : frames[k].kind = "call" /\ frames[k].i <= f.i}) = n
         THEN f.body ELSE <<>>
    [] OTHER -> <<>>

ShownCall(n) == Joined(LAMBDA f : CallFrame(f, n))

Expected == IF leg.armed THEN CutAtStop(told.text) ELSE told.text

\* A client is never shown text past, or inside, a marker the caller named, whatever
\* fragments the vendor cut it into; and a stream that closed has shown the whole
\* answer: the text up to the marker, the reasoning, and each call with its own
\* arguments, as the fold of the same answer would have read them.
AnswerPreserved ==
  /\ phase \in {"streaming", "closed"} => IsPrefix(ShownText, Expected)
  /\ phase = "closed" => /\ ShownText = Expected
                         /\ ShownThinking = told.think
                         /\ \A n \in 1..Len(told.calls) : ShownCall(n) = told.calls[n]

-----------------------------------------------------------------------------
(* The protocol of each wire. *)
Once(set) == \E k \in set : set = {k}
Passthrough == leg.client = "messages" /\ leg.source = "claude"

\* Numbered from zero without a gap, in the order the frames were written.
Contiguous(kind) ==
  \A k \in At({kind}) : frames[k].i = Cardinality({j \in At({kind}) : j < k})

\* Every frame of an item or block lies between its opening and its one closing.
Framed(opening, growth, closing) ==
  /\ Contiguous(opening)
  /\ \A k \in At({growth, closing}) :
       \E o \in At({opening}) : o < k /\ frames[o].i = frames[k].i
  /\ \A k \in At({closing}) :
       \A j \in At({growth, closing}) \ {k} : frames[j].i = frames[k].i => j < k
  /\ phase = "closed" =>
       \A o \in At({opening}) : \E k \in At({closing}) : frames[k].i = frames[o].i

ChatWellFormed ==
  LET finishes == {k \in At({"chunk"}) : frames[k].finish # ""}
      usages   == {k \in At({"chunk"}) : frames[k].usage}
      wanted   == IF leg.source \in {"openai", "responses"} THEN told.usage
                  ELSE IF phase = "closed" /\ leg.asked /\ told.usage > 0 THEN 1 ELSE 0
      Opened(k, n) == \E j \in 1..k : /\ frames[j].at = "chunk"
                                      /\ \E c \in Range(frames[j].calls) : c.index = n /\ c.id
  IN  /\ \A k, j \in finishes : k = j
      /\ phase # "gone" => Cardinality(usages) = wanted
      /\ \A k \in At({"chunk"}) : \A c \in Range(frames[k].calls) : Opened(k, c.index)
      /\ phase = "closed" => /\ finishes # {}
                             /\ At({"done"}) = {Len(frames)}

\* A messages client's blocks that are open when frame k is written.
OpenBlocks(k) ==
  {o \in At({"start"}) : o < k /\ \A j \in At({"stop"}) : frames[j].i = frames[o].i => j > k}

\* Only tool blocks, whose input is held until the end, may stay open while another
\* block opens, and they are closed in the order they were opened.
BlocksNest ==
  /\ \A k \in At({"start"}) : \A o \in OpenBlocks(k) : frames[o].block = "tool"
  /\ \A k \in At({"stop"}) : \A o \in OpenBlocks(k) :
       /\ frames[o].i < frames[k].i
       => ~\E t \in At({"start"}) : frames[t].i = frames[k].i /\ frames[t].block = "tool"

MessagesWellFormed ==
  /\ BlocksNest
  /\ frames # <<>> => At({"message_start"}) = {1} \/ (Passthrough /\ ~up.started)
  /\ Framed("start", "delta", "stop") \/ (Passthrough /\ up.block # "")
  /\ \A k \in At({"delta"}) :
       \E o \in At({"start"}) : frames[o].i = frames[k].i /\ frames[o].block = frames[k].block
  /\ phase = "closed" /\ ~Passthrough =>
       /\ At({"message_delta"}) = {Len(frames) - 1}
       /\ At({"message_stop"}) = {Len(frames)}

\* Each closing event repeats the body that grew, and the terminal one every item.
ResponsesWellFormed ==
  LET Grew(i) == Joined(LAMBDA f : IF f.at = "grown" /\ f.i = i THEN f.body ELSE <<>>)
  IN  /\ frames # <<>> => At({"created"}) = {1} /\ At({"in_progress"}) = {2}
      /\ Framed("added", "grown", "item_done")
      /\ \A k \in At({"item_done"}) : frames[k].body = Grew(frames[k].i)
      /\ phase = "closed" =>
           /\ At({"completed", "incomplete"}) = {Len(frames) - 1}
           /\ At({"done"}) = {Len(frames)}
           /\ frames[Len(frames) - 1].output =
                [n \in 1..Cardinality(At({"added"})) |-> Grew(n - 1)]

\* Whatever the upstream sends and wherever it stops, the client reads a stream of
\* its own protocol: it starts once, blocks and items are numbered without a gap in the
\* order they open, fed only while they are open and closed once, with none but tool
\* blocks left open behind another block; a chat client reads the accounting as often
\* as an upstream of its own format states it, and else once if it asked; and a closed
\* stream says exactly once why it ended.  Blocks may overlap, and a text block opened
\* after a tool is closed before it: see BlocksOneAtATime and BlocksCloseInOrder.
WireWellFormed ==
  CASE leg.client = "chat" -> ChatWellFormed
    [] leg.client = "messages" -> MessagesWellFormed
    [] OTHER -> ResponsesWellFormed

\* StreamTruncated, which keeps a cut answer from counting as a key's success, is
\* told exactly when the upstream's body ended before its own terminal event, unless
\* the answer had already been cut at the caller's marker.
UpstreamFinished == IF Passthrough THEN told.done ELSE told.finish \/ told.done
TruncationSeen ==
  phase = "closed" =>
    (truncated <=> ~UpstreamFinished /\ ~(leg.armed /\ CutAtStop(told.text) # told.text))

\* A client told to dispatch its tool calls has every one of them whole: no call is
\* left open upstream, and there is a call at all.
Dispatches ==
  \E k \in DOMAIN frames :
    \/ frames[k].at = "chunk" /\ frames[k].finish = "tool_calls"
    \/ frames[k].at = "message_delta" /\ frames[k].reason = "tool_use"
CallsDispatchable ==
  Dispatches => told.calls # <<>> /\ up.block # "tool"

\* The stream is well formed, a cut body is noticed, and what is dispatched is whole.
StreamSound == WireWellFormed /\ TruncationSeen /\ CallsDispatchable

\* "Each content block is opened before it is fed and closed before the next opens".
BlocksOneAtATime == leg.client = "messages" => \A k \in At({"start"}) : OpenBlocks(k) = {}

\* Open blocks are stopped "ordered by index so the client sees them close in the order
\* they opened".
BlocksCloseInOrder ==
  leg.client = "messages" =>
    \A k \in At({"stop"}) : \A o \in OpenBlocks(k) : frames[o].i >= frames[k].i

\* "One stream carries at most one delivery of the numbers."
NumbersOnce ==
  leg.client = "chat" => Cardinality({k \in At({"chunk"}) : frames[k].usage}) <= 1

\* "message_stop ends the stream": nothing is written after it and it is written once.
StopEndsStream ==
  leg.client = "messages" /\ phase = "closed" => At({"message_stop"}) = {Len(frames)}
=============================================================================
