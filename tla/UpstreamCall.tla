---------------------------- MODULE UpstreamCall ----------------------------
(***************************************************************************)
(* One call to one upstream target: Transport.Do and attempt of            *)
(* dataplane/transport_call.go and transport_attempt.go, with the session  *)
(* lane it may have to queue for (transport_sessions.go), the retry policy *)
(* (retry.go), the two waits for a stream to speak (transport_ttfb.go),    *)
(* and the guard on its silence (stream.go). Several calls share one       *)
(* session.                                                                *)
(*                                                                         *)
(* Time is counted in ticks. A timer that has run out fires before the     *)
(* next tick, in any order with what else happens at that instant, and the *)
(* steps of the process itself take none. The target is reached directly;  *)
(* the walk over proxies is ProxyRoute. A shaping or credential error ends *)
(* a call before it takes anything, and is left out.                       *)
(***************************************************************************)
EXTENDS Integers, Sequences, FiniteSets, SequencesExt

CONSTANTS
  Calls,
  Serialized,      \* the calls whose connector names the one session (SessionKey)
  Shapes,          \* what a client asks for and how the provider answers it
  Nobody,          \* the session's slot is free
  WalkTicks,       \* RequestBudget: what the walk's clock has left (at most TotalTimeout)
  HeaderTicks,     \* ResponseHeaderTimeout
  FirstByteTicks,  \* FirstByteTimeout
  IdleTicks,       \* IdleTimeout
  Attempts,        \* registry Retry.Attempts, DefaultAttempts
  MaxPOSTRetries,
  Waits            \* a backoff drawn, or a stated Retry-After

\* A client that asked for a stream has no total deadline (attemptDeadline); a piped
\* answer is read as a stream, which a body client gets where the connector forces it;
\* a connector with a StreamEnvelope finds the status inside the stream.
AllShapes ==
  {s \in [client : {"stream", "body"}, piped : BOOLEAN, wrapped : BOOLEAN] :
     s.piped \/ (s.client = "body" /\ ~s.wrapped)}

ASSUME UpstreamCallAssumption ==
  /\ {WalkTicks, HeaderTicks, FirstByteTicks, IdleTicks, Attempts} \subseteq Nat \ {0}
  /\ MaxPOSTRetries \in Nat /\ Waits \subseteq Nat
  /\ Nobody \notin Calls /\ Serialized \subseteq Calls
  /\ Shapes \subseteq AllShapes

VARIABLES
  shape,  \* per call, what it was asked for
  gate,   \* who holds the session's slot
  queue,  \* the calls blocked on it, in order
  call    \* per call, where it is

vars == <<shape, gate, queue, call>>

\* What a call may wait for the upstream, the read of a refusal apart: its walk's clock;
\* a stream, of an attempt begun in time, also for its headers and, in an envelope, for
\* its first byte after its first frame.
Grace(s) == WalkTicks + IF s.client = "body" THEN 0
                        ELSE HeaderTicks + IF s.wrapped THEN FirstByteTicks ELSE 0
\* Bound of the counter: every grace lies below it.
AgeCap == WalkTicks + HeaderTicks + FirstByteTicks + 1

Places == {"new", "queued", "granted", "begin", "sent", "failing", "peek", "first", "reading",
           "backoff", "open", "done"}
Call == [at : Places,
         retries : 0..Attempts,
         left : 0..WalkTicks,     \* of the walk's clock (ends)
         wait : Nat,              \* of the timer of this place
         cap : Nat,               \* how long the first byte may take, fixed at the start
         fired : BOOLEAN,         \* a timer cancelled the attempt's context
         busy : BOOLEAN,          \* the caller is writing to its client, not reading
         gone : BOOLEAN,          \* the client hung up
         begun : Nat,             \* history: attempts whose work the upstream may have begun,
                                  \* those its envelope refused apart
         age : 0..AgeCap]         \* history: ticks the upstream was waited for

New == [at |-> "new", retries |-> 0, left |-> WalkTicks, wait |-> 0, cap |-> 0, fired |-> FALSE,
        busy |-> FALSE, gone |-> FALSE, begun |-> 0, age |-> 0]

Init ==
  /\ shape \in [Calls -> Shapes]
  /\ gate = Nobody /\ queue = <<>>
  /\ call = [c \in Calls |-> New]

Lesser(a, b) == IF a < b THEN a ELSE b
Become(c, r) == call' = [call EXCEPT ![c] = r]
Stay == UNCHANGED <<shape, gate, queue>>

-----------------------------------------------------------------------------
(* The session's slot                                                      *)

\* acquire: the channel's senders are served in order; a call without a session
\* takes no slot.
Arrive(c) ==
  /\ call[c].at = "new"
  /\ UNCHANGED shape
  /\ IF c \notin Serialized THEN /\ Become(c, [call[c] EXCEPT !.at = "begin"])
                                 /\ UNCHANGED <<gate, queue>>
     ELSE IF gate = Nobody THEN /\ gate' = c
                                /\ Become(c, [call[c] EXCEPT !.at = "granted"])
                                /\ UNCHANGED queue
     ELSE /\ queue' = Append(queue, c)
          /\ Become(c, [call[c] EXCEPT !.at = "queued"])
          /\ UNCHANGED gate

\* A receive from the full channel moves the next blocked send into it.
Released(calls) ==
  IF queue = <<>> THEN /\ gate' = Nobody
                       /\ call' = calls
                       /\ UNCHANGED queue
  ELSE /\ gate' = Head(queue) /\ queue' = Tail(queue)
       /\ call' = [calls EXCEPT ![Head(queue)].at = "granted"]

\* The call returns, or its body is closed: the slot goes back, once. Of a call that
\* ended only its history is kept.
Ended(r) == [New EXCEPT !.at = "done", !.begun = r.begun]
\* mutant: a call that ends in an error keeps the slot
EndKeepsSlot(c, r) ==
  /\ UNCHANGED shape
  /\ IF gate = c /\ call[c].at = "open" THEN Released([call EXCEPT ![c] = Ended(r)])
     ELSE Become(c, Ended(r)) /\ UNCHANGED <<gate, queue>>
End(c, r) ==
  /\ UNCHANGED shape
  /\ IF gate = c THEN Released([call EXCEPT ![c] = Ended(r)])
     ELSE Become(c, Ended(r)) /\ UNCHANGED <<gate, queue>>

\* A cancelled waiter leaves the queue.
GiveUpWaiting(c) ==
  /\ call[c].at = "queued" /\ call[c].gone
  /\ \E i \in DOMAIN queue : queue[i] = c /\ queue' = RemoveAt(queue, i)
  /\ Become(c, Ended(call[c]))
  /\ UNCHANGED <<shape, gate>>

\* A cancelled caller that won the race gives the slot on.
Granted(c) ==
  /\ call[c].at = "granted"
  /\ IF call[c].gone THEN End(c, call[c])
     ELSE Become(c, [call[c] EXCEPT !.at = "begin"]) /\ Stay

-----------------------------------------------------------------------------
(* Retry                                                                   *)

RetryBudget(replayable) ==
  IF replayable THEN Attempts - 1 ELSE Lesser(Attempts - 1, MaxPOSTRetries)

\* clampWait: a wait must leave some of the walk's clock.
Fits(w, left) == w = 0 \/ w < left

\* DecideRetry and its two callers: sleep and try again, or answer the failure.
\* worth is the verdict on the failure (UpstreamError.Retryable, ShouldRetry).
Decide(c, r, worth, replayable) ==
  \/ /\ worth /\ r.retries < RetryBudget(replayable)
     /\ \E w \in Waits :
          /\ Fits(w, r.left)
          /\ Become(c, [r EXCEPT !.at = "backoff", !.wait = w, !.cap = 0,
                                !.retries = @ + 1, !.fired = FALSE])
     /\ Stay
  \/ /\ \/ ~worth \/ r.retries >= RetryBudget(replayable)
        \/ \E w \in Waits : ~Fits(w, r.left)
     /\ End(c, r)

\* The upstream may have begun what a lost attempt asked for.
Begun(r) == [r EXCEPT !.begun = @ + 1]

-----------------------------------------------------------------------------
(* One attempt                                                             *)

\* Do: no attempt begins on a spent clock.
\* mutant: the first byte is awaited for its whole time whatever the clock says
FirstByteCapWhole(r) == FirstByteTicks
FirstByteCap(r) == Lesser(FirstByteTicks, r.left)

Attempt(c) ==
  /\ call[c].at = "begin"
  /\ IF call[c].left = 0 THEN End(c, call[c])
     ELSE /\ Become(c, [call[c] EXCEPT !.at = "sent", !.wait = HeaderTicks,
                                        !.cap = FirstByteCap(call[c])])
          /\ Stay

\* dialer.Do fails before anything was delivered, or after.
Unreachable(c) ==
  /\ call[c].at = "sent" /\ ~call[c].gone
  /\ \E worth \in BOOLEAN : Decide(c, call[c], worth, FALSE)
Broken(c) ==
  /\ call[c].at \in {"sent", "first", "reading"} /\ ~call[c].gone
  /\ \E worth \in BOOLEAN : Decide(c, Begun(call[c]), worth, FALSE)

\* ResponseHeaderTimeout, or the attempt's deadline for a client that wants a body.
Bounded(c) == shape[c].client = "body"
HeadersLate(c) ==
  /\ call[c].at = "sent" /\ call[c].wait = 0
  /\ \E worth \in BOOLEAN : Decide(c, Begun(call[c]), worth, FALSE)
DeadlinePasses(c) ==
  /\ call[c].at \in {"sent", "peek", "first", "reading", "failing"}
  /\ Bounded(c) /\ call[c].left = 0
  /\ \E worth \in BOOLEAN : Decide(c, Begun(call[c]), worth, FALSE)

\* A refusal: a bounded part of its body is read, for as long as that takes unless the
\* attempt has a deadline, then it is classified.
Refused(c) ==
  /\ call[c].at = "sent"
  /\ Become(c, [call[c] EXCEPT !.at = "failing", !.wait = 0])
  /\ Stay
ErrorBody(c) ==
  /\ call[c].at = "failing" /\ ~call[c].gone
  /\ \E worth \in BOOLEAN : Decide(c, Begun(call[c]), worth, FALSE)

\* The answer's headers: a stream is not handed out before it has spoken, and one in an
\* envelope is opened first, each under a timer of the same cap.
Accepted(c) ==
  /\ call[c].at = "sent"
  /\ Become(c, IF ~shape[c].piped THEN [call[c] EXCEPT !.at = "reading", !.wait = 0]
               ELSE [call[c] EXCEPT !.at = IF shape[c].wrapped THEN "peek" ELSE "first",
                                    !.wait = call[c].cap])
  /\ Stay

\* openEnvelopeWithin: the frame and the timer race in one select. The frame opens the
\* stream or states a refusal, which a frame that cannot be read counts as: nothing was
\* piped, so it may be repeated freely.
Opened(c) ==
  /\ call[c].at = "peek" /\ ~call[c].gone
  /\ Become(c, [call[c] EXCEPT !.at = "first", !.wait = call[c].cap])
  /\ Stay
EnvelopeRefused(c) ==
  /\ call[c].at = "peek" /\ ~call[c].gone
  /\ \E worth \in BOOLEAN : Decide(c, call[c], worth, TRUE)

\* sessionBody: the slot travels with the answer until its body is closed.
\* mutant: it is given back when the answer is handed out
HandedOffFreed(c, r) ==
  /\ UNCHANGED shape
  /\ IF gate = c THEN Released([call EXCEPT ![c] = r]) ELSE Become(c, r) /\ UNCHANGED <<gate, queue>>
HandedOff(c, r) == Become(c, r) /\ Stay

\* firstByteWithin: the timer cancels the attempt; Stop tells a byte that came in time
\* from one that raced it.
FireFirst(c) ==
  /\ call[c].at = "first" /\ call[c].wait = 0 /\ ~call[c].fired
  /\ Become(c, [call[c] EXCEPT !.fired = TRUE])
  /\ Stay
Silent(c) ==
  /\ \/ call[c].at = "first" /\ call[c].fired
     \/ call[c].at = "peek" /\ call[c].wait = 0
  /\ \E worth \in BOOLEAN : Decide(c, Begun(call[c]), worth, FALSE)
Stopped(r) == ~r.fired
FirstByte(c) ==
  /\ call[c].at = "first" /\ Stopped(call[c])
  /\ HandedOff(c, Begun([call[c] EXCEPT !.at = "open", !.wait = IdleTicks, !.cap = 0]))

ReadAll(c) ==
  /\ call[c].at = "reading"
  /\ HandedOff(c, Begun([call[c] EXCEPT !.at = "open", !.cap = 0]))

Wake(c) ==
  /\ call[c].at = "backoff" /\ call[c].wait = 0
  /\ Become(c, [call[c] EXCEPT !.at = "begin"])
  /\ Stay

-----------------------------------------------------------------------------
(* The answer in its caller's hands                                        *)

Piped(c) == call[c].at = "open" /\ shape[c].piped

\* idleGuard.Read resets the window on progress; the caller then writes to its client.
Chunk(c) ==
  /\ Piped(c) /\ ~call[c].busy /\ ~call[c].fired
  /\ Become(c, [call[c] EXCEPT !.wait = IdleTicks, !.busy = TRUE])
  /\ Stay
Written(c) ==
  /\ call[c].busy
  /\ Become(c, [call[c] EXCEPT !.busy = FALSE])
  /\ Stay
FireIdle(c) ==
  /\ Piped(c) /\ call[c].wait = 0 /\ ~call[c].fired
  /\ Become(c, [call[c] EXCEPT !.fired = TRUE])
  /\ Stay

\* The guard has cut the stream, a body client's deadline passes inside it, or the
\* connection breaks: the read fails and the caller closes.
CutShort(c) == Piped(c) /\ ~call[c].busy /\ End(c, call[c])
\* The answer is read to its end and closed.
EndOfAnswer(c) ==
  /\ call[c].at = "open" /\ ~call[c].busy /\ ~call[c].fired
  /\ End(c, call[c])

-----------------------------------------------------------------------------
(* The client and time                                                     *)

HangUp(c) ==
  /\ call[c].at \notin {"new", "done"} /\ ~call[c].gone
  /\ Become(c, [call[c] EXCEPT !.gone = TRUE])
  /\ Stay

\* A cancelled context ends the attempt and the sleep after it, and sends nothing more.
Abandon(c) ==
  /\ call[c].gone /\ call[c].at \in Places \ {"new", "queued", "granted", "done"}
  /\ End(c, call[c])

Waiting == {"begin", "sent", "peek", "first", "reading", "failing", "backoff"}
\* mutant: the wait for a slot is charged to the walk
ChargedQueued == Waiting \cup {"queued"}
Charged == Waiting

Due(c) ==
  LET r == call[c] IN
  \/ r.at \in {"granted", "begin"}
  \/ r.gone /\ r.at # "done"
  \/ r.wait = 0 /\ (r.at \in {"sent", "peek", "first", "backoff"} \/ Piped(c))
  \/ r.left = 0 /\ Bounded(c) /\ (r.at \in Waiting \ {"begin", "backoff"} \/ Piped(c))

Less(n) == IF n = 0 THEN 0 ELSE n - 1
Elapsed(c) ==
  LET r == call[c] IN
  [r EXCEPT !.wait = Less(@),
            !.left = IF r.at \in Charged \/ (Piped(c) /\ Bounded(c)) THEN Less(@) ELSE @,
            !.age = IF r.at \in Waiting THEN Lesser(@ + 1, AgeCap) ELSE @]

Tick ==
  /\ \A c \in Calls : ~Due(c)
  /\ \E c \in Calls : Elapsed(c) # call[c]
  /\ call' = [c \in Calls |-> Elapsed(c)]
  /\ Stay

-----------------------------------------------------------------------------
Own(c) ==
  \/ Arrive(c) \/ GiveUpWaiting(c) \/ Granted(c) \/ Attempt(c) \/ HeadersLate(c)
  \/ DeadlinePasses(c) \/ FireFirst(c) \/ Silent(c) \/ Wake(c) \/ FireIdle(c) \/ Abandon(c)
  \/ (call[c].fired \/ (Bounded(c) /\ call[c].left = 0)) /\ CutShort(c)

Upstream(c) ==
  \/ Unreachable(c) \/ Broken(c) \/ Refused(c) \/ ErrorBody(c) \/ Accepted(c)
  \/ Opened(c) \/ EnvelopeRefused(c) \/ FirstByte(c) \/ ReadAll(c) \/ Chunk(c) \/ CutShort(c)
  \/ EndOfAnswer(c)

Next == (\E c \in Calls : Own(c) \/ Upstream(c) \/ Written(c) \/ HangUp(c)) \/ Tick

\* Timers fire and the process goes on; a client reads or leaves; an answer that keeps
\* coming is finite. Nothing is assumed of an upstream that owes its headers, its first
\* byte, its next one or the body of its refusal.
Fairness ==
  /\ WF_vars(Tick)
  /\ \A c \in Calls : WF_vars(Own(c)) /\ WF_vars(Written(c)) /\ SF_vars(EndOfAnswer(c))

Spec == Init /\ [][Next]_vars
FairSpec == Spec /\ Fairness
-----------------------------------------------------------------------------
(* Properties                                                              *)

TypeOK ==
  /\ shape \in [Calls -> Shapes]
  /\ gate \in Calls \cup {Nobody}
  /\ queue \in Seq(Calls)
  /\ call \in [Calls -> Call]

\* The upstream may be busy with this call.
InFlight(c) == call[c].at \in {"sent", "peek", "first", "reading", "failing", "open"}

\* A session has at most one call in flight, from its first byte sent to the close of
\* its body; whoever holds the slot still needs it, so a slot is never lost; whoever
\* waits for it is in the queue, once.
OneInFlight ==
  /\ \A c, d \in Serialized : InFlight(c) /\ InFlight(d) => c = d
  /\ \A c \in Serialized : call[c].at \in Waiting \cup {"granted", "open"} <=> gate = c
  /\ \A c \in Calls : call[c].at = "queued" <=> \E i \in DOMAIN queue : queue[i] = c
  /\ \A i, j \in DOMAIN queue : queue[i] = queue[j] => i = j
  /\ gate = Nobody => queue = <<>>

\* What one target may cost the walk. A body client never waits longer than the walk's
\* clock. A streamed one waits longer than its grace (a header wait and, in an envelope,
\* a first-byte wait beyond the clock) only inside the body of a refusal, where the code
\* has no timer, and after such a body no attempt is begun any more. A request that is
\* not idempotent is begun at most once more than asked for, however refusals that may
\* be repeated freely come between.
BegunBounded == \A c \in Calls : call[c].begun <= 1 + MaxPOSTRetries
Outlived(c) == call[c].age > Grace(shape[c])
Spent(c) == call[c].at \in {"backoff", "begin"} /\ call[c].left = 0
PreCommitBounded ==
  /\ \A c \in Calls : Outlived(c) => ~Bounded(c) /\ (call[c].at = "failing" \/ Spent(c))
  /\ BegunBounded

(* What keeps them (UpstreamCallProofs)                                    *)

\* The slot and its queue are of the session's calls alone.
Laned ==
  /\ gate \in Serialized \cup {Nobody}
  /\ \A i \in DOMAIN queue : queue[i] \in Serialized

\* The ticks the timers that are running, and those the attempt may yet start, can take.
Owed(s, r) ==
  CASE r.at = "sent" -> r.wait + r.cap + (IF s.wrapped THEN r.cap ELSE 0)
    [] r.at = "peek" -> r.wait + r.cap
    [] r.at = "first" -> r.wait
    [] OTHER -> 0

\* A call's clocks and counts, each against the other: what it may still wait for is
\* bounded by what it waited already, and all of the walk's clock it lost it waited.
Clocked(s, r) ==
  /\ r.left > 0 \/ s.client = "body" => r.age + r.left <= WalkTicks
  /\ s.client # "body" /\ r.at \notin {"failing", "backoff", "begin"}
       => r.age + Owed(s, r) <= Grace(s)
  /\ r.at = "reading" => s.client = "body"
  /\ r.at = "backoff" => r.wait = 0 \/ r.wait < r.left
  /\ r.at \notin {"open", "done"} => r.age + r.left >= WalkTicks
Counted(r) ==
  /\ r.begun <= 1 + MaxPOSTRetries
  /\ r.at \notin {"open", "done"} => r.begun <= r.retries /\ r.begun <= MaxPOSTRetries

CallInv ==
  /\ TypeOK /\ OneInFlight /\ Laned
  /\ \A c \in Calls : Clocked(shape[c], call[c]) /\ Counted(call[c])

\* A call is refused for want of time only when the upstream was waited for that long:
\* the time it queued for its slot is not the walk's.
TimeoutIsEarned ==
  [][\A c \in Calls : call[c].at = "begin" /\ call'[c].at = "done" /\ ~call[c].gone
       => call[c].age >= WalkTicks]_vars

\* Every call ends, the queued ones too, whatever upstreams stay silent on, with one
\* exception: the client asked for a stream, stays, and the body of a refusal neither
\* comes nor breaks; then that call, and the ones queued behind it, may wait for ever.
Stalled(c) == call[c].at = "failing" /\ ~Bounded(c) /\ ~call[c].gone
Hung(c) == Stalled(c) \/ (call[c].at = "queued" /\ \E d \in Calls : gate = d /\ Stalled(d))
CallsEnd == \A c \in Calls : (call[c].at # "new" ~> call[c].at = "done") \/ <>[]Hung(c)

\* transport_call.go:77: one credential may not outlive the request's walk (granting it
\* the waits for headers and first byte of an attempt begun in time).
WalkBoundsCall == \A c \in Calls : ~Outlived(c)

\* stream.go:71: only a genuine silence is cut off.
OnlySilenceCuts == \A c \in Calls : ~(call[c].at = "open" /\ call[c].fired /\ call[c].busy)
=============================================================================
