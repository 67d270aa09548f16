-------------------------------- MODULE UsageFeed --------------------------------
(***************************************************************************)
(* What follows an answered call: the usage row (service/usage.go Record), *)
(* the event behind it through the bounded queue and the one goroutine     *)
(* that publishes (service/usage_event_publish.go), the broker's channel,  *)
(* which keeps nothing (repository/redis/usage_event_bus.go), and the      *)
(* consumer that mirrors each event into the console ring                  *)
(* (service/usage_event_consume.go), up to the stop of the process         *)
(* (cmd/app-serv/shutdown_drain.go, worker_wiring.go).                     *)
(***************************************************************************)
EXTENDS Integers, Sequences, FiniteSets

CONSTANTS
  Calls,       \* answered calls
  Depth,       \* usageEventQueueDepth
  MaxFaults    \* bound: broker calls and subscriptions that fail

NoCall == "no call"

UsageFeedAssumption == {Depth, MaxFaults} \subseteq Nat /\ NoCall \notin Calls

VARIABLES
  recorded,   \* per call: "open", its "row" stored, "refused", or stored with an event that is "not encoded"
  told,       \* calls whose encoded event PublishEvent offered to the queue
  queue,      \* the channel
  sending,    \* the event publishOne holds
  dropped, failed,   \* the counters
  taken, went,   \* history: the events the queue took, in order; how many the broker took
  publisher,  \* "up", "drains", "left"
  late,       \* the drain's deadline passed
  listens,    \* the consumer: "off", "on", "left"
  wire,       \* what the broker has handed to the open subscription
  console,    \* the ring's lines
  process,    \* "up", "closing" (Shutdown waits for handlers), "stopping" (workers cancelled), "gone"
  faults

feedVars == <<recorded, told, queue, sending, dropped, failed, taken, went, publisher, late, listens,
              wire, console, process, faults>>

Init ==
  /\ recorded = [c \in Calls |-> "open"]
  /\ queue = <<>> /\ taken = <<>> /\ wire = <<>> /\ console = <<>>
  /\ told = {} /\ sending = NoCall
  /\ dropped = 0 /\ failed = 0 /\ went = 0 /\ faults = 0
  /\ publisher = "up" /\ late = FALSE
  /\ listens = "off"
  /\ process = "up"

Counters == <<dropped, failed, went>>
Queued == <<queue, taken>>
Publisher == <<publisher, late, sending>>
Consumer == <<listens, wire, console>>

-----------------------------------------------------------------------------
(* Record, on the request's path. A handler the stop window cut off still runs it. *)

\* The row, or its refusal: a call without a row has no event.
Store(c) ==
  /\ process # "gone" /\ recorded[c] = "open"
  /\ \E to \in {"row", "refused"} : recorded' = [recorded EXCEPT ![c] = to]
  /\ UNCHANGED <<told, Queued, Publisher, Counters, Consumer, process, faults>>

\* mutant: the event goes out beside the row, not behind it
MayTellFirst(c) == c \notin told /\ recorded[c] \in {"open", "row"}
MayTell(c) == c \notin told /\ recorded[c] = "row"

\* PublishEvent: a full queue drops the newest and counts it.
Taken(c) ==
  IF Len(queue) < Depth
    THEN queue' = Append(queue, c) /\ taken' = Append(taken, c) /\ UNCHANGED dropped
    ELSE dropped' = dropped + 1 /\ UNCHANGED Queued

Tell(c) ==
  /\ process # "gone" /\ MayTell(c)
  /\ Taken(c)
  /\ told' = told \union {c}
  /\ UNCHANGED <<recorded, Publisher, failed, went, Consumer, process, faults>>

\* The codec refuses the event: a log line, and neither the queue nor a counter hears of it.
Withhold(c) ==
  /\ process # "gone" /\ MayTell(c)
  /\ recorded' = [recorded EXCEPT ![c] = "not encoded"]
  /\ UNCHANGED <<told, Queued, Publisher, Counters, Consumer, process, faults>>

-----------------------------------------------------------------------------
(* The publisher. *)

\* Run's select, and drain's: once the context is done either branch may be chosen while
\* events wait.
Take ==
  /\ publisher \in {"up", "drains"} /\ sending = NoCall /\ queue # <<>>
  /\ sending' = Head(queue) /\ queue' = Tail(queue)
  /\ UNCHANGED <<recorded, told, taken, publisher, late, Counters, Consumer, process, faults>>

Heard == IF listens = "on" THEN Append(wire, sending) ELSE wire

\* The broker took it: an open subscription is handed the event, nobody else ever is.
Published ==
  /\ sending # NoCall
  /\ wire' = Heard /\ sending' = NoCall /\ went' = went + 1
  /\ UNCHANGED <<recorded, told, Queued, publisher, late, dropped, failed, listens, console, process, faults>>

\* A publish that fails, or panics, is counted and never retried; it may have reached the
\* subscription all the same.
Failure ==
  /\ failed' = failed + 1 /\ UNCHANGED queue
  /\ wire' \in {wire, Heard}

\* The broker fails, or the context is over: the workers' own, for an event taken before
\* the drain, or the drain's deadline.
Unpublished ==
  /\ sending # NoCall
  /\ \/ faults < MaxFaults /\ faults' = faults + 1
     \/ (late \/ (process = "stopping" /\ publisher = "up")) /\ UNCHANGED faults
  /\ Failure /\ sending' = NoCall
  /\ UNCHANGED <<recorded, told, taken, publisher, late, dropped, went, listens, console, process>>

\* ctx.Done(), then drain: a pass that finds the queue empty ends Run.
Drain ==
  /\ process = "stopping" /\ publisher = "up" /\ sending = NoCall
  /\ publisher' = "drains"
  /\ UNCHANGED <<recorded, told, Queued, sending, late, Counters, Consumer, process, faults>>

Leave ==
  /\ publisher = "drains" /\ sending = NoCall /\ queue = <<>>
  /\ publisher' = "left"
  /\ UNCHANGED <<recorded, told, Queued, sending, late, Counters, Consumer, process, faults>>

DrainExpires ==
  /\ publisher = "drains" /\ ~late
  /\ late' = TRUE
  /\ UNCHANGED <<recorded, told, Queued, sending, publisher, Counters, Consumer, process, faults>>

-----------------------------------------------------------------------------
(* The consumer. *)

\* Run: each subscription is opened afresh, and what was published meanwhile is not in it.
Subscribe ==
  /\ process # "gone" /\ process # "stopping" /\ listens = "off"
  /\ listens' = "on" /\ wire' = <<>>
  /\ UNCHANGED <<recorded, told, Queued, Publisher, Counters, console, process, faults>>

\* handle: the event is decoded and one line appended; a failed append is skipped.
Mirror ==
  /\ listens = "on" /\ wire # <<>>
  /\ wire' = Tail(wire)
  /\ \/ console' = Append(console, Head(wire)) /\ UNCHANGED faults
     \/ faults < MaxFaults /\ faults' = faults + 1 /\ UNCHANGED console
  /\ UNCHANGED <<recorded, told, Queued, Publisher, Counters, listens, process>>

\* A receive fails, or handling panics: the subscription is closed with what it held.
Break ==
  /\ listens = "on" /\ faults < MaxFaults /\ faults' = faults + 1
  /\ listens' = "off" /\ wire' = <<>>
  /\ UNCHANGED <<recorded, told, Queued, Publisher, Counters, console, process>>

\* The workers' context ends the consumer as it ends the publisher.
Unsubscribe ==
  /\ process = "stopping" /\ listens # "left"
  /\ listens' = "left" /\ wire' = <<>>
  /\ UNCHANGED <<recorded, told, Queued, Publisher, Counters, console, process, faults>>

-----------------------------------------------------------------------------
(* serve: the server drains within its window, then stopWorkers, then the exit. *)

Close ==
  /\ process = "up" /\ process' = "closing"
  /\ UNCHANGED <<recorded, told, Queued, Publisher, Counters, Consumer, faults>>

\* Every handler returned, or the window is over.
StopWorkers ==
  /\ process = "closing" /\ process' = "stopping"
  /\ UNCHANGED <<recorded, told, Queued, Publisher, Counters, Consumer, faults>>

\* Both workers returned, or stopAndJoin's window is over.
Exit ==
  /\ process = "stopping" /\ process' = "gone"
  /\ UNCHANGED <<recorded, told, Queued, Publisher, Counters, Consumer, faults>>

Workers == Take \/ Published \/ Unpublished \/ Drain \/ Leave \/ DrainExpires
           \/ Subscribe \/ Mirror \/ Break \/ Unsubscribe
Next ==
  \/ process # "gone" /\ Workers
  \/ \E c \in Calls : Store(c) \/ Tell(c) \/ Withhold(c)
  \/ Close \/ StopWorkers \/ Exit

Spec == Init /\ [][Next]_feedVars

-----------------------------------------------------------------------------

Fates == {"open", "row", "refused", "not encoded"}

TypeOK ==
  /\ recorded \in [Calls -> Fates] /\ told \subseteq Calls
  /\ {queue, taken, wire, console} \subseteq Seq(Calls) /\ Len(queue) <= Depth
  /\ sending \in Calls \union {NoCall}
  /\ publisher \in {"up", "drains", "left"} /\ late \in BOOLEAN
  /\ listens \in {"off", "on", "left"}
  /\ {dropped, failed, went} \subseteq Nat
  /\ process \in {"up", "closing", "stopping", "gone"}
  /\ faults \in 0..MaxFaults

\* Each once, as the queue took them.
InOrder(line) ==
  /\ \A n \in DOMAIN line : \E i \in DOMAIN taken : line[n] = taken[i]
  /\ \A n, m \in DOMAIN line : n < m =>
       \A i, j \in DOMAIN taken : line[n] = taken[i] /\ line[m] = taken[j] => i < j

\* The console never shows a call that has no usage row, never shows one twice, and shows
\* them in the order they were told in: what it misses, it misses (usage.go Record:
\* the event means "this request is recorded, not this request was attempted").
ConsoleFollowsRows ==
  /\ \A n \in DOMAIN console : recorded[console[n]] = "row"
  /\ InOrder(console)

\* No encoded event leaves without a trace: one that the queue took is still there, went to
\* the broker, or is counted, and one it did not take is counted (usage_event_publish.go:
\* "counted rather than silently lost"). One its own codec refuses is only logged.
EventsAreCounted ==
  /\ Cardinality(told) = Len(taken) + dropped
  /\ Len(taken) = Len(queue) + (IF sending = NoCall THEN 0 ELSE 1) + went + failed
  /\ \A i \in DOMAIN queue : queue[i] = taken[Len(taken) - Len(queue) + i]

FeedSound == ConsoleFollowsRows /\ EventsAreCounted

\* The strengthening of the proof: an event is taken once, and of a stored call; the one
\* being sent is the next, and the subscription holds events that left, behind those shown.
TakenOnce ==
  /\ IsFiniteSet(told) /\ \A c \in told : recorded[c] = "row"
  /\ \A i \in DOMAIN taken : taken[i] \in told
  /\ \A i, j \in DOMAIN taken : taken[i] = taken[j] => i = j
SentNext == sending # NoCall => sending = taken[went + failed + 1]
Left(line) == \A n \in DOMAIN line : \E i \in 1..(went + failed) : line[n] = taken[i]
WireBehind ==
  /\ Left(console) /\ Left(wire) /\ InOrder(wire)
  /\ \A n \in DOMAIN console, m \in DOMAIN wire : \A i, j \in DOMAIN taken :
       console[n] = taken[i] /\ wire[m] = taken[j] => i < j
FeedInv == TypeOK /\ FeedSound /\ TakenOnce /\ SentNext /\ WireBehind

\* Stated by drain's comment: the events already queued at shutdown are what the drain
\* exists to flush. Here a healthy broker is given every event the queue took.
QueuedIsPublished ==
  publisher = "left" /\ ~late /\ faults = 0 => failed = 0

=============================================================================
