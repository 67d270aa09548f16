------------------------------- MODULE LiveMarkers -------------------------------
(***************************************************************************)
(* The set of calls being routed now, which the live drawing is read from: *)
(* every attempt of a relay opens a marker and releases it when the        *)
(* attempt ends (dataplane/active.go, engine_relay.go,                     *)
(* service/usage_live_tracker.go, domain/usage_active.go), in one sorted   *)
(* set that replicas share (repository/redis/usage_active_store.go).       *)
(***************************************************************************)
EXTENDS Integers, FiniteSets

CONSTANTS
  Requests,      \* client requests under way
  Legs,          \* attempts one request may make
  StaleTicks,    \* ActiveRequestStaleAfter
  LandTicks,     \* how late a command that timed out may still be carried out
  Longest,       \* bound: ticks an attempt runs
  Limit,         \* usageLiveActiveLimit
  MaxTimeouts    \* bound: commands that time out

LiveMarkersAssumption ==
  /\ {Legs, StaleTicks, LandTicks, Longest, Limit, MaxTimeouts} \subseteq Nat
  /\ LandTicks < StaleTicks

Attempts == Requests \X (1..Legs)
Old == StaleTicks + 1      \* from here on age makes no difference

VARIABLES
  attempt,    \* per attempt: "none", "opens", "runs", "releases", "over"
  started,    \* per attempt: ticks since its StartedAt
  marked,     \* the sorted set: members, named for the attempt that wrote them
  stray,      \* ZADDs that timed out and may yet be carried out
  missed,     \* history: attempts whose marker Redis did not take in time
  drawn,      \* a frame was just read
  shown,      \* what it drew
  timeouts

markerVars == <<attempt, started, marked, stray, missed, drawn, shown, timeouts>>

Init ==
  /\ attempt = [a \in Attempts |-> "none"]
  /\ started = [a \in Attempts |-> 0]
  /\ marked = {} /\ stray = {} /\ missed = {}
  /\ drawn = FALSE /\ shown = {}
  /\ timeouts = 0

Member(a) == a

Previous(a) == <<a[1], a[2] - 1>>
Outdated == drawn' = FALSE /\ shown' = {}

\* Begin: an attempt starts once the one before it has released its marker.
Begin(a) ==
  /\ attempt[a] = "none"
  /\ a[2] > 1 => attempt[Previous(a)] = "over"
  /\ attempt' = [attempt EXCEPT ![a] = "opens"]
  /\ started' = [started EXCEPT ![a] = 0]
  /\ Outdated
  /\ UNCHANGED <<marked, stray, missed, timeouts>>

\* Start: ZADD. Whatever it answers, the call goes out.
Mark(a) ==
  /\ attempt[a] = "opens"
  /\ attempt' = [attempt EXCEPT ![a] = "runs"]
  /\ \/ marked' = marked \union {Member(a)} /\ UNCHANGED <<stray, missed, timeouts>>
     \/ /\ timeouts < MaxTimeouts /\ timeouts' = timeouts + 1
        /\ missed' = missed \union {a}
        /\ stray' \in {stray, stray \union {Member(a)}}
        /\ UNCHANGED marked
  /\ Outdated /\ UNCHANGED started

\* The upstream call is over: the error path at once, the answer when its last byte is out.
EndCall(a) ==
  /\ attempt[a] = "runs"
  /\ attempt' = [attempt EXCEPT ![a] = "releases"]
  /\ Outdated
  /\ UNCHANGED <<started, marked, stray, missed, timeouts>>

\* Finish: ZREM of the marker's own encoding, on a context of its own.
Unmark(a) ==
  /\ attempt[a] = "releases"
  /\ attempt' = [attempt EXCEPT ![a] = "over"]
  /\ \/ marked' = marked \ {Member(a)} /\ UNCHANGED timeouts
     \/ timeouts < MaxTimeouts /\ timeouts' = timeouts + 1 /\ UNCHANGED marked
  /\ Outdated /\ UNCHANGED <<started, stray, missed>>

\* A ZADD that timed out is carried out after all, behind the release as likely as before.
Land(m) ==
  /\ m \in stray
  /\ marked' = marked \union {m}
  /\ stray' = stray \ {m}
  /\ Outdated
  /\ UNCHANGED <<attempt, started, missed, timeouts>>

Live(a) == started[a] < StaleTicks

\* The prune removes what is older than the cutoff, the read leaves out the cutoff too.
Pruned == {m \in marked : started[m] <= StaleTicks}

\* Active: prune, then the oldest Limit of what is live; the prune may fail.
Snapshot ==
  /\ ~drawn /\ drawn' = TRUE
  /\ marked' \in {marked, Pruned}
  /\ shown' \in {s \in SUBSET {m \in marked : Live(m)} :
       /\ Cardinality(s) <= Limit
       /\ \A m \in {k \in marked : Live(k)} \ s :
            Cardinality(s) = Limit /\ \A k \in s : started[k] >= started[m]}
  /\ UNCHANGED <<attempt, started, stray, missed, timeouts>>

\* A tick; a command still under way is carried out within LandTicks or never.
Tick ==
  /\ \A a \in Attempts : attempt[a] \in {"opens", "runs", "releases"} => started[a] < Longest
  /\ \A m \in stray : started[m] < LandTicks
  /\ started' = [a \in Attempts |->
       IF attempt[a] = "none" \/ started[a] = Old THEN started[a] ELSE started[a] + 1]
  /\ Outdated
  /\ UNCHANGED <<attempt, marked, stray, missed, timeouts>>

\* The process dies with its calls; the set stays.
Crash(r) ==
  /\ \E a \in Attempts : a[1] = r /\ attempt[a] \in {"opens", "runs", "releases"}
  /\ attempt' = [a \in Attempts |-> IF a[1] = r THEN "over" ELSE attempt[a]]
  /\ Outdated
  /\ UNCHANGED <<started, marked, stray, missed, timeouts>>

Next ==
  \/ \E a \in Attempts : Begin(a) \/ Mark(a) \/ EndCall(a) \/ Unmark(a)
  \/ \E m \in Attempts : Land(m)
  \/ \E r \in Requests : Crash(r)
  \/ Snapshot \/ Tick

Spec == Init /\ [][Next]_markerVars

-----------------------------------------------------------------------------

Running(a) == attempt[a] \in {"runs", "releases"}

TypeOK ==
  /\ attempt \in [Attempts -> {"none", "opens", "runs", "releases", "over"}]
  /\ started \in [Attempts -> 0..Old]
  /\ marked \subseteq Attempts /\ stray \subseteq Attempts /\ missed \subseteq Attempts
  /\ drawn \in BOOLEAN /\ shown \subseteq Attempts
  /\ timeouts \in 0..MaxTimeouts

\* A frame draws nothing that began as long ago as the window, whoever left its marker
\* behind: a release that failed, a command that landed after it, a process that died
\* (domain/usage_active.go: the window is "the ceiling on how long a marker from a process
\* that died can still be drawn").
NothingStaleShown ==
  \A m \in shown : attempt[m] # "none" /\ started[m] < StaleTicks

\* And it draws every call that is being routed, if Redis took its marker and the window
\* and the limit admit it: the release of one attempt, or its prune, never takes the
\* marker of another one with it (NewActiveRequest: "two markers keyed by request id would
\* overwrite each other").
RunningIsShown ==
  (drawn /\ Cardinality(shown) < Limit) =>
    \A a \in Attempts :
      Running(a) /\ a \notin missed /\ started[a] < StaleTicks => a \in shown

LiveSound == NothingStaleShown /\ RunningIsShown

\* The strengthening of the proof: a marker, there or still on its way, is of an attempt
\* that began, and the set holds every call that is being routed and may still be drawn.
MarkersBegan == \A m \in marked \union stray : attempt[m] # "none"
RunningIsMarked ==
  \A a \in Attempts : Running(a) /\ a \notin missed /\ started[a] <= StaleTicks => a \in marked
LiveInv == TypeOK /\ LiveSound /\ MarkersBegan /\ RunningIsMarked

\* What the drawing is documented to mean, which a stream longer than the window outlives:
\* its node goes dark while it is being routed.
LongCallStaysLit ==
  (drawn /\ Cardinality(shown) < Limit) =>
    \A a \in Attempts : attempt[a] = "runs" /\ a \notin missed => a \in shown

=============================================================================
