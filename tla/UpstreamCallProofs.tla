------------------------- MODULE UpstreamCallProofs -------------------------
(***************************************************************************)
(* One call to a target, for any calls on any shapes of answer, any clocks *)
(* and any retry policy: a session has one call in flight and never loses  *)
(* its slot, no call outstays what its walk was granted, and none is       *)
(* refused for want of time it never spent.                                *)
(***************************************************************************)
EXTENDS UpstreamCall, SequenceTheorems, TLAPS

\* What a call may become without breaking its clocks and counts.
Sound(c, r) == r \in Call /\ Clocked(shape[c], r) /\ Counted(r)
\* The places a call of the session reaches only with the slot.
Holding == Waiting \cup {"granted", "open"}

LEMMA Clocks ==
  /\ WalkTicks \in Nat \ {0} /\ HeaderTicks \in Nat \ {0} /\ FirstByteTicks \in Nat \ {0}
  /\ IdleTicks \in Nat \ {0} /\ Attempts \in Nat \ {0} /\ MaxPOSTRetries \in Nat
  /\ Waits \subseteq Nat /\ Nobody \notin Calls /\ Serialized \subseteq Calls
  BY UpstreamCallAssumption

\* Every shape is streamed to a client or read for it.
LEMMA ShapeKinds ==
  ASSUME TypeOK, NEW c \in Calls
  PROVE  /\ shape[c].client \in {"stream", "body"} /\ shape[c].piped \in BOOLEAN
         /\ shape[c].wrapped \in BOOLEAN
         /\ ~shape[c].piped => shape[c].client = "body"
<1>1. shape[c] \in AllShapes
  BY UpstreamCallAssumption DEF TypeOK
<1> QED BY <1>1 DEF AllShapes

\* Whoever is served, the grace lies between the walk's clock and the counter's bound.
LEMMA Graces ==
  ASSUME NEW s
  PROVE  /\ Grace(s) \in Nat /\ WalkTicks <= Grace(s) /\ Grace(s) < AgeCap /\ AgeCap \in Nat
         /\ s.client = "body" => Grace(s) = WalkTicks
         /\ s.client # "body" => Grace(s) = WalkTicks + HeaderTicks
                                            + IF s.wrapped THEN FirstByteTicks ELSE 0
  BY Clocks DEF Grace, AgeCap

LEMMA Owes ==
  ASSUME NEW s, NEW r
  PROVE  /\ r.at = "sent" => Owed(s, r) = r.wait + r.cap + (IF s.wrapped THEN r.cap ELSE 0)
         /\ r.at = "peek" => Owed(s, r) = r.wait + r.cap
         /\ r.at = "first" => Owed(s, r) = r.wait
         /\ r.at \notin {"sent", "peek", "first"} => Owed(s, r) = 0
  BY DEF Owed

---------------------------------------------------------------------------
(* The queue                                                               *)

LEMMA Popped ==
  ASSUME NEW S, NEW q \in Seq(S), q # <<>>
  PROVE  /\ 1 \in DOMAIN q /\ Head(q) = q[1] /\ Head(q) \in S
         /\ Tail(q) \in Seq(S)
         /\ DOMAIN Tail(q) = 1..(Len(q) - 1)
         /\ \A i \in DOMAIN Tail(q) : i + 1 \in DOMAIN q /\ Tail(q)[i] = q[i + 1]
  OBVIOUS

LEMMA Pushed ==
  ASSUME NEW S, NEW q \in Seq(S), NEW e \in S
  PROVE  /\ Append(q, e) \in Seq(S) /\ Append(q, e) # <<>>
         /\ DOMAIN Append(q, e) = 1..(Len(q) + 1)
         /\ \A i \in DOMAIN q : i \in DOMAIN Append(q, e) /\ Append(q, e)[i] = q[i]
         /\ Append(q, e)[Len(q) + 1] = e
  OBVIOUS

LEMMA Removed ==
  ASSUME NEW S, NEW q \in Seq(S), NEW k \in DOMAIN q
  PROVE  /\ RemoveAt(q, k) \in Seq(S)
         /\ DOMAIN RemoveAt(q, k) = 1..(Len(q) - 1)
         /\ \A i \in 1..(Len(q) - 1) :
              RemoveAt(q, k)[i] = IF i < k THEN q[i] ELSE q[i + 1]
<1> DEFINE a == SubSeq(q, 1, k - 1)
           b == SubSeq(q, k + 1, Len(q))
<1>1. k \in 1..Len(q) /\ Len(q) \in Nat
  OBVIOUS
<1>2. a \in Seq(S) /\ Len(a) = k - 1 /\ \A i \in 1..(k - 1) : a[i] = q[i]
  BY <1>1, SubSeqProperties
<1>3. b \in Seq(S) /\ Len(b) = Len(q) - k /\ \A i \in 1..(Len(q) - k) : b[i] = q[k + i]
  BY <1>1, SubSeqProperties
<1>4. RemoveAt(q, k) = a \o b
  BY DEF RemoveAt
<1> HIDE DEF a, b
<1>5. /\ a \o b \in Seq(S) /\ Len(a \o b) = Len(q) - 1
      /\ \A i \in 1..(Len(q) - 1) : (a \o b)[i] = IF i <= Len(a) THEN a[i] ELSE b[i - Len(a)]
  BY <1>1, <1>2, <1>3, ConcatProperties
<1>6. DOMAIN (a \o b) = 1..(Len(q) - 1)
  BY <1>5, LenProperties
<1>7. ASSUME NEW i \in 1..(Len(q) - 1)
      PROVE  (a \o b)[i] = IF i < k THEN q[i] ELSE q[i + 1]
  <2>1. CASE i < k
    BY <1>1, <1>2, <1>5, <2>1
  <2>2. CASE ~(i < k)
    <3>1. i - (k - 1) \in 1..(Len(q) - k) /\ k + (i - (k - 1)) = i + 1
      BY <1>1, <2>2
    <3>2. (a \o b)[i] = b[i - (k - 1)]
      BY <1>1, <1>2, <1>5, <2>2
    <3> QED BY <1>1, <1>3, <2>2, <3>1, <3>2
  <2> QED BY <2>1, <2>2
<1> QED BY <1>4, <1>5, <1>6, <1>7
---------------------------------------------------------------------------
(* The slot                                                                *)

\* A call that changes nothing of the slot leaves the invariant alone.
LEMMA BecomeKeeps ==
  ASSUME CallInv, NEW c \in Calls, NEW r, Sound(c, r), Become(c, r), Stay,
         r.at = call[c].at \/ {r.at, call[c].at} \subseteq Holding
  PROVE  CallInv'
<1>1. /\ call \in [Calls -> Call] /\ shape' = shape /\ gate' = gate /\ queue' = queue
      /\ call' = [call EXCEPT ![c] = r] /\ r \in Call
  BY DEF CallInv, TypeOK, Become, Stay, Sound
<1>2. TypeOK'
  BY <1>1 DEF CallInv, TypeOK
<1>3. \A d \in Calls : call'[d] = IF d = c THEN r ELSE call[d]
  BY <1>1
<1>4. OneInFlight'
  <2>1. \A d \in Calls : \/ call'[d].at = call[d].at
                         \/ {call'[d].at, call[d].at} \subseteq Holding
    BY <1>3
  <2>2. /\ \A d \in Calls : call'[d].at \in Holding <=> call[d].at \in Holding
        /\ \A d \in Calls : call'[d].at = "queued" <=> call[d].at = "queued"
    BY <2>1 DEF Holding, Waiting
  <2>3. \A d \in Serialized : call'[d].at \in Holding <=> gate' = d
    BY <1>1, <2>2, Clocks DEF CallInv, OneInFlight, Holding
  <2>4. \A d \in Serialized : InFlight(d)' => gate' = d
    BY <2>3 DEF InFlight, Holding, Waiting
  <2> QED BY <1>1, <2>2, <2>3, <2>4 DEF CallInv, OneInFlight, Holding
<1>5. Laned'
  BY <1>1 DEF CallInv, Laned
<1>6. \A d \in Calls : Clocked(shape'[d], call'[d]) /\ Counted(call'[d])
  BY <1>1, <1>3 DEF CallInv, Sound
<1> QED BY <1>2, <1>4, <1>5, <1>6 DEF CallInv, Clocked, Counted

\* What the end of a call keeps of it is sound.
LEMMA EndedSound ==
  ASSUME NEW c \in Calls, NEW r \in Call, r.begun <= 1 + MaxPOSTRetries
  PROVE  Sound(c, Ended(r)) /\ Ended(r).at = "done"
<1>1. New \in Call /\ r.begun \in Nat
  BY Clocks, Graces DEF New, Call, Places, AgeCap
<1>2. Ended(r) \in Call
  BY <1>1 DEF Ended, Call, Places
<1>3. /\ Ended(r).at = "done" /\ Ended(r).left = WalkTicks /\ Ended(r).age = 0
      /\ Ended(r).begun = r.begun
  BY <1>1 DEF Ended, New, Call
<1>4. Clocked(shape[c], Ended(r))
  BY <1>3, Clocks, Graces, Owes DEF Clocked
<1>5. Counted(Ended(r))
  BY <1>3 DEF Counted
<1> QED BY <1>2, <1>3, <1>4, <1>5 DEF Sound

\* The call that holds the slot stops needing it: the next in the queue has it.
LEMMA ReleasedKeeps ==
  ASSUME CallInv, NEW c \in Calls, NEW r, Sound(c, r), r.at = "done", call[c].at \in Holding,
         gate = c, Released([call EXCEPT ![c] = r]), UNCHANGED shape
  PROVE  CallInv'
<1> DEFINE calls == [call EXCEPT ![c] = r]
           next == Head(queue)
<1>1. /\ call \in [Calls -> Call] /\ queue \in Seq(Calls) /\ r \in Call
      /\ calls \in [Calls -> Call] /\ c \in Serialized
      /\ \A d \in Calls : calls[d] = IF d = c THEN r ELSE call[d]
  BY Clocks DEF CallInv, TypeOK, Sound, Laned
<1>2. \A d \in Serialized : d # c => call[d].at \notin Holding
  BY DEF CallInv, OneInFlight, Holding
<1>3. CASE queue = <<>>
  <2>1. gate' = Nobody /\ call' = calls /\ queue' = queue
    BY <1>3 DEF Released
  <2>2. TypeOK'
    BY <1>1, <2>1 DEF CallInv, TypeOK
  <2>3. \A d \in Serialized : call'[d].at \notin Holding
    BY <1>1, <1>2, <2>1, Clocks DEF Holding, Waiting
  <2>4. \A d \in Calls : call'[d].at = "queued" <=> call[d].at = "queued"
    BY <1>1, <2>1 DEF Holding, Waiting
  <2>5. OneInFlight'
    BY <1>3, <2>1, <2>3, <2>4, Clocks DEF CallInv, OneInFlight, Holding, InFlight, Waiting
  <2>6. Laned'
    BY <2>1 DEF CallInv, Laned
  <2>7. \A d \in Calls : Clocked(shape'[d], call'[d]) /\ Counted(call'[d])
    BY <1>1, <2>1 DEF CallInv, Sound
  <2> QED BY <2>2, <2>5, <2>6, <2>7 DEF CallInv, Clocked, Counted
<1>4. CASE queue # <<>>
  <2>1. gate' = next /\ queue' = Tail(queue) /\ call' = [calls EXCEPT ![next].at = "granted"]
    BY <1>4 DEF Released
  <2>2. /\ 1 \in DOMAIN queue /\ next = queue[1] /\ next \in Calls
        /\ queue' \in Seq(Calls) /\ DOMAIN queue' = 1..(Len(queue) - 1)
        /\ \A i \in DOMAIN queue' : i + 1 \in DOMAIN queue /\ queue'[i] = queue[i + 1]
    BY <1>1, <1>4, <2>1, Popped
  <2>3. call[next].at = "queued" /\ next \in Serialized /\ next # c
    BY <2>2 DEF CallInv, OneInFlight, Laned, Holding, Waiting
  <2>4. /\ \A d \in Calls : d # c /\ d # next => call'[d] = call[d]
        /\ call'[c] = r /\ call'[next] = [call[next] EXCEPT !.at = "granted"]
        /\ call'[next].at = "granted" /\ call'[next] \in Call
    <3>1. [call[next] EXCEPT !.at = "granted"] \in Call
      BY <1>1, <2>2 DEF Call, Places
    <3>2. calls[next] = call[next] /\ calls[c] = r
      BY <1>1, <2>2, <2>3
    <3> QED BY <1>1, <2>1, <2>2, <2>3, <3>1, <3>2 DEF Call
  <2>5. TypeOK'
    BY <1>1, <2>1, <2>2, <2>4 DEF CallInv, TypeOK
  <2>6. \A d \in Serialized : call'[d].at \in Holding <=> gate' = d
    BY <1>2, <2>1, <2>3, <2>4, Clocks DEF Holding, Waiting
  <2>7. \A i, j \in DOMAIN queue' : queue'[i] = queue'[j] => i = j
    BY <1>1, <2>2 DEF CallInv, OneInFlight
  <2>8. \A d \in Calls : call'[d].at = "queued" <=> \E i \in DOMAIN queue' : queue'[i] = d
    <3> TAKE d \in Calls
    <3>1. call'[d].at = "queued" <=> call[d].at = "queued" /\ d # next
      BY <2>3, <2>4 DEF Holding, Waiting
    <3>2. (\E i \in DOMAIN queue : queue[i] = d) /\ d # next
            <=> \E i \in DOMAIN queue' : queue'[i] = d
      <4>1. ASSUME NEW i \in DOMAIN queue, queue[i] = d, d # next
            PROVE  i - 1 \in DOMAIN queue' /\ queue'[i - 1] = d
        BY <1>1, <2>2, <4>1
      <4>2. ASSUME NEW i \in DOMAIN queue', queue'[i] = d
            PROVE  i + 1 \in DOMAIN queue /\ queue[i + 1] = d /\ d # next
        <5>1. i + 1 \in DOMAIN queue /\ queue[i + 1] = d /\ i + 1 # 1
          BY <2>2, <4>2
        <5> QED BY <2>2, <5>1 DEF CallInv, OneInFlight
      <4> QED BY <4>1, <4>2
    <3> QED BY <3>1, <3>2 DEF CallInv, OneInFlight
  <2>9. OneInFlight'
    <3>1. gate' # Nobody
      BY <2>1, <2>2, Clocks
    <3>2. \A d \in Serialized : InFlight(d)' => gate' = d
      BY <2>6 DEF Holding, Waiting, InFlight
    <3> QED BY <2>6, <2>7, <2>8, <3>1, <3>2 DEF OneInFlight, Holding
  <2>10. Laned'
    BY <2>1, <2>2, <2>3 DEF CallInv, Laned
  <2>11. \A d \in Calls : Clocked(shape'[d], call'[d]) /\ Counted(call'[d])
    <3> DEFINE g == [call[next] EXCEPT !.at = "granted"]
    <3>1. /\ g.at = "granted" /\ g.left = call[next].left /\ g.age = call[next].age
          /\ g.begun = call[next].begun /\ g.retries = call[next].retries
      BY <1>1, <2>2 DEF Call
    <3>2. call'[next] = g
      BY <2>4
    <3> HIDE DEF g
    <3>3. Clocked(shape[next], call[next]) /\ Counted(call[next])
      BY <2>2 DEF CallInv
    <3>4. Clocked(shape[next], g)
      BY <3>1, <3>3, <2>3, Owes DEF Clocked
    <3>5. Counted(g)
      BY <3>1, <3>3, <2>3 DEF Counted
    <3> QED BY <2>4, <3>2, <3>4, <3>5 DEF CallInv, Sound
  <2> QED BY <2>5, <2>9, <2>10, <2>11 DEF CallInv, Clocked, Counted
<1> QED BY <1>3, <1>4

\* A call ends, with the slot or without.
LEMMA EndKeeps ==
  ASSUME CallInv, NEW c \in Calls, NEW r \in Call, r.begun <= 1 + MaxPOSTRetries,
         call[c].at \in Holding, End(c, r)
  PROVE  CallInv'
<1>1. Sound(c, Ended(r)) /\ Ended(r).at = "done"
  BY EndedSound
<1>2. CASE gate = c
  BY <1>1, <1>2, ReleasedKeeps DEF End
<1>3. CASE gate # c
  <2>1. c \notin Serialized
    BY <1>3 DEF CallInv, OneInFlight, Holding
  <2>2. /\ call \in [Calls -> Call] /\ call' = [call EXCEPT ![c] = Ended(r)]
        /\ UNCHANGED <<shape, gate, queue>>
    BY <1>3 DEF CallInv, TypeOK, End, Become
  <2>3. \A d \in Calls : call'[d] = IF d = c THEN Ended(r) ELSE call[d]
    BY <2>2
  <2>4. TypeOK'
    BY <1>1, <2>2 DEF CallInv, TypeOK, Sound
  <2>5. \A d \in Calls : call'[d].at = "queued" <=> call[d].at = "queued"
    BY <1>1, <2>3 DEF Holding, Waiting
  <2>6. \A d \in Serialized : call'[d].at = call[d].at
    BY <2>1, <2>3, Clocks
  <2>7. OneInFlight'
    BY <2>2, <2>5, <2>6 DEF CallInv, OneInFlight, InFlight
  <2>8. Laned'
    BY <2>2 DEF CallInv, Laned
  <2>9. \A d \in Calls : Clocked(shape'[d], call'[d]) /\ Counted(call'[d])
    BY <1>1, <2>2, <2>3 DEF CallInv, Sound
  <2> QED BY <2>4, <2>7, <2>8, <2>9 DEF CallInv, Clocked, Counted
<1> QED BY <1>2, <1>3

\* A failure is slept off within the clock and the budget, or answered. Begun already,
\* it is not one that may be repeated freely.
LEMMA DecideKeeps ==
  ASSUME CallInv, NEW c \in Calls, NEW worth \in BOOLEAN, NEW replayable \in BOOLEAN, NEW r,
         call[c].at \in Waiting,
         r = call[c] \/ (r = Begun(call[c]) /\ ~replayable),
         Decide(c, r, worth, replayable)
  PROVE  CallInv'
<1> DEFINE s == shape[c]
<1>1. call[c] \in Call /\ Clocked(s, call[c]) /\ Counted(call[c])
  BY DEF CallInv, TypeOK
<1>2. call[c].at \notin {"open", "done"} /\ {call[c].at, "backoff"} \subseteq Holding
  BY DEF Waiting, Holding
<1>3. /\ r \in Call /\ r.left = call[c].left /\ r.age = call[c].age /\ r.at = call[c].at
      /\ r.retries = call[c].retries /\ r.left \in 0..WalkTicks /\ r.age \in Nat
      /\ r.retries \in 0..Attempts /\ r.begun \in Nat
      /\ r.begun = call[c].begun \/ (r.begun = call[c].begun + 1 /\ ~replayable)
  <2>1. CASE r = call[c]
    BY <1>1, <2>1 DEF Call
  <2>2. CASE r = Begun(call[c]) /\ ~replayable
    BY <1>1, <2>2 DEF Call, Begun
  <2> QED BY <2>1, <2>2
<1>4. call[c].begun \in Nat /\ call[c].begun <= call[c].retries /\ call[c].begun <= MaxPOSTRetries
  BY <1>1, <1>2 DEF Counted, Call
<1>5. CASE End(c, r)
  <2>1. r.begun <= 1 + MaxPOSTRetries
    BY <1>3, <1>4, Clocks
  <2> QED BY <1>2, <1>3, <1>5, <2>1, EndKeeps
<1>6. ASSUME r.retries < RetryBudget(replayable), NEW w \in Waits, Fits(w, r.left),
             Become(c, [r EXCEPT !.at = "backoff", !.wait = w, !.cap = 0,
                                 !.retries = @ + 1, !.fired = FALSE]), Stay
      PROVE  CallInv'
  <2> DEFINE b == [r EXCEPT !.at = "backoff", !.wait = w, !.cap = 0,
                            !.retries = @ + 1, !.fired = FALSE]
  <2>1. r.retries < Attempts /\ (~replayable => r.retries < MaxPOSTRetries)
    BY <1>3, <1>6, Clocks DEF RetryBudget, Lesser
  <2>2. w \in Nat /\ (w = 0 \/ w < r.left)
    BY <1>6, Clocks DEF Fits
  <2>3. b \in Call
    <3>1. r.retries + 1 \in 0..Attempts /\ "backoff" \in Places
      BY <1>3, <2>1, Clocks DEF Places
    <3> QED BY <1>3, <2>2, <3>1 DEF Call
  <2>4. /\ b.at = "backoff" /\ b.wait = w /\ b.retries = r.retries + 1
        /\ b.left = r.left /\ b.age = r.age /\ b.begun = r.begun
    BY <1>3 DEF Call
  <2>5. Become(c, b) /\ Stay
    BY <1>6
  <2> HIDE DEF b
  <2>6. Clocked(s, b)
    BY <1>1, <1>2, <1>3, <2>2, <2>4, Clocks DEF Clocked
  <2>7. Counted(b)
    BY <1>3, <1>4, <2>1, <2>4, Clocks DEF Counted
  <2> QED BY <1>2, <2>3, <2>4, <2>5, <2>6, <2>7, BecomeKeeps DEF Sound
<1> QED BY <1>5, <1>6 DEF Decide

---------------------------------------------------------------------------
(* The steps of a call                                                     *)

LEMMA InitCall == ASSUME Init PROVE CallInv
<1>1. New \in Call
  BY Clocks DEF New, Call, Places, AgeCap
<1>2. /\ New.at = "new" /\ New.left = WalkTicks /\ New.age = 0 /\ New.begun = 0
      /\ New.retries = 0
  BY DEF New
<1>3. \A c \in Calls : call[c] = New
  BY DEF Init
<1>4. TypeOK
  BY <1>1 DEF Init, TypeOK
<1>5. OneInFlight
  BY <1>2, <1>3, Clocks DEF Init, OneInFlight, InFlight, Waiting
<1>6. Laned
  BY DEF Init, Laned
<1>7. ASSUME NEW c \in Calls PROVE Clocked(shape[c], New) /\ Counted(New)
  BY <1>2, Clocks, Graces, Owes DEF Clocked, Counted
<1> QED BY <1>3, <1>4, <1>5, <1>6, <1>7 DEF CallInv

LEMMA ArriveKeeps == ASSUME CallInv, NEW c \in Calls, Arrive(c) PROVE CallInv'
<1> DEFINE r(place) == [call[c] EXCEPT !.at = place]
<1>1. /\ call \in [Calls -> Call] /\ call[c] \in Call /\ queue \in Seq(Calls)
      /\ Clocked(shape[c], call[c]) /\ Counted(call[c]) /\ call[c].at = "new"
  BY DEF CallInv, TypeOK, Arrive
<1>2. ASSUME NEW place \in {"begin", "granted", "queued"}
      PROVE  Sound(c, r(place)) /\ r(place).at = place
  <2>1. /\ r(place) \in Call /\ r(place).at = place /\ r(place).left = call[c].left
        /\ r(place).age = call[c].age /\ r(place).begun = call[c].begun
        /\ r(place).retries = call[c].retries
    BY <1>1 DEF Call, Places
  <2> HIDE DEF r
  <2>2. Clocked(shape[c], r(place))
    BY <1>1, <2>1, Owes DEF Clocked
  <2>3. Counted(r(place))
    BY <1>1, <2>1 DEF Counted
  <2> QED BY <2>1, <2>2, <2>3 DEF Sound
<1>3. ASSUME NEW place \in {"begin", "granted", "queued"}, Become(c, r(place))
      PROVE  /\ \A d \in Calls : d # c => call'[d] = call[d]
             /\ call'[c] = r(place) /\ call'[c].at = place
             /\ call' \in [Calls -> Call]
             /\ shape' = shape => \A d \in Calls : Clocked(shape'[d], call'[d]) /\ Counted(call'[d])
  <2>1. call' = [call EXCEPT ![c] = r(place)]
    BY <1>3 DEF Become
  <2>2. r(place) \in Call /\ r(place).at = place
    BY <1>2 DEF Sound
  <2>3. call' \in [Calls -> Call] /\ \A d \in Calls : call'[d] = IF d = c THEN r(place) ELSE call[d]
    <3> HIDE DEF r
    <3> QED BY <1>1, <2>1, <2>2
  <2>4. shape' = shape => \A d \in Calls : Clocked(shape'[d], call'[d]) /\ Counted(call'[d])
    BY <1>2, <2>3 DEF CallInv, Sound
  <2> QED BY <2>2, <2>3, <2>4
<1> HIDE DEF r
<1>4. /\ c \in Serialized => gate # c
      /\ \A i \in DOMAIN queue : queue[i] # c
  BY <1>1 DEF CallInv, OneInFlight, Waiting
<1>5. CASE c \notin Serialized
  <2>1. Become(c, r("begin")) /\ UNCHANGED <<shape, gate, queue>>
    BY <1>5 DEF Arrive, r
  <2>2. TypeOK'
    BY <1>3, <2>1 DEF CallInv, TypeOK
  <2>3. \A d \in Calls : call'[d].at = "queued" <=> call[d].at = "queued"
    BY <1>1, <1>3, <2>1
  <2>4. \A d \in Serialized : call'[d].at = call[d].at
    BY <1>3, <1>5, <2>1, Clocks
  <2>5. OneInFlight'
    BY <2>1, <2>3, <2>4 DEF CallInv, OneInFlight, InFlight
  <2>6. Laned'
    BY <2>1 DEF CallInv, Laned
  <2> QED BY <1>3, <2>1, <2>2, <2>5, <2>6 DEF CallInv, Clocked, Counted
<1>6. CASE c \in Serialized /\ gate = Nobody
  <2>1. gate' = c /\ Become(c, r("granted")) /\ UNCHANGED <<shape, queue>>
    BY <1>6 DEF Arrive, r
  <2>2. TypeOK'
    BY <1>3, <2>1 DEF CallInv, TypeOK
  <2>3. \A d \in Calls : call'[d].at = "queued" <=> call[d].at = "queued"
    BY <1>1, <1>3, <2>1
  <2>4. \A d \in Serialized : call'[d].at \in Holding <=> gate' = d
    BY <1>3, <1>6, <2>1, Clocks DEF CallInv, OneInFlight, Holding
  <2>5. \A d \in Serialized : InFlight(d)' => gate' = d
    BY <2>4 DEF InFlight, Holding, Waiting
  <2>6. OneInFlight'
    BY <1>6, <2>1, <2>3, <2>4, <2>5, Clocks DEF CallInv, OneInFlight, Holding
  <2>7. Laned'
    BY <1>6, <2>1 DEF CallInv, Laned
  <2> QED BY <1>3, <2>1, <2>2, <2>6, <2>7 DEF CallInv, Clocked, Counted
<1>7. CASE c \in Serialized /\ gate # Nobody
  <2>1. queue' = Append(queue, c) /\ Become(c, r("queued")) /\ UNCHANGED <<shape, gate>>
    BY <1>7 DEF Arrive, r
  <2>2. /\ queue' \in Seq(Calls) /\ DOMAIN queue' = 1..(Len(queue) + 1)
        /\ \A i \in DOMAIN queue : i \in DOMAIN queue' /\ queue'[i] = queue[i]
        /\ queue'[Len(queue) + 1] = c /\ DOMAIN queue = 1..Len(queue) /\ Len(queue) \in Nat
    BY <1>1, <2>1, Pushed
  <2>3. TypeOK'
    BY <1>3, <2>1, <2>2 DEF CallInv, TypeOK
  <2>4. \A d \in Serialized : call'[d].at \in Holding <=> gate' = d
    BY <1>1, <1>3, <1>4, <2>1, Clocks DEF CallInv, OneInFlight, Holding, Waiting
  <2>5. \A d \in Serialized : InFlight(d)' => gate' = d
    BY <2>4 DEF InFlight, Holding, Waiting
  <2>6. \A i \in DOMAIN queue' : i \in DOMAIN queue \/ i = Len(queue) + 1
    BY <2>2
  <2>7. \A i, j \in DOMAIN queue' : queue'[i] = queue'[j] => i = j
    BY <1>4, <2>2, <2>6 DEF CallInv, OneInFlight
  <2>8. ASSUME NEW d \in Calls
        PROVE  call'[d].at = "queued" <=> \E i \in DOMAIN queue' : queue'[i] = d
    <3>1. CASE d = c
      <4>1. Len(queue) + 1 \in DOMAIN queue'
        BY <2>2
      <4> QED BY <1>3, <2>1, <2>2, <3>1, <4>1
    <3>2. CASE d # c
      <4>1. (\E i \in DOMAIN queue : queue[i] = d) <=> \E i \in DOMAIN queue' : queue'[i] = d
        BY <2>2, <2>6, <3>2
      <4> QED BY <1>3, <2>1, <3>2, <4>1 DEF CallInv, OneInFlight
    <3> QED BY <3>1, <3>2
  <2>9. OneInFlight'
    BY <1>7, <2>1, <2>4, <2>5, <2>7, <2>8 DEF OneInFlight, Holding
  <2>10. Laned'
    BY <1>7, <2>1, <2>2, <2>6 DEF CallInv, Laned
  <2> QED BY <1>3, <2>1, <2>3, <2>9, <2>10 DEF CallInv, Clocked, Counted
<1> QED BY <1>5, <1>6, <1>7

LEMMA GiveUpKeeps == ASSUME CallInv, NEW c \in Calls, GiveUpWaiting(c) PROVE CallInv'
<1>1. /\ call \in [Calls -> Call] /\ call[c] \in Call /\ queue \in Seq(Calls)
      /\ Counted(call[c]) /\ call[c].at = "queued"
  BY DEF CallInv, TypeOK, GiveUpWaiting
<1>2. PICK k \in DOMAIN queue : queue[k] = c /\ queue' = RemoveAt(queue, k)
  BY DEF GiveUpWaiting
<1>3. Become(c, Ended(call[c])) /\ UNCHANGED <<shape, gate>>
  BY DEF GiveUpWaiting
<1>4. Sound(c, Ended(call[c])) /\ Ended(call[c]).at = "done"
  BY <1>1, EndedSound DEF Counted
<1>5. \A d \in Calls : call'[d] = IF d = c THEN Ended(call[c]) ELSE call[d]
  BY <1>1, <1>3 DEF Become
<1>6. /\ queue' \in Seq(Calls) /\ DOMAIN queue' = 1..(Len(queue) - 1)
      /\ \A i \in DOMAIN queue' : queue'[i] = IF i < k THEN queue[i] ELSE queue[i + 1]
      /\ DOMAIN queue = 1..Len(queue) /\ Len(queue) \in Nat /\ k \in 1..Len(queue)
  <2>1. /\ RemoveAt(queue, k) \in Seq(Calls) /\ DOMAIN RemoveAt(queue, k) = 1..(Len(queue) - 1)
        /\ \A i \in 1..(Len(queue) - 1) :
             RemoveAt(queue, k)[i] = IF i < k THEN queue[i] ELSE queue[i + 1]
    BY <1>1, Removed
  <2>2. DOMAIN queue = 1..Len(queue) /\ Len(queue) \in Nat
    BY <1>1
  <2> QED BY <1>2, <2>1, <2>2
<1>7. \A i, j \in DOMAIN queue : queue[i] = queue[j] => i = j
  BY DEF CallInv, OneInFlight
<1>8. \A i \in DOMAIN queue' : \E j \in DOMAIN queue : queue'[i] = queue[j] /\ j # k
  <2> TAKE i \in DOMAIN queue'
  <2>1. CASE i < k
    BY <1>6, <2>1
  <2>2. CASE ~(i < k)
    <3>1. i + 1 \in DOMAIN queue /\ i + 1 # k
      BY <1>6, <2>2
    <3> QED BY <1>6, <2>2, <3>1
  <2> QED BY <2>1, <2>2
<1>9. ASSUME NEW j \in DOMAIN queue, j # k
      PROVE  \E i \in DOMAIN queue' : queue'[i] = queue[j]
  <2>1. CASE j < k
    <3>1. j \in DOMAIN queue'
      BY <1>6, <2>1
    <3> QED BY <1>6, <2>1, <3>1
  <2>2. CASE ~(j < k)
    <3>1. j - 1 \in DOMAIN queue' /\ ~(j - 1 < k) /\ (j - 1) + 1 = j
      BY <1>6, <1>9, <2>2
    <3> QED BY <1>6, <3>1
  <2> QED BY <2>1, <2>2
<1>10. TypeOK'
  BY <1>1, <1>3, <1>4, <1>6 DEF CallInv, TypeOK, Become, Sound
<1>11. OneInFlight'
  <2>1. \A d \in Serialized : call'[d].at \in Holding <=> gate' = d
    BY <1>1, <1>3, <1>4, <1>5, Clocks DEF CallInv, OneInFlight, Holding, Waiting
  <2>2. \A d \in Serialized : InFlight(d)' => gate' = d
    BY <2>1 DEF InFlight, Holding, Waiting
  <2>3. ASSUME NEW d \in Calls
        PROVE  call'[d].at = "queued" <=> \E i \in DOMAIN queue' : queue'[i] = d
    <3>1. CASE d = c
      BY <1>2, <1>4, <1>5, <1>7, <1>8, <3>1
    <3>2. CASE d # c
      <4>1. (\E i \in DOMAIN queue : queue[i] = d) <=> \E i \in DOMAIN queue' : queue'[i] = d
        BY <1>2, <1>8, <1>9, <3>2
      <4> QED BY <1>5, <3>2, <4>1 DEF CallInv, OneInFlight
    <3> QED BY <3>1, <3>2
  <2>4. ASSUME NEW i \in DOMAIN queue', NEW j \in DOMAIN queue', queue'[i] = queue'[j]
        PROVE  i = j
    <3> DEFINE was(n) == IF n < k THEN n ELSE n + 1
    <3>1. was(i) \in DOMAIN queue /\ was(j) \in DOMAIN queue
      BY <1>6
    <3>2. queue[was(i)] = queue[was(j)]
      BY <1>6, <2>4
    <3>3. was(i) = was(j)
      BY <1>7, <3>1, <3>2
    <3> QED BY <1>6, <3>3
  <2>5. gate' # Nobody
    BY <1>2, <1>3 DEF CallInv, OneInFlight
  <2> QED BY <2>1, <2>2, <2>3, <2>4, <2>5 DEF OneInFlight, Holding
<1>12. Laned'
  BY <1>3, <1>8 DEF CallInv, Laned
<1>13. \A d \in Calls : Clocked(shape'[d], call'[d]) /\ Counted(call'[d])
  BY <1>3, <1>4, <1>5 DEF CallInv, Sound
<1> QED BY <1>10, <1>11, <1>12, <1>13 DEF CallInv, Clocked, Counted

\* What a step of a call in hand starts from.
LEMMA AtHand ==
  ASSUME CallInv, NEW c \in Calls
  PROVE  /\ call \in [Calls -> Call] /\ call[c] \in Call
         /\ Clocked(shape[c], call[c]) /\ Counted(call[c])
         /\ call[c].left \in 0..WalkTicks /\ call[c].age \in 0..AgeCap /\ call[c].age \in Nat
         /\ call[c].begun \in Nat
         /\ call[c].wait \in Nat /\ call[c].cap \in Nat /\ call[c].retries \in 0..Attempts
         /\ call[c].begun <= 1 + MaxPOSTRetries
<1>1. /\ call \in [Calls -> Call] /\ call[c] \in Call
      /\ Clocked(shape[c], call[c]) /\ Counted(call[c])
  BY DEF CallInv, TypeOK
<1>2. /\ call[c].left \in 0..WalkTicks /\ call[c].age \in 0..AgeCap /\ call[c].begun \in Nat
      /\ call[c].wait \in Nat /\ call[c].cap \in Nat /\ call[c].retries \in 0..Attempts
  BY <1>1 DEF Call
<1>3. call[c].age \in Nat
  BY <1>2, Graces
<1> QED BY <1>1, <1>2, <1>3 DEF Counted

\* Marking a call changes neither its place nor its clocks.
LEMMA MarkKeeps ==
  ASSUME CallInv, NEW c \in Calls, NEW r \in Call, Become(c, r), Stay,
         r.at = call[c].at, r.wait = call[c].wait, r.left = call[c].left, r.cap = call[c].cap,
         r.age = call[c].age, r.begun = call[c].begun, r.retries = call[c].retries
  PROVE  CallInv'
<1>1. Clocked(shape[c], r)
  BY AtHand, Owes DEF Clocked
<1>2. Counted(r)
  BY AtHand DEF Counted
<1> QED BY <1>1, <1>2, BecomeKeeps DEF Sound

LEMMA MarksKeep ==
  ASSUME CallInv, NEW c \in Calls, FireFirst(c) \/ FireIdle(c) \/ Written(c) \/ HangUp(c)
  PROVE  CallInv'
<1>1. CASE FireFirst(c) \/ FireIdle(c)
  <2> DEFINE r == [call[c] EXCEPT !.fired = TRUE]
  <2>1. /\ r \in Call /\ r.at = call[c].at /\ r.wait = call[c].wait /\ r.left = call[c].left
        /\ r.cap = call[c].cap /\ r.age = call[c].age /\ r.begun = call[c].begun
        /\ r.retries = call[c].retries
    BY AtHand DEF Call
  <2>2. Become(c, r) /\ Stay
    BY <1>1 DEF FireFirst, FireIdle
  <2> HIDE DEF r
  <2> QED BY <2>1, <2>2, MarkKeeps
<1>2. CASE Written(c)
  <2> DEFINE r == [call[c] EXCEPT !.busy = FALSE]
  <2>1. /\ r \in Call /\ r.at = call[c].at /\ r.wait = call[c].wait /\ r.left = call[c].left
        /\ r.cap = call[c].cap /\ r.age = call[c].age /\ r.begun = call[c].begun
        /\ r.retries = call[c].retries
    BY AtHand DEF Call
  <2>2. Become(c, r) /\ Stay
    BY <1>2 DEF Written
  <2> HIDE DEF r
  <2> QED BY <2>1, <2>2, MarkKeeps
<1>3. CASE HangUp(c)
  <2> DEFINE r == [call[c] EXCEPT !.gone = TRUE]
  <2>1. /\ r \in Call /\ r.at = call[c].at /\ r.wait = call[c].wait /\ r.left = call[c].left
        /\ r.cap = call[c].cap /\ r.age = call[c].age /\ r.begun = call[c].begun
        /\ r.retries = call[c].retries
    BY AtHand DEF Call
  <2>2. Become(c, r) /\ Stay
    BY <1>3 DEF HangUp
  <2> HIDE DEF r
  <2> QED BY <2>1, <2>2, MarkKeeps
<1> QED BY <1>1, <1>2, <1>3

\* A call that has its slot begins; one that slept begins again; a refusal's body is read.
LEMMA MovesKeep ==
  ASSUME CallInv, NEW c \in Calls, NEW r \in Call, Become(c, r), Stay,
         call[c].at \in {"granted", "backoff", "sent"}, r.at \in {"begin", "failing"},
         r.left = call[c].left, r.age = call[c].age, r.begun = call[c].begun,
         r.retries = call[c].retries
  PROVE  CallInv'
<1>1. Clocked(shape[c], r)
  BY AtHand DEF Clocked
<1>2. Counted(r)
  BY AtHand DEF Counted
<1>3. {r.at, call[c].at} \subseteq Holding
  BY DEF Holding, Waiting
<1> QED BY <1>1, <1>2, <1>3, BecomeKeeps DEF Sound

LEMMA GrantedKeeps == ASSUME CallInv, NEW c \in Calls, Granted(c) PROVE CallInv'
<1>1. CASE call[c].gone
  <2>1. End(c, call[c]) /\ call[c].at \in Holding
    BY <1>1 DEF Granted, Holding
  <2> QED BY <2>1, AtHand, EndKeeps
<1>2. CASE ~call[c].gone
  <2> DEFINE r == [call[c] EXCEPT !.at = "begin"]
  <2>1. /\ r \in Call /\ r.at = "begin" /\ r.left = call[c].left /\ r.age = call[c].age
        /\ r.begun = call[c].begun /\ r.retries = call[c].retries
    BY AtHand DEF Call, Places
  <2>2. Become(c, r) /\ Stay /\ call[c].at = "granted"
    BY <1>2 DEF Granted
  <2> HIDE DEF r
  <2> QED BY <2>1, <2>2, MovesKeep
<1> QED BY <1>1, <1>2

\* An attempt begins on a clock that is not spent, and waits for its first byte no
\* longer than that.
LEMMA AttemptKeeps == ASSUME CallInv, NEW c \in Calls, Attempt(c) PROVE CallInv'
<1>1. CASE call[c].left = 0
  <2>1. End(c, call[c]) /\ call[c].at \in Holding
    BY <1>1 DEF Attempt, Holding, Waiting
  <2> QED BY <2>1, AtHand, EndKeeps
<1>2. CASE call[c].left # 0
  <2> DEFINE cap == FirstByteCap(call[c])
             r == [call[c] EXCEPT !.at = "sent", !.wait = HeaderTicks, !.cap = cap]
  <2>1. cap \in Nat /\ cap <= call[c].left /\ cap <= FirstByteTicks
    BY AtHand, Clocks DEF FirstByteCap, Lesser
  <2>2. Become(c, r) /\ Stay /\ call[c].at = "begin"
    BY <1>2 DEF Attempt
  <2> HIDE DEF cap
  <2>3. r \in Call
    BY <2>1, AtHand, Clocks DEF Call, Places
  <2>4. /\ r.at = "sent" /\ r.wait = HeaderTicks /\ r.cap = cap /\ r.left = call[c].left
        /\ r.age = call[c].age /\ r.begun = call[c].begun /\ r.retries = call[c].retries
    BY AtHand DEF Call
  <2> HIDE DEF r
  <2>5. call[c].left > 0 /\ call[c].age + call[c].left <= WalkTicks
    BY <1>2, AtHand DEF Clocked
  <2>6. Clocked(shape[c], r)
    BY <2>1, <2>2, <2>4, <2>5, AtHand, Clocks, Graces, Owes DEF Clocked
  <2>7. Counted(r)
    BY <2>2, <2>4, AtHand DEF Counted
  <2>8. {r.at, call[c].at} \subseteq Holding
    BY <2>2, <2>4 DEF Holding, Waiting
  <2> QED BY <2>2, <2>3, <2>6, <2>7, <2>8, BecomeKeeps DEF Sound
<1> QED BY <1>1, <1>2

\* Every way an attempt fails is decided.
LEMMA FailuresKeep ==
  ASSUME CallInv, NEW c \in Calls,
         \/ Unreachable(c) \/ Broken(c) \/ HeadersLate(c) \/ DeadlinePasses(c)
         \/ ErrorBody(c) \/ EnvelopeRefused(c) \/ Silent(c)
  PROVE  CallInv'
<1>1. call[c].at \in Waiting
  BY DEF Unreachable, Broken, HeadersLate, DeadlinePasses, ErrorBody, EnvelopeRefused, Silent,
         Waiting
<1>2. CASE Unreachable(c) \/ EnvelopeRefused(c)
  <2>1. PICK worth \in BOOLEAN, replayable \in BOOLEAN : Decide(c, call[c], worth, replayable)
    BY <1>2 DEF Unreachable, EnvelopeRefused
  <2> QED BY <1>1, <2>1, DecideKeeps
<1>3. CASE Broken(c) \/ HeadersLate(c) \/ DeadlinePasses(c) \/ ErrorBody(c) \/ Silent(c)
  <2>1. PICK worth \in BOOLEAN : Decide(c, Begun(call[c]), worth, FALSE)
    BY <1>3 DEF Broken, HeadersLate, DeadlinePasses, ErrorBody, Silent
  <2> QED BY <1>1, <2>1, DecideKeeps
<1> QED BY <1>2, <1>3

LEMMA AcceptedKeeps == ASSUME CallInv, NEW c \in Calls, Accepted(c) \/ Opened(c) PROVE CallInv'
<1>1. call[c].at \in {"sent", "peek"}
  BY DEF Accepted, Opened
<1>2. ASSUME NEW place \in {"peek", "first"}, NEW r, Become(c, r), Stay,
             r = [call[c] EXCEPT !.at = place, !.wait = call[c].cap],
             call[c].at = "sent" => (place = "peek" <=> shape[c].wrapped),
             call[c].at = "peek" => place = "first"
      PROVE  CallInv'
  <2>1. r \in Call
    BY <1>2, AtHand DEF Call, Places
  <2>2. /\ r.at = place /\ r.wait = call[c].cap /\ r.cap = call[c].cap /\ r.left = call[c].left
        /\ r.age = call[c].age /\ r.begun = call[c].begun /\ r.retries = call[c].retries
    BY <1>2, AtHand DEF Call
  <2>3. Clocked(shape[c], r)
    <3>1. shape[c].client # "body" => call[c].age + Owed(shape[c], call[c]) <= Grace(shape[c])
      BY <1>1, AtHand DEF Clocked
    <3>2. Owed(shape[c], r) <= Owed(shape[c], call[c]) /\ Owed(shape[c], r) \in Nat
          /\ Owed(shape[c], call[c]) \in Nat
      <4>1. call[c].wait \in Nat /\ call[c].cap \in Nat
        BY AtHand
      <4>2. r.at = "peek" => Owed(shape[c], r) = call[c].cap + call[c].cap
        BY <2>2, Owes
      <4>3. r.at = "first" => Owed(shape[c], r) = call[c].cap
        BY <2>2, Owes
      <4>4. CASE call[c].at = "sent" /\ shape[c].wrapped
        BY <1>2, <2>2, <4>1, <4>2, <4>4, Owes
      <4>5. CASE call[c].at = "sent" /\ ~shape[c].wrapped
        BY <1>2, <2>2, <4>1, <4>3, <4>5, Owes
      <4>6. CASE call[c].at = "peek"
        BY <1>2, <2>2, <4>1, <4>3, <4>6, Owes
      <4> QED BY <1>1, <4>4, <4>5, <4>6
    <3>3. shape[c].client # "body" => r.age + Owed(shape[c], r) <= Grace(shape[c])
      BY <2>2, <3>1, <3>2, AtHand, Graces
    <3> QED BY <1>1, <1>2, <2>2, <3>3, AtHand DEF Clocked
  <2>4. Counted(r)
    BY <1>1, <1>2, <2>2, AtHand DEF Counted
  <2>5. {r.at, call[c].at} \subseteq Holding
    BY <1>1, <1>2, <2>2 DEF Holding, Waiting
  <2> QED BY <1>2, <2>1, <2>3, <2>4, <2>5, BecomeKeeps DEF Sound
<1>3. CASE Opened(c)
  BY <1>2, <1>3 DEF Opened
<1>4. CASE Accepted(c) /\ shape[c].piped
  <2>1. CASE shape[c].wrapped
    BY <1>2, <1>4, <2>1 DEF Accepted
  <2>2. CASE ~shape[c].wrapped
    BY <1>2, <1>4, <2>2 DEF Accepted
  <2> QED BY <2>1, <2>2
<1>5. CASE Accepted(c) /\ ~shape[c].piped
  <2> DEFINE r == [call[c] EXCEPT !.at = "reading", !.wait = 0]
  <2>1. Become(c, r) /\ Stay /\ call[c].at = "sent"
    BY <1>5 DEF Accepted
  <2>2. r \in Call
    BY AtHand DEF Call, Places
  <2>3. /\ r.at = "reading" /\ r.left = call[c].left
        /\ r.age = call[c].age /\ r.begun = call[c].begun /\ r.retries = call[c].retries
    BY AtHand DEF Call
  <2> HIDE DEF r
  <2>4. shape[c].client = "body"
    BY <1>5, ShapeKinds DEF CallInv
  <2>5. Clocked(shape[c], r)
    BY <2>1, <2>3, <2>4, AtHand, Clocks DEF Clocked
  <2>6. Counted(r)
    BY <2>1, <2>3, AtHand DEF Counted
  <2>7. {r.at, call[c].at} \subseteq Holding
    BY <2>1, <2>3 DEF Holding, Waiting
  <2> QED BY <2>1, <2>2, <2>5, <2>6, <2>7, BecomeKeeps DEF Sound
<1> QED BY <1>3, <1>4, <1>5

\* An answer is handed out: a stream once it has spoken, a body once it is read.
LEMMA HandOutKeeps == ASSUME CallInv, NEW c \in Calls, FirstByte(c) \/ ReadAll(c) PROVE CallInv'
<1>1. PICK w \in {IdleTicks, call[c].wait} :
        /\ call[c].at \in {"first", "reading"}
        /\ HandedOff(c, Begun([call[c] EXCEPT !.at = "open", !.wait = w, !.cap = 0]))
  <2>1. CASE FirstByte(c)
    BY <2>1 DEF FirstByte
  <2>2. CASE ReadAll(c)
    <3>1. [call[c] EXCEPT !.at = "open", !.cap = 0]
            = [call[c] EXCEPT !.at = "open", !.wait = call[c].wait, !.cap = 0]
      BY AtHand DEF Call
    <3> QED BY <2>2, <3>1 DEF ReadAll
  <2> QED BY <2>1, <2>2
<1> DEFINE o == [call[c] EXCEPT !.at = "open", !.wait = w, !.cap = 0]
           r == Begun(o)
<1>2. o \in Call /\ o.at = "open" /\ o.left = call[c].left /\ o.age = call[c].age
      /\ o.begun = call[c].begun
  BY AtHand, Clocks DEF Call, Places
<1> HIDE DEF o
<1>3. r \in Call /\ r.at = "open" /\ r.left = call[c].left /\ r.age = call[c].age
      /\ r.begun = call[c].begun + 1
  BY <1>2, AtHand DEF Begun, Call
<1>4. Become(c, r) /\ Stay
  BY <1>1 DEF HandedOff, o
<1> HIDE DEF r
<1>5. Clocked(shape[c], r)
  <2>1. Owed(shape[c], r) = 0 /\ Owed(shape[c], call[c]) \in Nat
    BY <1>1, <1>3, AtHand, Owes
  <2> QED BY <1>1, <1>3, <2>1, AtHand, Graces DEF Clocked
<1>6. Counted(r)
  BY <1>1, <1>3, AtHand, Clocks DEF Counted
<1>7. {r.at, call[c].at} \subseteq Holding
  BY <1>1, <1>3 DEF Holding, Waiting
<1> QED BY <1>3, <1>4, <1>5, <1>6, <1>7, BecomeKeeps DEF Sound

LEMMA ChunkKeeps == ASSUME CallInv, NEW c \in Calls, Chunk(c) PROVE CallInv'
<1> DEFINE r == [call[c] EXCEPT !.wait = IdleTicks, !.busy = TRUE]
<1>1. Become(c, r) /\ Stay /\ call[c].at = "open"
  BY DEF Chunk, Piped
<1>2. r \in Call /\ r.at = "open" /\ r.left = call[c].left /\ r.age = call[c].age
      /\ r.begun = call[c].begun
  BY <1>1, AtHand, Clocks DEF Call
<1> HIDE DEF r
<1>3. Clocked(shape[c], r)
  BY <1>1, <1>2, AtHand, Owes DEF Clocked
<1>4. Counted(r)
  BY <1>2, AtHand DEF Counted
<1> QED BY <1>1, <1>2, <1>3, <1>4, BecomeKeeps DEF Sound

LEMMA EndsKeep ==
  ASSUME CallInv, NEW c \in Calls, CutShort(c) \/ EndOfAnswer(c) \/ Abandon(c)
  PROVE  CallInv'
<1>1. End(c, call[c]) /\ call[c].at \in Holding
  BY AtHand DEF CutShort, EndOfAnswer, Abandon, Piped, Holding, Waiting, Places, Call
<1> QED BY <1>1, AtHand, EndKeeps

LEMMA WakeKeeps == ASSUME CallInv, NEW c \in Calls, Wake(c) \/ Refused(c) PROVE CallInv'
<1>1. CASE Wake(c)
  <2> DEFINE r == [call[c] EXCEPT !.at = "begin"]
  <2>1. /\ r \in Call /\ r.at = "begin" /\ r.left = call[c].left /\ r.age = call[c].age
        /\ r.begun = call[c].begun /\ r.retries = call[c].retries
    BY AtHand DEF Call, Places
  <2>2. Become(c, r) /\ Stay /\ call[c].at = "backoff"
    BY <1>1 DEF Wake
  <2> HIDE DEF r
  <2> QED BY <2>1, <2>2, MovesKeep
<1>2. CASE Refused(c)
  <2> DEFINE r == [call[c] EXCEPT !.at = "failing", !.wait = 0]
  <2>1. /\ r \in Call /\ r.at = "failing" /\ r.left = call[c].left /\ r.age = call[c].age
        /\ r.begun = call[c].begun /\ r.retries = call[c].retries
    BY AtHand DEF Call, Places
  <2>2. Become(c, r) /\ Stay /\ call[c].at = "sent"
    BY <1>2 DEF Refused
  <2> HIDE DEF r
  <2> QED BY <2>1, <2>2, MovesKeep
<1> QED BY <1>1, <1>2

---------------------------------------------------------------------------
(* Time                                                                    *)

\* A tick charges a call that waits for the upstream, and one whose time has come
\* holds it back.
LEMMA ElapsedSound ==
  ASSUME CallInv, NEW c \in Calls, ~Due(c)
  PROVE  Sound(c, Elapsed(c)) /\ Elapsed(c).at = call[c].at
<1> DEFINE r == call[c]
           e == Elapsed(c)
           s == shape[c]
           older == Lesser(r.age + 1, AgeCap)
<1>1. /\ r \in Call /\ r.left \in 0..WalkTicks /\ r.age \in 0..AgeCap /\ r.age \in Nat
      /\ r.begun \in Nat /\ r.wait \in Nat /\ r.cap \in Nat /\ Clocked(s, r) /\ Counted(r)
  BY AtHand
<1>2. /\ Less(r.wait) \in Nat /\ Less(r.left) \in 0..WalkTicks
      /\ Less(r.left) <= r.left /\ r.left <= Less(r.left) + 1
      /\ r.left > 0 => Less(r.left) = r.left - 1
      /\ r.wait > 0 => Less(r.wait) = r.wait - 1
  BY <1>1, Clocks DEF Less
<1>3. /\ older \in 0..AgeCap /\ older \in Nat /\ older <= r.age + 1
      /\ older = r.age + 1 \/ older >= WalkTicks
  BY <1>1, Clocks, Graces DEF Lesser
<1> HIDE DEF older
<1>4. /\ e \in Call /\ e.at = r.at /\ e.begun = r.begun /\ e.retries = r.retries
      /\ e.wait = Less(r.wait) /\ e.cap = r.cap
      /\ e.left = IF r.at \in Charged \/ (Piped(c) /\ Bounded(c)) THEN Less(r.left) ELSE r.left
      /\ e.age = IF r.at \in Waiting THEN older ELSE r.age
  <2> DEFINE L == IF r.at \in Charged \/ (Piped(c) /\ Bounded(c)) THEN Less(r.left) ELSE r.left
             A == IF r.at \in Waiting THEN older ELSE r.age
  <2>1. L \in 0..WalkTicks /\ A \in 0..AgeCap
    BY <1>1, <1>2, <1>3
  <2>2. e = [r EXCEPT !.wait = Less(r.wait), !.left = L, !.age = A]
    BY DEF Elapsed, older
  <2> HIDE DEF L, A
  <2>3. /\ e \in Call /\ e.at = r.at /\ e.begun = r.begun /\ e.retries = r.retries
        /\ e.wait = Less(r.wait) /\ e.cap = r.cap /\ e.left = L /\ e.age = A
    <3> HIDE DEF e
    <3> QED BY <1>1, <1>2, <2>1, <2>2 DEF Call
  <2> QED BY <2>3 DEF L, A
<1>5. Piped(c) => r.at = "open"
  BY DEF Piped
<1>6. /\ r.at # "begin"
      /\ r.at \in {"sent", "peek", "first", "backoff"} => r.wait > 0
      /\ s.client = "body" /\ r.at \in Waiting \ {"begin", "backoff"} => r.left > 0
  BY <1>1 DEF Due, Bounded
<1> HIDE DEF e
<1>7. Clocked(s, e)
  <2>1. CASE r.at \in Waiting
    <3>1. e.left = Less(r.left) /\ e.age = older
      BY <1>4, <2>1 DEF Charged
    <3>2. r.left > 0 => r.age + r.left <= WalkTicks
      BY <1>1 DEF Clocked
    <3>3. r.at = "backoff" => r.left > 0
      BY <1>1, <1>6 DEF Clocked
    <3>4. e.left > 0 \/ s.client = "body" => e.age + e.left <= WalkTicks
      BY <1>1, <1>2, <1>3, <1>6, <2>1, <3>1, <3>2, <3>3, Clocks DEF Waiting
    <3>5. r.at \in {"sent", "peek", "first"} =>
            Owed(s, e) = Owed(s, r) - 1 /\ Owed(s, r) \in Nat
      BY <1>1, <1>2, <1>4, <1>6, Owes
    <3>6. s.client # "body" /\ r.at \in {"sent", "peek", "first"} => e.age + Owed(s, e) <= Grace(s)
      BY <1>1, <1>3, <3>1, <3>5, Graces DEF Clocked
    <3>7. r.at = "reading" => s.client = "body"
      BY <1>1 DEF Clocked
    <3>8. r.at = "backoff" => e.wait = 0 \/ e.wait < e.left
      BY <1>1, <1>2, <1>4, <1>6, <3>1, Clocks DEF Clocked
    <3>9. e.age + e.left >= WalkTicks
      BY <1>1, <1>2, <1>3, <2>1, <3>1, Clocks DEF Clocked, Waiting
    <3> QED BY <1>4, <2>1, <3>4, <3>6, <3>7, <3>8, <3>9 DEF Clocked, Waiting
  <2>2. CASE r.at \notin Waiting
    <3>1. e.age = r.age /\ e.left \in {r.left, Less(r.left)} /\ (r.at # "open" => e.left = r.left)
      BY <1>4, <1>5, <2>2 DEF Charged
    <3>2. r.at \notin {"sent", "peek", "first", "reading", "backoff"}
      BY <2>2 DEF Waiting
    <3>3. Owed(s, e) = 0 /\ Owed(s, r) = 0
      BY <1>4, <3>2, Owes
    <3> QED BY <1>1, <1>2, <1>4, <3>1, <3>2, <3>3, Clocks DEF Clocked
  <2> QED BY <2>1, <2>2
<1>8. Counted(e)
  BY <1>1, <1>4 DEF Counted
<1> QED BY <1>4, <1>7, <1>8 DEF Sound, e

LEMMA TickKeeps == ASSUME CallInv, Tick PROVE CallInv'
<1>1. call' = [c \in Calls |-> Elapsed(c)] /\ Stay
  BY DEF Tick
<1>2. \A c \in Calls : Sound(c, Elapsed(c)) /\ Elapsed(c).at = call[c].at
  BY ElapsedSound DEF Tick
<1>3. \A c \in Calls : call'[c] = Elapsed(c) /\ call'[c].at = call[c].at
  BY <1>1, <1>2
<1>4. TypeOK'
  BY <1>1, <1>2 DEF CallInv, TypeOK, Sound, Stay
<1>5. OneInFlight'
  BY <1>1, <1>3, Clocks DEF CallInv, OneInFlight, InFlight, Stay
<1>6. Laned'
  BY <1>1 DEF CallInv, Laned, Stay
<1>7. \A c \in Calls : Clocked(shape'[c], call'[c]) /\ Counted(call'[c])
  BY <1>1, <1>2, <1>3 DEF Sound, Stay
<1> QED BY <1>4, <1>5, <1>6, <1>7 DEF CallInv, Clocked, Counted

---------------------------------------------------------------------------
(* The theorems                                                            *)

LEMMA NextKeepsCall == ASSUME CallInv, [Next]_vars PROVE CallInv'
<1>1. CASE Tick
  BY <1>1, TickKeeps
<1>2. ASSUME NEW c \in Calls, Own(c) \/ Upstream(c) \/ Written(c) \/ HangUp(c)
      PROVE  CallInv'
  <2>1. CASE Own(c)
    BY <2>1, ArriveKeeps, GiveUpKeeps, GrantedKeeps, AttemptKeeps, FailuresKeep, MarksKeep,
       WakeKeeps, EndsKeep DEF Own
  <2>2. CASE Upstream(c)
    BY <2>2, FailuresKeep, WakeKeeps, AcceptedKeeps, HandOutKeeps, ChunkKeeps, EndsKeep
       DEF Upstream
  <2>3. CASE Written(c) \/ HangUp(c)
    BY <2>3, MarksKeep
  <2> QED BY <1>2, <2>1, <2>2, <2>3
<1>3. CASE UNCHANGED vars
  <2>1. shape' = shape /\ gate' = gate /\ queue' = queue /\ call' = call
    BY <1>3 DEF vars
  <2> QED BY <2>1 DEF CallInv, TypeOK, OneInFlight, InFlight, Laned, Clocked, Owed, Counted
<1> QED BY <1>1, <1>2, <1>3 DEF Next

\* At every step of every call the slot, the queue, the clocks and the counts agree.
THEOREM CallsStaySound == Spec => []CallInv
<1>1. Init => CallInv
  BY InitCall
<1>2. CallInv /\ [Next]_vars => CallInv'
  BY NextKeepsCall
<1> QED BY <1>1, <1>2, PTL DEF Spec

\* The lane of transport_sessions.go: a session has at most one call in flight, the slot
\* is neither lost nor held by a call that ended, and a waiter is queued once.
THEOREM SessionsServeOneCall == Spec => []OneInFlight
<1>1. CallInv => OneInFlight
  BY DEF CallInv
<1> QED BY <1>1, CallsStaySound, PTL

\* What one target may cost the walk: its clock, and for a stream the waits of one attempt
\* beyond it; only the body of a refusal takes longer, after which nothing is begun any
\* more; and how often a request that is not idempotent is begun.
THEOREM CallsAreBounded == Spec => []PreCommitBounded
<1>1. CallInv => PreCommitBounded
  <2> SUFFICES ASSUME CallInv PROVE PreCommitBounded
    OBVIOUS
  <2>1. ASSUME NEW c \in Calls
        PROVE  /\ Outlived(c) => ~Bounded(c) /\ (call[c].at = "failing" \/ Spent(c))
               /\ call[c].begun <= 1 + MaxPOSTRetries
    <3>1. Bounded(c) => ~Outlived(c)
      BY AtHand, Clocks, Graces DEF Clocked, Bounded, Outlived
    <3>2. call[c].left > 0 => ~Outlived(c)
      BY AtHand, Clocks, Graces DEF Clocked, Outlived
    <3>3. ASSUME ~Bounded(c), call[c].at \notin {"failing", "backoff", "begin"}
          PROVE  ~Outlived(c)
      <4>1. Owed(shape[c], call[c]) \in Nat
        BY AtHand, Owes
      <4> QED BY <3>3, <4>1, AtHand, Graces DEF Clocked, Bounded, Outlived
    <3> QED BY <3>1, <3>2, <3>3, AtHand DEF Spent
  <2> QED BY <2>1 DEF PreCommitBounded, BegunBounded
<1> QED BY <1>1, CallsStaySound, PTL

\* A step is one call's own, but for the slot it may pass on.
LEMMA OneMoves ==
  ASSUME NEW d \in Calls, Own(d) \/ Upstream(d) \/ Written(d) \/ HangUp(d)
  PROVE  \E r : Become(d, r) \/ End(d, r)
<1>1. ASSUME NEW r, NEW worth, NEW replayable, Decide(d, r, worth, replayable)
      PROVE  \E x : Become(d, x) \/ End(d, x)
  BY <1>1 DEF Decide
<1>2. CASE \/ Unreachable(d) \/ Broken(d) \/ HeadersLate(d) \/ DeadlinePasses(d)
           \/ ErrorBody(d) \/ EnvelopeRefused(d) \/ Silent(d)
  BY <1>1, <1>2 DEF Unreachable, Broken, HeadersLate, DeadlinePasses, ErrorBody,
                    EnvelopeRefused, Silent
<1>3. CASE Arrive(d) \/ GiveUpWaiting(d) \/ Granted(d) \/ Attempt(d)
  BY <1>3 DEF Arrive, GiveUpWaiting, Granted, Attempt
<1>4. CASE \/ FireFirst(d) \/ FireIdle(d) \/ Written(d) \/ HangUp(d) \/ Wake(d) \/ Refused(d)
           \/ Accepted(d) \/ Opened(d) \/ Chunk(d)
  BY <1>4 DEF FireFirst, FireIdle, Written, HangUp, Wake, Refused, Accepted, Opened, Chunk
<1>5. CASE \/ FirstByte(d) \/ ReadAll(d) \/ Abandon(d) \/ CutShort(d) \/ EndOfAnswer(d)
  BY <1>5 DEF FirstByte, ReadAll, HandedOff, Abandon, CutShort, EndOfAnswer
<1> QED BY <1>2, <1>3, <1>4, <1>5 DEF Own, Upstream

LEMMA OthersStay ==
  ASSUME CallInv, NEW c \in Calls, NEW d \in Calls, c # d, NEW r, Become(d, r) \/ End(d, r)
  PROVE  call'[c].at \in {call[c].at, "granted"}
<1>1. call \in [Calls -> Call] /\ call[c] \in Call /\ queue \in Seq(Calls)
  BY AtHand DEF CallInv, TypeOK
<1>2. ASSUME NEW x PROVE [call EXCEPT ![d] = x][c] = call[c]
  BY <1>1
<1>3. CASE Become(d, r)
  BY <1>2, <1>3 DEF Become
<1>4. ASSUME NEW x, Released([call EXCEPT ![d] = x])
      PROVE  call'[c].at \in {call[c].at, "granted"}
  <2> DEFINE calls == [call EXCEPT ![d] = x]
  <2>1. calls[c] = call[c] /\ DOMAIN calls = Calls
    BY <1>1, <1>2
  <2>2. call' = calls \/ call' = [calls EXCEPT ![Head(queue)].at = "granted"]
    BY <1>4 DEF Released
  <2> HIDE DEF calls
  <2>3. CASE call' = [calls EXCEPT ![Head(queue)].at = "granted"]
    <3>1. CASE c = Head(queue)
      <4>1. call'[c] = [call[c] EXCEPT !.at = "granted"]
        BY <2>1, <2>3, <3>1
      <4> QED BY <1>1, <4>1 DEF Call
    <3>2. CASE c # Head(queue)
      BY <2>1, <2>3, <3>2
    <3> QED BY <3>1, <3>2
  <2> QED BY <2>1, <2>2, <2>3
<1>5. CASE End(d, r)
  BY <1>2, <1>4, <1>5 DEF End, Become
<1> QED BY <1>3, <1>5

\* A call that ends where an attempt would begin was abandoned, or had waited all of
\* the walk's clock: no time it queued is counted.
LEMMA RefusedInTime ==
  ASSUME CallInv, [Next]_vars, NEW c \in Calls,
         call[c].at = "begin", call'[c].at = "done", ~call[c].gone
  PROVE  call[c].age >= WalkTicks
<1>1. call \in [Calls -> Call] /\ call[c] \in Call
  BY AtHand
<1>2. ~UNCHANGED vars
  BY DEF vars
<1>3. ~Tick
  <2>1. Tick => call'[c].at = call[c].at
    BY ElapsedSound DEF Tick
  <2> QED BY <2>1
<1>4. PICK d \in Calls : Own(d) \/ Upstream(d) \/ Written(d) \/ HangUp(d)
  BY <1>2, <1>3 DEF Next
<1>5. c = d
  <2>1. PICK r : Become(d, r) \/ End(d, r)
    BY <1>4, OneMoves
  <2> QED BY <2>1, OthersStay
<1>6. ~(Written(c) \/ HangUp(c))
  <2>1. ASSUME NEW b PROVE /\ [call[c] EXCEPT !.busy = b].at = "begin"
                           /\ [call[c] EXCEPT !.gone = b].at = "begin"
    BY <1>1 DEF Call
  <2>2. ASSUME NEW r, Become(c, r) PROVE call'[c] = r
    BY <1>1, <2>2 DEF Become
  <2> QED BY <2>1, <2>2 DEF Written, HangUp
<1>7. Attempt(c)
  BY <1>4, <1>5, <1>6
     DEF Own, Upstream, Arrive, GiveUpWaiting, Granted, HeadersLate, DeadlinePasses, FireFirst,
         Silent, Wake, FireIdle, Abandon, CutShort, Piped, Unreachable, Broken, Refused,
         ErrorBody, Accepted, Opened, EnvelopeRefused, FirstByte, ReadAll, Chunk, EndOfAnswer
<1>8. call[c].left = 0
  <2> SUFFICES ASSUME call[c].left # 0 PROVE FALSE
    OBVIOUS
  <2>1. call'[c] = [call[c] EXCEPT !.at = "sent", !.wait = HeaderTicks,
                                   !.cap = FirstByteCap(call[c])]
    BY <1>1, <1>7 DEF Attempt, Become
  <2> QED BY <1>1, <2>1 DEF Call
<1> QED BY <1>8, AtHand DEF Clocked

\* A call is refused for want of time only when the upstream was waited for that long
\* (Do's check of the walk's clock, after acquire).
THEOREM TimeIsEarned == Spec => TimeoutIsEarned
<1>1. CallInv /\ [Next]_vars =>
        [\A c \in Calls : call[c].at = "begin" /\ call'[c].at = "done" /\ ~call[c].gone
           => call[c].age >= WalkTicks]_vars
  BY RefusedInTime
<1> QED BY <1>1, CallsStaySound, PTL DEF Spec, TimeoutIsEarned
=============================================================================
