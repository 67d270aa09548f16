---------------------------- MODULE WiresProofs ----------------------------
(***************************************************************************)
(* The composition of MCWires: what is proved of the parts a request meets *)
(* on its way to a vendor, for every value of the constants.  The parts    *)
(* share no variable, so a step of another part leaves a part's invariant  *)
(* as it was, and each part's steps are taken one at a time.               *)
(*                                                                         *)
(* First the model catalog (NodeCatalog), then what connectors keep        *)
(* between calls (ConnectorCaches), then the poller of published quota     *)
(* (PublishedPoll).                                                        *)
(***************************************************************************)
EXTENDS MCWires, TLAPS, FiniteSetTheorems

-----------------------------------------------------------------------------
(* Names.                                                                  *)

LEMMA CatalogConstants ==
  /\ nobody \notin Panels /\ OverlayTTL \in Nat \ {0} /\ RebuildMax \in Nat
  /\ "" \notin BuiltInNames /\ FirstPrefixes \in [NodeIDs -> {""} \union (NodePrefixes \ BuiltInNames)]
  BY WiresAssumption DEF Catalog!NodeCatalogAssumption

LEMMA CatalogIdle ==
  /\ Catalog!Idle \in Catalog!Operation /\ Catalog!Idle.at = "idle" /\ Catalog!Idle.alone
  /\ Catalog!NoOverlay \in Catalog!Overlay /\ ~Catalog!NoOverlay.built
  /\ Catalog!NoOverlay.old = 0 /\ Catalog!NoOverlay.age = 0 /\ Catalog!NoOverlay.fallback = FALSE
BY DEF Catalog!Idle, Catalog!Operation, Catalog!NoOverlay, Catalog!Overlay, Catalog!Nobody,
       Catalog!None, Catalog!Names, Catalog!Looking, Catalog!Rows

LEMMA CatalogTimes == OverlayTTL \in Nat /\ OverlayTTL >= 1 /\ RebuildMax \in Nat
<1>1. OverlayTTL \in Nat \ {0} /\ RebuildMax \in Nat
  BY CatalogConstants
<1> QED BY <1>1

LEMMA OldBound ==
  ASSUME NEW old \in Nat, NEW age \in Nat, age < OverlayTTL, old <= age + RebuildMax
  PROVE  old < OverlayTTL + RebuildMax
BY CatalogTimes

\* Only what one actor is at changes.
LEMMA OpMoves ==
  ASSUME Catalog!CatalogInv, NEW a \in Panels, NEW r \in Catalog!Operation,
         Catalog!Rebuilds(a, r), Catalog!Decides(r), Catalog!Counts(r),
         op' = [op EXCEPT ![a] = r],
         UNCHANGED <<nodes, combos, aliases, cached, builder, version, answered, padded, faults, sound>>
  PROVE  Catalog!CatalogInv'
<1>1. /\ Catalog!TypeOK /\ op' \in [Panels -> Catalog!Operation]
      /\ \A b \in Panels : op'[b] = IF b = a THEN r ELSE op[b]
  BY DEF Catalog!CatalogInv, Catalog!TypeOK
<1>2. Catalog!TypeOK'
  BY <1>1 DEF Catalog!TypeOK
<1>3. Catalog!CatalogSound' /\ Catalog!OverlaysShow' /\ \A s \in Watched : answered'[s] <= version'
  BY DEF Catalog!CatalogInv, Catalog!CatalogSound, Catalog!RowsBuild, Catalog!FallbackEarned,
         Catalog!OverlaysShow, Catalog!Fresh
<1>4. \A b \in Panels : (Catalog!Rebuilds(b, op[b]) /\ Catalog!Decides(op[b]) /\ Catalog!Counts(op[b]))'
  <2> SUFFICES ASSUME NEW b \in Panels
               PROVE  (Catalog!Rebuilds(b, op[b]) /\ Catalog!Decides(op[b]) /\ Catalog!Counts(op[b]))'
    OBVIOUS
  <2> DEFINE s == op'[b]
  <2>1. Catalog!Rebuilds(b, s) /\ Catalog!Decides(s) /\ Catalog!Counts(s)
    BY <1>1 DEF Catalog!CatalogInv
  <2> QED
    BY <2>1 DEF Catalog!Rebuilds, Catalog!Decides, Catalog!Counts, Catalog!Spelled, Catalog!References
<1> QED BY <1>2, <1>3, <1>4 DEF Catalog!CatalogInv

\* An idle actor owes nothing.
LEMMA IdleHolds ==
  ASSUME NEW a
  PROVE  Catalog!Rebuilds(a, Catalog!Idle) /\ Catalog!Decides(Catalog!Idle) /\ Catalog!Counts(Catalog!Idle)
BY CatalogIdle DEF Catalog!Rebuilds, Catalog!Decides, Catalog!Counts

\* What a lookup decides is to write what it asked for, or nothing.
LEMMA DecidedIs ==
  ASSUME NEW r, r.kind \in Catalog!Looking, NEW view
  PROVE  \/ Catalog!Decided(r, view) = Catalog!Idle
         \/ /\ Catalog!Decided(r, view) = [r EXCEPT !.at = "write"]
            /\ r.kind \in {"create", "patch"} => r.pad \/ r.name \notin BuiltInNames
<1>1. CASE r.kind = "route"
  BY <1>1 DEF Catalog!Decided
<1>2. CASE r.kind \in {"create", "patch"}
  <2>1. Catalog!Decided(r, view) =
          IF Catalog!Taken(r, view) THEN Catalog!Idle ELSE [r EXCEPT !.at = "write"]
    BY <1>2 DEF Catalog!Decided
  <2>2. ~Catalog!Taken(r, view) => r.pad \/ r.name \notin BuiltInNames
    <3>1. r.name \in BuiltInNames => r.name \in Catalog!NamesOf(view)
      BY Zenon DEF Catalog!NamesOf
    <3> QED BY Zenon, <3>1 DEF Catalog!Taken
  <2> QED BY <2>1, <2>2
<1>3. CASE r.kind \in {"combo", "alias"}
  <2>1. Catalog!Decided(r, view) =
          IF Catalog!Refers(r, view) THEN [r EXCEPT !.at = "write"] ELSE Catalog!Idle
    BY <1>3 DEF Catalog!Decided
  <2> QED BY <1>3, <2>1
<1> QED BY <1>1, <1>2, <1>3 DEF Catalog!Looking

\* What it leaves the actor with holds of it.
LEMMA DecidedHolds ==
  ASSUME NEW a, NEW r \in Catalog!Operation, r.kind \in Catalog!Looking, r.replica \in Watched, NEW view
  PROVE  /\ Catalog!Decided(r, view) \in Catalog!Operation
         /\ Catalog!Decided(r, view).at \in {"idle", "write"}
         /\ Catalog!Rebuilds(a, Catalog!Decided(r, view)) /\ Catalog!Decides(Catalog!Decided(r, view))
         /\ Catalog!Counts(Catalog!Decided(r, view))
<1>1. CASE Catalog!Decided(r, view) = Catalog!Idle
  BY <1>1, CatalogIdle, IdleHolds
<1>2. CASE /\ Catalog!Decided(r, view) = [r EXCEPT !.at = "write"]
           /\ r.kind \in {"create", "patch"} => r.pad \/ r.name \notin BuiltInNames
  <2> DEFINE s == [r EXCEPT !.at = "write"]
  <2>1. /\ s \in Catalog!Operation /\ s.at = "write" /\ s.kind = r.kind /\ s.pad = r.pad
        /\ s.name = r.name /\ s.replica = r.replica
    BY DEF Catalog!Operation
  <2> HIDE DEF s
  <2>2. Catalog!Rebuilds(a, s) /\ Catalog!Decides(s) /\ Catalog!Counts(s)
    BY <1>2, <2>1 DEF Catalog!Rebuilds, Catalog!Decides, Catalog!Counts
  <2> QED BY <1>2, <2>1, <2>2 DEF s
<1> QED BY <1>1, <1>2, DecidedIs

\* A lookup of a replica: the overlay as it is, or the lock to rebuild it.
LEMMA LookInv ==
  ASSUME Catalog!CatalogInv, NEW a \in Panels, NEW r \in Catalog!Operation,
         r.kind \in Catalog!Looking, r.replica \in Watched, Catalog!Look(a, r)
  PROVE  Catalog!CatalogInv'
<1> DEFINE w == r.replica
<1>1. Catalog!TypeOK /\ builder[w] = nobody
  BY DEF Catalog!Look, Catalog!CatalogInv
<1>2. UNCHANGED <<nodes, combos, aliases, cached, version, answered, padded, faults>>
  BY DEF Catalog!Look
<1>3. CASE Catalog!Fresh(w)
  <2>1. /\ op' = [op EXCEPT ![a] = Catalog!Decided(r, cached[w])] /\ builder' = builder
        /\ sound' = (sound /\ Catalog!Serves(cached[w], answered[w]))
    BY <1>3 DEF Catalog!Look, Catalog!Move
  <2>2. Catalog!Serves(cached[w], answered[w])
    <3>1. /\ cached[w].age \in Nat /\ cached[w].old \in Nat /\ cached[w].age < OverlayTTL
          /\ cached[w].fallback \in BOOLEAN
      BY <1>1, <1>3 DEF Catalog!TypeOK, Catalog!Overlay, Catalog!Fresh
    <3>2. \/ cached[w].fallback
          \/ cached[w].version >= answered[w] /\ cached[w].old <= cached[w].age + RebuildMax
      BY <1>3 DEF Catalog!CatalogInv, Catalog!OverlaysShow
    <3>3. CASE cached[w].fallback
      BY Zenon, <3>3 DEF Catalog!Serves
    <3>4. CASE cached[w].version >= answered[w] /\ cached[w].old <= cached[w].age + RebuildMax
      <4>1. cached[w].old < OverlayTTL + RebuildMax
        BY <3>1, <3>4, OldBound
      <4> QED BY Zenon, <3>4, <4>1 DEF Catalog!Serves
    <3> QED BY <3>2, <3>3, <3>4
  <2>3. sound' = sound
    BY <1>1, <2>1, <2>2 DEF Catalog!TypeOK
  <2> QED BY <1>2, <2>1, <2>3, DecidedHolds, OpMoves
<1>4. CASE ~Catalog!Fresh(w)
  <2> DEFINE s == [r EXCEPT !.at = "read", !.owed = answered[w]]
  <2>1. op' = [op EXCEPT ![a] = s] /\ builder' = [builder EXCEPT ![w] = a] /\ sound' = sound
    BY <1>4 DEF Catalog!Look, Catalog!Move
  <2>2. /\ s \in Catalog!Operation /\ s.at = "read" /\ s.kind \in Catalog!Looking /\ s.replica = w
        /\ s.owed = answered[w]
    BY <1>1 DEF Catalog!Operation, Catalog!TypeOK
  <2> HIDE DEF s
  <2>3. /\ op' \in [Panels -> Catalog!Operation] /\ builder' \in [Watched -> Panels \union {nobody}]
        /\ \A b \in Panels : op'[b] = IF b = a THEN s ELSE op[b]
        /\ builder'[w] = a /\ \A v \in Watched : v # w => builder'[v] = builder[v]
    BY <1>1, <2>1, <2>2 DEF Catalog!TypeOK
  <2>4. Catalog!TypeOK'
    BY <1>1, <1>2, <2>1, <2>3 DEF Catalog!TypeOK
  <2>5. Catalog!CatalogSound' /\ Catalog!OverlaysShow' /\ \A v \in Watched : answered'[v] <= version'
    BY <1>2, <2>1 DEF Catalog!CatalogInv, Catalog!CatalogSound, Catalog!RowsBuild,
                      Catalog!FallbackEarned, Catalog!OverlaysShow, Catalog!Fresh
  <2>6. \A b \in Panels : (Catalog!Rebuilds(b, op[b]) /\ Catalog!Decides(op[b]) /\ Catalog!Counts(op[b]))'
    <3> SUFFICES ASSUME NEW b \in Panels
                 PROVE  (Catalog!Rebuilds(b, op[b]) /\ Catalog!Decides(op[b]) /\ Catalog!Counts(op[b]))'
      OBVIOUS
    <3>1. CASE b = a
      BY <1>2, <2>2, <2>3, <3>1 DEF Catalog!Rebuilds, Catalog!Decides, Catalog!Counts
    <3>2. CASE b # a
      <4>1. op'[b] = op[b] /\ Catalog!Rebuilds(b, op[b]) /\ Catalog!Decides(op[b]) /\ Catalog!Counts(op[b])
        BY <2>3, <3>2 DEF Catalog!CatalogInv
      <4>2. op[b].at \in {"read", "build"} => op[b].replica # w /\ op[b].replica \in Watched
        BY <1>1, <4>1, CatalogConstants DEF Catalog!Rebuilds, Catalog!Counts
      <4>3. Catalog!Rebuilds(b, op[b])'
        BY <1>2, <2>3, <4>1, <4>2 DEF Catalog!Rebuilds
      <4> QED
        BY <1>2, <4>1, <4>3 DEF Catalog!Decides, Catalog!Counts, Catalog!Spelled, Catalog!References
    <3> QED BY <3>1, <3>2
  <2> QED BY <2>4, <2>5, <2>6 DEF Catalog!CatalogInv
<1> QED BY <1>3, <1>4

LEMMA RequestTyped ==
  ASSUME NEW k \in Catalog!Looking \union {"delete", "uncombo"}, NEW w \in Watched, NEW t \in Catalog!Names,
         NEW n \in NodeIDs \union ComboNames \union AliasNames \union {Catalog!None}
  PROVE  LET r == Catalog!Request(k, w, n, t) IN
         /\ r \in Catalog!Operation /\ r.kind = k /\ r.replica = w /\ r.node = n /\ r.name = t
         /\ r.at = "idle"
BY CatalogIdle DEF Catalog!Request, Catalog!Operation, Catalog!Rows

LEMMA AskNameInv ==
  ASSUME Catalog!CatalogInv, NEW a \in Panels, NEW w \in Watched, Catalog!Ask(a, w)
  PROVE  Catalog!CatalogInv'
<1>1. PICK r : /\ r \in Catalog!Requests(w) \union {Catalog!Request("route", w, Catalog!None, Catalog!None)}
               /\ Catalog!Look(a, r)
  BY DEF Catalog!Ask
<1>2. r \in Catalog!Operation /\ r.kind \in Catalog!Looking /\ r.replica = w
  <2>1. CASE r = Catalog!Request("route", w, Catalog!None, Catalog!None)
    BY <2>1, RequestTyped DEF Catalog!Looking, Catalog!Names
  <2>2. CASE \E n \in NodeIDs, t \in NodePrefixes : r = Catalog!Request("create", w, n, t)
    BY <2>2, RequestTyped DEF Catalog!Looking, Catalog!Names
  <2>3. CASE \E n \in NodeIDs, t \in NodePrefixes, pad \in BOOLEAN :
               r = [Catalog!Request("patch", w, n, t) EXCEPT !.pad = pad]
    <3>1. PICK n \in NodeIDs, t \in NodePrefixes, pad \in BOOLEAN :
                 r = [Catalog!Request("patch", w, n, t) EXCEPT !.pad = pad]
      BY <2>3
    <3> DEFINE q == Catalog!Request("patch", w, n, t)
    <3>2. q \in Catalog!Operation /\ q.kind \in Catalog!Looking /\ q.replica = w
      BY RequestTyped DEF Catalog!Looking, Catalog!Names
    <3> HIDE DEF q
    <3>3. r = [q EXCEPT !.pad = pad]
      BY <3>1 DEF q
    <3> QED BY <3>2, <3>3 DEF Catalog!Operation
  <2>4. CASE \E k \in {"combo", "alias"}, n \in ComboNames \union AliasNames, t \in Catalog!Targets :
               r = Catalog!Request(k, w, n, t)
    BY <2>4, RequestTyped DEF Catalog!Looking, Catalog!Names, Catalog!Targets
  <2> QED BY <1>1, <2>1, <2>2, <2>3, <2>4 DEF Catalog!Requests, Catalog!Stored
<1> QED BY <1>1, <1>2, LookInv

\* A rebuild ends: what was read is adopted, or what a failure falls back to, and the lock is
\* given back.
LEMMA AdoptInv ==
  ASSUME Catalog!CatalogInv, NEW a \in Panels, op[a].at \in {"read", "build"},
         NEW view \in Catalog!Overlay, Catalog!Adopt(a, view),
         \/ view.fallback
         \/ view.version >= op[a].owed /\ view.old <= RebuildMax,
         view.fallback => faults' > 0 \/ padded # {},
         faults' \in Nat, faults <= faults',
         UNCHANGED <<nodes, combos, aliases, version, answered, padded>>
  PROVE  Catalog!CatalogInv'
<1> DEFINE w == op[a].replica
           s == Catalog!Decided([op[a] EXCEPT !.view = Catalog!NoOverlay, !.owed = 0], view)
<1>1. /\ Catalog!TypeOK /\ op[a] \in Catalog!Operation /\ w \in Watched /\ op[a].kind \in Catalog!Looking
      /\ builder[w] = a /\ op[a].owed = answered[w]
      /\ answered[w] \in Nat
  BY DEF Catalog!CatalogInv, Catalog!TypeOK, Catalog!Rebuilds, Catalog!Counts
<1>2. /\ cached' = [cached EXCEPT ![w] = view] /\ builder' = [builder EXCEPT ![w] = nobody]
      /\ op' = [op EXCEPT ![a] = s] /\ sound' = (sound /\ Catalog!Serves(view, answered[w]))
  BY <1>1 DEF Catalog!Adopt, Catalog!Move
<1>3. /\ view.version \in Nat /\ view.old \in Nat /\ view.age \in Nat /\ view.fallback \in BOOLEAN
  BY DEF Catalog!Overlay
<1>4. Catalog!Serves(view, answered[w])
  <2>1. CASE view.fallback
    BY Zenon, <2>1 DEF Catalog!Serves
  <2>2. CASE view.version >= op[a].owed /\ view.old <= RebuildMax
    <3>1. view.version >= answered[w]
      BY <1>1, <2>2
    <3>2. view.old < OverlayTTL + RebuildMax
      BY <1>3, <2>2, CatalogTimes
    <3> QED BY Zenon, <3>1, <3>2 DEF Catalog!Serves
  <2> QED BY <2>1, <2>2
<1>5. sound' = sound
  BY <1>1, <1>2, <1>4 DEF Catalog!TypeOK
<1>6. /\ s \in Catalog!Operation /\ s.at \in {"idle", "write"}
      /\ Catalog!Rebuilds(a, s) /\ Catalog!Decides(s) /\ Catalog!Counts(s)
  <2> DEFINE r == [op[a] EXCEPT !.view = Catalog!NoOverlay, !.owed = 0]
  <2>1. r \in Catalog!Operation /\ r.kind \in Catalog!Looking /\ r.replica \in Watched
    BY <1>1, CatalogIdle DEF Catalog!Operation
  <2> HIDE DEF r
  <2>2. s = Catalog!Decided(r, view)
    BY DEF r
  <2> HIDE DEF s
  <2> QED BY <2>1, <2>2, DecidedHolds
<1> HIDE DEF s
<1>7. /\ op' \in [Panels -> Catalog!Operation] /\ builder' \in [Watched -> Panels \union {nobody}]
      /\ cached' \in [Watched -> Catalog!Overlay]
      /\ op'[a] = s /\ \A b \in Panels : b # a => op'[b] = op[b]
      /\ cached'[w] = view /\ \A v \in Watched : v # w => cached'[v] = cached[v]
      /\ \A v \in Watched : v # w => builder'[v] = builder[v]
  BY <1>1, <1>2, <1>6 DEF Catalog!TypeOK
<1>8. Catalog!TypeOK'
  BY <1>1, <1>5, <1>7 DEF Catalog!TypeOK
<1>9. Catalog!CatalogSound' /\ \A v \in Watched : answered'[v] <= version'
  <2>1. Catalog!FallbackEarned'
    <3> SUFFICES ASSUME NEW v \in Watched, cached'[v].fallback PROVE faults' > 0 \/ padded' # {}
      BY DEF Catalog!FallbackEarned
    <3>1. CASE v = w
      BY <1>7, <3>1
    <3>2. CASE v # w
      <4>1. faults > 0 \/ padded # {}
        BY <1>7, <3>2 DEF Catalog!CatalogInv, Catalog!CatalogSound, Catalog!FallbackEarned
      <4>2. faults \in Nat
        BY <1>1 DEF Catalog!TypeOK
      <4> QED BY <4>1, <4>2
    <3> QED BY <3>1, <3>2
  <2> QED BY <1>5, <2>1 DEF Catalog!CatalogInv, Catalog!CatalogSound, Catalog!RowsBuild
<1>10. Catalog!OverlaysShow'
  <2> SUFFICES ASSUME NEW v \in Watched, Catalog!Fresh(v)'
               PROVE  \/ cached'[v].fallback
                      \/ /\ cached'[v].version >= answered'[v]
                         /\ cached'[v].old <= cached'[v].age + RebuildMax
    BY DEF Catalog!OverlaysShow
  <2>1. CASE v = w
    <3>1. view.version >= op[a].owed /\ view.old <= RebuildMax =>
            view.version >= answered[w] /\ view.old <= view.age + RebuildMax
      BY <1>1, <1>3, CatalogTimes
    <3>2. cached'[v] = view /\ answered'[v] = answered[w]
      BY <1>7, <2>1
    <3> QED BY <3>1, <3>2
  <2>2. CASE v # w
    BY <1>7, <2>2 DEF Catalog!CatalogInv, Catalog!OverlaysShow, Catalog!Fresh
  <2> QED BY <2>1, <2>2
<1>11. \A b \in Panels : (Catalog!Rebuilds(b, op[b]) /\ Catalog!Decides(op[b]) /\ Catalog!Counts(op[b]))'
  <2> SUFFICES ASSUME NEW b \in Panels
               PROVE  (Catalog!Rebuilds(b, op[b]) /\ Catalog!Decides(op[b]) /\ Catalog!Counts(op[b]))'
    OBVIOUS
  <2>1. CASE b = a
    BY <1>6, <1>7, <2>1
       DEF Catalog!Rebuilds, Catalog!Decides, Catalog!Counts, Catalog!Spelled, Catalog!References
  <2>2. CASE b # a
    <3>1. op'[b] = op[b] /\ Catalog!Rebuilds(b, op[b]) /\ Catalog!Decides(op[b]) /\ Catalog!Counts(op[b])
      BY <1>7, <2>2 DEF Catalog!CatalogInv
    <3>2. op[b].at \in {"read", "build"} => op[b].replica # w /\ op[b].replica \in Watched
      BY <1>1, <2>2, <3>1 DEF Catalog!Rebuilds, Catalog!Counts
    <3>3. Catalog!Rebuilds(b, op[b])'
      BY <1>7, <3>1, <3>2 DEF Catalog!Rebuilds
    <3> QED
      BY <3>1, <3>3 DEF Catalog!Decides, Catalog!Counts, Catalog!Spelled, Catalog!References
  <2> QED BY <2>1, <2>2
<1> QED BY <1>8, <1>9, <1>10, <1>11 DEF Catalog!CatalogInv

\* What a failed rebuild falls back to.
LEMMA FallbackIs ==
  ASSUME Catalog!TypeOK, NEW w \in Watched
  PROVE  Catalog!Fallback(w) \in Catalog!Overlay /\ Catalog!Fallback(w).fallback
<1>1. cached[w] \in Catalog!Overlay
  BY DEF Catalog!TypeOK
<1> DEFINE o == cached[w]
<1>2. Catalog!Fallback(w) = [o EXCEPT !.built = TRUE, !.age = 0, !.fallback = TRUE]
  BY DEF Catalog!Fallback
<1> HIDE DEF o
<1>3. o \in Catalog!Overlay
  BY <1>1 DEF o
<1>4. Catalog!Fallback(w) \in Catalog!Overlay
  <2>1. \A x, y \in BOOLEAN : [o EXCEPT !.built = x, !.age = 0, !.fallback = y] \in Catalog!Overlay
    BY <1>3 DEF Catalog!Overlay
  <2> QED BY Zenon, <1>2, <2>1
<1>5. Catalog!Fallback(w).fallback = TRUE
  BY <1>2, <1>3 DEF Catalog!Overlay
<1> QED BY <1>4, <1>5

LEMMA LoadNodesInv ==
  ASSUME Catalog!CatalogInv, NEW a \in Panels, Catalog!LoadNodes(a)
  PROVE  Catalog!CatalogInv'
<1>1. /\ Catalog!TypeOK /\ op[a].at = "read" /\ op[a] \in Catalog!Operation
      /\ op[a].replica \in Watched /\ op[a].kind \in Catalog!Looking
      /\ builder[op[a].replica] = a /\ op[a].owed = answered[op[a].replica]
      /\ UNCHANGED <<nodes, combos, aliases, version, answered, padded>>
  BY DEF Catalog!CatalogInv, Catalog!TypeOK, Catalog!Rebuilds, Catalog!Counts, Catalog!LoadNodes
<1> DEFINE view == [Catalog!NoOverlay EXCEPT !.built = TRUE, !.nodes = nodes, !.version = version]
<1>2. CASE /\ Catalog!Move(a, [op[a] EXCEPT !.at = "build", !.view = view])
           /\ UNCHANGED <<cached, builder, sound, faults>>
  <2>1. /\ view \in Catalog!Overlay /\ view.version = version /\ view.old = 0 /\ view.nodes = nodes
        /\ view.fallback = FALSE
    BY <1>1, CatalogIdle DEF Catalog!TypeOK, Catalog!Overlay
  <2> HIDE DEF view
  <2> DEFINE s == [op[a] EXCEPT !.at = "build", !.view = view]
  <2>2. /\ s \in Catalog!Operation /\ s.at = "build" /\ s.view = view /\ s.kind = op[a].kind
        /\ s.replica = op[a].replica /\ s.owed = op[a].owed
    BY <1>1, <2>1 DEF Catalog!Operation
  <2>3. op' = [op EXCEPT ![a] = s]
    BY <1>2 DEF Catalog!Move
  <2> HIDE DEF s
  <2>4. answered[op[a].replica] <= version /\ 0 <= RebuildMax /\ version \in Nat
        /\ answered[op[a].replica] \in Nat
    BY <1>1, CatalogTimes DEF Catalog!CatalogInv, Catalog!TypeOK
  <2>5. Catalog!Rebuilds(a, s)
    <3>1. \A n \in NodeIDs : nodes[n] \in BuiltInNames => n \in padded
      BY DEF Catalog!CatalogInv, Catalog!CatalogSound, Catalog!RowsBuild
    <3> QED BY <1>1, <2>1, <2>2, <2>4, <3>1 DEF Catalog!Rebuilds
  <2>6. Catalog!Decides(s) /\ Catalog!Counts(s)
    BY <1>1, <2>2 DEF Catalog!Decides, Catalog!Counts
  <2> QED BY <1>1, <1>2, <2>2, <2>3, <2>5, <2>6, OpMoves
<1>3. CASE faults' = faults + 1 /\ Catalog!Adopt(a, Catalog!Fallback(op[a].replica))
  <2>1. faults \in Nat
    BY <1>1 DEF Catalog!TypeOK
  <2>2. faults' \in Nat /\ faults <= faults' /\ faults' > 0
    BY <1>3, <2>1
  <2> QED BY <1>1, <1>3, <2>2, FallbackIs, AdoptInv
<1> QED BY <1>2, <1>3 DEF Catalog!LoadNodes

LEMMA BuildInv ==
  ASSUME Catalog!CatalogInv, NEW a \in Panels, Catalog!Build(a)
  PROVE  Catalog!CatalogInv'
<1>1. /\ Catalog!TypeOK /\ op[a].at = "build" /\ op[a].view \in Catalog!Overlay
      /\ op[a].replica \in Watched
      /\ op[a].view.version >= op[a].owed /\ op[a].view.old <= RebuildMax /\ ~op[a].view.fallback
      /\ \A n \in NodeIDs : op[a].view.nodes[n] \in BuiltInNames => n \in padded
      /\ UNCHANGED <<nodes, combos, aliases, version, answered, padded, faults>>
      /\ faults \in Nat
  BY DEF Catalog!CatalogInv, Catalog!TypeOK, Catalog!Operation, Catalog!Rebuilds, Catalog!Counts,
         Catalog!Build
<1>2. CASE Catalog!Adopt(a, op[a].view)
  BY <1>1, <1>2, AdoptInv
<1>3. CASE /\ ~Catalog!Builds(op[a].view.nodes)
           /\ Catalog!Adopt(a, Catalog!Fallback(op[a].replica))
  <2>1. padded # {}
    BY <1>1, <1>3 DEF Catalog!Builds
  <2> QED BY <1>1, <1>3, <2>1, FallbackIs, AdoptInv
<1> QED BY <1>2, <1>3 DEF Catalog!Build

\* Whoever wrote a node drops the overlay nobody is rebuilding, and answers.
LEMMA InvalidateInv ==
  ASSUME Catalog!CatalogInv, NEW a \in Panels, Catalog!InvalidateNodeOverlay(a)
  PROVE  Catalog!CatalogInv'
<1> DEFINE w == op[a].replica
           said == IF op[a].owed > answered[w] THEN op[a].owed ELSE answered[w]
<1>1. /\ Catalog!TypeOK /\ w \in Watched /\ op[a].owed <= version /\ answered[w] <= version
      /\ op[a].owed \in Nat /\ answered[w] \in Nat /\ version \in Nat
  BY DEF Catalog!CatalogInv, Catalog!TypeOK, Catalog!Operation, Catalog!Counts,
         Catalog!InvalidateNodeOverlay
<1>2. /\ builder[w] = nobody /\ cached' = [cached EXCEPT ![w] = Catalog!NoOverlay]
      /\ answered' = [answered EXCEPT ![w] = said] /\ op' = [op EXCEPT ![a] = Catalog!Idle]
      /\ UNCHANGED <<nodes, combos, aliases, builder, version, padded, faults, sound>>
  BY DEF Catalog!InvalidateNodeOverlay, Catalog!MayInvalidate, Catalog!Move
<1>3. said \in Nat /\ said <= version
  BY <1>1
<1> HIDE DEF said
<1>4. /\ op' \in [Panels -> Catalog!Operation] /\ cached' \in [Watched -> Catalog!Overlay]
      /\ answered' \in [Watched -> Nat]
      /\ op'[a] = Catalog!Idle /\ \A b \in Panels : b # a => op'[b] = op[b]
      /\ cached'[w] = Catalog!NoOverlay /\ answered'[w] = said
      /\ \A v \in Watched : v # w => cached'[v] = cached[v] /\ answered'[v] = answered[v]
  BY <1>1, <1>2, <1>3, CatalogIdle DEF Catalog!TypeOK
<1>5. Catalog!TypeOK'
  BY <1>1, <1>2, <1>4 DEF Catalog!TypeOK
<1>6. Catalog!CatalogSound' /\ \A v \in Watched : answered'[v] <= version'
  <2>1. \A v \in Watched : answered'[v] <= version'
    BY <1>2, <1>3, <1>4 DEF Catalog!CatalogInv
  <2>2. \A v \in Watched : cached'[v].fallback => cached[v].fallback
    BY <1>4, CatalogIdle
  <2> QED
    BY <1>2, <2>1, <2>2
       DEF Catalog!CatalogInv, Catalog!CatalogSound, Catalog!RowsBuild, Catalog!FallbackEarned
<1>7. Catalog!OverlaysShow'
  <2> SUFFICES ASSUME NEW v \in Watched, Catalog!Fresh(v)'
               PROVE  \/ cached'[v].fallback
                      \/ /\ cached'[v].version >= answered'[v]
                         /\ cached'[v].old <= cached'[v].age + RebuildMax
    BY DEF Catalog!OverlaysShow
  <2>1. v # w
    BY <1>4, CatalogIdle DEF Catalog!Fresh
  <2> QED BY <1>4, <2>1 DEF Catalog!CatalogInv, Catalog!OverlaysShow, Catalog!Fresh
<1>8. \A b \in Panels : (Catalog!Rebuilds(b, op[b]) /\ Catalog!Decides(op[b]) /\ Catalog!Counts(op[b]))'
  <2> SUFFICES ASSUME NEW b \in Panels
               PROVE  (Catalog!Rebuilds(b, op[b]) /\ Catalog!Decides(op[b]) /\ Catalog!Counts(op[b]))'
    OBVIOUS
  <2>1. CASE b = a
    BY <1>4, <2>1, CatalogIdle DEF Catalog!Rebuilds, Catalog!Decides, Catalog!Counts
  <2>2. CASE b # a
    <3>1. op'[b] = op[b] /\ Catalog!Rebuilds(b, op[b]) /\ Catalog!Decides(op[b]) /\ Catalog!Counts(op[b])
      BY <1>4, <2>2 DEF Catalog!CatalogInv
    <3>2. op[b].at \in {"read", "build"} => op[b].replica # w /\ op[b].replica \in Watched
      BY <1>2, <3>1, CatalogConstants DEF Catalog!Rebuilds, Catalog!Counts
    <3>3. Catalog!Rebuilds(b, op[b])'
      BY <1>2, <1>4, <3>1, <3>2 DEF Catalog!Rebuilds
    <3> QED
      BY <1>2, <3>1, <3>3 DEF Catalog!Decides, Catalog!Counts, Catalog!Spelled, Catalog!References
  <2> QED BY <2>1, <2>2
<1> QED BY <1>5, <1>6, <1>7, <1>8 DEF Catalog!CatalogInv

\* A write lands: whoever was about to erase is no longer alone.
LEMMA LandInv ==
  ASSUME Catalog!CatalogInv, NEW s \in Catalog!Operation, s.at \in {"idle", "written"},
         op' \in [Panels -> Catalog!Operation],
         \A b \in Panels : op'[b] \in {s, Catalog!Disturbed(op[b])},
         s.at = "written" => s.owed <= version' /\ s.replica \in Watched,
         nodes' \in [NodeIDs -> Catalog!Names], combos' \in [ComboNames -> Catalog!Names],
         aliases' \in [AliasNames -> Catalog!Names],
         version' \in {version, version + 1}, padded \subseteq padded', padded' \subseteq Catalog!Rows,
         Catalog!RowsBuild',
         UNCHANGED <<cached, builder, answered, faults, sound>>
  PROVE  Catalog!CatalogInv'
<1>1. Catalog!TypeOK /\ version \in Nat /\ version' \in Nat /\ version <= version'
  BY DEF Catalog!CatalogInv, Catalog!TypeOK
<1>2. Catalog!TypeOK'
  BY <1>1 DEF Catalog!TypeOK
<1>3. Catalog!CatalogSound'
  BY DEF Catalog!CatalogInv, Catalog!CatalogSound, Catalog!FallbackEarned
<1>4. Catalog!OverlaysShow'
  BY DEF Catalog!CatalogInv, Catalog!OverlaysShow, Catalog!Fresh
<1>5. \A v \in Watched : answered'[v] <= version'
  <2> SUFFICES ASSUME NEW v \in Watched PROVE answered[v] <= version'
    OBVIOUS
  <2>1. answered[v] \in Nat /\ answered[v] <= version
    BY <1>1 DEF Catalog!CatalogInv, Catalog!TypeOK
  <2> QED BY <1>1, <2>1
<1>6. \A b \in Panels : (Catalog!Rebuilds(b, op[b]) /\ Catalog!Decides(op[b]) /\ Catalog!Counts(op[b]))'
  <2> SUFFICES ASSUME NEW b \in Panels
               PROVE  (Catalog!Rebuilds(b, op[b]) /\ Catalog!Decides(op[b]) /\ Catalog!Counts(op[b]))'
    OBVIOUS
  <2>1. CASE op'[b] = s
    BY <2>1 DEF Catalog!Rebuilds, Catalog!Decides, Catalog!Counts
  <2>2. CASE op'[b] = Catalog!Disturbed(op[b]) /\ op[b].at = "erase"
    <3> DEFINE r == op[b]
    <3>1. op'[b] = [r EXCEPT !.alone = FALSE] /\ r \in Catalog!Operation /\ r.at = "erase"
      BY <1>1, <2>2 DEF Catalog!Disturbed, Catalog!TypeOK
    <3>2. r.replica \in Watched
      BY <2>2 DEF Catalog!CatalogInv, Catalog!Counts
    <3> HIDE DEF r
    <3>3. op'[b].at = "erase" /\ op'[b].alone = FALSE /\ op'[b].replica \in Watched
      BY <3>1, <3>2 DEF Catalog!Operation
    <3> QED BY <3>3 DEF Catalog!Rebuilds, Catalog!Decides, Catalog!Counts
  <2>3. CASE op'[b] = Catalog!Disturbed(op[b]) /\ op[b].at # "erase"
    <3>1. /\ op'[b] = op[b] /\ op[b].at # "erase" /\ op[b] \in Catalog!Operation /\ op[b].owed \in Nat
          /\ Catalog!Rebuilds(b, op[b]) /\ Catalog!Decides(op[b]) /\ Catalog!Counts(op[b])
      BY <1>1, <2>3 DEF Catalog!Disturbed, Catalog!CatalogInv, Catalog!TypeOK, Catalog!Operation
    <3>2. Catalog!Rebuilds(b, op[b])'
      BY <3>1 DEF Catalog!Rebuilds
    <3>3. Catalog!Decides(op[b])'
      BY <3>1 DEF Catalog!Decides
    <3>4. Catalog!Counts(op[b])'
      BY <1>1, <3>1 DEF Catalog!Counts
    <3> QED BY <3>2, <3>3, <3>4
  <2> QED BY <2>1, <2>2, <2>3
<1> QED BY <1>2, <1>3, <1>4, <1>5, <1>6 DEF Catalog!CatalogInv

\* How Lands moves the actors.
LEMMA LandsIs ==
  ASSUME Catalog!TypeOK, NEW a \in Panels, NEW s \in Catalog!Operation, Catalog!Lands(a, s)
  PROVE  /\ op' \in [Panels -> Catalog!Operation]
         /\ \A b \in Panels : op'[b] \in {s, Catalog!Disturbed(op[b])}
<1>1. \A b \in Panels : Catalog!Disturbed(op[b]) \in Catalog!Operation
  BY DEF Catalog!Disturbed, Catalog!TypeOK, Catalog!Operation
<1>2. op' = [b \in Panels |-> IF b = a THEN s ELSE Catalog!Disturbed(op[b])]
  BY DEF Catalog!Lands
<1> QED BY <1>1, <1>2

\* Whoever asked nothing of the overlay ends, or goes on to what the tables let it write.
LEMMA FinishInv ==
  ASSUME Catalog!CatalogInv, NEW a \in Panels, NEW s \in Catalog!Operation, Catalog!Finish(a, s),
         Catalog!Rebuilds(a, s), Catalog!Decides(s), Catalog!Counts(s)
  PROVE  Catalog!CatalogInv'
BY OpMoves DEF Catalog!Finish, Catalog!Move

LEMMA RenameInv ==
  ASSUME Catalog!CatalogInv, NEW a \in Panels, NEW w \in Watched, Catalog!Rename(a, w)
  PROVE  Catalog!CatalogInv'
<1>1. PICK n \in Catalog!Stored :
        Catalog!Finish(a, [Catalog!Request("patch", w, n, nodes[n]) EXCEPT !.at = "write"])
  BY DEF Catalog!Rename
<1>2. n \in NodeIDs /\ nodes[n] \in Catalog!Names /\ (n \in padded \/ nodes[n] \notin BuiltInNames)
  BY DEF Catalog!Stored, Catalog!CatalogInv, Catalog!TypeOK, Catalog!CatalogSound, Catalog!RowsBuild
<1> DEFINE r == Catalog!Request("patch", w, n, nodes[n])
           s == [r EXCEPT !.at = "write"]
<1>3. /\ r \in Catalog!Operation /\ r.kind = "patch" /\ r.replica = w /\ r.name = nodes[n]
      /\ r.node = n
  BY <1>2, RequestTyped DEF Catalog!Looking
<1> HIDE DEF r
<1>4. /\ s \in Catalog!Operation /\ s.at = "write" /\ s.replica = w /\ s.name = nodes[n]
      /\ s.node = n
  BY <1>3 DEF Catalog!Operation
<1>5. Catalog!Finish(a, s)
  BY <1>1 DEF r
<1> HIDE DEF s
<1>6. Catalog!Rebuilds(a, s) /\ Catalog!Decides(s) /\ Catalog!Counts(s)
  BY <1>2, <1>4 DEF Catalog!Rebuilds, Catalog!Decides, Catalog!Counts
<1> QED BY <1>4, <1>5, <1>6, FinishInv

\* Whoever wrote a node owes it.
LEMMA WrittenIs ==
  ASSUME NEW r \in Catalog!Operation, NEW owed \in Nat
  PROVE  LET s == [r EXCEPT !.at = "written", !.owed = owed, !.node = Catalog!None,
                            !.name = Catalog!None, !.pad = FALSE]
         IN s \in Catalog!Operation /\ s.at = "written" /\ s.owed = owed /\ s.replica = r.replica
<1>1. Catalog!None \in Catalog!Names /\ Catalog!None \in Catalog!Rows
  BY DEF Catalog!Names, Catalog!Rows
<1>2. ASSUME NEW pad \in BOOLEAN, NEW none, none = Catalog!None
      PROVE  LET s == [r EXCEPT !.at = "written", !.owed = owed, !.node = none, !.name = none,
                                !.pad = pad]
             IN s \in Catalog!Operation /\ s.at = "written" /\ s.owed = owed /\ s.replica = r.replica
  BY <1>1, <1>2 DEF Catalog!Operation
<1> QED BY Zenon, <1>2

LEMMA StoreNodeInv ==
  ASSUME Catalog!CatalogInv, NEW a \in Panels, Catalog!StoreNode(a)
  PROVE  Catalog!CatalogInv'
<1> DEFINE n == op[a].node
           s == [op[a] EXCEPT !.at = "written", !.owed = version + 1,
                              !.node = Catalog!None, !.name = Catalog!None, !.pad = FALSE]
<1>1. /\ Catalog!TypeOK /\ op[a] \in Catalog!Operation /\ op[a].at = "write"
      /\ op[a].kind \in {"create", "patch"} /\ op[a].replica \in Watched
      /\ op[a].name \in Catalog!Names /\ op[a].pad \in BOOLEAN /\ n \in Catalog!Rows
      /\ (op[a].pad \/ n \in padded \/ op[a].name \notin BuiltInNames)
      /\ padded \subseteq Catalog!Rows /\ version \in Nat /\ Catalog!RowsBuild
  BY DEF Catalog!StoreNode, Catalog!CatalogInv, Catalog!CatalogSound, Catalog!TypeOK,
         Catalog!Operation, Catalog!Decides, Catalog!Counts
<1>2. CASE Catalog!Finish(a, Catalog!Idle)
  BY <1>2, CatalogIdle, IdleHolds, FinishInv
<1>3. CASE /\ nodes' = [nodes EXCEPT ![n] = op[a].name] /\ version' = version + 1
           /\ padded' = IF op[a].pad THEN padded \union {n} ELSE padded
           /\ Catalog!Lands(a, s)
           /\ UNCHANGED <<combos, aliases, cached, builder, answered, faults, sound>>
  <2>1. s \in Catalog!Operation /\ s.at = "written" /\ s.owed = version + 1 /\ s.replica \in Watched
    <3> DEFINE r == op[a]
    <3>1. r \in Catalog!Operation /\ r.replica \in Watched
      BY <1>1
    <3>2. s = [r EXCEPT !.at = "written", !.owed = version + 1,
                        !.node = Catalog!None, !.name = Catalog!None, !.pad = FALSE]
      OBVIOUS
    <3> HIDE DEF r, s
    <3>3. version + 1 \in Nat
      BY <1>1
    <3> QED BY <3>1, <3>2, <3>3, WrittenIs
  <2> HIDE DEF s
  <2>2. nodes' \in [NodeIDs -> Catalog!Names]
    BY <1>1, <1>3 DEF Catalog!TypeOK
  <2>3. padded \subseteq padded' /\ padded' \subseteq Catalog!Rows
    BY <1>1, <1>3
  <2>4. Catalog!RowsBuild'
    <3>1. \A m \in NodeIDs : nodes'[m] = IF m = n THEN op[a].name ELSE nodes[m]
      BY <1>1, <1>3 DEF Catalog!TypeOK
    <3>2. op[a].pad => n \in padded'
      BY <1>3
    <3> QED BY <1>1, <2>3, <3>1, <3>2 DEF Catalog!RowsBuild
  <2>5. /\ op' \in [Panels -> Catalog!Operation]
        /\ \A b \in Panels : op'[b] \in {s, Catalog!Disturbed(op[b])}
    BY <1>1, <1>3, <2>1, LandsIs
  <2>6. s.owed <= version'
    BY <1>1, <1>3, <2>1
  <2>7. combos' \in [ComboNames -> Catalog!Names] /\ aliases' \in [AliasNames -> Catalog!Names]
    BY <1>1, <1>3 DEF Catalog!TypeOK
  <2> QED BY <1>3, <2>1, <2>2, <2>3, <2>4, <2>5, <2>6, <2>7, LandInv
<1> QED BY <1>2, <1>3 DEF Catalog!StoreNode

LEMMA StoreReferenceInv ==
  ASSUME Catalog!CatalogInv, NEW a \in Panels, Catalog!StoreReference(a)
  PROVE  Catalog!CatalogInv'
<1>1. /\ Catalog!TypeOK /\ op[a].name \in Catalog!Names /\ Catalog!Lands(a, Catalog!Idle)
      /\ UNCHANGED <<nodes, cached, builder, version, answered, padded, faults, sound>>
      /\ \/ combos' = [combos EXCEPT ![op[a].node] = op[a].name] /\ UNCHANGED aliases
         \/ aliases' = [aliases EXCEPT ![op[a].node] = op[a].name] /\ UNCHANGED combos
  BY DEF Catalog!StoreReference, Catalog!CatalogInv, Catalog!TypeOK, Catalog!Operation
<1>2. /\ combos' \in [ComboNames -> Catalog!Names] /\ aliases' \in [AliasNames -> Catalog!Names]
      /\ nodes' \in [NodeIDs -> Catalog!Names] /\ padded' \subseteq Catalog!Rows
  BY <1>1 DEF Catalog!TypeOK
<1>3. Catalog!RowsBuild'
  BY <1>1 DEF Catalog!CatalogInv, Catalog!CatalogSound, Catalog!RowsBuild
<1>4. /\ op' \in [Panels -> Catalog!Operation]
      /\ \A b \in Panels : op'[b] \in {Catalog!Idle, Catalog!Disturbed(op[b])}
  BY <1>1, CatalogIdle, LandsIs
<1> QED BY <1>1, <1>2, <1>3, <1>4, CatalogIdle, LandInv

\* What is to be erased was named by nothing when it was looked at.
LEMMA EraseInv ==
  ASSUME Catalog!CatalogInv, NEW a \in Panels, NEW w \in Watched, Catalog!Erase(a, w)
  PROVE  Catalog!CatalogInv'
<1>1. ASSUME NEW k \in {"delete", "uncombo"}, NEW n \in NodeIDs \union ComboNames,
             k = "delete" => Catalog!Spelled(n, nodes[n]) \intersect Catalog!References = {},
             k = "uncombo" => \A x \in AliasNames : aliases[x] # n,
             Catalog!Finish(a, [Catalog!Request(k, w, n, Catalog!None) EXCEPT !.at = "erase"])
      PROVE  Catalog!CatalogInv'
  <2> DEFINE r == Catalog!Request(k, w, n, Catalog!None)
             s == [r EXCEPT !.at = "erase"]
  <2>0. /\ k \in Catalog!Looking \union {"delete", "uncombo"} /\ Catalog!None \in Catalog!Names
        /\ n \in NodeIDs \union ComboNames \union AliasNames \union {Catalog!None}
    BY DEF Catalog!Names
  <2>1. r \in Catalog!Operation /\ r.kind = k /\ r.node = n /\ r.replica = w
    BY <2>0, RequestTyped
  <2> HIDE DEF r
  <2>2. s \in Catalog!Operation /\ s.at = "erase" /\ s.kind = k /\ s.node = n /\ s.replica = w
    BY <2>1 DEF Catalog!Operation
  <2>3. Catalog!Finish(a, s)
    BY <1>1 DEF r
  <2> HIDE DEF s
  <2>4. Catalog!Rebuilds(a, s) /\ Catalog!Decides(s) /\ Catalog!Counts(s)
    BY <1>1, <2>2 DEF Catalog!Rebuilds, Catalog!Decides, Catalog!Counts
  <2> QED BY <2>2, <2>3, <2>4, FinishInv
<1>2. CASE \E n \in Catalog!Stored :
             /\ Catalog!Spelled(n, nodes[n]) \intersect Catalog!References = {}
             /\ Catalog!Finish(a, [Catalog!Request("delete", w, n, Catalog!None) EXCEPT !.at = "erase"])
  BY <1>1, <1>2 DEF Catalog!Stored
<1>3. CASE \E c \in ComboNames :
             /\ \A x \in AliasNames : aliases[x] # c
             /\ Catalog!Finish(a, [Catalog!Request("uncombo", w, c, Catalog!None) EXCEPT !.at = "erase"])
  BY <1>1, <1>3
<1> QED BY <1>2, <1>3 DEF Catalog!Erase

LEMMA DeleteCascadeInv ==
  ASSUME Catalog!CatalogInv, NEW a \in Panels, Catalog!DeleteCascade(a)
  PROVE  Catalog!CatalogInv'
<1> DEFINE n == op[a].node
           s == [op[a] EXCEPT !.at = "written", !.owed = version + 1,
                              !.node = Catalog!None, !.name = Catalog!None, !.pad = FALSE]
           unnamed == op[a].alone => {n, nodes[n]} \intersect Catalog!References = {}
<1>1. /\ Catalog!TypeOK /\ op[a] \in Catalog!Operation /\ op[a].at = "erase" /\ op[a].kind = "delete"
      /\ op[a].replica \in Watched /\ sound \in BOOLEAN /\ unnamed
      /\ version \in Nat /\ padded \subseteq Catalog!Rows /\ Catalog!RowsBuild
  BY DEF Catalog!DeleteCascade, Catalog!CatalogInv, Catalog!CatalogSound, Catalog!TypeOK,
         Catalog!Decides, Catalog!Counts, Catalog!Spelled
<1>2. CASE Catalog!Finish(a, Catalog!Idle)
  BY <1>2, CatalogIdle, IdleHolds, FinishInv
<1>3. CASE /\ nodes' = [nodes EXCEPT ![n] = Catalog!None] /\ version' = version + 1
           /\ sound' = (sound /\ unnamed) /\ Catalog!Lands(a, s)
           /\ UNCHANGED <<combos, aliases, cached, builder, answered, padded, faults>>
  <2>1. s \in Catalog!Operation /\ s.at = "written" /\ s.owed = version + 1 /\ s.replica \in Watched
    <3> DEFINE r == op[a]
    <3>1. r \in Catalog!Operation /\ r.replica \in Watched
      BY <1>1
    <3>2. s = [r EXCEPT !.at = "written", !.owed = version + 1,
                        !.node = Catalog!None, !.name = Catalog!None, !.pad = FALSE]
      OBVIOUS
    <3> HIDE DEF r, s
    <3>3. version + 1 \in Nat
      BY <1>1
    <3> QED BY <3>1, <3>2, <3>3, WrittenIs
  <2> HIDE DEF s
  <2>2. nodes' \in [NodeIDs -> Catalog!Names]
    BY <1>1, <1>3 DEF Catalog!TypeOK, Catalog!Names
  <2>3. Catalog!RowsBuild'
    <3>1. \A m \in NodeIDs : nodes'[m] \in {nodes[m], Catalog!None}
      BY <1>1, <1>3 DEF Catalog!TypeOK
    <3> QED BY <1>1, <1>3, <3>1, CatalogConstants DEF Catalog!RowsBuild, Catalog!None
  <2>4. /\ op' \in [Panels -> Catalog!Operation]
        /\ \A b \in Panels : op'[b] \in {s, Catalog!Disturbed(op[b])}
    BY <1>1, <1>3, <2>1, LandsIs
  <2>5. s.owed <= version'
    BY <1>1, <1>3, <2>1
  <2>6. combos' \in [ComboNames -> Catalog!Names] /\ aliases' \in [AliasNames -> Catalog!Names]
    BY <1>1, <1>3 DEF Catalog!TypeOK
  <2>7. sound' = sound
    BY Zenon, <1>1, <1>3
  <2> QED BY <1>1, <1>3, <2>1, <2>2, <2>3, <2>4, <2>5, <2>6, <2>7, LandInv
<1> QED BY <1>2, <1>3 DEF Catalog!DeleteCascade

LEMMA DeleteComboInv ==
  ASSUME Catalog!CatalogInv, NEW a \in Panels, Catalog!DeleteCombo(a)
  PROVE  Catalog!CatalogInv'
<1> DEFINE unnamed == op[a].alone => \A x \in AliasNames : aliases[x] # op[a].node
<1>1. /\ Catalog!TypeOK /\ sound \in BOOLEAN /\ unnamed
      /\ combos' = [combos EXCEPT ![op[a].node] = Catalog!None]
      /\ sound' = (sound /\ unnamed) /\ Catalog!Lands(a, Catalog!Idle)
      /\ UNCHANGED <<nodes, aliases, cached, builder, version, answered, padded, faults>>
  BY DEF Catalog!DeleteCombo, Catalog!CatalogInv, Catalog!TypeOK, Catalog!Decides
<1>2. sound' = sound
  BY Zenon, <1>1
<1>3. /\ combos' \in [ComboNames -> Catalog!Names] /\ aliases' \in [AliasNames -> Catalog!Names]
      /\ nodes' \in [NodeIDs -> Catalog!Names] /\ padded' \subseteq Catalog!Rows
  BY <1>1 DEF Catalog!TypeOK, Catalog!Names
<1>4. Catalog!RowsBuild'
  BY <1>1 DEF Catalog!CatalogInv, Catalog!CatalogSound, Catalog!RowsBuild
<1>5. /\ op' \in [Panels -> Catalog!Operation]
      /\ \A b \in Panels : op'[b] \in {Catalog!Idle, Catalog!Disturbed(op[b])}
  BY <1>1, CatalogIdle, LandsIs
<1> QED BY <1>1, <1>2, <1>3, <1>4, <1>5, CatalogIdle, LandInv

\* Another replica's panel writes a node.
LEMMA WrittenElsewhereInv ==
  ASSUME Catalog!CatalogInv, Catalog!WrittenElsewhere
  PROVE  Catalog!CatalogInv'
<1>1. PICK n \in NodeIDs, p \in (NodePrefixes \ BuiltInNames) \union {Catalog!None} :
        nodes' = [nodes EXCEPT ![n] = p]
  BY DEF Catalog!WrittenElsewhere
<1>2. /\ Catalog!TypeOK /\ version' = version + 1
      /\ op' = [b \in Panels |-> Catalog!Disturbed(op[b])]
      /\ UNCHANGED <<combos, aliases, cached, builder, answered, padded, faults, sound>>
      /\ padded \subseteq Catalog!Rows /\ Catalog!RowsBuild
  BY DEF Catalog!WrittenElsewhere, Catalog!CatalogInv, Catalog!TypeOK, Catalog!CatalogSound
<1>3. /\ combos' \in [ComboNames -> Catalog!Names] /\ aliases' \in [AliasNames -> Catalog!Names]
      /\ nodes' \in [NodeIDs -> Catalog!Names]
  BY <1>1, <1>2 DEF Catalog!TypeOK, Catalog!Names
<1>4. Catalog!RowsBuild'
  <2>1. \A m \in NodeIDs : nodes'[m] \in {nodes[m], p}
    BY <1>1, <1>2 DEF Catalog!TypeOK
  <2> QED BY <1>1, <1>2, <2>1, CatalogConstants DEF Catalog!RowsBuild, Catalog!None
<1>5. \A b \in Panels : Catalog!Disturbed(op[b]) \in Catalog!Operation
  BY <1>2 DEF Catalog!Disturbed, Catalog!TypeOK, Catalog!Operation
<1>6. /\ op' \in [Panels -> Catalog!Operation]
      /\ \A b \in Panels : op'[b] \in {Catalog!Idle, Catalog!Disturbed(op[b])}
  BY <1>2, <1>5
<1> QED BY <1>2, <1>3, <1>4, <1>6, CatalogIdle, LandInv

\* An overlay gets older.
LEMMA OlderIs ==
  ASSUME NEW v \in Catalog!Overlay
  PROVE  /\ Catalog!Older(v) \in Catalog!Overlay /\ Catalog!Older(v).fallback = v.fallback
         /\ Catalog!Older(v).built /\ Catalog!Older(v).age < OverlayTTL =>
              /\ v.built /\ v.age < OverlayTTL /\ Catalog!Older(v).fallback = v.fallback
              /\ Catalog!Older(v).version = v.version
              /\ Catalog!Older(v).age = v.age + 1 /\ Catalog!Older(v).old = v.old + 1
<1>0. OverlayTTL \in Nat /\ v.age \in Nat /\ v.old \in Nat /\ v.built \in BOOLEAN
  BY CatalogTimes DEF Catalog!Overlay
<1>1. CASE ~v.built
  BY <1>1 DEF Catalog!Older
<1>2. CASE v.built /\ v.age + 1 < OverlayTTL
  <2> DEFINE o == [v EXCEPT !.age = @ + 1, !.old = @ + 1]
  <2>1. Catalog!Older(v) = o
    BY <1>2 DEF Catalog!Older
  <2>2. /\ o \in Catalog!Overlay /\ o.fallback = v.fallback /\ o.version = v.version
        /\ o.age = v.age + 1 /\ o.old = v.old + 1
    <3>1. v.age + 1 \in Nat /\ v.old + 1 \in Nat
      BY <1>0
    <3>2. ASSUME NEW age \in Nat, NEW old \in Nat
          PROVE  LET e == [v EXCEPT !.age = age, !.old = old]
                 IN /\ e \in Catalog!Overlay /\ e.fallback = v.fallback
                    /\ e.version = v.version /\ e.age = age /\ e.old = old
      BY DEF Catalog!Overlay
    <3>3. o = [v EXCEPT !.age = v.age + 1, !.old = v.old + 1]
      BY DEF Catalog!Overlay
    <3> QED BY Zenon, <3>1, <3>2, <3>3
  <2> HIDE DEF o
  <2> QED BY <1>0, <1>2, <2>1, <2>2
<1>3. CASE v.built /\ ~(v.age + 1 < OverlayTTL)
  <2> DEFINE o == [v EXCEPT !.age = OverlayTTL, !.old = 0, !.version = 0]
  <2>1. Catalog!Older(v) = o
    BY <1>3 DEF Catalog!Older
  <2>2. o \in Catalog!Overlay /\ o.age = OverlayTTL /\ o.fallback = v.fallback
    BY <1>0 DEF Catalog!Overlay
  <2> HIDE DEF o
  <2> QED BY <1>0, <2>1, <2>2
<1> QED BY <1>0, <1>1, <1>2, <1>3

LEMMA CatalogTickInv ==
  ASSUME Catalog!CatalogInv, Catalog!Tick
  PROVE  Catalog!CatalogInv'
<1>1. /\ Catalog!TypeOK
      /\ \A a \in Panels : op[a].at = "build" => op[a].view.old < RebuildMax
      /\ cached' = [w \in Watched |-> Catalog!Older(cached[w])]
      /\ op' = [a \in Panels |-> IF op[a].at = "build" THEN [op[a] EXCEPT !.view.old = @ + 1] ELSE op[a]]
      /\ UNCHANGED <<nodes, combos, aliases, builder, version, answered, padded, faults, sound>>
  BY DEF Catalog!CatalogInv, Catalog!Tick
<1>2. \A w \in Watched : cached[w] \in Catalog!Overlay /\ cached'[w] = Catalog!Older(cached[w])
  BY <1>1 DEF Catalog!TypeOK
<1>3. cached' \in [Watched -> Catalog!Overlay]
  BY <1>1, <1>2, OlderIs
<1>4. ASSUME NEW a \in Panels
      PROVE  /\ op'[a] \in Catalog!Operation
             /\ (Catalog!Rebuilds(a, op[a]) /\ Catalog!Decides(op[a]) /\ Catalog!Counts(op[a]))'
  <2>1. Catalog!Rebuilds(a, op[a]) /\ Catalog!Decides(op[a]) /\ Catalog!Counts(op[a])
    BY DEF Catalog!CatalogInv
  <2>2. CASE op[a].at # "build"
    <3>1. op'[a] = op[a] /\ op[a] \in Catalog!Operation
      BY <1>1, <2>2 DEF Catalog!TypeOK
    <3>2. Catalog!Rebuilds(a, op[a])'
      BY <1>1, <2>1, <3>1 DEF Catalog!Rebuilds
    <3>3. Catalog!Decides(op[a])'
      <4> DEFINE r == op'[a]
      <4>1. Catalog!Decides(r)
        BY <2>1, <3>1
      <4>2. UNCHANGED <<nodes, combos, aliases, padded>>
        BY <1>1
      <4> QED BY <4>1, <4>2 DEF Catalog!Decides, Catalog!Spelled, Catalog!References
    <3>4. Catalog!Counts(op[a])'
      BY <1>1, <2>1, <3>1 DEF Catalog!Counts
    <3> QED BY <3>1, <3>2, <3>3, <3>4
  <2>3. CASE op[a].at = "build"
    <3> DEFINE r == op[a]
               s == [r EXCEPT !.view.old = @ + 1]
    <3>1. /\ op'[a] = s /\ r \in Catalog!Operation /\ r.at = "build" /\ r.view.old < RebuildMax
          /\ r.kind \in Catalog!Looking /\ builder[r.replica] = a /\ r.owed = answered[r.replica]
          /\ r.view.version >= r.owed /\ r.replica \in Watched /\ r.view.fallback = FALSE
          /\ \A n \in NodeIDs : r.view.nodes[n] \in BuiltInNames => n \in padded
      BY <1>1, <2>1, <2>3 DEF Catalog!TypeOK, Catalog!Rebuilds, Catalog!Counts
    <3> HIDE DEF r
    <3>2. /\ s \in Catalog!Operation /\ s.at = "build" /\ s.kind = r.kind /\ s.replica = r.replica
          /\ s.owed = r.owed /\ s.view.version = r.view.version /\ s.view.old = r.view.old + 1
          /\ s.view.nodes = r.view.nodes /\ s.view.fallback = r.view.fallback
          /\ r.view.old \in Nat
      BY <3>1 DEF Catalog!Operation, Catalog!Overlay
    <3> HIDE DEF s
    <3>3. s.view.old <= RebuildMax
      BY <3>1, <3>2, CatalogTimes
    <3>4. Catalog!Rebuilds(a, op[a])'
      BY <1>1, <3>1, <3>2, <3>3 DEF Catalog!Rebuilds
    <3> QED BY <1>1, <3>1, <3>2, <3>4 DEF Catalog!Decides, Catalog!Counts
  <2> QED BY <2>2, <2>3
<1>5. Catalog!TypeOK'
  <2>1. op' \in [Panels -> Catalog!Operation]
    BY <1>1, <1>4
  <2> QED BY <1>1, <1>3, <2>1 DEF Catalog!TypeOK
<1>6. Catalog!CatalogSound' /\ \A w \in Watched : answered'[w] <= version'
  <2>1. \A w \in Watched : cached'[w].fallback = cached[w].fallback
    BY <1>2, OlderIs
  <2> QED
    BY <1>1, <2>1
       DEF Catalog!CatalogInv, Catalog!CatalogSound, Catalog!RowsBuild, Catalog!FallbackEarned
<1>7. Catalog!OverlaysShow'
  <2> SUFFICES ASSUME NEW w \in Watched, Catalog!Fresh(w)'
               PROVE  \/ cached'[w].fallback
                      \/ /\ cached'[w].version >= answered'[w]
                         /\ cached'[w].old <= cached'[w].age + RebuildMax
    BY DEF Catalog!OverlaysShow
  <2>1. /\ cached[w].built /\ cached[w].age < OverlayTTL /\ cached'[w].fallback = cached[w].fallback
        /\ cached'[w].version = cached[w].version
        /\ cached'[w].age = cached[w].age + 1 /\ cached'[w].old = cached[w].old + 1
    BY <1>2, OlderIs DEF Catalog!Fresh
  <2>2. \/ cached[w].fallback
        \/ cached[w].version >= answered[w] /\ cached[w].old <= cached[w].age + RebuildMax
    BY <2>1 DEF Catalog!CatalogInv, Catalog!OverlaysShow, Catalog!Fresh
  <2>3. cached[w].age \in Nat /\ cached[w].old \in Nat /\ RebuildMax \in Nat
    BY <1>2, CatalogTimes DEF Catalog!Overlay
  <2> QED BY <1>1, <2>1, <2>2, <2>3
<1> QED BY <1>4, <1>5, <1>6, <1>7 DEF Catalog!CatalogInv

LEMMA CatalogStart == Catalog!Init => Catalog!CatalogInv
<1> SUFFICES ASSUME Catalog!Init PROVE Catalog!CatalogInv
  OBVIOUS
<1>1. Catalog!TypeOK
  BY CatalogIdle, CatalogConstants
     DEF Catalog!Init, Catalog!TypeOK, Catalog!Names, Catalog!None
<1>2. Catalog!CatalogSound
  BY CatalogConstants, CatalogIdle
     DEF Catalog!Init, Catalog!CatalogSound, Catalog!RowsBuild, Catalog!FallbackEarned, Catalog!None
<1>3. Catalog!OverlaysShow
  BY CatalogIdle DEF Catalog!Init, Catalog!OverlaysShow, Catalog!Fresh
<1>4. \A w \in Watched : answered[w] <= version
  BY DEF Catalog!Init
<1>5. \A a \in Panels : Catalog!Rebuilds(a, op[a]) /\ Catalog!Decides(op[a]) /\ Catalog!Counts(op[a])
  BY CatalogIdle, IdleHolds DEF Catalog!Init
<1> QED BY <1>1, <1>2, <1>3, <1>4, <1>5 DEF Catalog!CatalogInv

LEMMA CatalogStep == Catalog!CatalogInv /\ Catalog!Next => Catalog!CatalogInv'
<1> SUFFICES ASSUME Catalog!CatalogInv, Catalog!Next PROVE Catalog!CatalogInv'
  OBVIOUS
<1>1. CASE \E a \in Panels : Catalog!Step(a)
  BY <1>1, LoadNodesInv, BuildInv, InvalidateInv, StoreNodeInv, StoreReferenceInv, DeleteCascadeInv,
     DeleteComboInv DEF Catalog!Step
<1>2. CASE \E a \in Panels, w \in Watched : Catalog!Ask(a, w) \/ Catalog!Rename(a, w) \/ Catalog!Erase(a, w)
  BY <1>2, AskNameInv, RenameInv, EraseInv
<1>3. CASE Catalog!WrittenElsewhere
  BY <1>3, WrittenElsewhereInv
<1>4. CASE Catalog!Tick
  BY <1>4, CatalogTickInv
<1> QED BY <1>1, <1>2, <1>3, <1>4 DEF Catalog!Next

LEMMA CatalogStutter ==
  ASSUME Catalog!CatalogInv,
         UNCHANGED <<nodes, combos, aliases, cached, builder, op, version, answered, padded,
                     faults, sound>>
  PROVE  Catalog!CatalogInv'
<1>1. /\ Catalog!TypeOK' /\ Catalog!CatalogSound' /\ Catalog!OverlaysShow'
      /\ \A w \in Watched : answered'[w] <= version'
  BY DEF Catalog!CatalogInv, Catalog!TypeOK, Catalog!CatalogSound, Catalog!RowsBuild,
         Catalog!FallbackEarned, Catalog!OverlaysShow, Catalog!Fresh
<1>2. \A a \in Panels : (Catalog!Rebuilds(a, op[a]) /\ Catalog!Decides(op[a]) /\ Catalog!Counts(op[a]))'
  BY DEF Catalog!CatalogInv, Catalog!Rebuilds, Catalog!Decides, Catalog!Counts, Catalog!Spelled,
         Catalog!References
<1> QED BY <1>1, <1>2 DEF Catalog!CatalogInv

\* NodeCatalog: a lookup serves what this replica's panel wrote before it unless the last rebuild
\* failed; a rebuild fails only on a read that failed or on a row a PATCH stored with blanks
\* around its prefix; and a node or combo nobody wrote around is erased with nothing naming it
\* (cmd/app-serv/provider_index.go, service/provider_node.go).
THEOREM CatalogHolds == Spec => []CatalogSound
<1> DEFINE Inv == part = "catalog" => Catalog!CatalogInv
<1>1. Init => Inv
  BY CatalogStart DEF Init, Picked
<1>2. Inv /\ [Next]_wiresVars => Inv'
  <2> SUFFICES ASSUME Inv, [Next]_wiresVars, part' = "catalog" PROVE Catalog!CatalogInv'
    OBVIOUS
  <2>1. CASE Next
    <3>1. part = "catalog" /\ Catalog!Next
      BY <2>1 DEF Next
    <3> QED BY <3>1, CatalogStep
  <2>2. CASE UNCHANGED wiresVars
    <3>1. /\ part = "catalog"
          /\ UNCHANGED <<nodes, combos, aliases, cached, builder, op, version, answered, padded, faults, sound>>
      BY <2>2 DEF wiresVars
    <3> QED BY <3>1, CatalogStutter
  <2> QED BY <2>1, <2>2
<1>3. Inv => CatalogSound
  BY DEF CatalogSound, Catalog!CatalogInv
<1> QED BY <1>1, <1>2, <1>3, PTL DEF Spec

-----------------------------------------------------------------------------
(* What connectors keep.                                                   *)

LEMMA CachesConstants ==
  /\ nobody \notin Callers /\ Exchanged \subseteq Holders
  /\ \A life \in Lifetimes : life.ticks \in Nat
  /\ Buffer \in Nat /\ ExchangeMax \in Nat /\ IdentityTTL \in Nat /\ CatalogTTL \in Nat
  /\ MissTTL \in Nat /\ FetchMax \in Nat
  /\ FirstOffer \in [Holders -> SUBSET Offered] /\ MaxMisses \in Nat \ {0}
  BY WiresAssumption DEF Caches!ConnectorCachesAssumption

LEMMA NeverIs == Caches!Never \in Int /\ Caches!Never <= -1
  BY CachesConstants DEF Caches!Never

LEMMA MissesPositive == MaxMisses \in Nat /\ MaxMisses >= 1
<1>1. MaxMisses \in Nat \ {0}
  BY CachesConstants
<1> QED BY <1>1

LEMMA ScopeIs ==
  /\ \A a \in Holders : Caches!Scope(a) \in Caches!Scopes
  /\ \A a, b : Caches!Scope(a) = Caches!Scope(b) => a = b
<1>1. \A a : Caches!Scope(a).account = a
  BY DEF Caches!Scope
<1>2. \A a, b : Caches!Scope(a) = Caches!Scope(b) => a = b
  BY <1>1
<1>3. \A a \in Holders : Caches!Scope(a) \in Caches!Scopes
  BY DEF Caches!Scopes
<1> QED BY <1>2, <1>3

LEMMA NoTokenIs == Caches!NoToken \in Caches!Token
  BY DEF Caches!NoToken, Caches!Nothing, Caches!Token

LEMMA IdleCallIs ==
  /\ Caches!Idle \in Caches!Calling /\ Caches!Idle.at = "idle" /\ Caches!Idle.goal = "chat"
  /\ Caches!Idle.true /\ ~Caches!Idle.ok /\ Caches!Idle.stamp = 0
  BY NoTokenIs DEF Caches!Idle, Caches!Calling, Caches!Stages, Caches!NoModel

\* A call that ends having been told the truth.
LEMMA OverIs ==
  ASSUME clock \in Nat, NEW truth, truth = TRUE
  PROVE  /\ Caches!Over(truth) \in Caches!Calling /\ Caches!Honest(Caches!Over(truth))
         /\ Caches!Over(truth).at = "idle" /\ Caches!Over(truth).goal = "chat"
<1> DEFINE s == Caches!Over(truth)
           i == Caches!Idle
<1>1. s = [i EXCEPT !.true = truth]
  BY DEF Caches!Over
<1>2. i \in Caches!Calling /\ i.at = "idle" /\ i.goal = "chat" /\ ~i.ok /\ i.stamp = 0
  BY IdleCallIs
<1> HIDE DEF s, i
<1>3. ASSUME NEW b \in BOOLEAN, s = [i EXCEPT !.true = b]
      PROVE  /\ s \in Caches!Calling /\ s.at = "idle" /\ s.goal = "chat" /\ s.ok = i.ok
             /\ s.stamp = 0 /\ s.true = b
  BY <1>2, <1>3 DEF Caches!Calling
<1>4. s \in Caches!Calling /\ s.at = "idle" /\ s.goal = "chat" /\ s.ok = i.ok /\ s.stamp = 0 /\ s.true = TRUE
  BY Zenon, <1>1, <1>3
<1>5. Caches!Honest(s)
  BY <1>2, <1>4 DEF Caches!Honest
<1> QED BY <1>4, <1>5 DEF s

\* A call that may sign, and what signing makes of it.
ToSign(r) ==
  /\ r.true /\ r.stamp <= clock /\ r.account \in Holders /\ ~r.ok /\ r.goal \in {"chat", "list"}
  /\ r.goal = "list" => r.model \in Offered
Signs(r, s) ==
  /\ s \in Caches!Calling /\ Caches!Honest(s) /\ s.goal = r.goal /\ s.at # "wait"
  /\ r.goal = "list" => s.account = r.account

LEMMA SignedIs ==
  ASSUME clock \in Nat, NEW r \in Caches!Calling, ToSign(r), NEW token \in Caches!Token,
         NEW reused \in BOOLEAN,
         r.goal = "chat" /\ reused => token.dies - clock > Buffer - (2 * ExchangeMax)
  PROVE  Signs(r, Caches!Signed(r, token, reused))
<1> DEFINE s == Caches!Signed(r, token, reused)
<1>1. CASE r.goal = "list"
  <2>1. s = [r EXCEPT !.at = "list", !.token = Caches!NoToken, !.since = 0]
    BY <1>1 DEF Caches!Signed
  <2> HIDE DEF s
  <2>2. /\ s \in Caches!Calling /\ s.at = "list" /\ s.goal = r.goal /\ s.account = r.account
        /\ s.true = r.true /\ s.stamp = r.stamp /\ s.ok = r.ok /\ s.model = r.model
    BY <2>1, NoTokenIs DEF Caches!Calling, Caches!Stages
  <2>3. Caches!Honest(s)
    BY <1>1, <2>2 DEF ToSign, Caches!Honest
  <2> QED BY <1>1, <2>2, <2>3 DEF Signs, s
<1>2. CASE r.goal = "chat"
  <2> DEFINE truth == r.true /\ Caches!Lasts(token, reused)
  <2>1. s = Caches!Over(truth)
    BY <1>2 DEF Caches!Signed
  <2>2. truth
    BY <1>2 DEF ToSign, Caches!Lasts
  <2>3. truth = TRUE
    BY Zenon, <2>2
  <2> HIDE DEF truth, s
  <2>4. s \in Caches!Calling /\ Caches!Honest(s) /\ s.at = "idle" /\ s.goal = "chat"
    BY <2>1, <2>3, OverIs
  <2> QED BY <1>2, <2>4 DEF Signs, s
<1> QED BY <1>1, <1>2 DEF ToSign

LEMMA OutlivesIs ==
  ASSUME NEW token \in Caches!Token, NEW now \in Nat, NEW later \in Nat, Caches!Outlives(token, now),
         later <= now + ExchangeMax
  PROVE  token.dies - later > Buffer - (2 * ExchangeMax)
<1>1. token.dies \in Int
  BY DEF Caches!Token
<1>2. token.dies - now > Buffer - ExchangeMax
  BY DEF Caches!Outlives
<1> QED BY <1>1, <1>2, CachesConstants

LEMMA FailedIs ==
  ASSUME clock \in Nat, NEW r \in Caches!Calling, ToSign(r)
  PROVE  Signs(r, Caches!Failed(r))
<1> DEFINE s == Caches!Failed(r)
<1>1. CASE r.goal = "list"
  <2>1. s = [r EXCEPT !.at = "publish", !.token = Caches!NoToken, !.since = 0]
    BY <1>1 DEF Caches!Failed
  <2> HIDE DEF s
  <2>2. /\ s \in Caches!Calling /\ s.at = "publish" /\ s.goal = r.goal /\ s.account = r.account
        /\ s.true = r.true /\ s.stamp = r.stamp /\ s.ok = r.ok /\ s.model = r.model
    BY <2>1, NoTokenIs DEF Caches!Calling, Caches!Stages
  <2>3. Caches!Honest(s)
    BY <1>1, <2>2 DEF ToSign, Caches!Honest
  <2> QED BY <1>1, <2>2, <2>3 DEF Signs, s
<1>2. CASE r.goal = "chat"
  <2>1. s = Caches!Over(TRUE)
    BY <1>2 DEF Caches!Failed
  <2> HIDE DEF s
  <2>2. s \in Caches!Calling /\ Caches!Honest(s) /\ s.at = "idle" /\ s.goal = "chat"
    BY <2>1, OverIs
  <2> QED BY <1>2, <2>2 DEF Signs, s
<1> QED BY <1>1, <1>2 DEF ToSign

LEMMA IdentifiedIs ==
  ASSUME clock \in Nat, NEW r \in Caches!Calling, ToSign(r), NEW token \in Caches!Token,
         NEW reused \in BOOLEAN, reused => Caches!Outlives(token, clock)
  PROVE  Signs(r, Caches!Identified(r, token, reused))
<1> DEFINE s == Caches!Identified(r, token, reused)
<1>1. CASE s = Caches!Signed(r, token, reused)
  <2>1. reused => token.dies - clock > Buffer - (2 * ExchangeMax)
    BY OutlivesIs, CachesConstants
  <2> QED BY <1>1, <2>1, SignedIs
<1>2. CASE s = [r EXCEPT !.at = "whoami", !.since = clock, !.token = token, !.reused = reused]
  <2> HIDE DEF s
  <2>1. /\ s \in Caches!Calling /\ s.at = "whoami" /\ s.goal = r.goal /\ s.account = r.account
        /\ s.true = r.true /\ s.stamp = r.stamp /\ s.ok = r.ok /\ s.model = r.model
        /\ s.since = clock /\ s.token = token /\ s.reused = reused
    BY <1>2 DEF Caches!Calling, Caches!Stages
  <2>2. clock <= s.since + ExchangeMax
    BY <2>1, CachesConstants
  <2>3. Caches!Honest(s)
    BY <2>1, <2>2 DEF ToSign, Caches!Honest
  <2> QED BY <2>1, <2>3 DEF Signs, s
<1>3. CASE s = Caches!Failed(r)
  BY <1>3, FailedIs
<1> QED BY <1>1, <1>2, <1>3 DEF Caches!Identified

\* Signing starts with the token kept, while it lasts.
LEMMA SigningIs ==
  ASSUME Caches!TypeOK, Caches!TokensLast, NEW r \in Caches!Calling, ToSign(r)
  PROVE  Signs(r, Caches!Signing(r))
<1> DEFINE s == Caches!Signing(r)
<1>1. clock \in Nat /\ r.account \in Holders /\ minted[r.account] \in Caches!Token
  BY DEF Caches!TypeOK, ToSign
<1>2. CASE r.account \notin Exchanged
  BY <1>1, <1>2, NoTokenIs, SignedIs DEF Caches!Signing
<1>3. CASE r.account \in Exchanged /\ Caches!Usable(minted[r.account])
  <2> DEFINE t == minted[r.account]
  <2>1. s = Caches!Identified(r, t, TRUE)
    BY <1>3 DEF Caches!Signing
  <2>2. t.until \in Int /\ t.dies \in Int /\ clock < t.until
    BY <1>1, <1>3 DEF Caches!Token, Caches!Usable
  <2>3. t.until <= 0 \/ t.until <= t.dies + ExchangeMax - Buffer
    BY <1>1 DEF Caches!TokensLast
  <2> HIDE DEF t
  <2>4. Caches!Outlives(t, clock)
    BY <1>1, <2>2, <2>3, CachesConstants DEF Caches!Outlives
  <2>5. t \in Caches!Token
    BY <1>1 DEF t
  <2> QED BY <1>1, <2>1, <2>4, <2>5, IdentifiedIs
<1>4. CASE r.account \in Exchanged /\ ~Caches!Usable(minted[r.account])
  <2>1. s = [r EXCEPT !.at = "exchange", !.since = clock]
    BY <1>4 DEF Caches!Signing
  <2> HIDE DEF s
  <2>2. /\ s \in Caches!Calling /\ s.at = "exchange" /\ s.goal = r.goal /\ s.account = r.account
        /\ s.true = r.true /\ s.stamp = r.stamp /\ s.ok = r.ok /\ s.model = r.model
        /\ s.since = clock
    BY <1>1, <2>1 DEF Caches!Calling, Caches!Stages
  <2>3. clock <= s.since + ExchangeMax
    BY <1>1, <2>2, CachesConstants
  <2>4. Caches!Honest(s)
    BY <2>2, <2>3 DEF ToSign, Caches!Honest
  <2> QED BY <2>2, <2>4 DEF Signs, s
<1> QED BY <1>2, <1>3, <1>4

\* What is kept, apart from who calls and who reads.
Shelved ==
  /\ clock \in Nat /\ minted \in [Holders -> Caches!Token]
  /\ known \in [Holders -> [born : Int, at : Int, named : BOOLEAN]]
  /\ configs \in Caches!Times /\ misses \in Caches!Times
  /\ Caches!CopiesTrue /\ Caches!TokensLast
  /\ IsFiniteSet(Caches!Held(misses)) /\ Cardinality(Caches!Held(misses)) <= MaxMisses

LEMMA MissCount ==
  \A S : (Caches!IsFiniteSet(S) <=> IsFiniteSet(S)) /\ Caches!Cardinality(S) = Cardinality(S)
BY DEF Caches!IsFiniteSet, IsFiniteSet, Caches!Cardinality, Cardinality

LEMMA ShelvedNow == Caches!CachesInv => Shelved
  BY MissCount DEF Caches!CachesInv, Caches!TypeOK, Shelved

LEMMA ShelvedStill ==
  ASSUME Caches!CachesInv, UNCHANGED <<clock, minted, known, configs, misses, seen>>
  PROVE  Shelved'
<1>1. Shelved
  BY ShelvedNow
<1> QED BY <1>1 DEF Shelved, Caches!CopiesTrue, Caches!TokensLast, Caches!Held

\* What the vendor was seen to list or leave out only becomes later.
SeenGrows ==
  /\ seen' \in [Caches!Keys -> [listed : Int, missing : Int]] /\ Caches!SeenNow'
  /\ \A k \in Caches!Keys : /\ seen[k].listed = clock => seen'[k].listed = clock
                            /\ seen[k].missing = clock => seen'[k].missing = clock

LEMMA HonestStill ==
  ASSUME NEW x, Caches!Honest(x), UNCHANGED clock, SeenGrows
  PROVE  Caches!Honest(x)'
<1>1. x.ok => Caches!Hears(x.account, x.list)'
  <2> SUFFICES ASSUME x.ok, NEW n \in Offered
               PROVE  IF n \in x.list THEN seen'[<<x.account, n>>].listed = clock
                                      ELSE seen'[<<x.account, n>>].missing = clock
    BY DEF Caches!Hears
  <2>1. /\ x.account \in Holders
        /\ IF n \in x.list THEN seen[<<x.account, n>>].listed = clock
                           ELSE seen[<<x.account, n>>].missing = clock
    BY DEF Caches!Honest, Caches!Hears
  <2>2. <<x.account, n>> \in Caches!Keys
    BY <2>1 DEF Caches!Keys
  <2> QED BY <2>1, <2>2 DEF SeenGrows
<1> QED BY <1>1 DEF Caches!Honest, Caches!Outlives

\* Only what one caller is at changes, and what is kept stays true.
LEMMA CallMovesOn ==
  ASSUME Caches!CachesInv, NEW c \in Callers, NEW s \in Caches!Calling, Caches!Honest(s)',
         call' = [call EXCEPT ![c] = s], Shelved', UNCHANGED <<clock, reading, listed>>, SeenGrows,
         call[c].goal # "chat" => s.goal # "chat" /\ s.account = call[c].account,
         s.goal = "list" => call[c].goal = "list" /\ (s.at # "publish" => call[c].at # "publish"),
         s.at = "wait" => /\ s.read \in Callers /\ s.read # c /\ call[s.read].goal # "chat"
                          /\ call[s.read].account = s.account
  PROVE  Caches!CachesInv'
<1>1. /\ Caches!TypeOK /\ call' \in [Callers -> Caches!Calling] /\ call'[c] = s
      /\ \A d \in Callers : d # c => call'[d] = call[d]
  BY DEF Caches!CachesInv, Caches!TypeOK
<1>2. Caches!TypeOK'
  BY <1>1 DEF Caches!TypeOK, Shelved, SeenGrows
<1>3. Caches!SeenNow'
  BY DEF SeenGrows
<1>4. \A d \in Callers : Caches!Honest(call[d])'
  <2> SUFFICES ASSUME NEW d \in Callers PROVE Caches!Honest(call[d])'
    OBVIOUS
  <2>1. CASE d = c
    BY <1>1, <2>1 DEF Caches!Honest, Caches!Hears, Caches!Outlives
  <2>2. ASSUME d # c, NEW x, x = call[d] PROVE Caches!Honest(call[d])'
    <3>1. Caches!Honest(x) /\ call'[d] = x
      BY <1>1, <2>2 DEF Caches!CachesInv
    <3>2. Caches!Honest(x)'
      BY <3>1, HonestStill
    <3> QED BY <3>1, <3>2 DEF Caches!Honest, Caches!Hears, Caches!Outlives
  <2> QED BY <2>1, <2>2
<1>5. \A d \in Callers : Caches!Leads(d)'
  BY <1>1 DEF Caches!CachesInv, Caches!Leads
<1>6. \A d \in Callers : Caches!Waits(d)'
  <2> SUFFICES ASSUME NEW d \in Callers, call'[d].at = "wait"
               PROVE  /\ call'[d].read \in Callers /\ call'[call'[d].read].goal # "chat"
                      /\ call'[call'[d].read].account = call'[d].account
    BY DEF Caches!Waits
  <2>1. CASE d = c
    BY <1>1, <2>1
  <2>2. CASE d # c
    <3> DEFINE x == call[d].read
    <3>1. /\ call'[d] = call[d] /\ x \in Callers /\ call[x].goal # "chat"
          /\ call[x].account = call[d].account
      BY <1>1, <2>2 DEF Caches!CachesInv, Caches!Waits
    <3>2. CASE x = c
      BY <1>1, <3>1, <3>2
    <3>3. CASE x # c
      BY <1>1, <3>1, <3>3
    <3> QED BY <3>2, <3>3
  <2> QED BY <2>1, <2>2
<1>7. \A v \in Caches!Scopes : Caches!Named(v)'
  <2> SUFFICES ASSUME NEW v \in Caches!Scopes, reading[v] # nobody
               PROVE  call'[reading[v]].goal # "chat" /\ Caches!Scope(call'[reading[v]].account) = v
    BY DEF Caches!Named
  <2> DEFINE x == reading[v]
  <2>1. x \in Callers /\ call[x].goal # "chat" /\ Caches!Scope(call[x].account) = v
    BY <1>1 DEF Caches!CachesInv, Caches!Named, Caches!TypeOK
  <2>2. CASE x = c
    BY <1>1, <2>1, <2>2
  <2>3. CASE x # c
    BY <1>1, <2>1, <2>3
  <2> QED BY <2>2, <2>3
<1>8. Caches!IsFiniteSet(Caches!Held(misses)') /\ Caches!Cardinality(Caches!Held(misses)') <= MaxMisses
  BY MissCount DEF Shelved
<1> QED BY <1>2, <1>3, <1>4, <1>5, <1>6, <1>7, <1>8 DEF Caches!CachesInv, Shelved

LEMMA CallMoves ==
  ASSUME Caches!CachesInv, NEW c \in Callers, NEW s \in Caches!Calling, Caches!Honest(s),
         call' = [call EXCEPT ![c] = s], Shelved', UNCHANGED <<clock, reading, listed, seen>>,
         call[c].goal # "chat" => s.goal # "chat" /\ s.account = call[c].account,
         s.goal = "list" => call[c].goal = "list" /\ (s.at # "publish" => call[c].at # "publish"),
         s.at = "wait" => /\ s.read \in Callers /\ s.read # c /\ call[s.read].goal # "chat"
                          /\ call[s.read].account = s.account
  PROVE  Caches!CachesInv'
<1>1. SeenGrows
  BY DEF SeenGrows, Caches!CachesInv, Caches!TypeOK, Caches!SeenNow
<1>2. Caches!Honest(s)'
  BY <1>1, HonestStill
<1> QED BY <1>1, <1>2, CallMovesOn

\* A call that signs for itself owes nobody anything.
LEMMA ChatMoves ==
  ASSUME Caches!CachesInv, NEW c \in Callers, NEW s \in Caches!Calling, Caches!Honest(s),
         call' = [call EXCEPT ![c] = s], Shelved', UNCHANGED <<clock, reading, listed, seen>>,
         call[c].goal = "chat", s.goal = "chat", s.at # "wait"
  PROVE  Caches!CachesInv'
BY CallMoves

\* Whoever exchanges or reads who it is goes on to sign.
LEMMA SigningMay ==
  ASSUME Caches!CachesInv, NEW c \in Callers, call[c].at \in {"exchange", "whoami", "list"}
  PROVE  ToSign(call[c]) /\ call[c] \in Caches!Calling /\ call[c].at # "publish"
<1>1. Caches!Honest(call[c]) /\ call[c] \in Caches!Calling
  BY DEF Caches!CachesInv, Caches!TypeOK
<1>2. call[c].goal \in {"chat", "list", "panic"}
  BY <1>1 DEF Caches!Calling
<1> QED BY <1>1, <1>2 DEF ToSign, Caches!Honest

LEMMA SignMoves ==
  ASSUME Caches!CachesInv, NEW c \in Callers, call[c].at \in {"exchange", "whoami", "list"},
         NEW s, Signs(call[c], s), call' = [call EXCEPT ![c] = s],
         Shelved', UNCHANGED <<clock, reading, listed, seen>>
  PROVE  Caches!CachesInv'
<1>1. ToSign(call[c])
  BY SigningMay
<1>2. /\ s \in Caches!Calling /\ Caches!Honest(s) /\ s.goal = call[c].goal /\ s.at # "wait"
      /\ call[c].goal = "list" => s.account = call[c].account
  BY DEF Signs
<1>3. call[c].goal # "chat" => s.goal # "chat" /\ s.account = call[c].account
  BY <1>1, <1>2 DEF ToSign
<1>4. s.goal = "list" => call[c].goal = "list" /\ call[c].at # "publish"
  BY <1>2
<1> QED BY <1>2, <1>3, <1>4, CallMoves

LEMMA TokenMinted ==
  ASSUME NEW life \in Lifetimes, clock \in Nat, NEW born \in Nat, clock <= born + ExchangeMax
  PROVE  LET t == [born |-> born, dies |-> born + life.ticks, until |-> Caches!ValidUntil(life, born)]
         IN t \in Caches!Token /\ t.until <= t.dies + ExchangeMax - Buffer
<1>1. life.ticks \in Nat /\ Buffer \in Nat /\ ExchangeMax \in Nat
  BY CachesConstants
<1>2. Caches!ValidUntil(life, born) \in {born + life.ticks - Buffer, clock + life.ticks - Buffer}
  BY <1>1 DEF Caches!ValidUntil
<1>3. Caches!ValidUntil(life, born) \in Int
  BY <1>1, <1>2
<1>4. Caches!ValidUntil(life, born) <= born + life.ticks + ExchangeMax - Buffer
  BY <1>1, <1>2
<1> QED BY <1>1, <1>3, <1>4 DEF Caches!Token

LEMMA ExchangeInv ==
  ASSUME Caches!CachesInv, NEW c \in Callers, Caches!Exchange(c)
  PROVE  Caches!CachesInv'
<1>1. /\ Caches!TypeOK /\ clock \in Nat /\ call[c].at = "exchange" /\ ToSign(call[c])
      /\ call[c] \in Caches!Calling /\ clock <= call[c].since + ExchangeMax /\ call[c].since \in Nat
      /\ call[c].account \in Holders
      /\ UNCHANGED <<clock, known, configs, misses, reading, listed, seen>>
  <2>1. Caches!TypeOK /\ clock \in Nat /\ call[c].at = "exchange" /\ Caches!Honest(call[c])
    BY DEF Caches!CachesInv, Caches!TypeOK, Caches!Exchange
  <2>2. call[c] \in Caches!Calling /\ ToSign(call[c])
    BY <2>1, SigningMay
  <2> QED BY <2>1, <2>2 DEF Caches!Honest, Caches!Calling, ToSign, Caches!Exchange
<1>2. CASE Caches!Move(c, Caches!Failed(call[c])) /\ UNCHANGED minted
  BY <1>1, <1>2, FailedIs, ShelvedStill, SignMoves DEF Caches!Move
<1>3. ASSUME NEW life \in Lifetimes, NEW t,
             t = [born |-> call[c].since, dies |-> call[c].since + life.ticks,
                  until |-> Caches!ValidUntil(life, call[c].since)],
             minted' = [minted EXCEPT ![call[c].account] = t],
             Caches!Move(c, Caches!Identified(call[c], t, FALSE))
      PROVE  Caches!CachesInv'
  <2>1. t \in Caches!Token /\ t.until <= t.dies + ExchangeMax - Buffer
    BY <1>1, <1>3, TokenMinted
  <2>2. Signs(call[c], Caches!Identified(call[c], t, FALSE))
    BY <1>1, <2>1, IdentifiedIs
  <2>3. /\ minted' \in [Holders -> Caches!Token]
        /\ \A a \in Holders : minted'[a] = IF a = call[c].account THEN t ELSE minted[a]
    BY <1>1, <1>3, <2>1 DEF Caches!TypeOK
  <2>4. Caches!TokensLast'
    BY <2>1, <2>3 DEF Caches!CachesInv, Caches!TokensLast
  <2>5. Shelved'
    <3>1. Shelved
      BY ShelvedNow
    <3> QED BY <1>1, <2>3, <2>4, <3>1 DEF Shelved, Caches!CopiesTrue, Caches!Held
  <2> QED BY <1>1, <1>3, <2>2, <2>5, SignMoves DEF Caches!Move
<1> QED BY <1>2, <1>3 DEF Caches!Exchange

LEMMA FetchAccountInv ==
  ASSUME Caches!CachesInv, NEW c \in Callers, Caches!FetchAccount(c)
  PROVE  Caches!CachesInv'
<1>1. /\ Caches!TypeOK /\ clock \in Nat /\ call[c].at = "whoami" /\ Caches!Honest(call[c])
      /\ call[c] \in Caches!Calling /\ ToSign(call[c])
      /\ UNCHANGED <<clock, minted, configs, misses, reading, listed, seen>>
  <2>1. Caches!TypeOK /\ clock \in Nat /\ call[c].at = "whoami" /\ Caches!Honest(call[c])
    BY DEF Caches!CachesInv, Caches!TypeOK, Caches!FetchAccount
  <2>2. call[c] \in Caches!Calling /\ ToSign(call[c])
    BY <2>1, SigningMay
  <2> QED BY <2>1, <2>2 DEF Caches!FetchAccount
<1>2. CASE Caches!Move(c, Caches!Failed(call[c])) /\ UNCHANGED known
  BY <1>1, <1>2, FailedIs, ShelvedStill, SignMoves DEF Caches!Move
<1>3. ASSUME NEW named \in BOOLEAN,
           /\ known' = [known EXCEPT ![call[c].account] =
                          [born |-> call[c].token.born, at |-> clock, named |-> named]]
           /\ Caches!Move(c, IF named THEN Caches!Signed(call[c], call[c].token, call[c].reused)
                                      ELSE Caches!Failed(call[c]))
      PROVE  Caches!CachesInv'
  <2> DEFINE r == call[c]
  <2>1. r.token \in Caches!Token /\ r.reused \in BOOLEAN /\ r.since \in Nat /\ clock <= r.since + ExchangeMax
        /\ (r.reused => Caches!Outlives(r.token, r.since))
    BY <1>1 DEF Caches!Calling, Caches!Honest
  <2>2. r.reused => r.token.dies - clock > Buffer - (2 * ExchangeMax)
    BY <1>1, <2>1, OutlivesIs
  <2>3. Signs(r, Caches!Signed(r, r.token, r.reused)) /\ Signs(r, Caches!Failed(r))
    BY <1>1, <2>1, <2>2, SignedIs, FailedIs
  <2> DEFINE k == [born |-> r.token.born, at |-> clock, named |-> named]
  <2>3a. k \in [born : Int, at : Int, named : BOOLEAN]
    BY <1>1, <2>1 DEF Caches!Token
  <2> HIDE DEF k
  <2>3b. known' = [known EXCEPT ![call[c].account] = k]
    BY <1>3 DEF k
  <2>4. known' \in [Holders -> [born : Int, at : Int, named : BOOLEAN]]
    BY <1>1, <2>3a, <2>3b DEF Caches!TypeOK
  <2>5. Shelved'
    <3>1. Shelved
      BY ShelvedNow
    <3> QED BY <1>1, <2>4, <3>1 DEF Shelved, Caches!CopiesTrue, Caches!TokensLast, Caches!Held
  <2> QED BY <1>1, <1>3, <2>3, <2>5, SignMoves DEF Caches!Move
<1> QED BY <1>2, <1>3 DEF Caches!FetchAccount

\* Once its model is configured a call signs for itself; a refused one ends.
LEMMA ConfiguredIs ==
  ASSUME Caches!TypeOK, Caches!TokensLast, NEW r \in Caches!Calling, r.account \in Holders,
         Caches!WasSo(r, "listed", CatalogTTL + FetchMax)
  PROVE  /\ Caches!Configured(r) \in Caches!Calling /\ Caches!Honest(Caches!Configured(r))
         /\ Caches!Configured(r).goal = "chat" /\ Caches!Configured(r).at # "wait"
<1> DEFINE so == Caches!WasSo(r, "listed", CatalogTTL + FetchMax)
           s == [r EXCEPT !.goal = "chat", !.read = nobody, !.began = 0, !.stamp = 0,
                          !.ok = FALSE, !.list = {}, !.true = so]
<1>1. Caches!Configured(r) = Caches!Signing(s)
  BY DEF Caches!Configured
<1>2. so = TRUE
  BY Zenon
<1> HIDE DEF so
<1>3. ASSUME NEW x \in BOOLEAN, NEW y \in BOOLEAN,
             s = [r EXCEPT !.goal = "chat", !.read = nobody, !.began = 0, !.stamp = 0,
                           !.ok = x, !.list = {}, !.true = y]
      PROVE  /\ s \in Caches!Calling /\ s.goal = "chat" /\ s.account = r.account /\ s.stamp = 0
             /\ s.ok = x /\ s.true = y
  <2> HIDE DEF s
  <2> QED BY <1>3 DEF Caches!Calling
<1>4. /\ s \in Caches!Calling /\ s.goal = "chat" /\ s.account = r.account /\ s.stamp = 0
      /\ s.ok = FALSE /\ s.true = TRUE
  BY Zenon, <1>2, <1>3
<1> HIDE DEF s
<1>5. ToSign(s)
  BY <1>4 DEF ToSign, Caches!TypeOK
<1>6. Signs(s, Caches!Signing(s))
  BY <1>4, <1>5, SigningIs
<1> QED BY <1>1, <1>4, <1>6 DEF Signs

LEMMA RefusedIs ==
  ASSUME Caches!TypeOK, NEW r \in Caches!Calling, Caches!WasSo(r, "missing", MissTTL + FetchMax)
  PROVE  /\ Caches!Refused(r) \in Caches!Calling /\ Caches!Honest(Caches!Refused(r))
         /\ Caches!Refused(r).goal = "chat" /\ Caches!Refused(r).at # "wait"
<1> DEFINE so == Caches!WasSo(r, "missing", MissTTL + FetchMax)
<1>1. so = TRUE
  BY Zenon
<1>2. Caches!Refused(r) = Caches!Over(so)
  BY DEF Caches!Refused
<1> HIDE DEF so
<1> QED BY <1>1, <1>2, OverIs DEF Caches!TypeOK

\* What was so at some time no longer ago than this is so within it.
LEMMA WasSoListed ==
  ASSUME Caches!TypeOK, NEW r, r.account \in Holders, r.model \in Offered, NEW at \in Int,
         at <= seen[<<r.account, r.model>>].listed, clock - at <= CatalogTTL
  PROVE  Caches!WasSo(r, "listed", CatalogTTL + FetchMax)
<1>1. seen[<<r.account, r.model>>].listed \in Int /\ clock \in Nat
  BY DEF Caches!TypeOK, Caches!Keys
<1> QED BY <1>1, CachesConstants DEF Caches!WasSo

LEMMA WasSoMissing ==
  ASSUME Caches!TypeOK, NEW r, r.account \in Holders, r.model \in Offered, NEW at \in Int,
         at <= seen[<<r.account, r.model>>].missing, clock - at <= MissTTL
  PROVE  Caches!WasSo(r, "missing", MissTTL + FetchMax)
<1>1. seen[<<r.account, r.model>>].missing \in Int /\ clock \in Nat
  BY DEF Caches!TypeOK, Caches!Keys
<1> QED BY <1>1, CachesConstants DEF Caches!WasSo

\* A refusal forgotten is one less.
LEMMA MissForgotten ==
  ASSUME Caches!CachesInv, NEW k \in DOMAIN misses, misses' = [misses EXCEPT ![k] = Caches!Never],
         UNCHANGED <<clock, minted, known, configs, seen>>
  PROVE  Shelved'
<1>1. Shelved /\ Caches!SeenNow
  BY ShelvedNow DEF Caches!CachesInv
<1>2. /\ misses' \in Caches!Times
      /\ \A x \in DOMAIN misses : misses'[x] \in {misses[x], Caches!Never}
      /\ DOMAIN misses' = DOMAIN misses /\ DOMAIN misses = Caches!Scopes \X Offered
  BY <1>1, NeverIs DEF Shelved, Caches!Times
<1>3. Caches!Held(misses)' \subseteq Caches!Held(misses)
  BY <1>2 DEF Caches!Held
<1>4. IsFiniteSet(Caches!Held(misses)') /\ Cardinality(Caches!Held(misses)') <= MaxMisses
  <2>1. IsFiniteSet(Caches!Held(misses)) /\ Cardinality(Caches!Held(misses)) <= MaxMisses
    BY <1>1 DEF Shelved
  <2>2. /\ IsFiniteSet(Caches!Held(misses)')
        /\ Cardinality(Caches!Held(misses)') <= Cardinality(Caches!Held(misses))
    BY <1>3, <2>1, FS_Subset
  <2>3. Cardinality(Caches!Held(misses)') \in Nat /\ Cardinality(Caches!Held(misses)) \in Nat
    BY <2>1, <2>2, FS_CardinalityType
  <2> QED BY <2>1, <2>2, <2>3, MissesPositive
<1>5. Caches!CopiesTrue'
  <2> SUFFICES ASSUME NEW a \in Holders, NEW m \in Offered
               PROVE  /\ configs[<<Caches!Scope(a), m>>] <= seen[<<a, m>>].listed
                      /\ misses'[<<Caches!Scope(a), m>>] <= seen[<<a, m>>].missing
    BY DEF Caches!CopiesTrue
  <2>1. misses'[<<Caches!Scope(a), m>>] \in {misses[<<Caches!Scope(a), m>>], Caches!Never}
    BY <1>2, ScopeIs
  <2>2. Caches!Never <= seen[<<a, m>>].missing
    BY <1>1 DEF Caches!SeenNow, Caches!Keys
  <2> QED BY <1>1, <2>1, <2>2 DEF Shelved, Caches!CopiesTrue
<1> QED BY <1>1, <1>2, <1>4, <1>5 DEF Shelved, Caches!TokensLast

LEMMA AskCacheInv ==
  ASSUME Caches!CachesInv, NEW c \in Callers, NEW a \in Holders, NEW m \in Caches!Wanted(a),
         Caches!Ask(c, a, m)
  PROVE  Caches!CachesInv'
<1> DEFINE i == Caches!Idle
           r == [i EXCEPT !.account = a, !.model = m]
           k == <<Caches!Scope(a), m>>
<1>1. /\ Caches!TypeOK /\ Caches!TokensLast /\ Caches!CopiesTrue /\ clock \in Nat /\ call[c].at = "idle"
      /\ Caches!Honest(call[c])
      /\ UNCHANGED <<clock, minted, known, configs, reading, listed, seen>>
  BY DEF Caches!CachesInv, Caches!TypeOK, Caches!Ask
<1>2. call[c].goal = "chat"
  BY <1>1 DEF Caches!Honest
<1>3. /\ r \in Caches!Calling /\ r.at = "idle" /\ r.goal = "chat" /\ r.true /\ ~r.ok /\ r.stamp = 0
      /\ r.account = a /\ r.model = m
  <2>1. m \in Offered \union {Caches!NoModel}
    BY DEF Caches!Wanted
  <2>2. /\ i \in Caches!Calling /\ i.at = "idle" /\ i.goal = "chat" /\ i.true /\ ~i.ok /\ i.stamp = 0
    BY IdleCallIs
  <2> HIDE DEF i
  <2> QED BY <2>1, <2>2 DEF Caches!Calling
<1>4. m # Caches!NoModel => m \in Offered
  BY DEF Caches!Wanted
<1>5. Caches!KeyOf(r) = k
  BY <1>3 DEF Caches!KeyOf
<1>6. /\ IF m = Caches!NoModel THEN Caches!Move(c, Caches!Signing(r)) /\ UNCHANGED misses
         ELSE IF Caches!Fresh(configs[k], CatalogTTL) THEN Caches!Move(c, Caches!Configured(r)) /\ UNCHANGED misses
         ELSE IF Caches!Fresh(misses[k], MissTTL) THEN Caches!Move(c, Caches!Refused(r)) /\ UNCHANGED misses
         ELSE /\ Caches!Move(c, [r EXCEPT !.at = "begin", !.stamp = clock])
              /\ misses' = [misses EXCEPT ![k] = Caches!Never]
  BY <1>5 DEF Caches!Ask
<1> HIDE DEF r, k
<1>7. CASE m = Caches!NoModel
  <2>1. ToSign(r)
    BY <1>1, <1>3 DEF ToSign
  <2>2. Signs(r, Caches!Signing(r))
    BY <1>1, <1>3, <2>1, SigningIs
  <2>3. Shelved'
    BY <1>1, <1>6, <1>7, ShelvedStill
  <2> QED BY <1>1, <1>2, <1>3, <1>6, <1>7, <2>2, <2>3, ChatMoves DEF Signs, Caches!Move
<1>8. CASE m # Caches!NoModel
  <2>1. k = <<Caches!Scope(a), m>> /\ m \in Offered /\ Caches!Scope(a) \in Caches!Scopes
    BY <1>4, <1>8, ScopeIs DEF k
  <2>2. /\ configs[k] \in Int /\ misses[k] \in Int /\ k \in DOMAIN misses
        /\ configs[k] <= seen[<<a, m>>].listed /\ misses[k] <= seen[<<a, m>>].missing
    BY <1>1, <2>1 DEF Caches!TypeOK, Caches!Times, Caches!CopiesTrue
  <2>3. CASE Caches!Fresh(configs[k], CatalogTTL)
    <3>1. Caches!WasSo(r, "listed", CatalogTTL + FetchMax)
      BY <1>1, <1>3, <2>1, <2>2, <2>3, WasSoListed DEF Caches!Fresh
    <3>2. Shelved' /\ call' = [call EXCEPT ![c] = Caches!Configured(r)]
      BY <1>1, <1>6, <1>8, <2>3, ShelvedStill DEF Caches!Move
    <3> QED BY <1>1, <1>2, <1>3, <3>1, <3>2, ConfiguredIs, ChatMoves
  <2>4. CASE ~Caches!Fresh(configs[k], CatalogTTL) /\ Caches!Fresh(misses[k], MissTTL)
    <3>1. Caches!WasSo(r, "missing", MissTTL + FetchMax)
      BY <1>1, <1>3, <2>1, <2>2, <2>4, WasSoMissing DEF Caches!Fresh
    <3>2. Shelved' /\ call' = [call EXCEPT ![c] = Caches!Refused(r)]
      BY <1>1, <1>6, <1>8, <2>4, ShelvedStill DEF Caches!Move
    <3> QED BY <1>1, <1>2, <1>3, <3>1, <3>2, RefusedIs, ChatMoves
  <2>5. CASE ~Caches!Fresh(configs[k], CatalogTTL) /\ ~Caches!Fresh(misses[k], MissTTL)
    <3> DEFINE s == [r EXCEPT !.at = "begin", !.stamp = clock]
    <3>1. call' = [call EXCEPT ![c] = s] /\ misses' = [misses EXCEPT ![k] = Caches!Never]
      BY <1>6, <1>8, <2>5 DEF Caches!Move
    <3>2. /\ s \in Caches!Calling /\ s.at = "begin" /\ s.goal = "chat" /\ s.true = r.true /\ s.ok = r.ok
          /\ s.stamp = clock /\ s.account = a /\ s.model = m
      BY <1>1, <1>3 DEF Caches!Calling, Caches!Stages
    <3> HIDE DEF s
    <3>3. Caches!Honest(s)
      BY <1>1, <1>3, <2>1, <3>2 DEF Caches!Honest
    <3>4. Shelved'
      BY <1>1, <2>2, <3>1, MissForgotten
    <3> QED BY <1>1, <1>2, <3>1, <3>2, <3>3, <3>4, ChatMoves
  <2> QED BY <2>3, <2>4, <2>5
<1> QED BY <1>7, <1>8

LEMMA LeaveInv ==
  ASSUME Caches!CachesInv, NEW c \in Callers, Caches!Leave(c)
  PROVE  Caches!CachesInv'
<1>1. /\ clock \in Nat /\ Caches!Honest(call[c]) /\ call[c].at = "wait"
      /\ call' = [call EXCEPT ![c] = Caches!Over(TRUE)]
      /\ UNCHANGED <<clock, minted, known, configs, misses, reading, listed, seen>>
  BY DEF Caches!CachesInv, Caches!TypeOK, Caches!Leave, Caches!Move
<1>2. call[c].goal = "chat"
  BY <1>1 DEF Caches!Honest
<1> QED BY <1>1, <1>2, OverIs, ShelvedStill, ChatMoves

\* Whoever finds a read of its account in flight waits for it; nobody else begins one.
LEMMA BeginFetchInv ==
  ASSUME Caches!CachesInv, NEW c \in Callers, Caches!BeginFetch(c)
  PROVE  Caches!CachesInv'
<1> DEFINE q == call[c]
           v == Caches!Scope(q.account)
<1>1. /\ Caches!TypeOK /\ clock \in Nat /\ q \in Caches!Calling /\ q.at = "begin" /\ Caches!Honest(q)
      /\ UNCHANGED <<clock, minted, known, configs, misses, listed, seen>>
  BY DEF Caches!CachesInv, Caches!TypeOK, Caches!BeginFetch
<1>2. q.account \in Holders /\ q.goal = "chat" /\ q.model \in Offered /\ q.true /\ ~q.ok
      /\ q.stamp <= clock /\ v \in Caches!Scopes
  BY <1>1, ScopeIs DEF Caches!Honest
<1>3. Shelved'
  BY <1>1, ShelvedStill
<1>4. CASE reading[v] # nobody
  <2> DEFINE s == [q EXCEPT !.at = "wait", !.read = reading[v]]
  <2>1. call' = [call EXCEPT ![c] = s] /\ UNCHANGED reading
    BY <1>4 DEF Caches!BeginFetch, Caches!Move
  <2>2. /\ reading[v] \in Callers /\ call[reading[v]].goal # "chat"
        /\ Caches!Scope(call[reading[v]].account) = v
    BY <1>1, <1>2, <1>4 DEF Caches!CachesInv, Caches!Named, Caches!TypeOK
  <2>3. call[reading[v]].account = q.account /\ reading[v] # c
    BY <1>2, <2>2, ScopeIs
  <2> HIDE DEF q
  <2>4. /\ s \in Caches!Calling /\ s.at = "wait" /\ s.goal = "chat" /\ s.true = q.true /\ s.ok = q.ok
        /\ s.stamp = q.stamp /\ s.account = q.account /\ s.model = q.model /\ s.read = reading[v]
    BY <1>1, <1>2, <2>2 DEF Caches!Calling, Caches!Stages
  <2> HIDE DEF s
  <2>5. Caches!Honest(s)
    BY <1>1, <1>2, <2>4 DEF Caches!Honest
  <2> QED BY <1>1, <1>2, <1>3, <2>1, <2>2, <2>3, <2>4, <2>5, CallMoves DEF q
<1>5. CASE reading[v] = nobody
  <2> DEFINE r == [q EXCEPT !.goal = "list", !.read = c, !.began = clock]
             s == Caches!Signing(r)
  <2>1. call' = [call EXCEPT ![c] = s] /\ reading' = [reading EXCEPT ![v] = c]
    BY <1>5 DEF Caches!BeginFetch, Caches!Move
  <2>2. /\ r \in Caches!Calling /\ r.goal = "list" /\ r.account = q.account /\ r.model = q.model
        /\ r.true = q.true /\ r.ok = q.ok /\ r.stamp = q.stamp
    <3> HIDE DEF q
    <3> QED BY <1>1, <1>2 DEF Caches!Calling
  <2> HIDE DEF r
  <2>3. Signs(r, s)
    BY <1>1, <1>2, <2>2, SigningIs DEF ToSign, Caches!CachesInv
  <2>4. s \in Caches!Calling /\ Caches!Honest(s) /\ s.goal = "list" /\ s.account = q.account /\ s.at # "wait"
    BY <2>2, <2>3 DEF Signs
  <2> HIDE DEF s
  <2>5. /\ call' \in [Callers -> Caches!Calling] /\ call'[c] = s
        /\ \A d \in Callers : d # c => call'[d] = call[d]
        /\ reading' \in [Caches!Scopes -> Callers \union {nobody}] /\ reading'[v] = c
        /\ \A x \in Caches!Scopes : x # v => reading'[x] = reading[x]
    BY <1>1, <1>2, <2>1, <2>4 DEF Caches!TypeOK
  <2>6. Caches!TypeOK' /\ Caches!SeenNow'
    BY <1>1, <2>5 DEF Caches!CachesInv, Caches!TypeOK, Caches!SeenNow
  <2>7. \A d \in Callers : Caches!Honest(call[d])'
    <3> SUFFICES ASSUME NEW d \in Callers PROVE Caches!Honest(call[d])'
      OBVIOUS
    <3> DEFINE x == call'[d]
    <3>1. Caches!Honest(x)
      BY <2>4, <2>5 DEF Caches!CachesInv
    <3> QED BY <1>1, <3>1 DEF Caches!Honest, Caches!Hears
  <2>8. \A d \in Callers : Caches!Leads(d)'
    <3> SUFFICES ASSUME NEW d \in Callers, call'[d].goal = "list", call'[d].at # "publish"
                 PROVE  reading'[Caches!Scope(call'[d].account)] = d
      BY DEF Caches!Leads
    <3>1. CASE d = c
      BY <2>4, <2>5, <3>1
    <3>2. CASE d # c
      <4>1. call'[d] = call[d] /\ reading[Caches!Scope(call[d].account)] = d
        BY <2>5, <3>2 DEF Caches!CachesInv, Caches!Leads
      <4>2. call[d].at # "idle" /\ call[d].account \in Holders
        BY <4>1 DEF Caches!CachesInv, Caches!Honest
      <4>3. Caches!Scope(call[d].account) \in Caches!Scopes /\ Caches!Scope(call[d].account) # v
        BY <1>5, <4>1, <4>2, ScopeIs, CachesConstants
      <4> QED BY <2>5, <4>1, <4>3
    <3> QED BY <3>1, <3>2
  <2>9. \A d \in Callers : Caches!Waits(d)'
    <3> SUFFICES ASSUME NEW d \in Callers, call'[d].at = "wait"
                 PROVE  /\ call'[d].read \in Callers /\ call'[call'[d].read].goal # "chat"
                        /\ call'[call'[d].read].account = call'[d].account
      BY DEF Caches!Waits
    <3>1. d # c
      BY <2>4, <2>5
    <3> DEFINE x == call[d].read
    <3>2. /\ call'[d] = call[d] /\ x \in Callers /\ call[x].goal # "chat"
          /\ call[x].account = call[d].account
      BY <2>5, <3>1 DEF Caches!CachesInv, Caches!Waits
    <3>3. x # c
      BY <1>2, <3>2
    <3> QED BY <2>5, <3>2, <3>3
  <2>10. \A x \in Caches!Scopes : Caches!Named(x)'
    <3> SUFFICES ASSUME NEW x \in Caches!Scopes, reading'[x] # nobody
                 PROVE  call'[reading'[x]].goal # "chat" /\ Caches!Scope(call'[reading'[x]].account) = x
      BY DEF Caches!Named
    <3>1. CASE x = v
      BY <2>4, <2>5, <3>1
    <3>2. CASE x # v
      <4>1. /\ reading'[x] = reading[x] /\ reading[x] \in Callers
            /\ call[reading[x]].goal # "chat" /\ Caches!Scope(call[reading[x]].account) = x
        BY <1>1, <2>5, <3>2 DEF Caches!CachesInv, Caches!Named, Caches!TypeOK
      <4>2. reading[x] # c
        BY <1>2, <4>1
      <4> QED BY <2>5, <4>1, <4>2
    <3> QED BY <3>1, <3>2
  <2>11. Caches!IsFiniteSet(Caches!Held(misses)') /\ Caches!Cardinality(Caches!Held(misses)') <= MaxMisses
    BY <1>3, MissCount DEF Shelved
  <2> QED BY <1>3, <2>6, <2>7, <2>8, <2>9, <2>10, <2>11 DEF Caches!CachesInv, Shelved
<1> QED BY <1>4, <1>5

\* The list is the vendor's of this moment, or the read failed.
\* What a body leaves out was missing from it: the vendor was seen to leave it out now.
LEMMA LeftOutIs ==
  ASSUME Caches!CachesInv, NEW a \in Holders, NEW part1 \in SUBSET listed[a],
         seen' = Caches!LeftOut(a, part1), UNCHANGED <<clock, listed, configs, misses>>
  PROVE  SeenGrows /\ Caches!Hears(a, part1)' /\ Caches!CopiesTrue'
<1>1. /\ clock \in Nat /\ seen \in [Caches!Keys -> [listed : Int, missing : Int]] /\ Caches!SeenNow
      /\ listed \in [Holders -> SUBSET Offered] /\ configs \in Caches!Times /\ misses \in Caches!Times
      /\ Caches!CopiesTrue
  BY DEF Caches!CachesInv, Caches!TypeOK
<1>2. Caches!Never \in Int /\ Caches!Never <= -1
  BY NeverIs
<1>3. ASSUME NEW k \in Caches!Keys
      PROVE  /\ seen'[k] \in [listed : Int, missing : Int] /\ seen'[k].listed = seen[k].listed
             /\ seen'[k].missing = IF k[1] = a /\ k[2] \notin part1 THEN clock ELSE seen[k].missing
             /\ seen[k].missing <= seen'[k].missing
             /\ seen[k] \in [listed : Int, missing : Int]
             /\ seen'[k].missing <= clock /\ Caches!Never <= seen'[k].missing
  <2>1. seen[k] \in [listed : Int, missing : Int] /\ seen[k].missing <= clock /\ Caches!Never <= seen[k].missing
    BY <1>1 DEF Caches!SeenNow
  <2>2. seen'[k] = IF k[1] = a /\ k[2] \notin part1 THEN [seen[k] EXCEPT !.missing = clock] ELSE seen[k]
    BY DEF Caches!LeftOut
  <2> QED BY <1>1, <1>2, <2>1, <2>2
<1>4. seen' \in [Caches!Keys -> [listed : Int, missing : Int]]
  BY <1>3 DEF Caches!LeftOut
<1>5. Caches!SeenNow'
  BY <1>1, <1>3 DEF Caches!SeenNow, Caches!Never
<1>6. Caches!CopiesTrue'
  <2> SUFFICES ASSUME NEW b \in Holders, NEW n \in Offered
               PROVE  /\ configs[<<Caches!Scope(b), n>>] <= seen'[<<b, n>>].listed
                      /\ misses[<<Caches!Scope(b), n>>] <= seen'[<<b, n>>].missing
    BY DEF Caches!CopiesTrue
  <2>1. /\ configs[<<Caches!Scope(b), n>>] <= seen[<<b, n>>].listed
        /\ misses[<<Caches!Scope(b), n>>] <= seen[<<b, n>>].missing
    BY <1>1 DEF Caches!CopiesTrue
  <2>2. /\ configs[<<Caches!Scope(b), n>>] \in Int /\ misses[<<Caches!Scope(b), n>>] \in Int
        /\ <<b, n>> \in Caches!Keys
    BY <1>1, ScopeIs DEF Caches!Times, Caches!Keys
  <2> QED BY <1>3, <2>1, <2>2
<1>7. Caches!Hears(a, part1)'
  <2> SUFFICES ASSUME NEW n \in Offered
               PROVE  IF n \in part1 THEN seen'[<<a, n>>].listed = clock ELSE seen'[<<a, n>>].missing = clock
    BY DEF Caches!Hears
  <2> DEFINE k == <<a, n>>
  <2>1. k \in Caches!Keys /\ k[1] = a /\ k[2] = n
    BY DEF Caches!Keys
  <2>2. n \in part1 => seen[k].listed = clock
    BY <1>1, <2>1 DEF Caches!SeenNow
  <2> QED BY <1>3, <2>1, <2>2
<1> QED BY <1>1, <1>3, <1>4, <1>5, <1>6, <1>7 DEF SeenGrows

\* A read that answered a list is published with it.
Answering(r, s, list) ==
  /\ s \in Caches!Calling /\ s.at = "publish" /\ s.goal = r.goal /\ s.account = r.account
  /\ s.model = r.model /\ s.true = r.true /\ s.stamp = r.stamp /\ s.list = list

LEMMA AnsweringIs ==
  ASSUME NEW r \in Caches!Calling, NEW list \in SUBSET Offered, NEW s,
         s = [[r EXCEPT !.at = "publish"] EXCEPT !.ok = TRUE, !.list = list]
  PROVE  Answering(r, s, list)
<1>1. ASSUME NEW ok \in BOOLEAN, s = [[r EXCEPT !.at = "publish"] EXCEPT !.ok = ok, !.list = list]
      PROVE  Answering(r, s, list)
  BY <1>1 DEF Caches!Calling, Caches!Stages, Answering
<1> QED BY Zenon, <1>1

LEMMA FetchCatalogInv ==
  ASSUME Caches!CachesInv, NEW c \in Callers, Caches!FetchCatalog(c)
  PROVE  Caches!CachesInv'
<1> DEFINE q == call[c]
           done == [q EXCEPT !.at = "publish"]
<1>1. /\ Caches!TypeOK /\ clock \in Nat /\ q \in Caches!Calling /\ q.at = "list" /\ Caches!Honest(q)
      /\ UNCHANGED <<clock, minted, known, configs, misses, reading, listed>>
  BY DEF Caches!CachesInv, Caches!TypeOK, Caches!FetchCatalog
<1>2. /\ q.account \in Holders /\ q.goal = "list" /\ q.model \in Offered /\ q.true /\ ~q.ok
      /\ q.stamp <= clock
  BY <1>1 DEF Caches!Honest
<1>a. PICK a : a = q.account
  OBVIOUS
<1>3. listed[q.account] \in SUBSET Offered /\ Caches!Hears(q.account, listed[q.account])
  BY <1>1, <1>2 DEF Caches!CachesInv, Caches!TypeOK, Caches!SeenNow, Caches!Hears, Caches!Keys
\* The call after a read that answered none.
<1>5. ASSUME NEW goal \in {"list", "panic"}, NEW s,
             s = [done EXCEPT !.goal = goal] \/ (s = done /\ goal = "list")
      PROVE  /\ s \in Caches!Calling /\ s.at = "publish" /\ s.goal = goal /\ s.account = q.account
             /\ s.model = q.model /\ s.true = q.true /\ s.stamp = q.stamp /\ s.ok = q.ok
  <2> HIDE DEF q
  <2> QED BY <1>1, <1>2, <1>5 DEF Caches!Calling, Caches!Stages
<1>6. CASE UNCHANGED seen
  <2>1. ASSUME NEW s \in Caches!Calling, s.at = "publish", s.goal \in {"list", "panic"},
               s.account = q.account, s.model = q.model, s.true = q.true, s.stamp = q.stamp,
               s.ok => Caches!Hears(q.account, s.list), call' = [call EXCEPT ![c] = s]
        PROVE  Caches!CachesInv'
    <3>1. Caches!Honest(s)
      BY <1>2, <2>1 DEF Caches!Honest
    <3>2. Shelved'
      BY <1>1, <1>6, ShelvedStill
    <3> QED BY <1>1, <1>2, <1>6, <2>1, <3>1, <3>2, CallMoves
  <2>2. ASSUME NEW s, s = [done EXCEPT !.ok = TRUE, !.list = listed[q.account]],
               call' = [call EXCEPT ![c] = s]
        PROVE  Caches!CachesInv'
    <3> DEFINE list == listed[q.account]
    <3> HIDE DEF q
    <3>1. Answering(q, s, list)
      BY Zenon, <1>1, <1>3, <2>2, AnsweringIs
    <3> HIDE DEF list
    <3>2. /\ s \in Caches!Calling /\ s.at = "publish" /\ s.goal = "list" /\ s.account = q.account
          /\ s.model = q.model /\ s.true = q.true /\ s.stamp = q.stamp /\ s.list = list
      BY <1>2, <3>1 DEF Answering
    <3>3. Caches!Hears(q.account, s.list)
      BY <1>3, <3>2 DEF list
    <3> QED BY <2>1, <2>2, <3>2, <3>3
  <2>3. ASSUME NEW s, s = done \/ s = [done EXCEPT !.goal = "panic"], call' = [call EXCEPT ![c] = s]
        PROVE  Caches!CachesInv'
    <3> HIDE DEF q, done
    <3> QED BY <1>2, <1>5, <2>1, <2>3
  <2>4. \/ call' = [call EXCEPT ![c] = [done EXCEPT !.ok = TRUE, !.list = listed[q.account]]]
        \/ call' = [call EXCEPT ![c] = done]
        \/ call' = [call EXCEPT ![c] = [done EXCEPT !.goal = "panic"]]
        \/ \E part1 \in SUBSET listed[q.account] :
             /\ call' = [call EXCEPT ![c] = [done EXCEPT !.ok = TRUE, !.list = part1]]
             /\ seen' = Caches!LeftOut(q.account, part1)
    BY DEF Caches!FetchCatalog, Caches!Move
  <2>5. ASSUME NEW part1 \in SUBSET listed[q.account], NEW s,
               s = [done EXCEPT !.ok = TRUE, !.list = part1],
               call' = [call EXCEPT ![c] = s], seen' = Caches!LeftOut(q.account, part1)
        PROVE  Caches!CachesInv'
    <3>1. Caches!Hears(a, part1)'
      BY <1>1, <1>2, <1>a, <2>5, LeftOutIs
    <3>2. Caches!Hears(q.account, part1)
      BY <1>1, <1>6, <1>a, <3>1 DEF Caches!Hears
    <3>3. part1 \in SUBSET Offered
      BY <1>3, <2>5
    <3> HIDE DEF q
    <3>3a. Answering(q, s, part1)
      BY Zenon, <1>1, <2>5, <3>3, AnsweringIs
    <3>4. /\ s \in Caches!Calling /\ s.at = "publish" /\ s.goal = "list" /\ s.account = q.account
          /\ s.model = q.model /\ s.true = q.true /\ s.stamp = q.stamp /\ s.list = part1
      BY <1>2, <3>3a DEF Answering
    <3> QED BY <2>1, <2>5, <3>2, <3>4
  <2> HIDE DEF done, q
  <2> QED BY <2>2, <2>3, <2>4, <2>5
<1>7. ASSUME NEW part1 \in SUBSET listed[q.account], NEW s,
             s = [done EXCEPT !.ok = TRUE, !.list = part1],
             call' = [call EXCEPT ![c] = s], seen' = Caches!LeftOut(q.account, part1)
      PROVE  Caches!CachesInv'
  <2>1. SeenGrows /\ Caches!Hears(a, part1)' /\ Caches!CopiesTrue'
    BY <1>1, <1>2, <1>a, <1>7, LeftOutIs
  <2>2. part1 \in SUBSET Offered
    BY <1>3, <1>7
  <2>3. /\ s \in Caches!Calling /\ s.at = "publish" /\ s.goal = "list" /\ s.account = q.account
        /\ s.model = q.model /\ s.true = q.true /\ s.stamp = q.stamp /\ s.list = part1
    <3> HIDE DEF q
    <3>1. Answering(q, s, part1)
      BY Zenon, <1>1, <1>7, <2>2, AnsweringIs
    <3> QED BY <1>2, <3>1 DEF Answering
  <2>4. Caches!Honest(s)'
    BY <1>1, <1>2, <1>a, <2>1, <2>3 DEF Caches!Honest, Caches!Hears
  <2>5. Shelved'
    <3>1. Shelved
      BY ShelvedNow
    <3> QED BY <1>1, <2>1, <3>1 DEF Shelved, Caches!TokensLast, Caches!Held
  <2> QED BY <1>1, <1>2, <1>7, <2>1, <2>3, <2>4, <2>5, CallMovesOn
<1>8. \/ UNCHANGED seen
      \/ \E part1 \in SUBSET listed[q.account] :
           /\ call' = [call EXCEPT ![c] = [done EXCEPT !.ok = TRUE, !.list = part1]]
           /\ seen' = Caches!LeftOut(q.account, part1)
  BY DEF Caches!FetchCatalog, Caches!Move
<1> HIDE DEF q, done
<1> QED BY <1>6, <1>7, <1>8

\* Everybody judges what the one read answered.
LEMMA JudgingIs ==
  ASSUME NEW r \in Caches!Calling, NEW x \in Caches!Calling, Caches!Honest(r), Caches!Honest(x),
         r.account = x.account, r.account \in Holders, r.model \in Offered
  PROVE  LET s == Caches!Judging(r, x) IN
         s \in Caches!Calling /\ Caches!Honest(s) /\ s.at = "judge" /\ s.goal = "chat"
<1> DEFINE s == Caches!Judging(r, x)
<1>1. s = [r EXCEPT !.at = "judge", !.read = nobody, !.goal = "chat", !.began = 0,
                    !.ok = x.ok, !.list = x.list]
  BY DEF Caches!Judging
<1> HIDE DEF s
<1>2. x.ok \in BOOLEAN /\ x.list \in SUBSET Offered
  BY DEF Caches!Calling
<1>3. /\ s \in Caches!Calling /\ s.at = "judge" /\ s.goal = "chat" /\ s.account = r.account
      /\ s.model = r.model /\ s.true = r.true /\ s.stamp = r.stamp /\ s.ok = x.ok /\ s.list = x.list
  BY <1>1, <1>2 DEF Caches!Calling, Caches!Stages
<1>4. Caches!Honest(s)
  BY <1>3 DEF Caches!Honest
<1> QED BY <1>3, <1>4 DEF s

\* The read leaves the table, then wakes whoever waits for it.
LEMMA CompleteFetchInv ==
  ASSUME Caches!CachesInv, NEW c \in Callers, Caches!CompleteFetch(c)
  PROVE  Caches!CachesInv'
<1> DEFINE v == Caches!Scope(call[c].account)
           own == IF call[c].goal = "panic" THEN Caches!Over(TRUE) ELSE Caches!Judging(call[c], call[c])
<1>1. /\ Caches!TypeOK /\ clock \in Nat /\ call[c] \in Caches!Calling /\ call[c].at = "publish"
      /\ Caches!Honest(call[c])
      /\ UNCHANGED <<clock, minted, known, configs, misses, listed, seen>>
  BY DEF Caches!CachesInv, Caches!TypeOK, Caches!CompleteFetch
<1>2. call[c].account \in Holders /\ call[c].goal # "chat" /\ call[c].model \in Offered /\ v \in Caches!Scopes
  BY <1>1, ScopeIs DEF Caches!Honest
<1>3. Shelved'
  BY <1>1, ShelvedStill
<1>4. Caches!Publishes(c)
  BY DEF Caches!Publishes
<1>5. Caches!SeenNow'
  BY <1>1 DEF Caches!CachesInv, Caches!SeenNow
<1>6. Caches!IsFiniteSet(Caches!Held(misses)') /\ Caches!Cardinality(Caches!Held(misses)') <= MaxMisses
  BY <1>3, MissCount DEF Shelved
<1>7. CASE reading[v] = c
  <2>1. reading' = [reading EXCEPT ![v] = nobody] /\ call' = call
    BY <1>4, <1>7 DEF Caches!CompleteFetch
  <2>2. /\ reading' \in [Caches!Scopes -> Callers \union {nobody}] /\ reading'[v] = nobody
        /\ \A x \in Caches!Scopes : x # v => reading'[x] = reading[x]
    BY <1>1, <1>2, <2>1 DEF Caches!TypeOK
  <2>3. Caches!TypeOK'
    BY <1>1, <2>1, <2>2 DEF Caches!TypeOK
  <2>4. \A d \in Callers : Caches!Honest(call[d])' /\ Caches!Waits(d)'
    BY <1>1, <2>1 DEF Caches!CachesInv, Caches!Honest, Caches!Hears, Caches!Waits
  <2>5. \A d \in Callers : Caches!Leads(d)'
    <3> SUFFICES ASSUME NEW d \in Callers, call[d].goal = "list", call[d].at # "publish"
                 PROVE  reading'[Caches!Scope(call[d].account)] = d
      BY <2>1 DEF Caches!Leads
    <3>1. reading[Caches!Scope(call[d].account)] = d /\ d # c /\ Caches!Honest(call[d])
      BY <1>1 DEF Caches!CachesInv, Caches!Leads
    <3>2. call[d].account \in Holders
      BY <3>1 DEF Caches!Honest
    <3>3. Caches!Scope(call[d].account) \in Caches!Scopes /\ Caches!Scope(call[d].account) # v
      BY <1>7, <3>1, <3>2, ScopeIs
    <3> QED BY <2>2, <3>1, <3>3
  <2>6. \A x \in Caches!Scopes : Caches!Named(x)'
    BY <2>1, <2>2 DEF Caches!CachesInv, Caches!Named
  <2> QED BY <1>3, <1>5, <1>6, <2>3, <2>4, <2>5, <2>6 DEF Caches!CachesInv, Shelved
<1>8. CASE reading[v] # c
  <2>1. /\ UNCHANGED reading
        /\ call' = [d \in Callers |-> IF d = c THEN own
                                     ELSE IF Caches!Awaits(d, c) THEN Caches!Judging(call[d], call[c])
                                     ELSE call[d]]
    BY <1>4, <1>8 DEF Caches!CompleteFetch
  <2>2. own \in Caches!Calling /\ Caches!Honest(own) /\ own.goal = "chat" /\ own.at \in {"idle", "judge"}
    <3>1. CASE call[c].goal = "panic"
      BY <1>1, <3>1, OverIs
    <3>2. CASE call[c].goal # "panic"
      BY <1>1, <1>2, <3>2, JudgingIs
    <3> QED BY <3>1, <3>2
  <2> HIDE DEF own
  <2>3. ASSUME NEW d \in Callers, d # c, Caches!Awaits(d, c)
        PROVE  /\ Caches!Judging(call[d], call[c]) \in Caches!Calling
               /\ Caches!Honest(Caches!Judging(call[d], call[c]))
               /\ Caches!Judging(call[d], call[c]).at = "judge"
               /\ Caches!Judging(call[d], call[c]).goal = "chat" /\ call[d].goal = "chat"
    <3>1. call[d].at = "wait" /\ call[d].read = c
      BY <2>3 DEF Caches!Awaits
    <3>2. call[d] \in Caches!Calling /\ Caches!Honest(call[d]) /\ call[c].account = call[d].account
      BY <1>1, <3>1 DEF Caches!CachesInv, Caches!TypeOK, Caches!Waits
    <3>3. call[d].model \in Offered /\ call[d].goal = "chat"
      BY <3>1, <3>2 DEF Caches!Honest
    <3> QED BY <1>1, <1>2, <3>2, <3>3, JudgingIs
  <2>4. \A d \in Callers : \/ d = c /\ call'[d] = own
                           \/ /\ d # c /\ Caches!Awaits(d, c) /\ call'[d] = Caches!Judging(call[d], call[c])
                           \/ d # c /\ ~Caches!Awaits(d, c) /\ call'[d] = call[d]
    BY <2>1
  <2>5. \A d \in Callers : call'[d] \in Caches!Calling /\ Caches!Honest(call'[d])
    BY <1>1, <2>2, <2>3, <2>4 DEF Caches!CachesInv, Caches!TypeOK
  <2>6. \A d \in Callers : \/ call'[d] = call[d] /\ d # c
                           \/ call'[d].at \in {"idle", "judge"} /\ call'[d].goal = "chat"
    BY <2>2, <2>3, <2>4
  <2>7. \A d \in Callers : call[d].goal # "chat" /\ d # c => call'[d] = call[d]
    BY <2>3, <2>4
  <2>8. Caches!TypeOK'
    <3>1. call' \in [Callers -> Caches!Calling]
      BY <2>1, <2>5
    <3> QED BY <1>1, <2>1, <3>1 DEF Caches!TypeOK
  <2>9. \A d \in Callers : Caches!Honest(call[d])'
    <3> SUFFICES ASSUME NEW d \in Callers PROVE Caches!Honest(call[d])'
      OBVIOUS
    <3> DEFINE x == call'[d]
    <3>1. Caches!Honest(x)
      BY <2>5
    <3> QED BY <1>1, <3>1 DEF Caches!Honest, Caches!Hears
  <2>10. \A d \in Callers : Caches!Leads(d)'
    <3> SUFFICES ASSUME NEW d \in Callers, call'[d].goal = "list", call'[d].at # "publish"
                 PROVE  reading[Caches!Scope(call'[d].account)] = d
      BY <2>1 DEF Caches!Leads
    <3>1. call'[d] = call[d]
      BY <2>6
    <3> QED BY <3>1 DEF Caches!CachesInv, Caches!Leads
  <2>11. \A d \in Callers : Caches!Waits(d)'
    <3> SUFFICES ASSUME NEW d \in Callers, call'[d].at = "wait"
                 PROVE  /\ call'[d].read \in Callers /\ call'[call'[d].read].goal # "chat"
                        /\ call'[call'[d].read].account = call'[d].account
      BY DEF Caches!Waits
    <3> DEFINE x == call[d].read
    <3>1. call'[d] = call[d] /\ d # c
      BY <2>6
    <3>2. /\ x \in Callers /\ call[x].goal # "chat" /\ call[x].account = call[d].account
      BY <3>1 DEF Caches!CachesInv, Caches!Waits
    <3>3. x # c
      <4>1. call[d].at = "wait"
        BY <3>1
      <4>2. x = c => Caches!Awaits(d, c)
        BY <4>1 DEF Caches!Awaits
      <4>3. Caches!Awaits(d, c) => call'[d].at = "judge"
        BY <2>3, <2>4, <3>1
      <4> QED BY <4>2, <4>3
    <3>4. call'[x] = call[x]
      BY <2>7, <3>2, <3>3
    <3> QED BY <3>1, <3>2, <3>4
  <2>12. \A x \in Caches!Scopes : Caches!Named(x)'
    <3> SUFFICES ASSUME NEW x \in Caches!Scopes, reading[x] # nobody
                 PROVE  call'[reading[x]].goal # "chat" /\ Caches!Scope(call'[reading[x]].account) = x
      BY <2>1 DEF Caches!Named
    <3>1. /\ reading[x] \in Callers /\ call[reading[x]].goal # "chat"
          /\ Caches!Scope(call[reading[x]].account) = x
      BY <1>1 DEF Caches!CachesInv, Caches!Named, Caches!TypeOK
    <3>2. reading[x] # c
      BY <1>8, <3>1
    <3> QED BY <2>7, <3>1, <3>2
  <2> QED BY <1>3, <1>5, <1>6, <2>8, <2>9, <2>10, <2>11, <2>12 DEF Caches!CachesInv, Shelved
<1> QED BY <1>7, <1>8

\* A full set makes room before one is remembered.
LEMMA KeptIs ==
  ASSUME Shelved, NEW now \in Int
  PROVE  /\ Caches!Kept(now) \in Caches!Times
         /\ \A k \in DOMAIN misses : Caches!Kept(now)[k] \in {misses[k], Caches!Never}
         /\ IsFiniteSet(Caches!Held(Caches!Kept(now)))
         /\ Cardinality(Caches!Held(Caches!Kept(now))) < MaxMisses
<1> DEFINE kept(of) == {k \in DOMAIN of : of[k] # Caches!Never}
           swept == [k \in DOMAIN misses |-> IF now - misses[k] > MissTTL THEN Caches!Never ELSE misses[k]]
           none == [k \in DOMAIN misses |-> Caches!Never]
<1>1. Caches!Kept(now) = IF Caches!Cardinality(kept(misses)) < MaxMisses THEN misses
                         ELSE IF Caches!Cardinality(kept(swept)) < MaxMisses THEN swept
                         ELSE none
  BY DEF Caches!Kept
<1>2. \A of : kept(of) = Caches!Held(of)
  BY DEF Caches!Held
<1>3. misses \in Caches!Times /\ DOMAIN misses = Caches!Scopes \X Offered /\ IsFiniteSet(kept(misses))
  BY <1>2 DEF Shelved, Caches!Times
<1>4. swept \in Caches!Times /\ \A k \in DOMAIN misses : swept[k] \in {misses[k], Caches!Never}
  BY <1>3, NeverIs DEF Caches!Times
<1>5. none \in Caches!Times /\ \A k \in DOMAIN misses : none[k] = Caches!Never
  BY <1>3, NeverIs DEF Caches!Times
<1> HIDE DEF swept, none
<1>6. kept(swept) \subseteq kept(misses)
  BY <1>3, <1>4 DEF Caches!Times
<1>7. IsFiniteSet(kept(swept))
  BY <1>3, <1>6, FS_Subset
<1>8. kept(none) = {}
  BY <1>3, <1>5 DEF Caches!Times
<1>9. IsFiniteSet(kept(none)) /\ Cardinality(kept(none)) = 0
  BY <1>8, FS_EmptySet
<1> HIDE DEF kept
<1>10. CASE Caches!Cardinality(kept(misses)) < MaxMisses
  <2>1. Caches!Kept(now) = misses /\ Cardinality(kept(misses)) < MaxMisses
    BY <1>1, <1>10, MissCount
  <2> QED BY <1>2, <1>3, <2>1
<1>11. CASE ~(Caches!Cardinality(kept(misses)) < MaxMisses) /\ Caches!Cardinality(kept(swept)) < MaxMisses
  <2>1. Caches!Kept(now) = swept /\ Cardinality(kept(swept)) < MaxMisses
    BY <1>1, <1>11, MissCount
  <2> QED BY <1>2, <1>4, <1>7, <2>1
<1>12. CASE ~(Caches!Cardinality(kept(misses)) < MaxMisses) /\ ~(Caches!Cardinality(kept(swept)) < MaxMisses)
  <2>1. Caches!Kept(now) = none
    BY <1>1, <1>12
  <2> QED BY <1>2, <1>5, <1>9, <2>1, MissesPositive
<1> QED BY <1>10, <1>11, <1>12

\* A refusal is remembered as of when the refused call began.
LEMMA MissRemembered ==
  ASSUME Caches!CachesInv, NEW a \in Holders, NEW m \in Offered, NEW stamp \in Int,
         stamp <= seen[<<a, m>>].missing,
         misses' = [Caches!Kept(stamp) EXCEPT ![<<Caches!Scope(a), m>>] = stamp],
         UNCHANGED <<clock, minted, known, configs, seen>>
  PROVE  Shelved'
<1> DEFINE k == <<Caches!Scope(a), m>>
           kept == Caches!Kept(stamp)
<1>1. Shelved /\ Caches!SeenNow
  BY ShelvedNow DEF Caches!CachesInv
<1>2. /\ kept \in Caches!Times /\ \A x \in DOMAIN misses : kept[x] \in {misses[x], Caches!Never}
      /\ IsFiniteSet(Caches!Held(kept)) /\ Cardinality(Caches!Held(kept)) < MaxMisses
  BY <1>1, KeptIs
<1>3. misses' = [kept EXCEPT ![k] = stamp]
  OBVIOUS
<1> HIDE DEF kept
<1>4. /\ misses' \in Caches!Times /\ DOMAIN misses = Caches!Scopes \X Offered
      /\ DOMAIN misses' = DOMAIN kept /\ DOMAIN kept = Caches!Scopes \X Offered
      /\ \A x \in DOMAIN kept : misses'[x] = IF x = k THEN stamp ELSE kept[x]
  BY <1>1, <1>2, <1>3 DEF Shelved, Caches!Times
<1>5. Caches!Held(misses') \subseteq Caches!Held(kept) \union {k}
  BY <1>4 DEF Caches!Held
<1>6. IsFiniteSet(Caches!Held(misses')) /\ Cardinality(Caches!Held(misses')) <= MaxMisses
  <2> DEFINE more == Caches!Held(kept) \union {k}
  <2>1. /\ IsFiniteSet(more)
        /\ Cardinality(more) \in {Cardinality(Caches!Held(kept)), Cardinality(Caches!Held(kept)) + 1}
    BY <1>2, FS_AddElement
  <2>2. IsFiniteSet(Caches!Held(misses')) /\ Cardinality(Caches!Held(misses')) <= Cardinality(more)
    BY <1>5, <2>1, FS_Subset
  <2>3. /\ Cardinality(Caches!Held(misses')) \in Nat /\ Cardinality(more) \in Nat
        /\ Cardinality(Caches!Held(kept)) \in Nat
    BY <1>2, <2>1, <2>2, FS_CardinalityType
  <2> HIDE DEF more
  <2> QED BY <1>2, <2>1, <2>2, <2>3, MissesPositive
<1>7. Caches!CopiesTrue'
  <2> SUFFICES ASSUME NEW b \in Holders, NEW n \in Offered
               PROVE  /\ configs[<<Caches!Scope(b), n>>] <= seen[<<b, n>>].listed
                      /\ misses'[<<Caches!Scope(b), n>>] <= seen[<<b, n>>].missing
    BY DEF Caches!CopiesTrue
  <2> DEFINE j == <<Caches!Scope(b), n>>
  <2>1. j \in DOMAIN kept /\ j \in DOMAIN misses
    BY <1>4, ScopeIs
  <2>2. /\ configs[j] <= seen[<<b, n>>].listed /\ misses[j] <= seen[<<b, n>>].missing
        /\ Caches!Never <= seen[<<b, n>>].missing
    BY <1>1 DEF Shelved, Caches!CopiesTrue, Caches!SeenNow, Caches!Keys
  <2>3. CASE j = k
    <3>1. b = a /\ n = m
      BY <2>3, ScopeIs
    <3> QED BY <1>4, <2>1, <2>2, <2>3, <3>1
  <2>4. CASE j # k
    <3>1. misses'[j] \in {misses[j], Caches!Never}
      BY <1>2, <1>4, <2>1, <2>4
    <3> QED BY <2>2, <3>1
  <2> QED BY <2>3, <2>4
<1> QED BY <1>1, <1>4, <1>6, <1>7 DEF Shelved, Caches!TokensLast

LEMMA JudgeInv ==
  ASSUME Caches!CachesInv, NEW c \in Callers, Caches!Judge(c)
  PROVE  Caches!CachesInv'
<1> DEFINE r == call[c]
           k == <<Caches!Scope(r.account), r.model>>
<1>1. /\ Caches!TypeOK /\ Caches!TokensLast /\ clock \in Nat /\ r \in Caches!Calling /\ r.at = "judge"
      /\ Caches!Honest(r) /\ UNCHANGED <<clock, minted, known, reading, listed, seen>>
  BY DEF Caches!CachesInv, Caches!TypeOK, Caches!Judge
<1>2. /\ r.account \in Holders /\ r.goal = "chat" /\ r.model \in Offered /\ r.stamp <= clock
      /\ (r.ok => Caches!Hears(r.account, r.list)) /\ r.stamp \in Nat
  BY <1>1 DEF Caches!Honest, Caches!Calling
<1>3. Caches!KeyOf(r) = k
  BY DEF Caches!KeyOf
<1>4. IF ~r.ok THEN call' = [call EXCEPT ![c] = Caches!Over(TRUE)] /\ UNCHANGED <<configs, misses>>
      ELSE IF r.model \in r.list
      THEN /\ configs' = [configs EXCEPT ![k] = clock]
           /\ call' = [call EXCEPT ![c] = Caches!Configured(r)] /\ UNCHANGED misses
      ELSE /\ misses' = [Caches!Kept(r.stamp) EXCEPT ![k] = r.stamp]
           /\ call' = [call EXCEPT ![c] = Caches!Refused(r)] /\ UNCHANGED configs
  BY <1>3 DEF Caches!Judge, Caches!Move
<1> HIDE DEF r
<1>5. call[c].goal = "chat"
  BY <1>2 DEF r
<1>6. CASE ~r.ok
  BY <1>1, <1>4, <1>5, <1>6, OverIs, ShelvedStill, ChatMoves
<1>7. CASE r.ok /\ r.model \in r.list
  <2>1. seen[<<r.account, r.model>>].listed = clock
    BY <1>2, <1>7 DEF Caches!Hears
  <2>2. Caches!WasSo(r, "listed", CatalogTTL + FetchMax)
    BY <1>1, <1>2, <2>1, CachesConstants, WasSoListed
  <2>3. configs' = [configs EXCEPT ![k] = clock] /\ misses' = misses
        /\ call' = [call EXCEPT ![c] = Caches!Configured(r)]
    BY <1>4, <1>7
  <2>4. Shelved'
    <3>1. Shelved
      BY ShelvedNow
    <3>2. configs' \in Caches!Times
      <4> HIDE DEF k
      <4>1. configs \in Caches!Times /\ clock \in Int /\ configs' = [configs EXCEPT ![k] = clock]
        BY <1>1, <2>3, <3>1 DEF Shelved
      <4> QED BY <4>1 DEF Caches!Times
    <3>3. Caches!CopiesTrue'
      <4> SUFFICES ASSUME NEW b \in Holders, NEW n \in Offered
                   PROVE  /\ configs'[<<Caches!Scope(b), n>>] <= seen[<<b, n>>].listed
                          /\ misses[<<Caches!Scope(b), n>>] <= seen[<<b, n>>].missing
        BY <1>1, <2>3 DEF Caches!CopiesTrue
      <4> DEFINE j == <<Caches!Scope(b), n>>
      <4>1. /\ configs[j] <= seen[<<b, n>>].listed /\ misses[j] <= seen[<<b, n>>].missing
            /\ j \in DOMAIN configs
        BY <3>1, ScopeIs DEF Shelved, Caches!CopiesTrue, Caches!Times
      <4>2. CASE j = k
        <5>1. b = r.account /\ n = r.model
          BY <4>2, ScopeIs
        <5>2. configs'[j] = clock
          BY <2>3, <4>1, <4>2
        <5> QED BY <1>1, <2>1, <4>1, <5>1, <5>2
      <4>3. CASE j # k
        <5>1. configs'[j] = configs[j]
          BY <2>3, <4>1, <4>3
        <5> QED BY <4>1, <5>1
      <4> QED BY <4>2, <4>3
    <3> QED BY <1>1, <2>3, <3>1, <3>2, <3>3 DEF Shelved, Caches!TokensLast, Caches!Held
  <2> QED BY <1>1, <1>2, <1>5, <2>2, <2>3, <2>4, ConfiguredIs, ChatMoves
<1>8. CASE r.ok /\ r.model \notin r.list
  <2>1. seen[<<r.account, r.model>>].missing = clock
    BY <1>2, <1>8 DEF Caches!Hears
  <2>2. Caches!WasSo(r, "missing", MissTTL + FetchMax)
    BY <1>1, <1>2, <2>1, CachesConstants, WasSoMissing
  <2>3. configs' = configs /\ misses' = [Caches!Kept(r.stamp) EXCEPT ![k] = r.stamp]
        /\ call' = [call EXCEPT ![c] = Caches!Refused(r)]
    BY <1>4, <1>8
  <2>4. Shelved'
    BY <1>1, <1>2, <2>1, <2>3, MissRemembered
  <2> QED BY <1>1, <1>2, <1>5, <2>2, <2>3, <2>4, RefusedIs, ChatMoves
<1> QED BY <1>6, <1>7, <1>8

\* The vendor changes what it lists for one account.
LEMMA RelistInv ==
  ASSUME Caches!CachesInv, NEW a \in Holders, NEW m \in Offered, Caches!Relist(a, m)
  PROVE  Caches!CachesInv'
<1> DEFINE k == <<a, m>>
           old == seen[k]
           new == IF m \in listed[a] THEN [old EXCEPT !.missing = clock] ELSE [old EXCEPT !.listed = clock]
<1>1. /\ Caches!TypeOK /\ Caches!SeenNow /\ clock \in Nat
      /\ UNCHANGED <<clock, minted, known, configs, misses, reading, call>>
      /\ listed' = [listed EXCEPT ![a] = (listed[a] \ {m}) \union ({m} \ listed[a])]
      /\ seen' = [seen EXCEPT ![k] = new]
  BY DEF Caches!CachesInv, Caches!TypeOK, Caches!Relist
<1>2. old \in [listed : Int, missing : Int] /\ k \in Caches!Keys /\ old.listed <= clock /\ old.missing <= clock
      /\ Caches!Never <= old.listed /\ Caches!Never <= old.missing
      /\ (IF m \in listed[a] THEN old.listed = clock ELSE old.missing = clock)
  BY <1>1 DEF Caches!TypeOK, Caches!SeenNow, Caches!Keys
<1>3. Caches!Never \in Int /\ Caches!Never <= clock
  BY <1>1, NeverIs
<1>4. /\ new \in [listed : Int, missing : Int]
      /\ IF m \in listed[a] THEN new.listed = old.listed /\ new.missing = clock
                            ELSE new.listed = clock /\ new.missing = old.missing
  <2> HIDE DEF old
  <2> QED BY <1>1, <1>2
<1> HIDE DEF new
<1>5. /\ listed' \in [Holders -> SUBSET Offered] /\ seen' \in [Caches!Keys -> [listed : Int, missing : Int]]
      /\ \A j \in Caches!Keys : seen'[j] = IF j = k THEN new ELSE seen[j]
      /\ \A b \in Holders, n \in Offered :
           n \in listed'[b] <=> IF b = a /\ n = m THEN n \notin listed[b] ELSE n \in listed[b]
  BY <1>1, <1>2, <1>4 DEF Caches!TypeOK
<1>6. Caches!TypeOK'
  BY <1>1, <1>5 DEF Caches!TypeOK
<1>7. ASSUME NEW b \in Holders, NEW n \in Offered
      PROVE  /\ Caches!Never <= seen'[<<b, n>>].listed /\ seen'[<<b, n>>].listed <= clock
             /\ Caches!Never <= seen'[<<b, n>>].missing /\ seen'[<<b, n>>].missing <= clock
             /\ IF n \in listed'[b] THEN seen'[<<b, n>>].listed = clock ELSE seen'[<<b, n>>].missing = clock
             /\ seen[<<b, n>>].listed <= seen'[<<b, n>>].listed
             /\ seen[<<b, n>>].missing <= seen'[<<b, n>>].missing
             /\ seen[<<b, n>>].listed = clock => seen'[<<b, n>>].listed = clock
             /\ seen[<<b, n>>].missing = clock => seen'[<<b, n>>].missing = clock
  <2> DEFINE j == <<b, n>>
  <2>1. j \in Caches!Keys /\ seen[j] \in [listed : Int, missing : Int]
    BY <1>1 DEF Caches!Keys, Caches!TypeOK
  <2>2. CASE b = a /\ n = m
    <3>1. seen'[j] = new /\ seen[j] = old /\ (n \in listed'[b] <=> m \notin listed[a])
      BY <1>5, <2>1, <2>2
    <3> HIDE DEF old
    <3> QED BY <1>1, <1>2, <1>3, <1>4, <3>1
  <2>3. CASE ~(b = a /\ n = m)
    <3>1. seen'[j] = seen[j] /\ (n \in listed'[b] <=> n \in listed[b])
      BY <1>5, <2>1, <2>3
    <3>2. /\ Caches!Never <= seen[j].listed /\ seen[j].listed <= clock
          /\ Caches!Never <= seen[j].missing /\ seen[j].missing <= clock
          /\ IF n \in listed[b] THEN seen[j].listed = clock ELSE seen[j].missing = clock
      BY <1>1, <2>1 DEF Caches!SeenNow
    <3> QED BY <2>1, <3>1, <3>2
  <2> QED BY <2>2, <2>3
<1>8. Caches!SeenNow'
  <2> SUFFICES ASSUME NEW j \in Caches!Keys
               PROVE  /\ Caches!Never <= seen'[j].listed /\ seen'[j].listed <= clock
                      /\ Caches!Never <= seen'[j].missing /\ seen'[j].missing <= clock
                      /\ IF j[2] \in listed'[j[1]] THEN seen'[j].listed = clock ELSE seen'[j].missing = clock
    BY <1>1 DEF Caches!SeenNow, Caches!Never
  <2>1. PICK b \in Holders, n \in Offered : j = <<b, n>>
    BY DEF Caches!Keys
  <2>2. j[1] = b /\ j[2] = n
    BY <2>1
  <2> QED BY <1>7, <2>1, <2>2
<1>9. Caches!CopiesTrue'
  <2> SUFFICES ASSUME NEW b \in Holders, NEW n \in Offered
               PROVE  /\ configs[<<Caches!Scope(b), n>>] <= seen'[<<b, n>>].listed
                      /\ misses[<<Caches!Scope(b), n>>] <= seen'[<<b, n>>].missing
    BY <1>1 DEF Caches!CopiesTrue
  <2>1. /\ configs[<<Caches!Scope(b), n>>] <= seen[<<b, n>>].listed
        /\ misses[<<Caches!Scope(b), n>>] <= seen[<<b, n>>].missing
    BY DEF Caches!CachesInv, Caches!CopiesTrue
  <2>2. /\ configs[<<Caches!Scope(b), n>>] \in Int /\ misses[<<Caches!Scope(b), n>>] \in Int
        /\ seen[<<b, n>>] \in [listed : Int, missing : Int] /\ seen'[<<b, n>>] \in [listed : Int, missing : Int]
    BY <1>1, <1>5, ScopeIs DEF Caches!TypeOK, Caches!Times, Caches!Keys
  <2> QED BY <1>7, <2>1, <2>2
<1>10. \A d \in Callers : Caches!Honest(call[d])'
  <2> SUFFICES ASSUME NEW d \in Callers PROVE Caches!Honest(call[d])'
    OBVIOUS
  <2>1. Caches!Honest(call[d]) /\ call'[d] = call[d]
    BY <1>1 DEF Caches!CachesInv
  <2>2. call[d].ok => Caches!Hears(call[d].account, call[d].list)'
    <3> SUFFICES ASSUME call[d].ok, NEW n \in Offered
                 PROVE  IF n \in call[d].list THEN seen'[<<call[d].account, n>>].listed = clock
                                              ELSE seen'[<<call[d].account, n>>].missing = clock
      BY <1>1 DEF Caches!Hears
    <3>1. call[d].account \in Holders /\ Caches!Hears(call[d].account, call[d].list)
      BY <2>1 DEF Caches!Honest
    <3>2. IF n \in call[d].list THEN seen[<<call[d].account, n>>].listed = clock
                                ELSE seen[<<call[d].account, n>>].missing = clock
      BY <3>1 DEF Caches!Hears
    <3> QED BY <1>7, <3>1, <3>2
  <2> QED BY <1>1, <2>1, <2>2 DEF Caches!Honest
<1>11. \A d \in Callers : Caches!Leads(d)' /\ Caches!Waits(d)'
  BY <1>1 DEF Caches!CachesInv, Caches!Leads, Caches!Waits
<1>12. \A v \in Caches!Scopes : Caches!Named(v)'
  BY <1>1 DEF Caches!CachesInv, Caches!Named
<1>13. /\ Caches!TokensLast' /\ Caches!IsFiniteSet(Caches!Held(misses)')
       /\ Caches!Cardinality(Caches!Held(misses)') <= MaxMisses
  BY <1>1 DEF Caches!CachesInv, Caches!TokensLast, Caches!Held
<1> QED BY <1>6, <1>8, <1>9, <1>10, <1>11, <1>12, <1>13 DEF Caches!CachesInv

\* Time passes while nobody has a step left that waits for nothing.
LEMMA CacheTickInv ==
  ASSUME Caches!CachesInv, Caches!Tick
  PROVE  Caches!CachesInv'
<1> DEFINE later == clock + 1
<1>1. /\ Caches!TypeOK /\ Caches!SeenNow /\ clock \in Nat /\ later \in Nat /\ clock <= later
      /\ \A c \in Callers : Caches!InTime(c)
      /\ UNCHANGED <<minted, known, configs, misses, reading, call, listed>>
      /\ clock' = later
      /\ seen' = [k \in Caches!Keys |-> IF k[2] \in listed[k[1]] THEN [seen[k] EXCEPT !.listed = later]
                                                             ELSE [seen[k] EXCEPT !.missing = later]]
  BY DEF Caches!CachesInv, Caches!TypeOK, Caches!Tick
<1>2. ASSUME NEW k \in Caches!Keys
      PROVE  /\ seen'[k] \in [listed : Int, missing : Int]
             /\ Caches!Never <= seen'[k].listed /\ seen'[k].listed <= later
             /\ Caches!Never <= seen'[k].missing /\ seen'[k].missing <= later
             /\ IF k[2] \in listed[k[1]] THEN seen'[k].listed = later ELSE seen'[k].missing = later
             /\ seen[k].listed <= seen'[k].listed /\ seen[k].missing <= seen'[k].missing
             /\ seen[k] \in [listed : Int, missing : Int]
  <2> DEFINE old == seen[k]
  <2>1. /\ old \in [listed : Int, missing : Int] /\ old.listed <= clock /\ old.missing <= clock
        /\ Caches!Never <= old.listed /\ Caches!Never <= old.missing
    BY <1>1 DEF Caches!TypeOK, Caches!SeenNow
  <2>2. seen'[k] = IF k[2] \in listed[k[1]] THEN [old EXCEPT !.listed = later]
                                            ELSE [old EXCEPT !.missing = later]
    BY <1>1
  <2> HIDE DEF old, later
  <2>3. /\ seen'[k] \in [listed : Int, missing : Int]
        /\ IF k[2] \in listed[k[1]] THEN seen'[k].listed = later /\ seen'[k].missing = old.missing
                                    ELSE seen'[k].missing = later /\ seen'[k].listed = old.listed
    BY <1>1, <2>1, <2>2
  <2>4. Caches!Never \in Int /\ Caches!Never <= -1
    BY NeverIs
  <2> QED BY <1>1, <2>1, <2>3, <2>4 DEF old
<1> HIDE DEF later
<1>3. Caches!TypeOK'
  <2>1. seen' \in [Caches!Keys -> [listed : Int, missing : Int]]
    BY <1>1, <1>2
  <2> QED BY <1>1, <2>1 DEF Caches!TypeOK
<1>4. Caches!SeenNow'
  BY <1>1, <1>2 DEF Caches!SeenNow, Caches!Never
<1>5. Caches!CopiesTrue'
  <2> SUFFICES ASSUME NEW b \in Holders, NEW n \in Offered
               PROVE  /\ configs[<<Caches!Scope(b), n>>] <= seen'[<<b, n>>].listed
                      /\ misses[<<Caches!Scope(b), n>>] <= seen'[<<b, n>>].missing
    BY <1>1 DEF Caches!CopiesTrue
  <2>1. /\ configs[<<Caches!Scope(b), n>>] <= seen[<<b, n>>].listed
        /\ misses[<<Caches!Scope(b), n>>] <= seen[<<b, n>>].missing
    BY DEF Caches!CachesInv, Caches!CopiesTrue
  <2>2. /\ configs[<<Caches!Scope(b), n>>] \in Int /\ misses[<<Caches!Scope(b), n>>] \in Int
        /\ <<b, n>> \in Caches!Keys
    BY <1>1, ScopeIs DEF Caches!TypeOK, Caches!Times, Caches!Keys
  <2> QED BY <1>2, <2>1, <2>2
<1>6. \A d \in Callers : Caches!Honest(call[d])'
  <2> SUFFICES ASSUME NEW d \in Callers PROVE Caches!Honest(call[d])'
    OBVIOUS
  <2> DEFINE r == call[d]
  <2>1. Caches!Honest(r) /\ r \in Caches!Calling /\ call'[d] = r /\ Caches!InTime(d)
    BY <1>1 DEF Caches!CachesInv, Caches!TypeOK
  <2>2. r.at \notin {"publish", "judge"} /\ r.since \in Nat /\ r.stamp \in Nat
    BY <2>1 DEF Caches!InTime, Caches!Calling
  <2>3. r.at \in {"exchange", "whoami"} => clock < r.since + ExchangeMax
    BY <2>1 DEF Caches!InTime
  <2>4. r.stamp <= later /\ (r.at \in {"exchange", "whoami"} => later <= r.since + ExchangeMax)
    BY <1>1, <2>1, <2>2, <2>3, CachesConstants DEF Caches!Honest, later
  <2>5. ~r.ok
    BY <2>1, <2>2 DEF Caches!Honest
  <2> HIDE DEF r
  <2> QED BY <1>1, <2>1, <2>4, <2>5 DEF Caches!Honest, Caches!Outlives
<1>7. \A d \in Callers : Caches!Leads(d)' /\ Caches!Waits(d)'
  BY <1>1 DEF Caches!CachesInv, Caches!Leads, Caches!Waits
<1>8. \A v \in Caches!Scopes : Caches!Named(v)'
  BY <1>1 DEF Caches!CachesInv, Caches!Named
<1>9. /\ Caches!TokensLast' /\ Caches!IsFiniteSet(Caches!Held(misses)')
      /\ Caches!Cardinality(Caches!Held(misses)') <= MaxMisses
  BY <1>1 DEF Caches!CachesInv, Caches!TokensLast, Caches!Held
<1> QED BY <1>3, <1>4, <1>5, <1>6, <1>7, <1>8, <1>9 DEF Caches!CachesInv

LEMMA CachesStart == Caches!Init => Caches!CachesInv
<1> SUFFICES ASSUME Caches!Init PROVE Caches!CachesInv
  OBVIOUS
<1>1. /\ clock = 0 /\ minted = [a \in Holders |-> Caches!NoToken]
      /\ known = [a \in Holders |-> [born |-> Caches!Nothing, at |-> Caches!Never, named |-> FALSE]]
      /\ configs = [k \in Caches!Scopes \X Offered |-> Caches!Never]
      /\ misses = [k \in Caches!Scopes \X Offered |-> Caches!Never]
      /\ reading = [v \in Caches!Scopes |-> nobody] /\ call = [c \in Callers |-> Caches!Idle]
      /\ listed = FirstOffer
      /\ seen = [k \in Caches!Keys |-> [listed |-> IF k[2] \in listed[k[1]] THEN 0 ELSE Caches!Never,
                                        missing |-> IF k[2] \in listed[k[1]] THEN Caches!Never ELSE 0]]
  BY DEF Caches!Init
<1>2. Caches!Never \in Int /\ Caches!Never <= -1 /\ Caches!Nothing \in Int
  BY NeverIs DEF Caches!Nothing
<1>3. \A k \in Caches!Keys :
        /\ seen[k] \in [listed : Int, missing : Int]
        /\ IF k[2] \in listed[k[1]] THEN seen[k].listed = 0 /\ seen[k].missing = Caches!Never
                                    ELSE seen[k].missing = 0 /\ seen[k].listed = Caches!Never
  BY <1>1, <1>2
<1>4. seen \in [Caches!Keys -> [listed : Int, missing : Int]]
  BY <1>1, <1>3
<1>5. Caches!TypeOK
  BY <1>1, <1>2, <1>4, NoTokenIs, IdleCallIs, CachesConstants DEF Caches!TypeOK, Caches!Times
<1>6. Caches!SeenNow
  BY <1>1, <1>2, <1>3 DEF Caches!SeenNow
<1>7. Caches!CopiesTrue
  <2> SUFFICES ASSUME NEW a \in Holders, NEW m \in Offered
               PROVE  /\ configs[<<Caches!Scope(a), m>>] <= seen[<<a, m>>].listed
                      /\ misses[<<Caches!Scope(a), m>>] <= seen[<<a, m>>].missing
    BY DEF Caches!CopiesTrue
  <2>1. /\ configs[<<Caches!Scope(a), m>>] = Caches!Never /\ misses[<<Caches!Scope(a), m>>] = Caches!Never
        /\ <<a, m>> \in Caches!Keys
    BY <1>1, ScopeIs DEF Caches!Keys
  <2>2. Caches!Never <= seen[<<a, m>>].listed /\ Caches!Never <= seen[<<a, m>>].missing
    BY <1>6, <2>1 DEF Caches!SeenNow
  <2> QED BY <2>1, <2>2
<1>8. Caches!TokensLast
  BY <1>1 DEF Caches!TokensLast, Caches!NoToken, Caches!Nothing
<1>9. \A c \in Callers : call[c] = Caches!Idle
  BY <1>1
<1>10. \A c \in Callers : Caches!Honest(call[c])
  BY <1>1, <1>9, IdleCallIs DEF Caches!Honest
<1>11. \A c \in Callers : Caches!Leads(c) /\ Caches!Waits(c)
  BY <1>9, IdleCallIs DEF Caches!Leads, Caches!Waits
<1>12. \A v \in Caches!Scopes : Caches!Named(v)
  BY <1>1 DEF Caches!Named
<1>13. Caches!IsFiniteSet(Caches!Held(misses)) /\ Caches!Cardinality(Caches!Held(misses)) <= MaxMisses
  <2>1. Caches!Held(misses) = {}
    BY <1>1 DEF Caches!Held
  <2> QED BY <2>1, FS_EmptySet, MissCount, MissesPositive
<1> QED BY <1>5, <1>6, <1>7, <1>8, <1>10, <1>11, <1>12, <1>13 DEF Caches!CachesInv

LEMMA CachesStep == Caches!CachesInv /\ Caches!Next => Caches!CachesInv'
<1> SUFFICES ASSUME Caches!CachesInv, Caches!Next PROVE Caches!CachesInv'
  OBVIOUS
<1>1. CASE \E c \in Callers : Caches!Step(c)
  BY <1>1, BeginFetchInv, ExchangeInv, FetchAccountInv, FetchCatalogInv, CompleteFetchInv, LeaveInv,
     JudgeInv DEF Caches!Step
<1>2. CASE \E c \in Callers : \E a \in Holders : \E m \in Caches!Wanted(a) : Caches!Ask(c, a, m)
  BY <1>2, AskCacheInv
<1>3. CASE \E a \in Holders \ ServiceHolders, m \in Offered : Caches!Relist(a, m)
  BY <1>3, RelistInv
<1>4. CASE Caches!Tick
  BY <1>4, CacheTickInv
<1> QED BY <1>1, <1>2, <1>3, <1>4 DEF Caches!Next

LEMMA CachesStutter ==
  ASSUME Caches!CachesInv,
         UNCHANGED <<clock, minted, known, configs, misses, reading, call, listed, seen>>
  PROVE  Caches!CachesInv'
<1>1. Caches!TypeOK' /\ Caches!SeenNow' /\ Caches!CopiesTrue' /\ Caches!TokensLast'
  BY DEF Caches!CachesInv, Caches!TypeOK, Caches!SeenNow, Caches!CopiesTrue, Caches!TokensLast
<1>2. \A c \in Callers : Caches!Honest(call[c])' /\ Caches!Leads(c)' /\ Caches!Waits(c)'
  BY DEF Caches!CachesInv, Caches!Honest, Caches!Hears, Caches!Leads, Caches!Waits
<1>3. \A v \in Caches!Scopes : Caches!Named(v)'
  BY DEF Caches!CachesInv, Caches!Named
<1>4. Caches!IsFiniteSet(Caches!Held(misses)') /\ Caches!Cardinality(Caches!Held(misses)') <= MaxMisses
  BY DEF Caches!CachesInv, Caches!Held
<1> QED BY <1>1, <1>2, <1>3, <1>4 DEF Caches!CachesInv

LEMMA CachesShow == Caches!CachesInv => Caches!CachesSound
<1> SUFFICES ASSUME Caches!CachesInv PROVE Caches!CachesSound
  OBVIOUS
<1>1. Caches!ToldTheTruth
  BY DEF Caches!CachesInv, Caches!Honest, Caches!ToldTheTruth
<1>2. Caches!ReadOnce
  BY DEF Caches!CachesInv, Caches!Leads, Caches!Waits, Caches!Reads, Caches!ReadOnce
<1>3. Caches!Cardinality({k \in DOMAIN misses : misses[k] # Caches!Never}) <= MaxMisses
  BY DEF Caches!CachesInv, Caches!Held
<1> QED BY <1>1, <1>2, <1>3 DEF Caches!CachesSound

\* ConnectorCaches: what a connector tells a call of its model was true of that account within
\* the copy's age, one read per account answers everybody who waits, and a reused token lasts
\* (provider/qoder_catalog_lookup.go, qoder_jobtoken.go, vertex_token.go).
THEOREM CachesHold == Spec => []CachesSound
<1> DEFINE Inv == part = "caches" => Caches!CachesInv
<1>1. Init => Inv
  BY CachesStart DEF Init, Picked
<1>2. Inv /\ [Next]_wiresVars => Inv'
  <2> SUFFICES ASSUME Inv, [Next]_wiresVars, part' = "caches" PROVE Caches!CachesInv'
    OBVIOUS
  <2>1. CASE Next
    <3>1. part = "caches" /\ Caches!Next
      BY <2>1 DEF Next
    <3> QED BY <3>1, CachesStep
  <2>2. CASE UNCHANGED wiresVars
    <3>1. /\ part = "caches"
          /\ UNCHANGED <<clock, minted, known, configs, misses, reading, call, listed, seen>>
      BY <2>2 DEF wiresVars
    <3> QED BY <3>1, CachesStutter
  <2> QED BY <2>1, <2>2
<1>3. Inv => CachesSound
  BY CachesShow DEF CachesSound
<1> QED BY <1>1, <1>2, <1>3, PTL DEF Spec

-----------------------------------------------------------------------------
(* The poller of published quota (PublishedPoll).                          *)

LEMMA PollNumbers ==
  /\ Floors \in [Polled -> Nat \ {0}] /\ "none" \notin Pollers /\ MaxCycle \in Nat
  /\ PollCeiling \in Nat \ {0} /\ PollBudget \in Nat \ {0} /\ PollLease \in Nat \ {0}
  /\ PollCooldown \in Nat \ {0} /\ Polled \subseteq Int
  BY WiresAssumption DEF Poll!PublishedPollAssumption

\* The ladder of a failing account climbs to the ceiling, and a quarter over a rung below the
\* ceiling stays below it.
LEMMA RungBounded ==
  ASSUME NEW n \in Nat, n > 0
  PROVE  /\ Poll!Backoff(n) \in 1..PollCeiling
         /\ Poll!Backoff(n) < PollCeiling => Poll!Backoff(n) + (Poll!Backoff(n) \div 4) <= PollCeiling
<1>1. PollRungs \in Seq(1..PollCeiling) /\ PollCeiling \in Nat \ {0}
  BY WiresAssumption DEF Poll!PublishedPollAssumption
<1>2. \A i \in 1..Len(PollRungs) :
        PollRungs[i] < PollCeiling => PollRungs[i] + (PollRungs[i] \div 4) <= PollCeiling
  BY WiresAssumption DEF Poll!PublishedPollAssumption
<1>3. CASE n >= Len(PollRungs)
  BY <1>1, <1>3 DEF Poll!Backoff
<1>4. CASE n < Len(PollRungs)
  <2>1. Poll!Backoff(n) = PollRungs[n] /\ n \in 1..Len(PollRungs) /\ PollRungs[n] \in 1..PollCeiling
    BY <1>1, <1>4 DEF Poll!Backoff
  <2> QED BY <1>2, <2>1
<1> QED BY <1>1, <1>3, <1>4

\* What is stamped holds the floor and the rung, and no more than the ceiling or a quarter
\* over the floor.
LEMMA DelayBounded ==
  ASSUME NEW a \in Polled, NEW n \in Nat, NEW rest \in Poll!Jittered(Poll!NextDelay(a, n))
  PROVE  /\ rest \in Nat /\ rest >= Floors[a] /\ (n > 0 => rest >= Poll!Backoff(n))
         /\ rest <= Poll!Larger(PollCeiling, Floors[a] + (Floors[a] \div 4))
<1> DEFINE f == Floors[a]
           d == Poll!NextDelay(a, n)
           k == Poll!Backoff(n)
<1>1. f \in Nat /\ f > 0 /\ PollCeiling \in Nat
  BY PollNumbers
<1>2. d \in Nat /\ d >= f /\ (n > 0 => d >= k /\ k \in Nat)
      /\ (d = f \/ (d = k /\ n > 0 /\ k <= PollCeiling
                    /\ (k < PollCeiling => k + (k \div 4) <= PollCeiling)))
  <2>1. CASE n < 1
    BY <1>1, <2>1 DEF Poll!NextDelay
  <2>2. CASE n > 0
    <3>1. k \in 1..PollCeiling /\ (k < PollCeiling => k + (k \div 4) <= PollCeiling)
      BY <2>2, RungBounded
    <3>2. d = IF k > f THEN k ELSE f
      BY <2>2 DEF Poll!NextDelay, Poll!Larger
    <3> HIDE DEF k, d, f
    <3> QED BY <1>1, <2>2, <3>1, <3>2
  <2> QED BY <2>1, <2>2
<1>3. IF d >= PollCeiling THEN rest = d ELSE rest \in d..(d + (d \div 4))
  BY DEF Poll!Jittered
<1>4. rest \in Nat /\ rest >= d /\ (d >= PollCeiling => rest = d) /\ rest <= d + (d \div 4)
  <2> HIDE DEF d
  <2> QED BY <1>1, <1>2, <1>3
<1>5. rest <= PollCeiling \/ rest <= f + (f \div 4)
  <2> HIDE DEF d, f, k
  <2> QED BY <1>1, <1>2, <1>4
<1>6. rest <= Poll!Larger(PollCeiling, f + (f \div 4))
  <2> HIDE DEF f
  <2> QED BY <1>1, <1>4, <1>5 DEF Poll!Larger
<1> QED BY <1>1, <1>2, <1>4, <1>6

LEMMA FloorBounded ==
  ASSUME NEW a \in Polled
  PROVE  Floors[a] \in Nat /\ Floors[a] > 0 /\ Floors[a] <= Poll!Larger(PollCeiling, Floors[a] + (Floors[a] \div 4))
<1> DEFINE f == Floors[a]
<1>1. f \in Nat /\ f > 0 /\ PollCeiling \in Nat
  BY PollNumbers
<1> HIDE DEF f
<1>2. f <= Poll!Larger(PollCeiling, f + (f \div 4))
  BY <1>1 DEF Poll!Larger
<1> QED BY <1>1, <1>2 DEF f

\* What is left of a queue when its first has gone.
LEMMA AfterHead ==
  ASSUME NEW T, NEW q \in Seq(T), q # <<>>
  PROVE  /\ Head(q) \in T /\ 1 \in DOMAIN q /\ Head(q) = q[1] /\ Tail(q) \in Seq(T)
         /\ \A i \in DOMAIN Tail(q) : i \in Nat /\ i + 1 \in DOMAIN q /\ 1 < i + 1 /\ Tail(q)[i] = q[i + 1]
  OBVIOUS

LEMMA RowIs ==
  ASSUME Poll!PollTypes, NEW a \in Polled, Poll!Scheduled(a)
  PROVE  /\ row[a][1] \in Poll!RowType /\ row[a][1].since \in Nat /\ row[a][1].rest \in Nat
         /\ row[a][1].failures \in Nat /\ row[a][1].shows \in BOOLEAN
         /\ Poll!Overdue(row, a) = row[a][1].since - row[a][1].rest /\ Poll!Overdue(row, a) \in Int
<1>1. row[a][1] \in Poll!RowType
  BY DEF Poll!PollTypes, Poll!TypeOK, Poll!Scheduled
<1> QED BY <1>1 DEF Poll!RowType, Poll!Overdue

\* A replica that does not sweep holds nothing that could be out of order.
LEMMA IdleIsOrderly ==
  ASSUME NEW r \in Pollers, sweep[r] = Poll!Idle
  PROVE  /\ Poll!AsRead(r) /\ Poll!InFlight(r) /\ Poll!PassedOver(r)
         /\ Poll!Pending(r) = {} /\ sweep[r].flight = {} /\ sweep[r].age = -1
<1>1. sweep[r].queue = <<>> /\ DOMAIN sweep[r].queue = {}
  BY DEF Poll!Idle
<1>2. sweep[r].flight = {} /\ sweep[r].passed = {} /\ sweep[r].age = -1
  BY DEF Poll!Idle, Poll!Never
<1>3. Poll!Pending(r) = {}
  BY <1>1 DEF Poll!Pending
<1>4. Poll!AsRead(r)
  BY <1>1, <1>3 DEF Poll!AsRead
<1>5. Poll!InFlight(r) /\ Poll!PassedOver(r)
  BY <1>2 DEF Poll!InFlight, Poll!PassedOver
<1> QED BY <1>2, <1>3, <1>4, <1>5

LEMMA IdleIsOrderlyNext ==
  ASSUME NEW r \in Pollers, sweep'[r] = Poll!Idle
  PROVE  /\ Poll!AsRead(r)' /\ Poll!InFlight(r)' /\ Poll!PassedOver(r)'
         /\ Poll!Pending(r)' = {} /\ sweep'[r].flight = {} /\ sweep'[r].age = -1
<1>1. sweep'[r].queue = <<>> /\ DOMAIN sweep'[r].queue = {}
  BY DEF Poll!Idle
<1>2. sweep'[r].flight = {} /\ sweep'[r].passed = {} /\ sweep'[r].age = -1
  BY DEF Poll!Idle, Poll!Never
<1>3. Poll!Pending(r)' = {}
  BY <1>1 DEF Poll!Pending
<1>4. Poll!AsRead(r)'
  BY <1>1, <1>3 DEF Poll!AsRead
<1>5. Poll!InFlight(r)' /\ Poll!PassedOver(r)'
  BY <1>2 DEF Poll!InFlight, Poll!PassedOver
<1> QED BY <1>2, <1>3, <1>4, <1>5

\* While cycles end within their lease one replica sweeps.
LEMMA OthersIdle ==
  ASSUME Poll!Orderly, NEW r \in Pollers, sweep[r] # Poll!Idle, NEW q \in Pollers, q # r
  PROVE  sweep[q] = Poll!Idle
  BY DEF Poll!Orderly, Poll!Alone

LEMMA BusyOnlyHere ==
  ASSUME Poll!Orderly, NEW r \in Pollers, sweep[r] # Poll!Idle, NEW a
  PROVE  Poll!Busy(a) <=> a \in Poll!Ids(sweep[r].flight)
<1>1. \A q \in Pollers : q # r => sweep[q].flight = {}
  BY OthersIdle, IdleIsOrderly
<1> QED BY <1>1 DEF Poll!Busy, Poll!Ids

LEMMA IdleTyped ==
  /\ Poll!Idle \in [age : Int, queue : Seq(Poll!Snapshot), flight : SUBSET Poll!Snapshot,
                    passed : SUBSET Polled]
  /\ Poll!Idle.age = -1 /\ Poll!Idle.queue = <<>> /\ Poll!Idle.flight = {}
  BY DEF Poll!Idle, Poll!Never

LEMMA PollStart == Poll!Init => Poll!PollInv
<1> SUFFICES ASSUME Poll!Init PROVE Poll!PollInv
  OBVIOUS
<1>1. /\ row \in [Polled -> {<<>>, Poll!Old}] /\ cooling = [a \in Polled |-> 0] /\ lease = Poll!NoLease
      /\ page = [r \in Pollers |-> 0] /\ sweep = [r \in Pollers |-> Poll!Idle]
      /\ lastAsked = [a \in Polled |-> IF Poll!Scheduled(a) THEN 0 ELSE Poll!Never]
      /\ overtook = [a \in Polled |-> {}] /\ outlived = FALSE /\ broken = {}
  BY DEF Poll!Init
<1>2. \A a \in Polled : /\ row[a] \in Seq(Poll!RowType) /\ (row[a] = <<>> \/ row[a][1] \in Poll!RowType)
                        /\ Poll!Scheduled(a) => /\ row[a][1].since = 0 /\ row[a][1].rest = 0
                                                /\ row[a][1].failures = 0 /\ row[a][1].shows = TRUE
  <2>1. Poll!Old \in Seq(Poll!RowType) /\ Poll!Old[1] \in Poll!RowType
        /\ Poll!Old[1] = [since |-> 0, rest |-> 0, failures |-> 0, shows |-> TRUE]
    BY DEF Poll!Old, Poll!RowType
  <2>2. <<>> \in Seq(Poll!RowType)
    OBVIOUS
  <2> SUFFICES ASSUME NEW a \in Polled
               PROVE  /\ row[a] \in Seq(Poll!RowType) /\ (row[a] = <<>> \/ row[a][1] \in Poll!RowType)
                      /\ row[a] # <<>> => /\ row[a][1].since = 0 /\ row[a][1].rest = 0
                                          /\ row[a][1].failures = 0 /\ row[a][1].shows = TRUE
    BY DEF Poll!Scheduled
  <2>3. CASE row[a] = <<>>
    BY <2>2, <2>3
  <2>4. CASE row[a] = Poll!Old
    <3>1. row[a][1] = [since |-> 0, rest |-> 0, failures |-> 0, shows |-> TRUE]
      BY <2>1, <2>4
    <3> QED BY <2>1, <2>4, <3>1
  <2> QED BY <1>1, <2>3, <2>4
<1>3. \A r \in Pollers : sweep[r] = Poll!Idle
  BY <1>1
<1>4. Poll!PollTypes
  <2>1. row \in [Polled -> Seq(Poll!RowType)]
    BY <1>1, <1>2
  <2>2. lease \in [by : Pollers \union {"none"}, left : Nat] /\ lease.left \in 0..PollLease
    BY <1>1, PollNumbers DEF Poll!NoLease
  <2>3. /\ sweep \in [Pollers -> [age : Int, queue : Seq(Poll!Snapshot), flight : SUBSET Poll!Snapshot,
                                passed : SUBSET Polled]]
        /\ \A r \in Pollers : sweep[r].flight \subseteq Poll!Snapshot
    BY <1>1, IdleTyped
  <2>4. cooling \in [Polled -> 0..PollCooldown] /\ page \in [Pollers -> Nat] /\ lastAsked \in [Polled -> Int]
        /\ overtook \in [Polled -> SUBSET Polled]
    BY <1>1, PollNumbers DEF Poll!Never
  <2> QED BY <1>1, <1>2, <2>1, <2>2, <2>3, <2>4 DEF Poll!PollTypes, Poll!TypeOK
<1>5. Poll!Rowed
  BY <1>3, IdleIsOrderly DEF Poll!Rowed
<1>6. Poll!BackedOff
  <2> SUFFICES ASSUME NEW a \in Polled, Poll!Scheduled(a)
               PROVE  /\ ~(row[a][1].failures > 0)
                      /\ row[a][1].rest <= Poll!Larger(PollCeiling, Floors[a] + (Floors[a] \div 4))
    BY DEF Poll!BackedOff
  <2>1. 0 <= Poll!Larger(PollCeiling, Floors[a] + (Floors[a] \div 4))
    <3> DEFINE f == Floors[a] + (Floors[a] \div 4)
    <3>1. PollCeiling \in Nat /\ Floors[a] <= Poll!Larger(PollCeiling, f) /\ Floors[a] \in Nat
          /\ Poll!Larger(PollCeiling, f) \in {PollCeiling, f} /\ f \in Int
      BY FloorBounded, PollNumbers DEF Poll!Larger
    <3> HIDE DEF f
    <3> QED BY <3>1 DEF f
  <2> QED BY <1>2, <2>1
<1>7. Poll!Orderly
  <2>1. Poll!Alone
    BY <1>3 DEF Poll!Alone
  <2>2. Poll!Turns
    BY <1>1 DEF Poll!Turns
  <2>3. Poll!Stamped
    BY <1>1, <1>2 DEF Poll!Stamped
  <2> QED BY <1>1, <1>3, <2>1, <2>2, <2>3, IdleIsOrderly DEF Poll!Orderly
<1> QED BY <1>4, <1>5, <1>6, <1>7 DEF Poll!PollInv

\* What the queue read hands over: who is due, as the rows stand, the longest overdue first.
LEMMA DueIs ==
  ASSUME NEW rows \in [Polled -> Seq(Poll!RowType)], NEW queue \in Poll!Due(rows),
         \A a \in Polled : rows[a] = <<>> \/ rows[a][1] \in Poll!RowType
  PROVE  /\ queue \in Seq(Poll!Snapshot)
         /\ \A i, j \in DOMAIN queue : i < j => queue[i].id # queue[j].id
         /\ \A i \in DOMAIN queue :
              /\ queue[i].id \in Poll!Eligible(rows) /\ queue[i].since = rows[queue[i].id][1].since
              /\ queue[i].failures = rows[queue[i].id][1].failures
              /\ queue[i].shows = rows[queue[i].id][1].shows
              /\ \A b \in Poll!Eligible(rows) \ Poll!Queued(queue) :
                   Poll!Overdue(rows, queue[i].id) >= Poll!Overdue(rows, b)
<1> DEFINE Before(a, b) == \/ Poll!Overdue(rows, a) > Poll!Overdue(rows, b)
                           \/ Poll!Overdue(rows, a) = Poll!Overdue(rows, b) /\ a < b
           State(a) == [id |-> a, since |-> rows[a][1].since, failures |-> rows[a][1].failures,
                        shows |-> rows[a][1].shows]
<1>1. PICK ids \in UNION {[1..n -> Poll!Eligible(rows)] : n \in 0..PollBudget} :
        /\ queue = [i \in DOMAIN ids |-> State(ids[i])]
        /\ \A i, j \in DOMAIN ids : i < j => Before(ids[i], ids[j])
        /\ \A b \in Poll!Eligible(rows) \ {ids[i] : i \in DOMAIN ids} :
             \A i \in DOMAIN ids : Before(ids[i], b)
  BY DEF Poll!Due
<1>2. PICK n \in 0..PollBudget : ids \in [1..n -> Poll!Eligible(rows)]
  BY <1>1
<1>3. n \in Nat /\ DOMAIN ids = 1..n
  BY <1>2, PollNumbers
<1>4. \A a \in Poll!Eligible(rows) :
        /\ a \in Polled /\ a \in Nat /\ rows[a][1] \in Poll!RowType /\ Poll!Overdue(rows, a) \in Int
  <2> TAKE a \in Poll!Eligible(rows)
  <2>1. a \in Polled /\ rows[a] # <<>>
    BY DEF Poll!Eligible
  <2>2. rows[a][1] \in Poll!RowType /\ Polled \subseteq Nat
    BY <2>1, WiresAssumption DEF Poll!PublishedPollAssumption
  <2> QED BY <2>1, <2>2 DEF Poll!RowType, Poll!Overdue
<1>5. \A a \in Poll!Eligible(rows) : State(a) \in Poll!Snapshot /\ State(a).id = a
  BY <1>4 DEF Poll!RowType, Poll!Snapshot
<1>6. queue \in [1..n -> Poll!Snapshot] /\ DOMAIN queue = 1..n
      /\ \A i \in 1..n : queue[i] = State(ids[i]) /\ ids[i] \in Poll!Eligible(rows) /\ queue[i].id = ids[i]
  <2> HIDE DEF State, Before
  <2> QED BY <1>1, <1>2, <1>3, <1>5
<1>7. queue \in Seq(Poll!Snapshot)
  <2> HIDE DEF State
  <2> QED BY <1>3, <1>6
<1>8. \A i, j \in 1..n : i < j => queue[i].id # queue[j].id
  <2> SUFFICES ASSUME NEW i \in 1..n, NEW j \in 1..n, i < j PROVE ids[i] # ids[j]
    BY <1>6
  <2>1. Before(ids[i], ids[j]) /\ ids[i] \in Nat /\ Poll!Overdue(rows, ids[i]) \in Int
    BY <1>1, <1>3, <1>4, <1>6
  <2> QED BY <2>1
<1>9. Poll!Queued(queue) = {ids[i] : i \in DOMAIN ids}
  <2> HIDE DEF State
  <2> QED BY <1>3, <1>6 DEF Poll!Queued
<1>10. ASSUME NEW i \in 1..n, NEW b \in Poll!Eligible(rows) \ Poll!Queued(queue)
       PROVE  Poll!Overdue(rows, queue[i].id) >= Poll!Overdue(rows, b)
  <2>1. Before(ids[i], b) /\ Poll!Overdue(rows, ids[i]) \in Int /\ Poll!Overdue(rows, b) \in Int
    BY <1>1, <1>3, <1>4, <1>6, <1>9
  <2>2. Poll!Overdue(rows, ids[i]) >= Poll!Overdue(rows, b)
    BY <2>1
  <2> QED BY <1>6, <2>2
<1>11. \A i \in 1..n : /\ queue[i].since = rows[ids[i]][1].since
                       /\ queue[i].failures = rows[ids[i]][1].failures /\ queue[i].shows = rows[ids[i]][1].shows
  BY <1>6
<1> QED
  <2> HIDE DEF State, Before
  <2> QED BY <1>6, <1>7, <1>8, <1>10, <1>11

\* A cycle begins: rows that nobody armed are armed, and the queue is read as they stand.
LEMMA BeginPolls ==
  ASSUME Poll!PollInv, NEW r \in Pollers, Poll!Begin(r)
  PROVE  Poll!PollInv'
<1>1. /\ sweep[r] = Poll!Idle /\ lease.left = 0 /\ lease' = [by |-> r, left |-> PollLease]
      /\ UNCHANGED <<cooling, lastAsked, overtook, outlived, broken>>
      /\ Poll!PollTypes /\ Poll!Rowed /\ Poll!BackedOff
  BY DEF Poll!Begin, Poll!PollInv
<1>2. PICK listed_, rows, queue :
        /\ listed_ \in SUBSET Polled
        /\ rows \in {row, Poll!Seeded(listed_)} /\ queue \in Poll!Due(rows) \union {<<>>} /\ row' = rows
        /\ sweep' = [sweep EXCEPT ![r] = [age |-> 0, queue |-> queue, flight |-> {},
                                          passed |-> Poll!Eligible(rows) \ Poll!Queued(queue)]]
        /\ page' \in [Pollers -> Nat]
  <2> DEFINE listed_ == {a \in Polled : page[r] * PollPage < a /\ a <= (page[r] + 1) * PollPage}
             moved == IF (page[r] + 1) * PollPage >= Poll!Cardinality(Polled) THEN 0 ELSE page[r] + 1
             now(rows, queue) ==
               /\ row' = rows
               /\ sweep' = [sweep EXCEPT ![r] = [age |-> 0, queue |-> queue, flight |-> {},
                                                 passed |-> Poll!Eligible(rows) \ Poll!Queued(queue)]]
  <2>1. page \in [Pollers -> Nat]
    BY <1>1 DEF Poll!PollTypes, Poll!TypeOK
  <2>2. moved \in Nat
    BY <2>1
  <2>3. [page EXCEPT ![r] = moved] \in [Pollers -> Nat]
    <3> HIDE DEF moved
    <3> QED BY <2>1, <2>2
  <2>4. \/ /\ page' = [page EXCEPT ![r] = moved]
           /\ \E queue \in Poll!Due(Poll!Seeded(listed_)) : now(Poll!Seeded(listed_), queue)
        \/ /\ page' \in {page, [page EXCEPT ![r] = moved]}
           /\ \E queue \in Poll!Due(row) : now(row, queue)
        \/ page' = [page EXCEPT ![r] = moved] /\ now(Poll!Seeded(listed_), <<>>)
    BY DEF Poll!Begin
  <2>5. page' \in [Pollers -> Nat]
    <3> HIDE DEF moved, now, listed_
    <3> QED BY <2>1, <2>3, <2>4
  <2>6. listed_ \in SUBSET Polled
    OBVIOUS
  <2>7. \E rows \in {row, Poll!Seeded(listed_)} : \E queue \in Poll!Due(rows) \union {<<>>} : now(rows, queue)
    <3> HIDE DEF moved, now, listed_
    <3> QED BY <2>4
  <2>8. PICK rows \in {row, Poll!Seeded(listed_)} : \E queue \in Poll!Due(rows) \union {<<>>} : now(rows, queue)
    BY <2>7
  <2>9. PICK queue \in Poll!Due(rows) \union {<<>>} : now(rows, queue)
    BY <2>8
  <2> QED BY <2>5, <2>6, <2>8, <2>9
<1>3. /\ rows \in [Polled -> Seq(Poll!RowType)]
      /\ \A a \in Polled : /\ rows[a] = <<>> \/ rows[a][1] \in Poll!RowType
                           /\ Poll!Scheduled(a) => rows[a] = row[a]
                           /\ ~Poll!Scheduled(a) /\ rows[a] # <<>> =>
                                rows[a][1].failures = 0 /\ rows[a][1].rest = 0
  <2>1. row \in [Polled -> Seq(Poll!RowType)] /\ \A a \in Polled : row[a] = <<>> \/ row[a][1] \in Poll!RowType
    BY <1>1 DEF Poll!PollTypes, Poll!TypeOK
  <2>2. CASE rows = row
    BY <2>1, <2>2 DEF Poll!Scheduled
  <2>3. CASE rows = Poll!Seeded(listed_)
    <3>1. <<Poll!New>> \in Seq(Poll!RowType) /\ <<Poll!New>>[1] = Poll!New /\ Poll!New \in Poll!RowType
          /\ Poll!New.failures = 0 /\ Poll!New.rest = 0
      BY DEF Poll!New, Poll!RowType
    <3>2. rows = [a \in Polled |-> IF a \in listed_ /\ row[a] = <<>> THEN <<Poll!New>> ELSE row[a]]
      BY <2>3 DEF Poll!Seeded, Poll!Scheduled
    <3>3. rows \in [Polled -> Seq(Poll!RowType)]
      BY <2>1, <3>1, <3>2
    <3>4. ASSUME NEW a \in Polled
          PROVE  /\ rows[a] = <<>> \/ rows[a][1] \in Poll!RowType
                 /\ Poll!Scheduled(a) => rows[a] = row[a]
                 /\ ~Poll!Scheduled(a) /\ rows[a] # <<>> =>
                      rows[a][1].failures = 0 /\ rows[a][1].rest = 0
      <4>1. CASE a \in listed_ /\ row[a] = <<>>
        <5>1. rows[a] = <<Poll!New>>
          BY <3>2, <4>1
        <5>2. rows[a][1] = Poll!New
          BY <3>1, <5>1
        <5> QED BY <3>1, <4>1, <5>2 DEF Poll!Scheduled
      <4>2. CASE ~(a \in listed_ /\ row[a] = <<>>)
        <5>1. rows[a] = row[a]
          BY <3>2, <4>2
        <5> QED BY <2>1, <5>1 DEF Poll!Scheduled
      <4> QED BY <4>1, <4>2
    <3> QED BY <3>3, <3>4
  <2> QED BY <1>2, <2>2, <2>3
<1>4. /\ queue \in Seq(Poll!Snapshot)
      /\ \A i, j \in DOMAIN queue : i < j => queue[i].id # queue[j].id
      /\ \A i \in DOMAIN queue :
           /\ queue[i].id \in Poll!Eligible(rows) /\ queue[i].since = rows[queue[i].id][1].since
           /\ queue[i].failures = rows[queue[i].id][1].failures /\ queue[i].shows = rows[queue[i].id][1].shows
           /\ \A b \in Poll!Eligible(rows) \ Poll!Queued(queue) :
                Poll!Overdue(rows, queue[i].id) >= Poll!Overdue(rows, b)
  <2>1. CASE queue = <<>>
    BY <2>1
  <2>2. CASE queue \in Poll!Due(rows)
    BY <1>3, <2>2, DueIs
  <2> QED BY <1>2, <2>1, <2>2
<1>5. \A a \in Poll!Eligible(rows) : a \in Polled /\ rows[a] # <<>> /\ Poll!Overdue(rows, a) >= 0
  BY DEF Poll!Eligible
<1>6. /\ sweep'[r].age = 0 /\ sweep'[r].queue = queue /\ sweep'[r].flight = {}
      /\ sweep'[r].passed = Poll!Eligible(rows) \ Poll!Queued(queue)
      /\ sweep'[r] # Poll!Idle
      /\ \A q \in Pollers : q # r => sweep'[q] = sweep[q]
  <2>1. DOMAIN sweep = Pollers
    BY <1>1 DEF Poll!PollTypes
  <2>2. sweep'[r] = [age |-> 0, queue |-> queue, flight |-> {}, passed |-> Poll!Eligible(rows) \ Poll!Queued(queue)]
        /\ \A q \in Pollers : q # r => sweep'[q] = sweep[q]
    BY <1>2, <2>1
  <2> QED BY <2>2, IdleTyped
<1>7. Poll!Pending(r)' = {queue[i] : i \in DOMAIN queue}
  BY <1>6 DEF Poll!Pending
<1>8. Poll!PollTypes'
  <2>1. sweep' \in [Pollers -> [age : Int, queue : Seq(Poll!Snapshot), flight : SUBSET Poll!Snapshot,
                                passed : SUBSET Polled]]
    <3>1. [age |-> 0, queue |-> queue, flight |-> {}, passed |-> Poll!Eligible(rows) \ Poll!Queued(queue)]
            \in [age : Int, queue : Seq(Poll!Snapshot), flight : SUBSET Poll!Snapshot, passed : SUBSET Polled]
      BY <1>4, <1>5
    <3> QED BY <1>1, <1>2, <3>1 DEF Poll!PollTypes
  <2>2. \A q \in Pollers : sweep'[q].flight \subseteq Poll!Snapshot
    BY <2>1
  <2>3. lease' \in [by : Pollers \union {"none"}, left : Nat] /\ lease'.left \in 0..PollLease
    BY <1>1, PollNumbers
  <2> QED BY <1>1, <1>2, <1>3, <2>1, <2>2, <2>3 DEF Poll!PollTypes, Poll!TypeOK
<1>9. Poll!Rowed'
  <2>1. \A q \in Pollers : sweep'[q] = Poll!Idle \/ sweep'[q].age \in 0..MaxCycle
    BY <1>1, <1>6, PollNumbers DEF Poll!Rowed
  <2>2. ASSUME NEW q \in Pollers, NEW s \in Poll!Pending(q)' \union sweep'[q].flight
        PROVE  Poll!Scheduled(s.id)'
    <3>1. CASE q = r
      <4>1. PICK i \in DOMAIN queue : s = queue[i]
        BY <1>6, <1>7, <2>2, <3>1
      <4> QED BY <1>2, <1>4, <1>5, <4>1 DEF Poll!Scheduled
    <3>2. CASE q # r
      <4>1. s \in Poll!Pending(q) \union sweep[q].flight
        BY <1>6, <2>2, <3>2 DEF Poll!Pending
      <4>2. Poll!Scheduled(s.id) /\ s.id \in Polled
        <5>1. sweep[q].queue \in Seq(Poll!Snapshot) /\ sweep[q].flight \subseteq Poll!Snapshot
          BY <1>1 DEF Poll!PollTypes
        <5>2. s \in Poll!Snapshot
          BY <4>1, <5>1 DEF Poll!Pending
        <5> QED BY <1>1, <4>1, <5>2 DEF Poll!Rowed, Poll!Snapshot
      <4> QED BY <1>2, <1>3, <4>2 DEF Poll!Scheduled
    <3> QED BY <3>1, <3>2
  <2> QED BY <2>1, <2>2 DEF Poll!Rowed
<1>10. Poll!BackedOff'
  <2> SUFFICES ASSUME NEW a \in Polled, rows[a] # <<>>
               PROVE  /\ rows[a][1].failures > 0 /\ ~outlived => rows[a][1].rest >= Poll!Backoff(rows[a][1].failures)
                      /\ rows[a][1].rest <= Poll!Larger(PollCeiling, Floors[a] + (Floors[a] \div 4))
    BY <1>1, <1>2 DEF Poll!BackedOff, Poll!Scheduled
  <2>1. CASE Poll!Scheduled(a)
    BY <1>1, <1>3, <2>1 DEF Poll!BackedOff
  <2>2. CASE ~Poll!Scheduled(a)
    <3> DEFINE most == Poll!Larger(PollCeiling, Floors[a] + (Floors[a] \div 4))
    <3>1. rows[a][1].failures = 0 /\ rows[a][1].rest = 0 /\ Floors[a] \in Nat /\ Floors[a] <= most /\ most \in Int
      BY <1>3, <2>2, FloorBounded, PollNumbers DEF Poll!Larger
    <3> HIDE DEF most
    <3>2. 0 <= most
      BY <3>1
    <3> QED BY <3>1, <3>2 DEF most
  <2> QED BY <2>1, <2>2
<1>11. ASSUME ~outlived
       PROVE  Poll!Orderly'
  <2>1. Poll!Orderly
    BY <1>11 DEF Poll!PollInv
  <2>2. \A q \in Pollers : sweep[q] = Poll!Idle
    BY <1>1, <2>1 DEF Poll!Orderly, Poll!Alone
  <2>3. \A a : ~Poll!Busy(a) /\ ~Poll!Busy(a)'
    BY <1>6, <2>2, IdleIsOrderly DEF Poll!Busy, Poll!Ids
  <2>4. Poll!Alone'
    BY <1>1, <1>6, <2>2, PollNumbers DEF Poll!Alone
  <2>5. Poll!Turns'
    <3> SUFFICES ASSUME NEW b \in Polled, NEW a \in overtook[b]
                 PROVE  /\ a # b /\ rows[b] # <<>> /\ Poll!Overdue(rows, b) >= 0
                        /\ \A q \in Pollers : Poll!Overdue(rows, b) >= sweep'[q].age
                        /\ lastAsked[a] # Poll!Never =>
                             rows[a] # <<>> /\ Poll!Overdue(rows, a) < Poll!Overdue(rows, b)
      BY <1>1, <1>2 DEF Poll!Turns, Poll!Scheduled
    <3>1. /\ a # b /\ Poll!Scheduled(b) /\ Poll!Overdue(row, b) >= 0
          /\ lastAsked[a] # Poll!Never => Poll!Scheduled(a) /\ Poll!Overdue(row, a) < Poll!Overdue(row, b)
      BY <2>1, <2>3 DEF Poll!Orderly, Poll!Turns
    <3>2. a \in Polled
      BY <1>1 DEF Poll!PollTypes
    <3>3. rows[b] = row[b] /\ (Poll!Scheduled(a) => rows[a] = row[a])
      BY <1>3, <3>1, <3>2
    <3>4. Poll!Overdue(rows, b) = Poll!Overdue(row, b) /\ Poll!Overdue(row, b) \in Int
          /\ (Poll!Scheduled(a) => Poll!Overdue(rows, a) = Poll!Overdue(row, a))
      BY <1>1, <3>1, <3>3, RowIs DEF Poll!Overdue
    <3>5. \A q \in Pollers : sweep'[q].age \in {0, -1}
      BY <1>6, <2>2, IdleIsOrderly
    <3> QED BY <3>1, <3>3, <3>4, <3>5 DEF Poll!Scheduled
  <2>6. Poll!Stamped'
    <3> SUFFICES ASSUME NEW a \in Polled, lastAsked[a] # Poll!Never
                 PROVE  /\ rows[a] # <<>>
                        /\ rows[a][1].since <= lastAsked[a] \/ Floors[a] + MaxCycle <= lastAsked[a]
                        /\ rows[a][1].shows \/ rows[a][1].failures # 0 \/ rows[a][1].rest >= Floors[a]
      BY <1>1, <1>2 DEF Poll!Stamped, Poll!Scheduled
    <3>1. /\ Poll!Scheduled(a)
          /\ row[a][1].since <= lastAsked[a] \/ Floors[a] + MaxCycle <= lastAsked[a]
          /\ row[a][1].shows \/ row[a][1].failures # 0 \/ row[a][1].rest >= Floors[a]
      BY <2>1, <2>3 DEF Poll!Orderly, Poll!Stamped
    <3> QED BY <1>3, <3>1 DEF Poll!Scheduled
  <2>7. Poll!AsRead(r)'
    <3> SUFFICES ASSUME NEW i \in DOMAIN queue
                 PROVE  /\ rows[queue[i].id][1].since = queue[i].since + 0
                        /\ rows[queue[i].id][1].failures = queue[i].failures
                        /\ rows[queue[i].id][1].shows = queue[i].shows
                        /\ Poll!Overdue(rows, queue[i].id) >= 0
                        /\ queue[i].id \notin {} \union (Poll!Eligible(rows) \ Poll!Queued(queue))
      BY <1>2, <1>4, <1>6, <1>7 DEF Poll!AsRead, Poll!Ids
    <3>1. queue[i].since \in Nat
      <4>1. queue[i] \in Poll!Snapshot
        BY <1>4
      <4> QED BY <4>1 DEF Poll!Snapshot
    <3>2. queue[i].id \in Poll!Queued(queue)
      BY DEF Poll!Queued
    <3> QED BY <1>4, <1>5, <3>1, <3>2
  <2>8. Poll!InFlight(r)'
    BY <1>6 DEF Poll!InFlight
  <2>9. Poll!PassedOver(r)'
    <3> SUFFICES ASSUME NEW b \in Poll!Eligible(rows) \ Poll!Queued(queue)
                 PROVE  /\ rows[b] # <<>> /\ Poll!Overdue(rows, b) >= 0
                        /\ \A s \in Poll!Pending(r)' : Poll!Overdue(rows, s.id) >= Poll!Overdue(rows, b)
      BY <1>2, <1>6 DEF Poll!PassedOver, Poll!Scheduled
    <3> QED BY <1>4, <1>5, <1>7
  <2>10. \A q \in Pollers : Poll!AsRead(q)' /\ Poll!InFlight(q)' /\ Poll!PassedOver(q)'
    BY <1>6, <2>2, <2>7, <2>8, <2>9, IdleIsOrderlyNext
  <2> QED BY <1>1, <2>1, <2>4, <2>5, <2>6, <2>10 DEF Poll!Orderly
<1> QED BY <1>1, <1>8, <1>9, <1>10, <1>11 DEF Poll!PollInv

\* What is queued or in flight is a copy of a row of the fleet.
LEMMA CopiesTyped ==
  ASSUME Poll!PollTypes, NEW r \in Pollers, NEW s \in Poll!Pending(r) \union sweep[r].flight
  PROVE  s \in Poll!Snapshot /\ s.id \in Polled /\ s.since \in Nat /\ s.failures \in Nat /\ s.shows \in BOOLEAN
<1>1. sweep[r].queue \in Seq(Poll!Snapshot) /\ sweep[r].flight \subseteq Poll!Snapshot
  BY DEF Poll!PollTypes
<1>2. s \in Poll!Snapshot
  BY <1>1 DEF Poll!Pending
<1> QED BY <1>2 DEF Poll!Snapshot

\* A cycle that ends or stops leaves its sweep, and nothing in flight but what lost its stamp.
LEMMA SweepEnds ==
  ASSUME Poll!PollInv, NEW r \in Pollers, sweep[r] # Poll!Idle,
         sweep' = [sweep EXCEPT ![r] = Poll!Idle], UNCHANGED <<row, cooling, overtook, outlived, broken>>,
         page' \in [Pollers -> Nat],
         lease' = lease \/ lease' = Poll!NoLease,
         lastAsked' = [a \in Polled |-> IF a \in Poll!Ids(sweep[r].flight) THEN Poll!Never ELSE lastAsked[a]]
  PROVE  Poll!PollInv'
<1>1. /\ Poll!PollTypes /\ Poll!Rowed /\ Poll!BackedOff
      /\ sweep'[r] = Poll!Idle /\ \A q \in Pollers : q # r => sweep'[q] = sweep[q]
  BY DEF Poll!PollInv, Poll!PollTypes
<1>2. Poll!PollTypes'
  <2>1. sweep' \in [Pollers -> [age : Int, queue : Seq(Poll!Snapshot), flight : SUBSET Poll!Snapshot,
                                passed : SUBSET Polled]]
        /\ \A q \in Pollers : sweep'[q].flight \subseteq Poll!Snapshot
    BY <1>1, IdleTyped DEF Poll!PollTypes
  <2>2. lease' \in [by : Pollers \union {"none"}, left : Nat] /\ lease'.left \in 0..PollLease
    BY <1>1, PollNumbers DEF Poll!PollTypes, Poll!TypeOK, Poll!NoLease
  <2>3. lastAsked' \in [Polled -> Int]
    BY <1>1 DEF Poll!PollTypes, Poll!TypeOK, Poll!Never
  <2> QED BY <1>1, <2>1, <2>2, <2>3 DEF Poll!PollTypes, Poll!TypeOK
<1>3. Poll!Rowed'
  <2>1. \A q \in Pollers : sweep'[q] = Poll!Idle \/ sweep'[q].age \in 0..MaxCycle
    BY <1>1 DEF Poll!Rowed
  <2>2. \A q \in Pollers : \A s \in Poll!Pending(q)' \union sweep'[q].flight : Poll!Scheduled(s.id)'
    <3> TAKE q \in Pollers
    <3>1. CASE q = r
      BY <1>1, <3>1, IdleIsOrderlyNext
    <3>2. CASE q # r
      BY <1>1, <3>2 DEF Poll!Rowed, Poll!Pending, Poll!Scheduled
    <3> QED BY <3>1, <3>2
  <2> QED BY <2>1, <2>2 DEF Poll!Rowed
<1>4. Poll!BackedOff'
  BY <1>1 DEF Poll!BackedOff, Poll!Scheduled
<1>5. ASSUME ~outlived
      PROVE  Poll!Orderly'
  <2>1. Poll!Orderly
    BY <1>5 DEF Poll!PollInv
  <2>2. \A q \in Pollers : sweep'[q] = Poll!Idle
    BY <1>1, <2>1, OthersIdle
  <2>3. \A a : ~Poll!Busy(a)' /\ (Poll!Busy(a) <=> a \in Poll!Ids(sweep[r].flight))
    <3>1. \A a : ~Poll!Busy(a)'
      BY <2>2, IdleIsOrderlyNext DEF Poll!Busy, Poll!Ids
    <3>2. \A a : Poll!Busy(a) <=> a \in Poll!Ids(sweep[r].flight)
      BY <2>1, BusyOnlyHere
    <3> QED BY <3>1, <3>2
  <2>4. \A a \in Polled : lastAsked'[a] # Poll!Never => lastAsked'[a] = lastAsked[a] /\ ~Poll!Busy(a)
    BY <2>3
  <2>5. Poll!Turns'
    <3> SUFFICES ASSUME NEW b \in Polled, NEW a \in overtook[b]
                 PROVE  /\ a # b /\ Poll!Scheduled(b) /\ Poll!Overdue(row, b) >= 0
                        /\ \A q \in Pollers : Poll!Overdue(row, b) >= sweep'[q].age
                        /\ lastAsked'[a] # Poll!Never =>
                             Poll!Scheduled(a) /\ Poll!Overdue(row, a) < Poll!Overdue(row, b)
      BY DEF Poll!Turns, Poll!Scheduled
    <3>1. /\ a # b /\ Poll!Scheduled(b) /\ Poll!Overdue(row, b) >= 0
          /\ lastAsked[a] # Poll!Never /\ ~Poll!Busy(a) =>
               Poll!Scheduled(a) /\ Poll!Overdue(row, a) < Poll!Overdue(row, b)
      BY <2>1 DEF Poll!Orderly, Poll!Turns
    <3>2. a \in Polled /\ Poll!Overdue(row, b) \in Int
      BY <1>1, <3>1, RowIs DEF Poll!PollTypes
    <3>3. \A q \in Pollers : sweep'[q].age = -1
      BY <2>2, IdleIsOrderlyNext
    <3> QED BY <2>4, <3>1, <3>2, <3>3
  <2>6. Poll!Stamped'
    <3> SUFFICES ASSUME NEW a \in Polled, lastAsked'[a] # Poll!Never
                 PROVE  /\ Poll!Scheduled(a)
                        /\ row[a][1].since <= lastAsked'[a] \/ Floors[a] + MaxCycle <= lastAsked'[a]
                        /\ row[a][1].shows \/ row[a][1].failures # 0 \/ row[a][1].rest >= Floors[a]
      BY DEF Poll!Stamped, Poll!Scheduled
    <3> QED BY <2>1, <2>4 DEF Poll!Orderly, Poll!Stamped
  <2>7. Poll!Alone' /\ \A q \in Pollers : Poll!AsRead(q)' /\ Poll!InFlight(q)' /\ Poll!PassedOver(q)'
    BY <2>2, IdleIsOrderlyNext DEF Poll!Alone
  <2> QED BY <2>1, <2>5, <2>6, <2>7 DEF Poll!Orderly
<1> QED BY <1>2, <1>3, <1>4, <1>5 DEF Poll!PollInv

LEMMA EndPolls ==
  ASSUME Poll!PollInv, NEW r \in Pollers, Poll!End(r)
  PROVE  Poll!PollInv'
<1>1. /\ sweep[r] # Poll!Idle /\ sweep[r].flight = {} /\ sweep' = [sweep EXCEPT ![r] = Poll!Idle]
      /\ (lease' = lease \/ lease' = Poll!NoLease) /\ UNCHANGED <<row, cooling, page, lastAsked, overtook, outlived, broken>>
  BY DEF Poll!End
<1>2. page \in [Pollers -> Nat] /\ lastAsked \in [Polled -> Int]
  BY DEF Poll!PollInv, Poll!PollTypes, Poll!TypeOK
<1>3. lastAsked' = [a \in Polled |-> IF a \in Poll!Ids(sweep[r].flight) THEN Poll!Never ELSE lastAsked[a]]
  BY <1>1, <1>2 DEF Poll!Ids
<1> QED BY <1>1, <1>2, <1>3, SweepEnds

LEMMA StopPolls ==
  ASSUME Poll!PollInv, NEW r \in Pollers, Poll!Stop(r)
  PROVE  Poll!PollInv'
<1>1. page \in [Pollers -> Nat]
  BY DEF Poll!PollInv, Poll!PollTypes, Poll!TypeOK
<1> QED BY <1>1, SweepEnds DEF Poll!Stop

\* Nothing but the cooldowns moved.
LEMMA PollStill ==
  ASSUME Poll!PollInv, UNCHANGED <<row, lease, page, sweep, lastAsked, overtook, outlived, broken>>,
         cooling' \in [Polled -> 0..PollCooldown]
  PROVE  Poll!PollInv'
<1>1. Poll!PollTypes'
  BY DEF Poll!PollInv, Poll!PollTypes, Poll!TypeOK
<1>2. Poll!Rowed' /\ Poll!BackedOff'
  BY DEF Poll!PollInv, Poll!Rowed, Poll!BackedOff, Poll!Scheduled, Poll!Pending
<1>3. Poll!Orderly => Poll!Orderly'
  <2> SUFFICES ASSUME Poll!Orderly PROVE Poll!Orderly'
    OBVIOUS
  <2>1. \A a : Poll!Busy(a)' <=> Poll!Busy(a)
    BY DEF Poll!Busy
  <2>2. Poll!Alone' /\ Poll!Turns' /\ Poll!Stamped'
    BY <2>1 DEF Poll!Orderly, Poll!Alone, Poll!Turns, Poll!Stamped, Poll!Scheduled
  <2>3. \A q \in Pollers : Poll!AsRead(q)' /\ Poll!InFlight(q)' /\ Poll!PassedOver(q)'
    BY DEF Poll!Orderly, Poll!AsRead, Poll!InFlight, Poll!PassedOver, Poll!Pending, Poll!Scheduled
  <2> QED BY <2>2, <2>3 DEF Poll!Orderly
<1> QED BY <1>1, <1>2, <1>3 DEF Poll!PollInv

LEMMA ThrottlePolls ==
  ASSUME Poll!PollInv, Poll!Throttle
  PROVE  Poll!PollInv'
<1>1. cooling \in [Polled -> 0..PollCooldown]
  BY DEF Poll!PollInv, Poll!PollTypes, Poll!TypeOK
<1>2. cooling' \in [Polled -> 0..PollCooldown]
  BY <1>1, PollNumbers DEF Poll!Throttle
<1> QED BY <1>2, PollStill DEF Poll!Throttle

\* A tick ages every row and every cycle alike.
LEMMA TickPolls ==
  ASSUME Poll!PollInv, Poll!Tick
  PROVE  Poll!PollInv'
<1>1. /\ Poll!PollTypes /\ Poll!Rowed /\ Poll!BackedOff /\ UNCHANGED <<page, overtook, broken>>
      /\ \A r \in Pollers : sweep[r].age < MaxCycle
      /\ row' = [a \in Polled |-> IF Poll!Scheduled(a) THEN <<[row[a][1] EXCEPT !.since = @ + 1]>> ELSE <<>>]
      /\ cooling' = [a \in Polled |-> Poll!Sooner(cooling[a])]
      /\ lease' = IF lease.left <= 1 THEN Poll!NoLease ELSE [lease EXCEPT !.left = @ - 1]
      /\ sweep' = [r \in Pollers |-> [sweep[r] EXCEPT !.age = Poll!Older(@)]]
      /\ lastAsked' = [a \in Polled |-> IF lastAsked[a] >= Floors[a] + MaxCycle THEN lastAsked[a]
                                        ELSE Poll!Older(lastAsked[a])]
      /\ outlived' = (outlived \/ \E r \in Pollers : sweep[r] # Poll!Idle /\ lease'.by # r)
  BY DEF Poll!PollInv, Poll!Tick
<1>2. ASSUME NEW a \in Polled, Poll!Scheduled(a)
      PROVE  /\ row'[a] \in Seq(Poll!RowType) /\ row'[a] # <<>> /\ row'[a][1] \in Poll!RowType
             /\ row'[a][1].since = row[a][1].since + 1 /\ row'[a][1].rest = row[a][1].rest
             /\ row'[a][1].failures = row[a][1].failures /\ row'[a][1].shows = row[a][1].shows
             /\ Poll!Overdue(row, a)' = Poll!Overdue(row, a) + 1 /\ Poll!Overdue(row, a) \in Int
  <2> DEFINE was == row[a][1]
             is == [was EXCEPT !.since = @ + 1]
  <2>1. was \in Poll!RowType /\ was.since \in Nat /\ was.rest \in Nat
        /\ Poll!Overdue(row, a) = was.since - was.rest
    BY <1>1, <1>2, RowIs
  <2>2. row'[a] = <<is>>
    BY <1>1, <1>2
  <2>3. is \in Poll!RowType /\ is.since = was.since + 1 /\ is.rest = was.rest
        /\ is.failures = was.failures /\ is.shows = was.shows
    <3> HIDE DEF was
    <3> QED BY <2>1 DEF Poll!RowType
  <2>4. row'[a] \in Seq(Poll!RowType) /\ row'[a] # <<>> /\ row'[a][1] = is
    <3> HIDE DEF is
    <3> QED BY <2>2, <2>3
  <2>5. Poll!Overdue(row, a)' = is.since - is.rest
    BY <2>4 DEF Poll!Overdue
  <2> HIDE DEF is, was
  <2>6. Poll!Overdue(row, a)' = Poll!Overdue(row, a) + 1 /\ Poll!Overdue(row, a) \in Int
    BY <2>1, <2>3, <2>5
  <2> QED BY <2>3, <2>4, <2>6 DEF was
<1>3. \A a \in Polled : ~Poll!Scheduled(a) => row'[a] = <<>>
  BY <1>1
<1>4. \A a \in Polled : Poll!Scheduled(a)' <=> Poll!Scheduled(a)
  BY <1>2, <1>3 DEF Poll!Scheduled
<1>5. ASSUME NEW r \in Pollers
      PROVE  /\ sweep'[r] \in [age : Int, queue : Seq(Poll!Snapshot), flight : SUBSET Poll!Snapshot,
                               passed : SUBSET Polled]
             /\ sweep'[r].queue = sweep[r].queue /\ sweep'[r].flight = sweep[r].flight
             /\ sweep'[r].passed = sweep[r].passed
             /\ sweep[r] = Poll!Idle => sweep'[r] = Poll!Idle /\ sweep'[r].age = -1
             /\ sweep[r] # Poll!Idle => /\ sweep'[r] # Poll!Idle /\ sweep[r].age \in 0..MaxCycle
                                        /\ sweep'[r].age = sweep[r].age + 1 /\ sweep'[r].age \in 0..MaxCycle
  <2> DEFINE was == sweep[r]
             is == [was EXCEPT !.age = Poll!Older(@)]
             kind == [age : Int, queue : Seq(Poll!Snapshot), flight : SUBSET Poll!Snapshot, passed : SUBSET Polled]
  <2>1. was \in kind /\ sweep'[r] = is /\ (was = Poll!Idle \/ was.age \in 0..MaxCycle) /\ was.age < MaxCycle
    BY <1>1 DEF Poll!PollTypes, Poll!Rowed
  <2>2. Poll!Older(was.age) \in Int /\ (was.age = -1 => Poll!Older(was.age) = -1)
        /\ (was.age >= 0 => Poll!Older(was.age) = was.age + 1)
    <3>1. was.age \in Int
      BY <2>1
    <3> HIDE DEF was
    <3> QED BY <3>1 DEF Poll!Older, Poll!Never
  <2>3. is \in kind /\ is.age = Poll!Older(was.age) /\ is.queue = was.queue /\ is.flight = was.flight
        /\ is.passed = was.passed
    <3> HIDE DEF was
    <3> QED BY <2>1, <2>2
  <2>4. CASE was = Poll!Idle
    <3>1. Poll!Older(Poll!Idle.age) = Poll!Idle.age
      BY IdleTyped DEF Poll!Older, Poll!Never
    <3>2. is = Poll!Idle
      <4>1. is = [Poll!Idle EXCEPT !.age = Poll!Idle.age]
        BY <2>4, <3>1
      <4> QED BY <4>1, IdleTyped
    <3> QED BY <2>1, <2>3, <2>4, <3>2, IdleTyped
  <2>5. CASE was # Poll!Idle
    <3>1. was.age \in 0..MaxCycle /\ was.age < MaxCycle
      BY <2>1, <2>5
    <3>2. is.age = was.age + 1 /\ is.age \in 0..MaxCycle
      <4> HIDE DEF was, is
      <4> QED BY <2>2, <2>3, <3>1, PollNumbers
    <3>3. is # Poll!Idle
      <4> HIDE DEF is
      <4> QED BY <3>2, IdleTyped
    <3> QED BY <2>1, <2>3, <2>5, <3>1, <3>2, <3>3
  <2> QED BY <2>4, <2>5
<1>6. \A r \in Pollers : Poll!Pending(r)' = Poll!Pending(r)
  BY <1>5 DEF Poll!Pending
<1>7. \A a : Poll!Busy(a)' <=> Poll!Busy(a)
  BY <1>5 DEF Poll!Busy
<1>8. Poll!PollTypes'
  <2>1. row' \in [Polled -> Seq(Poll!RowType)]
    <3>1. ASSUME NEW a \in Polled PROVE row'[a] \in Seq(Poll!RowType)
      <4>1. <<>> \in Seq(Poll!RowType)
        OBVIOUS
      <4>2. CASE Poll!Scheduled(a)
        BY <1>2, <4>2
      <4>3. CASE ~Poll!Scheduled(a)
        BY <1>3, <4>1, <4>3
      <4> QED BY <4>2, <4>3
    <3> QED BY <1>1, <3>1
  <2>2. \A a \in Polled : row'[a] = <<>> \/ row'[a][1] \in Poll!RowType
    BY <1>2, <1>3
  <2>3. cooling' \in [Polled -> 0..PollCooldown]
    BY <1>1, PollNumbers DEF Poll!PollTypes, Poll!TypeOK, Poll!Sooner
  <2>4. lease' \in [by : Pollers \union {"none"}, left : Nat] /\ lease'.left \in 0..PollLease
    <3>1. lease \in [by : Pollers \union {"none"}, left : Nat] /\ lease.left \in 0..PollLease
      BY <1>1 DEF Poll!PollTypes, Poll!TypeOK
    <3>2. CASE lease.left <= 1
      BY <1>1, <3>2, PollNumbers DEF Poll!NoLease
    <3>3. CASE ~(lease.left <= 1)
      <4>1. lease.left - 1 \in Nat /\ lease.left - 1 \in 0..PollLease
        BY <3>1, <3>3, PollNumbers
      <4>2. lease' = [lease EXCEPT !.left = lease.left - 1]
        BY <1>1, <3>3
      <4> QED BY <3>1, <4>1, <4>2
    <3> QED BY <3>2, <3>3
  <2>5. sweep' \in [Pollers -> [age : Int, queue : Seq(Poll!Snapshot), flight : SUBSET Poll!Snapshot,
                                passed : SUBSET Polled]]
    BY <1>1, <1>5
  <2>6. \A r \in Pollers : sweep'[r].flight \subseteq Poll!Snapshot
    BY <2>5
  <2>7. lastAsked' \in [Polled -> Int]
    BY <1>1 DEF Poll!PollTypes, Poll!TypeOK, Poll!Older, Poll!Never
  <2>8. outlived' \in BOOLEAN
    BY <1>1 DEF Poll!PollTypes
  <2> QED BY <1>1, <2>1, <2>2, <2>3, <2>4, <2>5, <2>6, <2>7, <2>8 DEF Poll!PollTypes, Poll!TypeOK
<1>9. Poll!Rowed'
  <2>1. \A r \in Pollers : sweep'[r] = Poll!Idle \/ sweep'[r].age \in 0..MaxCycle
    BY <1>5
  <2>2. ASSUME NEW r \in Pollers, NEW s \in Poll!Pending(r)' \union sweep'[r].flight
        PROVE  Poll!Scheduled(s.id)'
    <3>1. s \in Poll!Pending(r) \union sweep[r].flight
      BY <1>5, <1>6, <2>2
    <3>2. s.id \in Polled /\ Poll!Scheduled(s.id)
      BY <1>1, <3>1, CopiesTyped DEF Poll!Rowed
    <3> QED BY <1>4, <3>2
  <2> QED BY <2>1, <2>2 DEF Poll!Rowed
<1>10. Poll!BackedOff'
  <2> SUFFICES ASSUME NEW a \in Polled, Poll!Scheduled(a)
               PROVE  /\ row'[a][1].failures > 0 /\ ~outlived' =>
                           row'[a][1].rest >= Poll!Backoff(row'[a][1].failures)
                      /\ row'[a][1].rest <= Poll!Larger(PollCeiling, Floors[a] + (Floors[a] \div 4))
    BY <1>4 DEF Poll!BackedOff
  <2>1. /\ row[a][1].failures > 0 /\ ~outlived => row[a][1].rest >= Poll!Backoff(row[a][1].failures)
        /\ row[a][1].rest <= Poll!Larger(PollCeiling, Floors[a] + (Floors[a] \div 4))
    BY <1>1 DEF Poll!BackedOff
  <2> QED BY <1>1, <1>2, <2>1
<1>11. ASSUME ~outlived'
       PROVE  Poll!Orderly'
  <2>1. Poll!Orderly /\ \A r \in Pollers : sweep[r] # Poll!Idle => lease'.by = r
    BY <1>1, <1>11 DEF Poll!PollInv
  <2>2. Poll!Alone'
    <3> SUFFICES ASSUME NEW r \in Pollers, sweep'[r] # Poll!Idle PROVE lease'.by = r /\ lease'.left > 0
      BY DEF Poll!Alone
    <3>1. lease'.by = r /\ r # "none"
      BY <1>5, <2>1, PollNumbers
    <3>2. ~(lease.left <= 1)
      BY <1>1, <3>1 DEF Poll!NoLease
    <3>3. lease'.left = lease.left - 1 /\ lease.left \in Nat
      BY <1>1, <3>2 DEF Poll!PollTypes
    <3> QED BY <3>1, <3>2, <3>3
  <2>3. ASSUME NEW a \in Polled
        PROVE  /\ lastAsked'[a] # Poll!Never => lastAsked[a] # Poll!Never
               /\ lastAsked[a] >= 0 => lastAsked'[a] >= lastAsked[a]
               /\ lastAsked[a] >= 0 /\ lastAsked[a] < Floors[a] + MaxCycle => lastAsked'[a] = lastAsked[a] + 1
               /\ Floors[a] + MaxCycle <= lastAsked[a] => lastAsked'[a] = lastAsked[a]
               /\ lastAsked[a] \in Int /\ Floors[a] \in Nat /\ Floors[a] > 0
    <3>1. lastAsked[a] \in Int /\ Floors[a] \in Nat /\ Floors[a] > 0 /\ MaxCycle \in Nat
      BY <1>1, PollNumbers DEF Poll!PollTypes, Poll!TypeOK
    <3>2. lastAsked'[a] = IF lastAsked[a] >= Floors[a] + MaxCycle THEN lastAsked[a]
                          ELSE IF lastAsked[a] = -1 THEN -1 ELSE lastAsked[a] + 1
      BY <1>1 DEF Poll!Older, Poll!Never
    <3> QED BY <3>1, <3>2 DEF Poll!Never
  <2>4. Poll!Turns'
    <3> SUFFICES ASSUME NEW b \in Polled, NEW a \in overtook[b]
                 PROVE  /\ a # b /\ Poll!Scheduled(b)' /\ Poll!Overdue(row, b)' >= 0
                        /\ \A q \in Pollers : Poll!Overdue(row, b)' >= sweep'[q].age
                        /\ lastAsked'[a] # Poll!Never /\ ~Poll!Busy(a) =>
                             Poll!Scheduled(a)' /\ Poll!Overdue(row, a)' < Poll!Overdue(row, b)'
      BY <1>1, <1>7 DEF Poll!Turns
    <3>1. /\ a # b /\ Poll!Scheduled(b) /\ Poll!Overdue(row, b) >= 0
          /\ \A r \in Pollers : Poll!Overdue(row, b) >= sweep[r].age
          /\ lastAsked[a] # Poll!Never /\ ~Poll!Busy(a) =>
               Poll!Scheduled(a) /\ Poll!Overdue(row, a) < Poll!Overdue(row, b)
      BY <2>1 DEF Poll!Orderly, Poll!Turns
    <3>2. a \in Polled
      BY <1>1 DEF Poll!PollTypes
    <3>3. Poll!Overdue(row, b)' = Poll!Overdue(row, b) + 1 /\ Poll!Overdue(row, b) \in Int
      BY <1>2, <3>1
    <3>4. ASSUME NEW q \in Pollers
          PROVE  Poll!Overdue(row, b)' >= sweep'[q].age
      <4>1. CASE sweep[q] = Poll!Idle
        BY <1>5, <3>1, <3>3, <4>1
      <4>2. CASE sweep[q] # Poll!Idle
        <5>1. sweep'[q].age = sweep[q].age + 1 /\ sweep[q].age \in 0..MaxCycle
          BY <1>5, <4>2
        <5> QED BY <3>1, <3>3, <5>1, PollNumbers
      <4> QED BY <4>1, <4>2
    <3>5. ASSUME lastAsked'[a] # Poll!Never, ~Poll!Busy(a)
          PROVE  Poll!Scheduled(a)' /\ Poll!Overdue(row, a)' < Poll!Overdue(row, b)'
      <4>1. Poll!Scheduled(a) /\ Poll!Overdue(row, a) < Poll!Overdue(row, b)
        BY <2>3, <3>1, <3>2, <3>5
      <4>2. Poll!Overdue(row, a)' = Poll!Overdue(row, a) + 1 /\ Poll!Overdue(row, a) \in Int
        BY <1>2, <3>2, <4>1
      <4> QED BY <1>4, <3>2, <3>3, <4>1, <4>2
    <3> QED BY <1>4, <3>1, <3>3, <3>4, <3>5
  <2>5. Poll!Stamped'
    <3> SUFFICES ASSUME NEW a \in Polled, lastAsked'[a] # Poll!Never, ~Poll!Busy(a)
                 PROVE  /\ Poll!Scheduled(a)'
                        /\ row'[a][1].since <= lastAsked'[a] \/ Floors[a] + MaxCycle <= lastAsked'[a]
                        /\ row'[a][1].shows \/ row'[a][1].failures # 0 \/ row'[a][1].rest >= Floors[a]
      BY <1>7 DEF Poll!Stamped
    <3>1. /\ Poll!Scheduled(a)
          /\ row[a][1].since <= lastAsked[a] \/ Floors[a] + MaxCycle <= lastAsked[a]
          /\ row[a][1].shows \/ row[a][1].failures # 0 \/ row[a][1].rest >= Floors[a]
      BY <2>1, <2>3 DEF Poll!Orderly, Poll!Stamped
    <3>2. row'[a][1].since = row[a][1].since + 1 /\ row[a][1].since \in Nat
      BY <1>1, <1>2, <3>1, RowIs
    <3>3. row'[a][1].since <= lastAsked'[a] \/ Floors[a] + MaxCycle <= lastAsked'[a]
      BY <2>3, <3>1, <3>2, PollNumbers
    <3> QED BY <1>2, <1>4, <3>1, <3>3
  <2>6. ASSUME NEW r \in Pollers
        PROVE  Poll!AsRead(r)' /\ Poll!InFlight(r)' /\ Poll!PassedOver(r)'
    <3>1. CASE sweep[r] = Poll!Idle
      BY <1>5, <3>1, IdleIsOrderlyNext
    <3>2. CASE sweep[r] # Poll!Idle
      <4>1. Poll!AsRead(r) /\ Poll!InFlight(r) /\ Poll!PassedOver(r)
        BY <2>1 DEF Poll!Orderly
      <4>2. sweep'[r].age = sweep[r].age + 1 /\ sweep[r].age \in 0..MaxCycle
        BY <1>5, <3>2
      <4>3. \A s \in Poll!Pending(r) \union sweep[r].flight :
              /\ s.id \in Polled /\ Poll!Scheduled(s.id) /\ s.since \in Nat
              /\ row'[s.id][1].since = row[s.id][1].since + 1 /\ row[s.id][1].since \in Nat
              /\ row'[s.id][1].failures = row[s.id][1].failures /\ row'[s.id][1].shows = row[s.id][1].shows
              /\ Poll!Overdue(row, s.id)' = Poll!Overdue(row, s.id) + 1 /\ Poll!Overdue(row, s.id) \in Int
        <5> TAKE s \in Poll!Pending(r) \union sweep[r].flight
        <5>1. s.id \in Polled /\ Poll!Scheduled(s.id) /\ s.since \in Nat
          BY <1>1, CopiesTyped DEF Poll!Rowed
        <5> QED BY <1>1, <1>2, <5>1, RowIs
      <4>4. Poll!AsRead(r)'
        <5>1. ASSUME NEW s \in Poll!Pending(r)
              PROVE  /\ row'[s.id][1].since = s.since + sweep'[r].age /\ row'[s.id][1].failures = s.failures
                     /\ row'[s.id][1].shows = s.shows /\ Poll!Overdue(row, s.id)' >= sweep'[r].age
                     /\ s.id \notin Poll!Ids(sweep'[r].flight) \union sweep'[r].passed
          <6>1. /\ row[s.id][1].since = s.since + sweep[r].age /\ row[s.id][1].failures = s.failures
                /\ row[s.id][1].shows = s.shows /\ Poll!Overdue(row, s.id) >= sweep[r].age
                /\ s.id \notin Poll!Ids(sweep[r].flight) \union sweep[r].passed
            BY <4>1 DEF Poll!AsRead
          <6>2. row'[s.id][1].since = s.since + sweep'[r].age /\ Poll!Overdue(row, s.id)' >= sweep'[r].age
            BY <4>2, <4>3, <6>1, PollNumbers
          <6> QED BY <1>5, <4>3, <6>1, <6>2
        <5> QED BY <1>5, <1>6, <4>1, <5>1 DEF Poll!AsRead
      <4>5. Poll!InFlight(r)'
        <5>1. ASSUME NEW s \in sweep[r].flight
              PROVE  row'[s.id][1].failures = s.failures /\ lastAsked'[s.id] = sweep'[r].age
                     /\ overtook'[s.id] = {} /\ s.id \notin sweep'[r].passed
          <6>1. row[s.id][1].failures = s.failures /\ lastAsked[s.id] = sweep[r].age
                /\ overtook[s.id] = {} /\ s.id \notin sweep[r].passed
            BY <4>1 DEF Poll!InFlight
          <6>2. lastAsked'[s.id] = sweep'[r].age
            <7>1. s.id \in Polled
              BY <4>3
            <7>2. /\ lastAsked[s.id] >= 0 /\ lastAsked[s.id] < Floors[s.id] + MaxCycle =>
                       lastAsked'[s.id] = lastAsked[s.id] + 1
                  /\ Floors[s.id] \in Nat /\ Floors[s.id] > 0
              BY <2>3, <7>1
            <7>3. lastAsked[s.id] \in 0..MaxCycle /\ MaxCycle \in Nat
              BY <4>2, <6>1, PollNumbers
            <7>4. lastAsked[s.id] >= 0 /\ lastAsked[s.id] < Floors[s.id] + MaxCycle
              <8> DEFINE f == Floors[s.id]
                         n == lastAsked[s.id]
              <8>1. f \in Nat /\ f > 0 /\ n \in 0..MaxCycle
                BY <7>2, <7>3
              <8> HIDE DEF f, n
              <8>2. n >= 0 /\ n < f + MaxCycle
                BY <7>3, <8>1
              <8> QED BY <8>2 DEF f, n
            <7> QED BY <4>2, <6>1, <7>2, <7>4
          <6> QED BY <1>1, <1>5, <4>3, <6>1, <6>2
        <5> QED BY <1>5, <4>1, <5>1 DEF Poll!InFlight
      <4>6. Poll!PassedOver(r)'
        <5> SUFFICES ASSUME NEW b \in sweep[r].passed
                     PROVE  /\ Poll!Scheduled(b)' /\ Poll!Overdue(row, b)' >= sweep'[r].age
                            /\ \A s \in Poll!Pending(r) : Poll!Overdue(row, s.id)' >= Poll!Overdue(row, b)'
          BY <1>5, <1>6 DEF Poll!PassedOver
        <5>1. /\ Poll!Scheduled(b) /\ Poll!Overdue(row, b) >= sweep[r].age
              /\ \A s \in Poll!Pending(r) : Poll!Overdue(row, s.id) >= Poll!Overdue(row, b)
          BY <4>1 DEF Poll!PassedOver
        <5>2. b \in Polled
          BY <1>1 DEF Poll!PollTypes
        <5>3. Poll!Overdue(row, b)' = Poll!Overdue(row, b) + 1 /\ Poll!Overdue(row, b) \in Int
          BY <1>2, <5>1, <5>2
        <5>4. Poll!Overdue(row, b)' >= sweep'[r].age
          BY <4>2, <5>1, <5>3, PollNumbers
        <5>5. \A s \in Poll!Pending(r) : Poll!Overdue(row, s.id)' >= Poll!Overdue(row, b)'
          BY <4>3, <5>1, <5>3
        <5> QED BY <1>4, <5>1, <5>2, <5>4, <5>5
      <4> QED BY <4>4, <4>5, <4>6
    <3> QED BY <3>1, <3>2
  <2> QED BY <1>1, <2>1, <2>2, <2>4, <2>5, <2>6 DEF Poll!Orderly
<1> QED BY <1>8, <1>9, <1>10, <1>11 DEF Poll!PollInv

\* What is at the head of a sweep's queue, and what is behind it.
LEMMA HeadOfQueue ==
  ASSUME Poll!PollTypes, Poll!Rowed, NEW r \in Pollers, sweep[r].queue # <<>>
  PROVE  /\ sweep[r] # Poll!Idle /\ sweep[r].age \in 0..MaxCycle /\ sweep[r].age \in Nat
         /\ Head(sweep[r].queue) \in Poll!Pending(r) /\ Tail(sweep[r].queue) \in Seq(Poll!Snapshot)
         /\ Head(sweep[r].queue) \in Poll!Snapshot
         /\ \A i \in DOMAIN Tail(sweep[r].queue) : Tail(sweep[r].queue)[i] \in Poll!Pending(r)
         /\ Poll!AsRead(r) =>
              /\ \A i, j \in DOMAIN Tail(sweep[r].queue) :
                   i < j => Tail(sweep[r].queue)[i].id # Tail(sweep[r].queue)[j].id
              /\ \A i \in DOMAIN Tail(sweep[r].queue) :
                   Tail(sweep[r].queue)[i].id # Head(sweep[r].queue).id
<1> DEFINE q == sweep[r].queue
<1>1. q \in Seq(Poll!Snapshot) /\ q # <<>>
  BY DEF Poll!PollTypes
<1>2. sweep[r] # Poll!Idle
  BY <1>1, IdleTyped
<1>3. sweep[r].age \in 0..MaxCycle
  BY <1>2 DEF Poll!Rowed
<1>4. /\ Head(q) \in Poll!Snapshot /\ 1 \in DOMAIN q /\ Head(q) = q[1] /\ Tail(q) \in Seq(Poll!Snapshot)
      /\ \A i \in DOMAIN Tail(q) : i \in Nat /\ i + 1 \in DOMAIN q /\ 1 < i + 1 /\ Tail(q)[i] = q[i + 1]
  <2> HIDE DEF q
  <2> QED BY <1>1, AfterHead
<1>5. Head(q) \in Poll!Pending(r) /\ \A i \in DOMAIN Tail(q) : Tail(q)[i] \in Poll!Pending(r)
  BY <1>4 DEF Poll!Pending
<1>6. ASSUME Poll!AsRead(r)
      PROVE  /\ \A i, j \in DOMAIN Tail(q) : i < j => Tail(q)[i].id # Tail(q)[j].id
             /\ \A i \in DOMAIN Tail(q) : Tail(q)[i].id # Head(q).id
  <2>1. \A i, j \in DOMAIN q : i < j => q[i].id # q[j].id
    BY <1>6 DEF Poll!AsRead
  <2> HIDE DEF q
  <2>2. \A i, j \in DOMAIN Tail(q) : i < j => Tail(q)[i].id # Tail(q)[j].id
    <3> TAKE i, j \in DOMAIN Tail(q)
    <3>1. i \in Nat /\ j \in Nat /\ (i < j => i + 1 < j + 1)
      BY <1>4
    <3> QED BY <1>4, <2>1, <3>1
  <2>3. \A i \in DOMAIN Tail(q) : Tail(q)[i].id # Head(q).id
    <3> TAKE i \in DOMAIN Tail(q)
    <3>1. q[1].id # q[i + 1].id
      BY <1>4, <2>1
    <3> QED BY <1>4, <3>1
  <2> QED BY <2>2, <2>3
<1>7. sweep[r].age \in Nat
  BY <1>3, PollNumbers
<1> HIDE DEF q
<1> QED BY <1>2, <1>3, <1>4, <1>5, <1>6, <1>7 DEF q

\* One row is written, or none is: the others stand.
LEMMA RowWritten ==
  ASSUME Poll!PollTypes, NEW a \in Polled, NEW x \in Seq(Poll!RowType), x # <<>>, x[1] \in Poll!RowType,
         row' = [row EXCEPT ![a] = x]
  PROVE  /\ row' \in [Polled -> Seq(Poll!RowType)] /\ row'[a] = x
         /\ \A b \in Polled : row'[b] = <<>> \/ row'[b][1] \in Poll!RowType
         /\ \A b \in Polled : b # a => row'[b] = row[b] /\ Poll!Overdue(row, b)' = Poll!Overdue(row, b)
         /\ \A b \in Polled : Poll!Scheduled(b) => Poll!Scheduled(b)'
         /\ Poll!Overdue(row, a)' = x[1].since - x[1].rest
<1>1. row \in [Polled -> Seq(Poll!RowType)] /\ \A b \in Polled : row[b] = <<>> \/ row[b][1] \in Poll!RowType
  BY DEF Poll!PollTypes, Poll!TypeOK
<1>2. row'[a] = x /\ \A b \in Polled : b # a => row'[b] = row[b]
  BY <1>1
<1>3. row' \in [Polled -> Seq(Poll!RowType)]
  BY <1>1
<1>4. \A b \in Polled : row'[b] = <<>> \/ row'[b][1] \in Poll!RowType
  BY <1>1, <1>2
<1> QED BY <1>1, <1>2, <1>3, <1>4 DEF Poll!Scheduled, Poll!Overdue

\* What a sweep still has after its head went, and what it has in flight.
LEMMA SweepMoves ==
  ASSUME Poll!PollTypes, NEW r \in Pollers, sweep[r].age \in Nat,
         NEW queue \in Seq(Poll!Snapshot), NEW flying \in SUBSET Poll!Snapshot,
         sweep' = [sweep EXCEPT ![r].queue = queue, ![r].flight = flying]
  PROVE  /\ sweep' \in [Pollers -> [age : Int, queue : Seq(Poll!Snapshot), flight : SUBSET Poll!Snapshot,
                                    passed : SUBSET Polled]]
         /\ \A q \in Pollers : sweep'[q].flight \subseteq Poll!Snapshot
         /\ \A q \in Pollers : q # r => sweep'[q] = sweep[q]
         /\ \A q \in Pollers : sweep'[q].age = sweep[q].age
         /\ sweep'[r].queue = queue /\ sweep'[r].flight = flying /\ sweep'[r].passed = sweep[r].passed
         /\ Poll!Pending(r)' = {queue[i] : i \in DOMAIN queue}
         /\ \A q \in Pollers : q # r => Poll!Pending(q)' = Poll!Pending(q)
         /\ sweep'[r] # Poll!Idle
<1> DEFINE kind == [age : Int, queue : Seq(Poll!Snapshot), flight : SUBSET Poll!Snapshot, passed : SUBSET Polled]
           was == sweep[r]
           is == [was EXCEPT !.queue = queue, !.flight = flying]
<1>1. sweep \in [Pollers -> kind] /\ was \in kind
  BY DEF Poll!PollTypes
<1>2. is \in kind /\ is.age = was.age /\ is.queue = queue /\ is.flight = flying /\ is.passed = was.passed
  <2> HIDE DEF was
  <2> QED BY <1>1
<1>3. sweep'[r] = is /\ \A q \in Pollers : q # r => sweep'[q] = sweep[q]
  BY <1>1
<1>4. sweep' \in [Pollers -> kind]
  <2>1. sweep' = [sweep EXCEPT ![r] = is]
    BY <1>1
  <2> HIDE DEF is, kind
  <2> QED BY <1>1, <1>2, <2>1
<1>5. /\ sweep'[r].age = sweep[r].age /\ sweep'[r].queue = queue /\ sweep'[r].flight = flying
      /\ sweep'[r].passed = sweep[r].passed
  <2> HIDE DEF is
  <2> QED BY <1>2, <1>3 DEF was
<1>6. sweep'[r] # Poll!Idle
  <2>1. sweep'[r].age # -1
    <3> DEFINE age_ == sweep'[r].age
    <3>1. age_ \in Nat
      BY <1>5
    <3> HIDE DEF age_
    <3>2. age_ # -1
      BY <3>1
    <3> QED BY <3>2 DEF age_
  <2> QED BY <2>1, IdleTyped, Zenon
<1> HIDE DEF is, was
<1> QED BY <1>3, <1>4, <1>5, <1>6 DEF Poll!Pending

\* A row a faster table stamped is put off to its floor, and the vendor is not asked.
LEMMA RearmPolls ==
  ASSUME Poll!PollInv, NEW r \in Pollers, Poll!Rearm(r)
  PROVE  Poll!PollInv'
<1>0. PICK s : s = Head(sweep[r].queue)
  OBVIOUS
<1> DEFINE rest_ == Tail(sweep[r].queue)
           later == Poll!Attempted(row[s.id][1], s.since + sweep[r].age, Floors[s.id], 0)
<1>1. /\ sweep[r].queue # <<>> /\ Poll!InsideFloor(s)
      /\ row' = [row EXCEPT ![s.id] = later] \/ UNCHANGED row
      /\ sweep' = [sweep EXCEPT ![r].queue = Tail(@)]
      /\ overtook' = [overtook EXCEPT ![s.id] = {}]
      /\ UNCHANGED <<cooling, lease, page, lastAsked, outlived, broken>>
      /\ Poll!PollTypes /\ Poll!Rowed /\ Poll!BackedOff
  BY <1>0 DEF Poll!PollInv, Poll!Rearm
<1>2. /\ sweep[r] # Poll!Idle /\ sweep[r].age \in 0..MaxCycle /\ sweep[r].age \in Nat
      /\ s \in Poll!Pending(r) /\ rest_ \in Seq(Poll!Snapshot)
      /\ \A i \in DOMAIN rest_ : rest_[i] \in Poll!Pending(r)
      /\ Poll!AsRead(r) =>
           /\ \A i, j \in DOMAIN rest_ : i < j => rest_[i].id # rest_[j].id
           /\ \A i \in DOMAIN rest_ : rest_[i].id # s.id
  BY <1>0, <1>1, HeadOfQueue
<1>3. s.id \in Polled /\ s.since \in Nat /\ Poll!Scheduled(s.id)
  BY <1>1, <1>2, CopiesTyped DEF Poll!Rowed
<1>4. /\ sweep' \in [Pollers -> [age : Int, queue : Seq(Poll!Snapshot), flight : SUBSET Poll!Snapshot,
                                 passed : SUBSET Polled]]
      /\ \A q \in Pollers : sweep'[q].flight \subseteq Poll!Snapshot
      /\ \A q \in Pollers : q # r => sweep'[q] = sweep[q]
      /\ \A q \in Pollers : sweep'[q].age = sweep[q].age
      /\ sweep'[r].flight = sweep[r].flight /\ sweep'[r].passed = sweep[r].passed
      /\ sweep'[r].queue = rest_ /\ Poll!Pending(r)' = {rest_[i] : i \in DOMAIN rest_}
      /\ \A q \in Pollers : q # r => Poll!Pending(q)' = Poll!Pending(q)
      /\ sweep'[r] # Poll!Idle
  <2>1. sweep[r].flight \in SUBSET Poll!Snapshot
    BY <1>1 DEF Poll!PollTypes
  <2>2. sweep' = [sweep EXCEPT ![r].queue = rest_, ![r].flight = sweep[r].flight]
    BY <1>1 DEF Poll!PollTypes
  <2>3. sweep[r].queue # <<>> /\ sweep[r].age \in Nat /\ rest_ \in Seq(Poll!Snapshot) /\ Poll!PollTypes
    BY <1>1, <1>2
  <2> DEFINE flying == sweep[r].flight
  <2> HIDE DEF rest_, flying
  <2>4. /\ sweep' \in [Pollers -> [age : Int, queue : Seq(Poll!Snapshot), flight : SUBSET Poll!Snapshot,
                                    passed : SUBSET Polled]]
        /\ \A q \in Pollers : sweep'[q].flight \subseteq Poll!Snapshot
        /\ \A q \in Pollers : q # r => sweep'[q] = sweep[q]
        /\ \A q \in Pollers : sweep'[q].age = sweep[q].age
        /\ sweep'[r].queue = rest_ /\ sweep'[r].flight = flying /\ sweep'[r].passed = sweep[r].passed
        /\ Poll!Pending(r)' = {rest_[i] : i \in DOMAIN rest_}
        /\ \A q \in Pollers : q # r => Poll!Pending(q)' = Poll!Pending(q)
        /\ sweep'[r] # Poll!Idle
    <3>1. flying \in SUBSET Poll!Snapshot /\ sweep' = [sweep EXCEPT ![r].queue = rest_, ![r].flight = flying]
      BY <2>1, <2>2 DEF flying
    <3> QED BY <2>3, <3>1, SweepMoves, Zenon
  <2> QED BY <2>4 DEF flying
<1>5. Poll!Pending(r)' \subseteq Poll!Pending(r)
  <2> HIDE DEF rest_
  <2> QED BY <1>2, <1>4
<1>6. /\ row[s.id][1] \in Poll!RowType /\ row[s.id][1].since \in Nat /\ row[s.id][1].rest \in Nat
      /\ row[s.id][1].failures \in Nat /\ row[s.id][1].shows \in BOOLEAN
      /\ Poll!Overdue(row, s.id) = row[s.id][1].since - row[s.id][1].rest
      /\ Floors[s.id] \in Nat /\ Floors[s.id] > 0
      /\ Floors[s.id] <= Poll!Larger(PollCeiling, Floors[s.id] + (Floors[s.id] \div 4))
  <2>1. /\ Floors[s.id] \in Nat /\ Floors[s.id] > 0
        /\ Floors[s.id] <= Poll!Larger(PollCeiling, Floors[s.id] + (Floors[s.id] \div 4))
    BY <1>3, FloorBounded, Zenon
  <2> QED BY <1>1, <1>3, <2>1, RowIs, Zenon
<1>7. /\ later \in Seq(Poll!RowType) /\ later # <<>> /\ later[1] \in Poll!RowType
      /\ later[1].since = s.since + sweep[r].age /\ later[1].rest = Floors[s.id]
      /\ later[1].failures = row[s.id][1].failures /\ later[1].shows = row[s.id][1].shows
  <2>1. s.since + sweep[r].age \in Nat /\ 0 \in Nat
    BY <1>2, <1>3
  <2>2. row[s.id][1].failures + 0 = row[s.id][1].failures
    BY <1>6
  <2>3. PICK x, since, f : x = row[s.id][1] /\ since = s.since + sweep[r].age /\ f = Floors[s.id]
    OBVIOUS
  <2>4. x \in Poll!RowType /\ since \in Nat /\ f \in Nat /\ later = Poll!Attempted(x, since, f, 0)
    BY <1>6, <2>1, <2>3
  <2> DEFINE z == [x EXCEPT !.since = since, !.rest = f, !.failures = @ + 0]
  <2>5. z \in Poll!RowType /\ z.since = since /\ z.rest = f /\ z.failures = x.failures /\ z.shows = x.shows
    <3>1. x.failures \in Nat /\ x.failures + 0 = x.failures
      BY <2>4 DEF Poll!RowType
    <3> QED BY <2>4, <3>1 DEF Poll!RowType
  <2>6. later = <<z>>
    BY <2>4 DEF Poll!Attempted
  <2> HIDE DEF z, later
  <2>7. later \in Seq(Poll!RowType) /\ later # <<>> /\ later[1] = z
    BY <2>5, <2>6
  <2> QED BY <2>3, <2>5, <2>7
<1> HIDE DEF later, rest_
<1>8. /\ row' \in [Polled -> Seq(Poll!RowType)]
      /\ \A b \in Polled : row'[b] = <<>> \/ row'[b][1] \in Poll!RowType
      /\ \A b \in Polled : b # s.id => row'[b] = row[b] /\ Poll!Overdue(row, b)' = Poll!Overdue(row, b)
      /\ \A b \in Polled : Poll!Scheduled(b) => Poll!Scheduled(b)'
      /\ \/ row'[s.id] = row[s.id] /\ Poll!Overdue(row, s.id)' = Poll!Overdue(row, s.id)
         \/ row'[s.id] = later /\ Poll!Overdue(row, s.id)' = later[1].since - later[1].rest
  <2>1. CASE row' = [row EXCEPT ![s.id] = later]
    <3>1. Poll!PollTypes /\ later \in Seq(Poll!RowType) /\ later # <<>> /\ later[1] \in Poll!RowType
      BY <1>1, <1>7
    <3> DEFINE a == s.id
    <3>2. a \in Polled /\ row' = [row EXCEPT ![a] = later]
      BY <1>3, <2>1
    <3> HIDE DEF a
    <3>3. /\ row' \in [Polled -> Seq(Poll!RowType)] /\ row'[a] = later
          /\ \A b \in Polled : row'[b] = <<>> \/ row'[b][1] \in Poll!RowType
          /\ \A b \in Polled : b # a => row'[b] = row[b] /\ Poll!Overdue(row, b)' = Poll!Overdue(row, b)
          /\ \A b \in Polled : Poll!Scheduled(b) => Poll!Scheduled(b)'
          /\ Poll!Overdue(row, a)' = later[1].since - later[1].rest
      BY <3>1, <3>2, RowWritten
    <3> QED BY <3>3 DEF a
  <2>2. CASE UNCHANGED row
    <3>1. row \in [Polled -> Seq(Poll!RowType)] /\ \A b \in Polled : row[b] = <<>> \/ row[b][1] \in Poll!RowType
      BY <1>1 DEF Poll!PollTypes, Poll!TypeOK
    <3>2. \A b : row'[b] = row[b] /\ Poll!Overdue(row, b)' = Poll!Overdue(row, b)
               /\ (Poll!Scheduled(b)' <=> Poll!Scheduled(b))
      BY <2>2 DEF Poll!Scheduled, Poll!Overdue
    <3> QED BY <2>2, <3>1, <3>2
  <2> QED BY <1>1, <2>1, <2>2
<1>9. Poll!PollTypes'
  <2>1. overtook' \in [Polled -> SUBSET Polled]
    BY <1>1 DEF Poll!PollTypes
  <2> QED BY <1>1, <1>4, <1>8, <2>1 DEF Poll!PollTypes, Poll!TypeOK
<1>10. Poll!Rowed'
  <2>1. \A q \in Pollers : sweep'[q] = Poll!Idle \/ sweep'[q].age \in 0..MaxCycle
    BY <1>1, <1>2, <1>4 DEF Poll!Rowed
  <2>2. ASSUME NEW q \in Pollers, NEW t \in Poll!Pending(q)' \union sweep'[q].flight
        PROVE  Poll!Scheduled(t.id)'
    <3>1. t \in Poll!Pending(q) \union sweep[q].flight
      BY <1>4, <1>5, <2>2
    <3>2. t.id \in Polled /\ Poll!Scheduled(t.id)
      BY <1>1, <3>1, CopiesTyped DEF Poll!Rowed
    <3> QED BY <1>8, <3>2
  <2> QED BY <2>1, <2>2 DEF Poll!Rowed
<1>11. ASSUME ~outlived
       PROVE  /\ Poll!Orderly /\ Poll!AsRead(r) /\ Poll!InFlight(r) /\ Poll!PassedOver(r)
              /\ row[s.id][1].since = s.since + sweep[r].age /\ row[s.id][1].rest <= s.since
              /\ row[s.id][1].rest < Floors[s.id]
              /\ row[s.id][1].failures > 0 => row[s.id][1].rest >= Poll!Backoff(row[s.id][1].failures)
              /\ s.id \notin Poll!Ids(sweep[r].flight) \union sweep[r].passed
  <2>1. Poll!Orderly /\ Poll!AsRead(r) /\ Poll!InFlight(r) /\ Poll!PassedOver(r)
    BY <1>11 DEF Poll!PollInv, Poll!Orderly
  <2>2. /\ row[s.id][1].since = s.since + sweep[r].age /\ Poll!Overdue(row, s.id) >= sweep[r].age
        /\ s.id \notin Poll!Ids(sweep[r].flight) \union sweep[r].passed
    BY <1>2, <2>1 DEF Poll!AsRead
  <2>3. s.since < Floors[s.id]
    BY <1>1 DEF Poll!InsideFloor
  <2>4. row[s.id][1].failures > 0 => row[s.id][1].rest >= Poll!Backoff(row[s.id][1].failures)
    BY <1>1, <1>3, <1>11 DEF Poll!BackedOff
  <2>5. row[s.id][1].rest <= s.since /\ row[s.id][1].rest < Floors[s.id]
    <3> DEFINE m == row[s.id][1].rest
               n == row[s.id][1].since
               f == Floors[s.id]
               g == sweep[r].age
               o == Poll!Overdue(row, s.id)
               z == s.since
    <3>1. /\ m \in Nat /\ n \in Nat /\ f \in Nat /\ g \in Nat /\ z \in Nat /\ o = n - m
          /\ n = z + g /\ o >= g /\ z < f
      BY <1>2, <1>3, <1>6, <2>2, <2>3
    <3> HIDE DEF m, n, f, g, o, z
    <3>2. m <= z /\ m < f
      BY <3>1
    <3> QED BY <3>2 DEF m, z, f
  <2> QED BY <2>1, <2>2, <2>4, <2>5
<1>12. Poll!BackedOff'
  <2> SUFFICES ASSUME NEW a \in Polled, Poll!Scheduled(a)'
               PROVE  /\ row'[a][1].failures > 0 /\ ~outlived =>
                           row'[a][1].rest >= Poll!Backoff(row'[a][1].failures)
                      /\ row'[a][1].rest <= Poll!Larger(PollCeiling, Floors[a] + (Floors[a] \div 4))
    BY <1>1 DEF Poll!BackedOff
  <2>1. CASE row'[a] = row[a]
    BY <1>1, <2>1 DEF Poll!BackedOff, Poll!Scheduled
  <2>2. CASE a = s.id /\ row'[a] = later
    <3>1. row'[a][1].rest = Floors[a] /\ row'[a][1].failures = row[a][1].failures
      BY <1>7, <2>2
    <3>2. ASSUME row[a][1].failures > 0, ~outlived
          PROVE  Floors[a] >= Poll!Backoff(row[a][1].failures)
      <4> DEFINE k == Poll!Backoff(row[a][1].failures)
                 f == Floors[a]
                 m == row[a][1].rest
      <4>1. m >= k /\ m < f /\ m \in Nat /\ f \in Nat /\ k \in 1..PollCeiling
        BY <1>6, <1>11, <2>2, <3>2, RungBounded
      <4> HIDE DEF k, f, m
      <4>2. f >= k
        BY <4>1, PollNumbers
      <4> QED BY <4>2 DEF f, k
    <3> QED BY <1>6, <2>2, <3>1, <3>2
  <2> QED BY <1>8, <2>1, <2>2
<1>13. ASSUME ~outlived
       PROVE  Poll!Orderly'
  <2>1. \A a : (Poll!Busy(a) <=> a \in Poll!Ids(sweep[r].flight)) /\ (Poll!Busy(a)' <=> Poll!Busy(a))
    <3>1. \A a : Poll!Busy(a)' <=> Poll!Busy(a)
      <4>1. \A q \in Pollers : sweep'[q].flight = sweep[q].flight
        BY <1>4
      <4> QED BY <4>1 DEF Poll!Busy
    <3> QED BY <1>2, <1>11, <1>13, <3>1, BusyOnlyHere
  <2>2. Poll!Alone'
    BY <1>1, <1>2, <1>4, <1>11, <1>13 DEF Poll!Orderly, Poll!Alone
  <2>3. /\ Poll!Overdue(row, s.id)' <= Poll!Overdue(row, s.id) /\ Poll!Overdue(row, s.id) \in Int
        /\ Poll!Overdue(row, s.id)' \in Int
        /\ row'[s.id][1].since = row[s.id][1].since /\ row'[s.id][1].failures = row[s.id][1].failures
        /\ row'[s.id][1].shows = row[s.id][1].shows
        /\ row'[s.id][1].rest = row[s.id][1].rest \/ row'[s.id][1].rest = Floors[s.id]
    <3>1. CASE row'[s.id] = row[s.id] /\ Poll!Overdue(row, s.id)' = Poll!Overdue(row, s.id)
      BY <1>6, <3>1
    <3>2. CASE row'[s.id] = later /\ Poll!Overdue(row, s.id)' = later[1].since - later[1].rest
      <4> DEFINE m == row[s.id][1].rest
                 n == row[s.id][1].since
                 f == Floors[s.id]
                 o == Poll!Overdue(row, s.id)
                 p == Poll!Overdue(row, s.id)'
      <4>1. /\ m \in Nat /\ n \in Nat /\ f \in Nat /\ o = n - m /\ m < f
            /\ later[1].since = n /\ later[1].rest = f /\ p = later[1].since - later[1].rest
            /\ later[1].failures = row[s.id][1].failures /\ later[1].shows = row[s.id][1].shows
        BY <1>6, <1>7, <1>11, <1>13, <3>2
      <4>2. p = n - f
        BY <4>1
      <4>3. p <= o /\ p \in Int /\ o \in Int
        <5> HIDE DEF m, n, f, o, p
        <5> QED BY <4>1, <4>2
      <4> QED BY <3>2, <4>1, <4>3
    <3> QED BY <1>8, <3>1, <3>2
  <2>4. Poll!Turns'
    <3> SUFFICES ASSUME NEW b \in Polled, NEW a \in overtook'[b]
                 PROVE  /\ a # b /\ Poll!Scheduled(b)' /\ Poll!Overdue(row, b)' >= 0
                        /\ \A q \in Pollers : Poll!Overdue(row, b)' >= sweep'[q].age
                        /\ lastAsked[a] # Poll!Never /\ ~Poll!Busy(a) =>
                             Poll!Scheduled(a)' /\ Poll!Overdue(row, a)' < Poll!Overdue(row, b)'
      BY <1>1, <2>1 DEF Poll!Turns
    <3>1. b # s.id /\ a \in overtook[b] /\ a \in Polled
      BY <1>1 DEF Poll!PollTypes
    <3>2. /\ a # b /\ Poll!Scheduled(b) /\ Poll!Overdue(row, b) >= 0
          /\ \A q \in Pollers : Poll!Overdue(row, b) >= sweep[q].age
          /\ lastAsked[a] # Poll!Never /\ ~Poll!Busy(a) =>
               Poll!Scheduled(a) /\ Poll!Overdue(row, a) < Poll!Overdue(row, b)
      BY <1>11, <1>13, <3>1 DEF Poll!Orderly, Poll!Turns
    <3>3. Poll!Overdue(row, b)' = Poll!Overdue(row, b) /\ Poll!Overdue(row, b) \in Int /\ Poll!Scheduled(b)'
      BY <1>1, <1>8, <3>1, <3>2, RowIs
    <3>4. ASSUME lastAsked[a] # Poll!Never, ~Poll!Busy(a)
          PROVE  Poll!Scheduled(a)' /\ Poll!Overdue(row, a)' < Poll!Overdue(row, b)
      <4>1. Poll!Scheduled(a) /\ Poll!Overdue(row, a) < Poll!Overdue(row, b) /\ Poll!Overdue(row, a) \in Int
        BY <1>1, <3>1, <3>2, <3>4, RowIs
      <4>2. Poll!Overdue(row, a)' <= Poll!Overdue(row, a) /\ Poll!Overdue(row, a)' \in Int
        <5>1. CASE a = s.id
          BY <2>3, <5>1 DEF Poll!Overdue
        <5>2. CASE a # s.id
          <6>1. Poll!Overdue(row, a)' = Poll!Overdue(row, a)
            BY <1>8, <3>1, <5>2
          <6> DEFINE o == Poll!Overdue(row, a)
                     p == Poll!Overdue(row, a)'
          <6>2. p = o /\ o \in Int
            BY <4>1, <6>1
          <6> HIDE DEF o, p
          <6>3. p <= o /\ p \in Int
            BY <6>2
          <6> QED BY <6>3 DEF o, p
        <5> QED BY <5>1, <5>2
      <4> DEFINE o == Poll!Overdue(row, a)
                 p == Poll!Overdue(row, a)'
                 w == Poll!Overdue(row, b)
      <4>3. o \in Int /\ p \in Int /\ w \in Int /\ p <= o /\ o < w
        BY <3>3, <4>1, <4>2
      <4>4. p < w
        <5> HIDE DEF o, p, w
        <5> QED BY <4>3
      <4> QED BY <1>8, <3>1, <4>1, <4>4
    <3> QED BY <1>4, <3>2, <3>3, <3>4
  <2>5. Poll!Stamped'
    <3> SUFFICES ASSUME NEW a \in Polled, lastAsked[a] # Poll!Never, ~Poll!Busy(a)
                 PROVE  /\ Poll!Scheduled(a)'
                        /\ row'[a][1].since <= lastAsked[a] \/ Floors[a] + MaxCycle <= lastAsked[a]
                        /\ row'[a][1].shows \/ row'[a][1].failures # 0 \/ row'[a][1].rest >= Floors[a]
      BY <1>1, <2>1 DEF Poll!Stamped
    <3>1. /\ Poll!Scheduled(a)
          /\ row[a][1].since <= lastAsked[a] \/ Floors[a] + MaxCycle <= lastAsked[a]
          /\ row[a][1].shows \/ row[a][1].failures # 0 \/ row[a][1].rest >= Floors[a]
      BY <1>11, <1>13 DEF Poll!Orderly, Poll!Stamped
    <3>2. CASE a = s.id
      BY <1>6, <1>8, <2>3, <3>1, <3>2
    <3>3. CASE a # s.id
      BY <1>8, <3>1, <3>3
    <3> QED BY <3>2, <3>3
  <2>6. Poll!AsRead(r)'
    <3>1. ASSUME NEW t \in Poll!Pending(r)'
          PROVE  /\ row'[t.id][1].since = t.since + sweep'[r].age /\ row'[t.id][1].failures = t.failures
                 /\ row'[t.id][1].shows = t.shows /\ Poll!Overdue(row, t.id)' >= sweep'[r].age
                 /\ t.id \notin Poll!Ids(sweep'[r].flight) \union sweep'[r].passed
      <4>1. t \in Poll!Pending(r) /\ t.id # s.id /\ t.id \in Polled
        BY <1>1, <1>2, <1>4, <1>5, <1>11, <1>13, CopiesTyped
      <4>2. /\ row[t.id][1].since = t.since + sweep[r].age /\ row[t.id][1].failures = t.failures
            /\ row[t.id][1].shows = t.shows /\ Poll!Overdue(row, t.id) >= sweep[r].age
            /\ t.id \notin Poll!Ids(sweep[r].flight) \union sweep[r].passed
        BY <1>11, <1>13, <4>1 DEF Poll!AsRead
      <4> QED BY <1>4, <1>8, <4>1, <4>2
    <3>2. \A i, j \in DOMAIN sweep'[r].queue : i < j => sweep'[r].queue[i].id # sweep'[r].queue[j].id
      BY <1>2, <1>4, <1>11, <1>13
    <3> QED BY <3>1, <3>2 DEF Poll!AsRead
  <2>7. Poll!InFlight(r)'
    <3>1. ASSUME NEW t \in sweep[r].flight
          PROVE  row'[t.id][1].failures = t.failures /\ lastAsked[t.id] = sweep[r].age
                 /\ overtook'[t.id] = {} /\ t.id \notin sweep[r].passed
      <4>1. t.id # s.id /\ t.id \in Polled
        BY <1>1, <1>11, <1>13, CopiesTyped DEF Poll!Ids
      <4>2. row[t.id][1].failures = t.failures /\ lastAsked[t.id] = sweep[r].age
            /\ overtook[t.id] = {} /\ t.id \notin sweep[r].passed
        BY <1>11, <1>13 DEF Poll!InFlight
      <4>3. overtook'[t.id] = overtook[t.id]
        BY <1>1, <4>1 DEF Poll!PollTypes
      <4> QED BY <1>8, <4>1, <4>2, <4>3
    <3>2. \A t, u \in sweep[r].flight : t.id = u.id => t = u
      BY <1>11, <1>13 DEF Poll!InFlight
    <3> QED BY <1>1, <1>4, <3>1, <3>2 DEF Poll!InFlight
  <2>8. Poll!PassedOver(r)'
    <3> SUFFICES ASSUME NEW b \in sweep[r].passed
                 PROVE  /\ Poll!Scheduled(b)' /\ Poll!Overdue(row, b)' >= sweep[r].age
                        /\ \A t \in Poll!Pending(r)' : Poll!Overdue(row, t.id)' >= Poll!Overdue(row, b)'
      BY <1>4 DEF Poll!PassedOver
    <3>1. b \in Polled /\ b # s.id
      BY <1>1, <1>11, <1>13 DEF Poll!PollTypes
    <3>2. /\ Poll!Scheduled(b) /\ Poll!Overdue(row, b) >= sweep[r].age
          /\ \A t \in Poll!Pending(r) : Poll!Overdue(row, t.id) >= Poll!Overdue(row, b)
      BY <1>11, <1>13 DEF Poll!PassedOver
    <3>3. ASSUME NEW t \in Poll!Pending(r)'
          PROVE  Poll!Overdue(row, t.id)' = Poll!Overdue(row, t.id) /\ t \in Poll!Pending(r)
      <4>1. t \in Poll!Pending(r) /\ t.id # s.id /\ t.id \in Polled
        BY <1>1, <1>2, <1>4, <1>5, <1>11, <1>13, CopiesTyped
      <4> QED BY <1>8, <4>1
    <3> QED BY <1>8, <3>1, <3>2, <3>3
  <2>9. ASSUME NEW q \in Pollers
        PROVE  Poll!AsRead(q)' /\ Poll!InFlight(q)' /\ Poll!PassedOver(q)'
    <3>1. CASE q = r
      BY <2>6, <2>7, <2>8, <3>1
    <3>2. CASE q # r
      <4>1. sweep'[q] = Poll!Idle
        BY <1>2, <1>4, <1>11, <1>13, <3>2, OthersIdle
      <4> QED BY <4>1, IdleIsOrderlyNext
    <3> QED BY <3>1, <3>2
  <2> QED BY <1>1, <1>11, <1>13, <2>2, <2>4, <2>5, <2>9 DEF Poll!Orderly
<1> QED BY <1>1, <1>9, <1>10, <1>12, <1>13 DEF Poll!PollInv

\* Who asks keeps the floor and takes no second turn while another waits.
LEMMA AskKeeps ==
  ASSUME Poll!PollTypes, Poll!Rowed, Poll!Orderly, NEW r \in Pollers, sweep[r].queue # <<>>,
         NEW s, s = Head(sweep[r].queue), ~Poll!InsideFloor(s), lastAsked[s.id] # Poll!Never
  PROVE  /\ ~(lastAsked[s.id] - sweep[r].age < Floors[s.id])
         /\ \A b \in sweep[r].passed : s.id \notin overtook[b]
<1>1. /\ sweep[r] # Poll!Idle /\ sweep[r].age \in 0..MaxCycle /\ sweep[r].age \in Nat
      /\ s \in Poll!Pending(r)
  BY HeadOfQueue
<1>2. s.id \in Polled /\ s.since \in Nat /\ s.failures \in Nat /\ s.shows \in BOOLEAN /\ Poll!Scheduled(s.id)
  BY <1>1, CopiesTyped DEF Poll!Rowed
<1>3. /\ row[s.id][1].since = s.since + sweep[r].age /\ row[s.id][1].failures = s.failures
      /\ row[s.id][1].shows = s.shows /\ Poll!Overdue(row, s.id) >= sweep[r].age
      /\ s.id \notin Poll!Ids(sweep[r].flight)
  BY <1>1 DEF Poll!Orderly, Poll!AsRead
<1>4. ~Poll!Busy(s.id)
  BY <1>1, <1>3, BusyOnlyHere
<1>5. /\ row[s.id][1].since <= lastAsked[s.id] \/ Floors[s.id] + MaxCycle <= lastAsked[s.id]
      /\ row[s.id][1].shows \/ row[s.id][1].failures # 0 \/ row[s.id][1].rest >= Floors[s.id]
  BY <1>2, <1>4 DEF Poll!Orderly, Poll!Stamped
<1>6. /\ row[s.id][1].since \in Nat /\ row[s.id][1].rest \in Nat
      /\ Poll!Overdue(row, s.id) = row[s.id][1].since - row[s.id][1].rest
  BY <1>2, RowIs
<1>7. Floors[s.id] \in Nat /\ lastAsked[s.id] \in Int /\ MaxCycle \in Nat
  <2>1. Floors[s.id] \in Nat
    BY <1>2, FloorBounded, Zenon
  <2> QED BY <1>2, <2>1, PollNumbers DEF Poll!PollTypes, Poll!TypeOK
<1>8. ~(s.since < Floors[s.id]) \/ row[s.id][1].rest >= Floors[s.id]
  BY <1>3, <1>5 DEF Poll!InsideFloor
<1>9. ~(lastAsked[s.id] - sweep[r].age < Floors[s.id])
  <2> DEFINE m == row[s.id][1].rest
             n == row[s.id][1].since
             f == Floors[s.id]
             g == sweep[r].age
             o == Poll!Overdue(row, s.id)
             z == s.since
             k == lastAsked[s.id]
  <2>1. /\ m \in Nat /\ n \in Nat /\ f \in Nat /\ g \in 0..MaxCycle /\ z \in Nat /\ k \in Int /\ MaxCycle \in Nat
        /\ n = z + g /\ o = n - m /\ o >= g /\ (n <= k \/ f + MaxCycle <= k) /\ (~(z < f) \/ m >= f)
    BY <1>1, <1>2, <1>3, <1>5, <1>6, <1>7, <1>8
  <2> HIDE DEF m, n, f, g, o, z, k
  <2>2. ~(k - g < f)
    BY <2>1
  <2> QED BY <2>2 DEF k, g, f
<1>10. ASSUME NEW b \in sweep[r].passed, s.id \in overtook[b]
       PROVE  FALSE
  <2>1. b \in Polled
    BY DEF Poll!PollTypes
  <2>2. Poll!Scheduled(b) /\ Poll!Overdue(row, s.id) < Poll!Overdue(row, b)
    BY <1>4, <1>10, <2>1 DEF Poll!Orderly, Poll!Turns
  <2>3. Poll!Overdue(row, s.id) >= Poll!Overdue(row, b)
    BY <1>1, <1>10 DEF Poll!Orderly, Poll!PassedOver
  <2>4. Poll!Overdue(row, b) \in Int /\ Poll!Overdue(row, s.id) \in Int
    BY <1>2, <2>1, <2>2, RowIs
  <2> DEFINE m == Poll!Overdue(row, s.id)
             n == Poll!Overdue(row, b)
  <2>5. m \in Int /\ n \in Int /\ m < n /\ m >= n
    BY <2>2, <2>3, <2>4
  <2> HIDE DEF m, n
  <2> QED BY <2>5
<1> QED BY <1>9, <1>10

\* The vendor is asked about the head of the queue.
LEMMA AskPolls ==
  ASSUME Poll!PollInv, NEW r \in Pollers, Poll!Ask(r)
  PROVE  Poll!PollInv'
<1>0. PICK s : s = Head(sweep[r].queue)
  OBVIOUS
<1> DEFINE rest_ == Tail(sweep[r].queue)
           flying == sweep[r].flight \union {s}
<1>1. /\ sweep[r].queue # <<>> /\ ~Poll!InsideFloor(s)
      /\ sweep' = [sweep EXCEPT ![r].queue = Tail(@), ![r].flight = @ \union {s}]
      /\ lastAsked' = [lastAsked EXCEPT ![s.id] = sweep[r].age]
      /\ overtook' = [b \in Polled |->
           IF b = s.id THEN {} ELSE IF b \in sweep[r].passed THEN overtook[b] \union {s.id} ELSE overtook[b]]
      /\ broken' = IF lastAsked[s.id] = Poll!Never THEN broken ELSE broken
           \union (IF lastAsked[s.id] - sweep[r].age < Floors[s.id] THEN {"floor"} ELSE {})
           \union (IF \E b \in sweep[r].passed : s.id \in overtook[b] THEN {"turn"} ELSE {})
      /\ UNCHANGED <<row, cooling, lease, page, outlived>>
  BY <1>0 DEF Poll!Ask
<1>2. Poll!PollTypes /\ Poll!Rowed /\ Poll!BackedOff
  BY DEF Poll!PollInv
<1>3. /\ sweep[r] # Poll!Idle /\ sweep[r].age \in 0..MaxCycle /\ sweep[r].age \in Nat
      /\ s \in Poll!Pending(r) /\ rest_ \in Seq(Poll!Snapshot) /\ s \in Poll!Snapshot
      /\ \A i \in DOMAIN rest_ : rest_[i] \in Poll!Pending(r)
      /\ Poll!AsRead(r) =>
           /\ \A i, j \in DOMAIN rest_ : i < j => rest_[i].id # rest_[j].id
           /\ \A i \in DOMAIN rest_ : rest_[i].id # s.id
  BY <1>0, <1>1, <1>2, HeadOfQueue
<1>4. s.id \in Polled /\ s.since \in Nat /\ Poll!Scheduled(s.id)
  BY <1>2, <1>3, CopiesTyped DEF Poll!Rowed
<1>5. /\ sweep' \in [Pollers -> [age : Int, queue : Seq(Poll!Snapshot), flight : SUBSET Poll!Snapshot,
                                 passed : SUBSET Polled]]
      /\ \A q \in Pollers : sweep'[q].flight \subseteq Poll!Snapshot
      /\ \A q \in Pollers : q # r => sweep'[q] = sweep[q]
      /\ \A q \in Pollers : sweep'[q].age = sweep[q].age
      /\ sweep'[r].queue = rest_ /\ sweep'[r].flight = flying /\ sweep'[r].passed = sweep[r].passed
      /\ Poll!Pending(r)' = {rest_[i] : i \in DOMAIN rest_}
      /\ \A q \in Pollers : q # r => Poll!Pending(q)' = Poll!Pending(q)
      /\ sweep'[r] # Poll!Idle
  <2>1. sweep[r].flight \in SUBSET Poll!Snapshot
    BY <1>2 DEF Poll!PollTypes
  <2>2. flying \in SUBSET Poll!Snapshot /\ sweep' = [sweep EXCEPT ![r].queue = rest_, ![r].flight = flying]
    BY <1>1, <1>3, <2>1 DEF Poll!PollTypes
  <2>3. sweep[r].queue # <<>> /\ sweep[r].age \in Nat /\ rest_ \in Seq(Poll!Snapshot) /\ Poll!PollTypes
    BY <1>1, <1>2, <1>3
  <2> HIDE DEF rest_, flying
  <2> QED BY <2>2, <2>3, SweepMoves, Zenon
<1> HIDE DEF rest_
<1>6. Poll!Pending(r)' \subseteq Poll!Pending(r)
  BY <1>3, <1>5
<1>7. \A b : row'[b] = row[b] /\ Poll!Overdue(row, b)' = Poll!Overdue(row, b)
             /\ (Poll!Scheduled(b)' <=> Poll!Scheduled(b))
  BY <1>1 DEF Poll!Scheduled, Poll!Overdue
<1>8. Poll!PollTypes'
  <2>1. overtook \in [Polled -> SUBSET Polled] /\ lastAsked \in [Polled -> Int]
    BY <1>2 DEF Poll!PollTypes, Poll!TypeOK
  <2>2. overtook' \in [Polled -> SUBSET Polled]
    BY <1>1, <1>4, <2>1
  <2>3. lastAsked' \in [Polled -> Int]
    <3>1. sweep[r].age \in Int
      BY <1>3
    <3> QED BY <1>1, <2>1, <3>1
  <2> QED BY <1>1, <1>2, <1>5, <2>2, <2>3 DEF Poll!PollTypes, Poll!TypeOK
<1>9. Poll!Rowed'
  <2>1. \A q \in Pollers : sweep'[q] = Poll!Idle \/ sweep'[q].age \in 0..MaxCycle
    BY <1>2, <1>3, <1>5 DEF Poll!Rowed
  <2>2. ASSUME NEW q \in Pollers, NEW t \in Poll!Pending(q)' \union sweep'[q].flight
        PROVE  Poll!Scheduled(t.id)'
    <3>1. t \in Poll!Pending(q) \union sweep[q].flight
      <4>1. CASE q = r
        BY <1>3, <1>5, <1>6, <2>2, <4>1
      <4>2. CASE q # r
        BY <1>5, <2>2, <4>2
      <4> QED BY <4>1, <4>2
    <3> QED BY <1>2, <1>7, <3>1 DEF Poll!Rowed
  <2> QED BY <2>1, <2>2 DEF Poll!Rowed
<1>10. Poll!BackedOff'
  BY <1>1, <1>2 DEF Poll!BackedOff, Poll!Scheduled
<1>11. ASSUME ~outlived
       PROVE  Poll!Orderly'
  <2>1. Poll!Orderly /\ Poll!AsRead(r) /\ Poll!InFlight(r) /\ Poll!PassedOver(r) /\ broken = {}
    BY <1>11 DEF Poll!PollInv, Poll!Orderly
  <2>2. /\ row[s.id][1].failures = s.failures /\ Poll!Overdue(row, s.id) >= sweep[r].age
        /\ s.id \notin Poll!Ids(sweep[r].flight) \union sweep[r].passed
    BY <1>3, <2>1 DEF Poll!AsRead
  <2>3. broken' = {}
    <3>1. CASE lastAsked[s.id] = Poll!Never
      BY <1>1, <2>1, <3>1
    <3>2. CASE lastAsked[s.id] # Poll!Never
      <4>1. ~(lastAsked[s.id] - sweep[r].age < Floors[s.id]) /\ \A b \in sweep[r].passed : s.id \notin overtook[b]
        BY <1>0, <1>1, <1>2, <2>1, <3>2, AskKeeps
      <4> QED BY <1>1, <2>1, <3>2, <4>1
    <3> QED BY <3>1, <3>2
  <2>4. \A a : /\ Poll!Busy(a)' <=> a \in Poll!Ids(sweep[r].flight) \union {s.id}
               /\ Poll!Busy(a) <=> a \in Poll!Ids(sweep[r].flight)
    <3>1. \A a : Poll!Busy(a) <=> a \in Poll!Ids(sweep[r].flight)
      BY <1>3, <2>1, BusyOnlyHere
    <3>2. \A q \in Pollers : q # r => sweep'[q].flight = {}
      BY <1>3, <1>5, <2>1, OthersIdle, IdleIsOrderly
    <3>3. \A a : Poll!Busy(a)' <=> a \in Poll!Ids(sweep[r].flight) \union {s.id}
      <4> TAKE a
      <4>1. Poll!Busy(a)' <=> a \in Poll!Ids(sweep'[r].flight)
        BY <3>2 DEF Poll!Busy, Poll!Ids
      <4>2. Poll!Ids(flying) = Poll!Ids(sweep[r].flight) \union {s.id}
        BY DEF Poll!Ids
      <4>3. sweep'[r].flight = flying
        BY <1>5
      <4> QED BY <4>1, <4>2, <4>3
    <3> QED BY <3>1, <3>3
  <2>5. Poll!Alone'
    BY <1>1, <1>3, <1>5, <2>1 DEF Poll!Orderly, Poll!Alone
  <2>6. ASSUME NEW a \in Polled, a # s.id
        PROVE  lastAsked'[a] = lastAsked[a]
    BY <1>1, <1>2, <2>6 DEF Poll!PollTypes, Poll!TypeOK
  <2>7. lastAsked'[s.id] = sweep[r].age /\ overtook'[s.id] = {}
    BY <1>1, <1>2, <1>4 DEF Poll!PollTypes, Poll!TypeOK
  <2>8. \A q \in Pollers : sweep'[q].age = sweep[q].age /\ (q # r => sweep[q].age = -1)
    BY <1>3, <1>5, <2>1, OthersIdle, IdleIsOrderly
  <2>9. Poll!Turns'
    <3> SUFFICES ASSUME NEW b \in Polled, NEW a \in overtook'[b]
                 PROVE  /\ a # b /\ Poll!Scheduled(b) /\ Poll!Overdue(row, b) >= 0
                        /\ \A q \in Pollers : Poll!Overdue(row, b) >= sweep[q].age
                        /\ lastAsked'[a] # Poll!Never /\ ~Poll!Busy(a)' =>
                             Poll!Scheduled(a) /\ Poll!Overdue(row, a) < Poll!Overdue(row, b)
      BY <1>7, <2>8 DEF Poll!Turns
    <3>1. b # s.id
      BY <2>7
    <3>2. CASE a \in overtook[b]
      <4>1. /\ a # b /\ Poll!Scheduled(b) /\ Poll!Overdue(row, b) >= 0
            /\ \A q \in Pollers : Poll!Overdue(row, b) >= sweep[q].age
            /\ lastAsked[a] # Poll!Never /\ ~Poll!Busy(a) =>
                 Poll!Scheduled(a) /\ Poll!Overdue(row, a) < Poll!Overdue(row, b)
        BY <2>1, <3>2 DEF Poll!Orderly, Poll!Turns
      <4>2. a \in Polled
        BY <1>2, <3>2 DEF Poll!PollTypes
      <4> QED BY <2>4, <2>6, <4>1, <4>2
    <3>3. CASE a = s.id /\ b \in sweep[r].passed
      <4>1. Poll!Scheduled(b) /\ Poll!Overdue(row, b) >= sweep[r].age
        BY <2>1, <3>3 DEF Poll!PassedOver
      <4>2. Poll!Overdue(row, b) \in Int
        BY <1>2, <4>1, RowIs
      <4> DEFINE o == Poll!Overdue(row, b)
      <4>3. o \in Int /\ o >= sweep[r].age /\ sweep[r].age \in Nat
            /\ \A q \in Pollers : q # r => sweep[q].age = -1
        BY <1>3, <2>8, <4>1, <4>2
      <4> HIDE DEF o
      <4>4. o >= 0 /\ \A q \in Pollers : o >= sweep[q].age
        BY <4>3
      <4> QED BY <2>4, <3>1, <3>3, <4>1, <4>4 DEF o
    <3> QED BY <1>1, <3>1, <3>2, <3>3
  <2>10. Poll!Stamped'
    <3> SUFFICES ASSUME NEW a \in Polled, lastAsked'[a] # Poll!Never, ~Poll!Busy(a)'
                 PROVE  /\ Poll!Scheduled(a)
                        /\ row[a][1].since <= lastAsked'[a] \/ Floors[a] + MaxCycle <= lastAsked'[a]
                        /\ row[a][1].shows \/ row[a][1].failures # 0 \/ row[a][1].rest >= Floors[a]
      BY <1>7 DEF Poll!Stamped
    <3>1. a # s.id /\ ~Poll!Busy(a) /\ lastAsked'[a] = lastAsked[a]
      BY <2>4, <2>6
    <3> QED BY <2>1, <3>1 DEF Poll!Orderly, Poll!Stamped
  <2>11. Poll!AsRead(r)'
    <3>1. ASSUME NEW t \in Poll!Pending(r)'
          PROVE  /\ row[t.id][1].since = t.since + sweep[r].age /\ row[t.id][1].failures = t.failures
                 /\ row[t.id][1].shows = t.shows /\ Poll!Overdue(row, t.id) >= sweep[r].age
                 /\ t.id \notin Poll!Ids(sweep'[r].flight) \union sweep[r].passed
      <4>1. t \in Poll!Pending(r) /\ t.id # s.id
        BY <1>3, <1>5, <1>6, <2>1
      <4>2. /\ row[t.id][1].since = t.since + sweep[r].age /\ row[t.id][1].failures = t.failures
            /\ row[t.id][1].shows = t.shows /\ Poll!Overdue(row, t.id) >= sweep[r].age
            /\ t.id \notin Poll!Ids(sweep[r].flight) \union sweep[r].passed
        BY <2>1, <4>1 DEF Poll!AsRead
      <4> QED BY <1>5, <4>1, <4>2 DEF Poll!Ids
    <3>2. \A i, j \in DOMAIN sweep'[r].queue : i < j => sweep'[r].queue[i].id # sweep'[r].queue[j].id
      BY <1>3, <1>5, <2>1
    <3>3. ASSUME NEW t \in Poll!Pending(r)'
          PROVE  /\ row'[t.id][1].since = t.since + sweep'[r].age /\ row'[t.id][1].failures = t.failures
                 /\ row'[t.id][1].shows = t.shows /\ Poll!Overdue(row, t.id)' >= sweep'[r].age
                 /\ t.id \notin Poll!Ids(sweep'[r].flight) \union sweep'[r].passed
      <4>1. /\ sweep'[r].age = sweep[r].age /\ sweep'[r].passed = sweep[r].passed
            /\ row'[t.id] = row[t.id] /\ Poll!Overdue(row, t.id)' = Poll!Overdue(row, t.id)
        BY <1>5, <1>7
      <4> QED BY <3>1, <4>1
    <3> QED BY <3>2, <3>3 DEF Poll!AsRead
  <2>12. Poll!InFlight(r)'
    <3>1. ASSUME NEW t \in flying
          PROVE  row[t.id][1].failures = t.failures /\ lastAsked'[t.id] = sweep[r].age
                 /\ overtook'[t.id] = {} /\ t.id \notin sweep[r].passed
      <4>1. CASE t = s
        BY <2>2, <2>7, <4>1
      <4>2. CASE t \in sweep[r].flight
        <5>1. t.id # s.id /\ t.id \in Polled
          BY <1>2, <2>2, <4>2, CopiesTyped DEF Poll!Ids
        <5>2. row[t.id][1].failures = t.failures /\ lastAsked[t.id] = sweep[r].age
              /\ overtook[t.id] = {} /\ t.id \notin sweep[r].passed
          BY <2>1, <4>2 DEF Poll!InFlight
        <5> QED BY <1>1, <2>6, <5>1, <5>2
      <4> QED BY <4>1, <4>2
    <3>2. ASSUME NEW t \in flying, NEW u \in flying, t.id = u.id
          PROVE  t = u
      <4>1. \A v, w \in sweep[r].flight : v.id = w.id => v = w
        BY <2>1 DEF Poll!InFlight
      <4>2. \A v \in sweep[r].flight : v.id # s.id
        BY <2>2 DEF Poll!Ids
      <4> QED BY <3>2, <4>1, <4>2
    <3> QED BY <1>5, <1>7, <3>1, <3>2 DEF Poll!InFlight
  <2>13. Poll!PassedOver(r)'
    <3>1. \A b \in sweep[r].passed :
            /\ Poll!Scheduled(b) /\ Poll!Overdue(row, b) >= sweep[r].age
            /\ \A t \in Poll!Pending(r)' : Poll!Overdue(row, t.id) >= Poll!Overdue(row, b)
      BY <1>6, <2>1 DEF Poll!PassedOver
    <3> QED BY <1>5, <1>7, <3>1 DEF Poll!PassedOver
  <2>14. ASSUME NEW q \in Pollers
         PROVE  Poll!AsRead(q)' /\ Poll!InFlight(q)' /\ Poll!PassedOver(q)'
    <3>1. CASE q = r
      BY <2>11, <2>12, <2>13, <3>1
    <3>2. CASE q # r
      <4>1. sweep'[q] = Poll!Idle
        BY <1>3, <1>5, <2>1, <3>2, OthersIdle
      <4> QED BY <4>1, IdleIsOrderlyNext
    <3> QED BY <3>1, <3>2
  <2> QED BY <2>3, <2>5, <2>9, <2>10, <2>14 DEF Poll!Orderly
<1> QED BY <1>1, <1>8, <1>9, <1>10, <1>11 DEF Poll!PollInv

\* Buckets that are stored end the run of failures.
LEMMA StoredIs ==
  ASSUME NEW y \in Poll!RowType
  PROVE  Poll!Stored(y) \in Poll!RowType /\ Poll!Stored(y).failures = 0 /\ Poll!Stored(y).rest = y.rest
  BY DEF Poll!Stored, Poll!RowType

\* What an answer writes: a stamp of the sweep's beginning that holds the floor and the rung, or,
\* when the stamp is lost, what was stored with no failures left, if that is not lost too.
LEMMA AnswerWrites ==
  ASSUME Poll!PollTypes, Poll!Rowed, NEW r \in Pollers, sweep[r].age \in Nat,
         NEW s \in sweep[r].flight, s.id \in Polled, s.failures \in Nat, Poll!Scheduled(s.id),
         NEW kept, NEW delta, NEW n, Poll!Schedule(r, s, kept, delta, n),
         \/ kept = row[s.id][1] /\ delta = 1 /\ n = s.failures + 1
         \/ kept = row[s.id][1] /\ delta = 0 /\ n = s.failures
         \/ kept = Poll!Stored(row[s.id][1]) /\ delta = 0 /\ n = 0
  PROVE  \E x \in Poll!RowType :
           /\ row' = [row EXCEPT ![s.id] = <<x>>]
           /\ x.since = sweep[r].age /\ x.rest >= Floors[s.id]
           /\ x.rest <= Poll!Larger(PollCeiling, Floors[s.id] + (Floors[s.id] \div 4))
           /\ row[s.id][1].failures = s.failures /\ x.failures > 0 => x.rest >= Poll!Backoff(x.failures)
<1>1. PICK rest \in Poll!Jittered(Poll!NextDelay(s.id, n)) :
        row' = [row EXCEPT ![s.id] = Poll!Attempted(kept, sweep[r].age, rest, delta)]
  BY DEF Poll!Schedule
<1>2. row[s.id][1] \in Poll!RowType
  BY RowIs
<1>3. /\ kept \in Poll!RowType /\ delta \in Nat /\ n \in Nat /\ kept.failures \in Nat
      /\ row[s.id][1].failures = s.failures => kept.failures + delta = n
  <2> DEFINE was == row[s.id][1]
  <2> HIDE DEF was
  <2>1. was \in Poll!RowType /\ was.failures \in Nat
    BY <1>2 DEF was, Poll!RowType
  <2>2. /\ Poll!Stored(was) \in Poll!RowType /\ Poll!Stored(was).failures = 0
    BY <2>1, StoredIs
  <2>3. CASE kept = was /\ delta = 1 /\ n = s.failures + 1
    BY <2>1, <2>3 DEF was
  <2>4. CASE kept = was /\ delta = 0 /\ n = s.failures
    BY <2>1, <2>4 DEF was
  <2>5. CASE kept = Poll!Stored(was) /\ delta = 0 /\ n = 0
    BY <2>2, <2>5
  <2> QED BY <2>3, <2>4, <2>5 DEF was
<1>4. /\ rest \in Nat /\ rest >= Floors[s.id] /\ (n > 0 => rest >= Poll!Backoff(n))
      /\ rest <= Poll!Larger(PollCeiling, Floors[s.id] + (Floors[s.id] \div 4))
  <2>1. \A a \in Polled, k \in Nat : \A m \in Poll!Jittered(Poll!NextDelay(a, k)) :
          /\ m \in Nat /\ m >= Floors[a] /\ (k > 0 => m >= Poll!Backoff(k))
          /\ m <= Poll!Larger(PollCeiling, Floors[a] + (Floors[a] \div 4))
    BY DelayBounded, Zenon
  <2> QED BY <1>3, <2>1, Zenon
<1> DEFINE z == [kept EXCEPT !.since = sweep[r].age, !.rest = rest, !.failures = @ + delta]
<1>5. z \in Poll!RowType /\ z.since = sweep[r].age /\ z.rest = rest /\ z.failures = kept.failures + delta
  <2>1. kept.failures + delta \in Nat
    BY <1>3
  <2> QED BY <1>3, <1>4, <2>1 DEF Poll!RowType
<1>6. row' = [row EXCEPT ![s.id] = <<z>>]
  BY <1>1 DEF Poll!Attempted
<1> HIDE DEF z
<1>7. row[s.id][1].failures = s.failures /\ z.failures > 0 => z.rest >= Poll!Backoff(z.failures)
  <2> HAVE row[s.id][1].failures = s.failures /\ z.failures > 0
  <2>1. z.failures = n
    BY <1>3, <1>5
  <2> QED BY <1>4, <1>5, <2>1
<1>8. z.rest >= Floors[s.id] /\ z.rest <= Poll!Larger(PollCeiling, Floors[s.id] + (Floors[s.id] \div 4))
  BY <1>4, <1>5
<1> QED BY <1>5, <1>6, <1>7, <1>8

\* A vendor's answer, or the lack of one, is stored and stamped as far as the writes go.
LEMMA AnswerPolls ==
  ASSUME Poll!PollInv, NEW r \in Pollers, Poll!Answer(r)
  PROVE  Poll!PollInv'
<1>1. PICK s \in sweep[r].flight :
        /\ \/ /\ UNCHANGED lastAsked
              /\ \/ Poll!Schedule(r, s, row[s.id][1], 1, s.failures + 1)
                 \/ Poll!Schedule(r, s, row[s.id][1], 0, s.failures)
                 \/ Poll!Schedule(r, s, Poll!Stored(row[s.id][1]), 0, 0)
           \/ /\ lastAsked' = [lastAsked EXCEPT ![s.id] = Poll!Never]
              /\ row' \in {row, [row EXCEPT ![s.id] = <<Poll!Stored(row[s.id][1])>>]}
        /\ sweep' = [sweep EXCEPT ![r].flight = @ \ {s}]
        /\ UNCHANGED <<cooling, lease, page, overtook, outlived, broken>>
  BY DEF Poll!Answer
<1>2. Poll!PollTypes /\ Poll!Rowed /\ Poll!BackedOff
  BY DEF Poll!PollInv
<1>3. sweep[r] # Poll!Idle /\ sweep[r].age \in 0..MaxCycle /\ sweep[r].age \in Nat
  <2>1. sweep[r] # Poll!Idle
    BY IdleTyped
  <2>2. sweep[r].age \in 0..MaxCycle
    BY <1>2, <2>1 DEF Poll!Rowed
  <2> QED BY <2>1, <2>2, PollNumbers
<1>4. s \in Poll!Snapshot /\ s.id \in Polled /\ s.failures \in Nat /\ Poll!Scheduled(s.id)
  BY <1>2, CopiesTyped DEF Poll!Rowed
<1>5. /\ row[s.id][1] \in Poll!RowType /\ row[s.id][1].since \in Nat /\ row[s.id][1].rest \in Nat
      /\ Poll!Overdue(row, s.id) = row[s.id][1].since - row[s.id][1].rest
      /\ Floors[s.id] \in Nat /\ Floors[s.id] > 0
  <2>1. Floors[s.id] \in Nat /\ Floors[s.id] > 0
    BY <1>4, FloorBounded, Zenon
  <2> QED BY <1>2, <1>4, <2>1, RowIs, Zenon
<1> DEFINE flying == sweep[r].flight \ {s}
           queue == sweep[r].queue
<1>6. /\ sweep' \in [Pollers -> [age : Int, queue : Seq(Poll!Snapshot), flight : SUBSET Poll!Snapshot,
                                 passed : SUBSET Polled]]
      /\ \A q \in Pollers : sweep'[q].flight \subseteq Poll!Snapshot
      /\ \A q \in Pollers : q # r => sweep'[q] = sweep[q]
      /\ \A q \in Pollers : sweep'[q].age = sweep[q].age
      /\ sweep'[r].queue = queue /\ sweep'[r].flight = flying /\ sweep'[r].passed = sweep[r].passed
      /\ Poll!Pending(r)' = {queue[i] : i \in DOMAIN queue}
      /\ \A q \in Pollers : q # r => Poll!Pending(q)' = Poll!Pending(q)
      /\ sweep'[r] # Poll!Idle
  <2>1. sweep[r].flight \in SUBSET Poll!Snapshot /\ queue \in Seq(Poll!Snapshot)
    BY <1>2 DEF Poll!PollTypes
  <2>2. flying \in SUBSET Poll!Snapshot /\ sweep' = [sweep EXCEPT ![r].queue = queue, ![r].flight = flying]
    BY <1>1, <1>2, <2>1 DEF Poll!PollTypes
  <2> HIDE DEF queue, flying
  <2> QED BY <1>2, <1>3, <2>1, <2>2, SweepMoves, Zenon
<1>7. Poll!Pending(r)' = Poll!Pending(r)
  BY <1>6 DEF Poll!Pending
<1>8. /\ row' \in [Polled -> Seq(Poll!RowType)]
      /\ \A b \in Polled : row'[b] = <<>> \/ row'[b][1] \in Poll!RowType
      /\ \A b \in Polled : b # s.id => row'[b] = row[b] /\ Poll!Overdue(row, b)' = Poll!Overdue(row, b)
      /\ \A b \in Polled : Poll!Scheduled(b) => Poll!Scheduled(b)'
      /\ row'[s.id][1].rest <= Poll!Larger(PollCeiling, Floors[s.id] + (Floors[s.id] \div 4))
      /\ ~outlived /\ row[s.id][1].failures = s.failures /\ row'[s.id][1].failures > 0 =>
           row'[s.id][1].rest >= Poll!Backoff(row'[s.id][1].failures)
      /\ \/ /\ lastAsked' = lastAsked /\ row'[s.id][1].since = sweep[r].age
            /\ row'[s.id][1].rest >= Floors[s.id]
         \/ lastAsked' = [lastAsked EXCEPT ![s.id] = Poll!Never]
  <2>1. \A kept, delta, n :
          /\ Poll!Schedule(r, s, kept, delta, n)
          /\ \/ kept = row[s.id][1] /\ delta = 1 /\ n = s.failures + 1
             \/ kept = row[s.id][1] /\ delta = 0 /\ n = s.failures
             \/ kept = Poll!Stored(row[s.id][1]) /\ delta = 0 /\ n = 0
          => \E x \in Poll!RowType :
               /\ row' = [row EXCEPT ![s.id] = <<x>>]
               /\ x.since = sweep[r].age /\ x.rest >= Floors[s.id]
               /\ x.rest <= Poll!Larger(PollCeiling, Floors[s.id] + (Floors[s.id] \div 4))
               /\ row[s.id][1].failures = s.failures /\ x.failures > 0 => x.rest >= Poll!Backoff(x.failures)
    BY <1>2, <1>3, <1>4, AnswerWrites, Zenon
  <2>2. CASE /\ UNCHANGED lastAsked
             /\ \/ Poll!Schedule(r, s, row[s.id][1], 1, s.failures + 1)
                \/ Poll!Schedule(r, s, row[s.id][1], 0, s.failures)
                \/ Poll!Schedule(r, s, Poll!Stored(row[s.id][1]), 0, 0)
    <3>1. \E x \in Poll!RowType :
            /\ row' = [row EXCEPT ![s.id] = <<x>>]
            /\ x.since = sweep[r].age /\ x.rest >= Floors[s.id]
            /\ x.rest <= Poll!Larger(PollCeiling, Floors[s.id] + (Floors[s.id] \div 4))
            /\ row[s.id][1].failures = s.failures /\ x.failures > 0 => x.rest >= Poll!Backoff(x.failures)
      BY <2>1, <2>2, Zenon
    <3>2. PICK x \in Poll!RowType :
            /\ row' = [row EXCEPT ![s.id] = <<x>>]
            /\ x.since = sweep[r].age /\ x.rest >= Floors[s.id]
            /\ x.rest <= Poll!Larger(PollCeiling, Floors[s.id] + (Floors[s.id] \div 4))
            /\ row[s.id][1].failures = s.failures /\ x.failures > 0 => x.rest >= Poll!Backoff(x.failures)
      BY <3>1
    <3>3. <<x>> \in Seq(Poll!RowType) /\ <<x>> # <<>> /\ <<x>>[1] = x /\ <<x>>[1] \in Poll!RowType
      OBVIOUS
    <3>4. /\ row' \in [Polled -> Seq(Poll!RowType)] /\ row'[s.id] = <<x>>
          /\ \A b \in Polled : row'[b] = <<>> \/ row'[b][1] \in Poll!RowType
          /\ \A b \in Polled : b # s.id => row'[b] = row[b] /\ Poll!Overdue(row, b)' = Poll!Overdue(row, b)
          /\ \A b \in Polled : Poll!Scheduled(b) => Poll!Scheduled(b)'
      BY <1>2, <1>4, <3>2, <3>3, RowWritten
    <3>5. row'[s.id][1] = x
      BY <3>3, <3>4
    <3> QED BY <2>2, <3>2, <3>4, <3>5, Zenon
  <2> DEFINE was == row[s.id][1]
             is == Poll!Stored(was)
  <2>3. was \in Poll!RowType /\ was.rest \in Nat
        /\ was.rest <= Poll!Larger(PollCeiling, Floors[s.id] + (Floors[s.id] \div 4))
        /\ (~outlived /\ was.failures > 0 => was.rest >= Poll!Backoff(was.failures))
    BY <1>2, <1>4, <1>5 DEF Poll!BackedOff
  <2>4. is \in Poll!RowType /\ is.rest = was.rest /\ ~(is.failures > 0)
    <3> HIDE DEF was
    <3>1. is \in Poll!RowType /\ is.rest = was.rest /\ is.failures = 0
      BY <2>3, StoredIs
    <3> HIDE DEF is
    <3> QED BY <3>1
  <2>5. CASE lastAsked' = [lastAsked EXCEPT ![s.id] = Poll!Never] /\ row' = row
    <3>1. row \in [Polled -> Seq(Poll!RowType)] /\ \A b \in Polled : row[b] = <<>> \/ row[b][1] \in Poll!RowType
      BY <1>2 DEF Poll!PollTypes, Poll!TypeOK
    <3>2. \A b : row'[b] = row[b] /\ Poll!Overdue(row, b)' = Poll!Overdue(row, b)
                 /\ (Poll!Scheduled(b)' <=> Poll!Scheduled(b))
      BY <2>5 DEF Poll!Scheduled, Poll!Overdue
    <3> QED BY <2>3, <2>5, <3>1, <3>2
  <2>6. CASE /\ lastAsked' = [lastAsked EXCEPT ![s.id] = Poll!Never]
             /\ row' = [row EXCEPT ![s.id] = <<is>>]
    <3> HIDE DEF is
    <3>1. <<is>> \in Seq(Poll!RowType) /\ <<is>> # <<>> /\ <<is>>[1] = is /\ <<is>>[1] \in Poll!RowType
      BY <2>4
    <3>2. /\ row' \in [Polled -> Seq(Poll!RowType)] /\ row'[s.id] = <<is>>
          /\ \A b \in Polled : row'[b] = <<>> \/ row'[b][1] \in Poll!RowType
          /\ \A b \in Polled : b # s.id => row'[b] = row[b] /\ Poll!Overdue(row, b)' = Poll!Overdue(row, b)
          /\ \A b \in Polled : Poll!Scheduled(b) => Poll!Scheduled(b)'
      BY <1>2, <1>4, <2>6, <3>1, RowWritten
    <3>3. row'[s.id][1] = is
      BY <3>1, <3>2
    <3> HIDE DEF was
    <3> QED BY <2>3, <2>4, <2>6, <3>2, <3>3
  <2> QED BY <1>1, <2>2, <2>5, <2>6
<1>9. Poll!PollTypes'
  <2>1. lastAsked' \in [Polled -> Int]
    BY <1>2, <1>8 DEF Poll!PollTypes, Poll!TypeOK, Poll!Never
  <2> QED BY <1>1, <1>2, <1>6, <1>8, <2>1 DEF Poll!PollTypes, Poll!TypeOK
<1>10. Poll!Rowed'
  <2>1. \A q \in Pollers : sweep'[q] = Poll!Idle \/ sweep'[q].age \in 0..MaxCycle
    BY <1>2, <1>3, <1>6 DEF Poll!Rowed
  <2>2. ASSUME NEW q \in Pollers, NEW t \in Poll!Pending(q)' \union sweep'[q].flight
        PROVE  Poll!Scheduled(t.id)'
    <3>1. t \in Poll!Pending(q) \union sweep[q].flight
      <4>1. CASE q = r
        BY <1>6, <1>7, <2>2, <4>1
      <4>2. CASE q # r
        BY <1>6, <2>2, <4>2
      <4> QED BY <4>1, <4>2
    <3>2. t.id \in Polled /\ Poll!Scheduled(t.id)
      BY <1>2, <3>1, CopiesTyped DEF Poll!Rowed
    <3> QED BY <1>8, <3>2
  <2> QED BY <2>1, <2>2 DEF Poll!Rowed
<1>11. ASSUME ~outlived
       PROVE  /\ Poll!Orderly /\ Poll!AsRead(r) /\ Poll!InFlight(r) /\ Poll!PassedOver(r)
              /\ row[s.id][1].failures = s.failures /\ lastAsked[s.id] = sweep[r].age
              /\ overtook[s.id] = {} /\ s.id \notin sweep[r].passed
              /\ \A t \in flying : t.id # s.id
  <2>1. Poll!Orderly /\ Poll!AsRead(r) /\ Poll!InFlight(r) /\ Poll!PassedOver(r)
    BY <1>11 DEF Poll!PollInv, Poll!Orderly
  <2> QED BY <2>1 DEF Poll!InFlight
<1>12. Poll!BackedOff'
  <2> SUFFICES ASSUME NEW a \in Polled, Poll!Scheduled(a)'
               PROVE  /\ row'[a][1].failures > 0 /\ ~outlived =>
                           row'[a][1].rest >= Poll!Backoff(row'[a][1].failures)
                      /\ row'[a][1].rest <= Poll!Larger(PollCeiling, Floors[a] + (Floors[a] \div 4))
    BY <1>1 DEF Poll!BackedOff
  <2>1. CASE a # s.id
    <3>1. row'[a] = row[a]
      BY <1>8, <2>1
    <3> QED BY <1>2, <3>1 DEF Poll!BackedOff, Poll!Scheduled
  <2>2. CASE a = s.id
    BY <1>8, <1>11, <2>2, Zenon
  <2> QED BY <2>1, <2>2
<1>13. ASSUME ~outlived
       PROVE  Poll!Orderly'
  <2>1. \A a : /\ Poll!Busy(a) <=> a \in Poll!Ids(sweep[r].flight)
               /\ Poll!Busy(a)' <=> a \in Poll!Ids(flying)
    <3>1. \A a : Poll!Busy(a) <=> a \in Poll!Ids(sweep[r].flight)
      BY <1>3, <1>11, <1>13, BusyOnlyHere
    <3>2. \A q \in Pollers : q # r => sweep'[q].flight = {}
      BY <1>3, <1>6, <1>11, <1>13, OthersIdle, IdleIsOrderly
    <3>3. \A a : Poll!Busy(a)' <=> a \in Poll!Ids(sweep'[r].flight)
      BY <3>2 DEF Poll!Busy, Poll!Ids
    <3>4. sweep'[r].flight = flying
      BY <1>6
    <3> QED BY <3>1, <3>3, <3>4
  <2>2. /\ \A a : a # s.id => (Poll!Busy(a)' <=> Poll!Busy(a))
        /\ ~Poll!Busy(s.id)'
    BY <1>11, <1>13, <2>1 DEF Poll!Ids
  <2>3. Poll!Alone'
    BY <1>1, <1>3, <1>6, <1>11, <1>13 DEF Poll!Orderly, Poll!Alone
  <2>4. \A a \in Polled : a # s.id => lastAsked'[a] = lastAsked[a]
    BY <1>2, <1>8 DEF Poll!PollTypes, Poll!TypeOK
  <2>5. lastAsked'[s.id] # Poll!Never =>
          /\ lastAsked'[s.id] = sweep[r].age /\ row'[s.id][1].since = sweep[r].age
          /\ row'[s.id][1].rest >= Floors[s.id]
    BY <1>2, <1>4, <1>8, <1>11, <1>13 DEF Poll!PollTypes, Poll!TypeOK
  <2>6. Poll!Scheduled(s.id)' /\ row'[s.id][1] \in Poll!RowType
    BY <1>4, <1>8 DEF Poll!Scheduled
  <2>7. Poll!Turns'
    <3> SUFFICES ASSUME NEW b \in Polled, NEW a \in overtook[b]
                 PROVE  /\ a # b /\ Poll!Scheduled(b)' /\ Poll!Overdue(row, b)' >= 0
                        /\ \A q \in Pollers : Poll!Overdue(row, b)' >= sweep'[q].age
                        /\ lastAsked'[a] # Poll!Never /\ ~Poll!Busy(a)' =>
                             Poll!Scheduled(a)' /\ Poll!Overdue(row, a)' < Poll!Overdue(row, b)'
      BY <1>1 DEF Poll!Turns
    <3>1. b # s.id /\ a \in Polled
      BY <1>2, <1>11, <1>13 DEF Poll!PollTypes
    <3>2. /\ a # b /\ Poll!Scheduled(b) /\ Poll!Overdue(row, b) >= 0
          /\ \A q \in Pollers : Poll!Overdue(row, b) >= sweep[q].age
          /\ lastAsked[a] # Poll!Never /\ ~Poll!Busy(a) =>
               Poll!Scheduled(a) /\ Poll!Overdue(row, a) < Poll!Overdue(row, b)
      BY <1>11, <1>13 DEF Poll!Orderly, Poll!Turns
    <3>3. Poll!Overdue(row, b)' = Poll!Overdue(row, b) /\ Poll!Overdue(row, b) \in Int /\ Poll!Scheduled(b)'
      BY <1>2, <1>8, <3>1, <3>2, RowIs
    <3>4. ASSUME lastAsked'[a] # Poll!Never, ~Poll!Busy(a)'
          PROVE  Poll!Scheduled(a)' /\ Poll!Overdue(row, a)' < Poll!Overdue(row, b)
      <4>1. CASE a # s.id
        BY <1>8, <2>2, <2>4, <3>1, <3>2, <3>4, <4>1
      <4>2. CASE a = s.id
        <5> DEFINE n == row'[a][1].since
                   m == row'[a][1].rest
                   f == Floors[a]
                   o == Poll!Overdue(row, b)
        <5>1. n = sweep[r].age /\ m >= f /\ o >= sweep[r].age /\ sweep[r].age \in Nat /\ o \in Int
              /\ f \in Nat /\ f > 0
          BY <1>3, <1>5, <2>5, <3>2, <3>3, <3>4, <4>2
        <5>2. n \in Nat /\ m \in Nat
          BY <2>6, <4>2 DEF Poll!RowType
        <5>3. n - m < o
          <6> HIDE DEF n, m, f, o
          <6> QED BY <5>1, <5>2
        <5> QED BY <2>6, <4>2, <5>3 DEF Poll!Overdue, Poll!Scheduled
      <4> QED BY <4>1, <4>2
    <3> QED BY <1>6, <3>2, <3>3, <3>4
  <2>8. Poll!Stamped'
    <3> SUFFICES ASSUME NEW a \in Polled, lastAsked'[a] # Poll!Never, ~Poll!Busy(a)'
                 PROVE  /\ Poll!Scheduled(a)'
                        /\ row'[a][1].since <= lastAsked'[a] \/ Floors[a] + MaxCycle <= lastAsked'[a]
                        /\ row'[a][1].shows \/ row'[a][1].failures # 0 \/ row'[a][1].rest >= Floors[a]
      BY DEF Poll!Stamped
    <3>1. CASE a = s.id
      <4> DEFINE n == row'[a][1].since
                 k == lastAsked'[a]
      <4>1. n = k /\ k \in Nat /\ row'[a][1].rest >= Floors[a] /\ Poll!Scheduled(a)'
        BY <1>3, <2>5, <2>6, <3>1 DEF Poll!Scheduled
      <4>2. n <= k
        <5> HIDE DEF n, k
        <5> QED BY <4>1
      <4> QED BY <4>1, <4>2
    <3>2. CASE a # s.id
      <4>1. /\ Poll!Scheduled(a)
            /\ row[a][1].since <= lastAsked[a] \/ Floors[a] + MaxCycle <= lastAsked[a]
            /\ row[a][1].shows \/ row[a][1].failures # 0 \/ row[a][1].rest >= Floors[a]
        BY <1>11, <1>13, <2>2, <2>4, <3>2 DEF Poll!Orderly, Poll!Stamped
      <4> QED BY <1>8, <2>4, <3>2, <4>1
    <3> QED BY <3>1, <3>2
  <2>9. Poll!AsRead(r)'
    <3>1. ASSUME NEW t \in Poll!Pending(r)
          PROVE  /\ row'[t.id][1].since = t.since + sweep'[r].age /\ row'[t.id][1].failures = t.failures
                 /\ row'[t.id][1].shows = t.shows /\ Poll!Overdue(row, t.id)' >= sweep'[r].age
                 /\ t.id \notin Poll!Ids(sweep'[r].flight) \union sweep'[r].passed
      <4>1. /\ row[t.id][1].since = t.since + sweep[r].age /\ row[t.id][1].failures = t.failures
            /\ row[t.id][1].shows = t.shows /\ Poll!Overdue(row, t.id) >= sweep[r].age
            /\ t.id \notin Poll!Ids(sweep[r].flight) \union sweep[r].passed
        BY <1>11, <1>13 DEF Poll!AsRead
      <4>2. t.id # s.id /\ t.id \in Polled
        BY <1>2, <4>1, CopiesTyped DEF Poll!Ids
      <4>3. /\ sweep'[r].age = sweep[r].age /\ sweep'[r].passed = sweep[r].passed
            /\ row'[t.id] = row[t.id] /\ Poll!Overdue(row, t.id)' = Poll!Overdue(row, t.id)
        BY <1>6, <1>8, <4>2
      <4>4. t.id \notin Poll!Ids(sweep'[r].flight)
        BY <1>6, <4>1 DEF Poll!Ids
      <4> QED BY <4>1, <4>3, <4>4
    <3>2. \A i, j \in DOMAIN sweep'[r].queue : i < j => sweep'[r].queue[i].id # sweep'[r].queue[j].id
      BY <1>6, <1>11, <1>13 DEF Poll!AsRead
    <3> QED BY <1>7, <3>1, <3>2 DEF Poll!AsRead
  <2>10. Poll!InFlight(r)'
    <3>1. ASSUME NEW t \in flying
          PROVE  row'[t.id][1].failures = t.failures /\ lastAsked'[t.id] = sweep[r].age
                 /\ overtook[t.id] = {} /\ t.id \notin sweep[r].passed
      <4>1. t.id # s.id /\ t.id \in Polled
        BY <1>2, <1>11, <1>13, CopiesTyped
      <4>2. row[t.id][1].failures = t.failures /\ lastAsked[t.id] = sweep[r].age
            /\ overtook[t.id] = {} /\ t.id \notin sweep[r].passed
        BY <1>11, <1>13 DEF Poll!InFlight
      <4> QED BY <1>8, <2>4, <4>1, <4>2
    <3>2. \A t, u \in flying : t.id = u.id => t = u
      BY <1>11, <1>13 DEF Poll!InFlight
    <3>3. sweep'[r].flight = flying /\ sweep'[r].age = sweep[r].age /\ sweep'[r].passed = sweep[r].passed
          /\ overtook' = overtook
      BY <1>1, <1>6
    <3> HIDE DEF flying
    <3> QED BY <3>1, <3>2, <3>3 DEF Poll!InFlight
  <2>11. Poll!PassedOver(r)'
    <3> SUFFICES ASSUME NEW b \in sweep[r].passed
                 PROVE  /\ Poll!Scheduled(b)' /\ Poll!Overdue(row, b)' >= sweep[r].age
                        /\ \A t \in Poll!Pending(r) : Poll!Overdue(row, t.id)' >= Poll!Overdue(row, b)'
      BY <1>6, <1>7 DEF Poll!PassedOver
    <3>1. b \in Polled /\ b # s.id
      BY <1>2, <1>11, <1>13 DEF Poll!PollTypes
    <3>2. /\ Poll!Scheduled(b) /\ Poll!Overdue(row, b) >= sweep[r].age
          /\ \A t \in Poll!Pending(r) : Poll!Overdue(row, t.id) >= Poll!Overdue(row, b)
      BY <1>11, <1>13 DEF Poll!PassedOver
    <3>3. ASSUME NEW t \in Poll!Pending(r)
          PROVE  Poll!Overdue(row, t.id)' = Poll!Overdue(row, t.id)
      <4>1. t.id # s.id /\ t.id \in Polled
        BY <1>2, <1>11, <1>13, CopiesTyped DEF Poll!AsRead, Poll!Ids
      <4> QED BY <1>8, <4>1
    <3> QED BY <1>8, <3>1, <3>2, <3>3
  <2>12. ASSUME NEW q \in Pollers
         PROVE  Poll!AsRead(q)' /\ Poll!InFlight(q)' /\ Poll!PassedOver(q)'
    <3>1. CASE q = r
      BY <2>9, <2>10, <2>11, <3>1
    <3>2. CASE q # r
      <4>1. sweep'[q] = Poll!Idle
        BY <1>3, <1>6, <1>11, <1>13, <3>2, OthersIdle
      <4> QED BY <4>1, IdleIsOrderlyNext
    <3> QED BY <3>1, <3>2
  <2> QED BY <1>1, <1>11, <1>13, <2>3, <2>7, <2>8, <2>12 DEF Poll!Orderly
<1> QED BY <1>1, <1>9, <1>10, <1>12, <1>13 DEF Poll!PollInv

LEMMA PollStep == Poll!PollInv /\ Poll!Next => Poll!PollInv'
<1> SUFFICES ASSUME Poll!PollInv, Poll!Next PROVE Poll!PollInv'
  OBVIOUS
<1>1. CASE \E r \in Pollers : \/ Poll!Begin(r) \/ Poll!Rearm(r) \/ Poll!Ask(r)
                              \/ Poll!Answer(r) \/ Poll!End(r) \/ Poll!Stop(r)
  BY <1>1, BeginPolls, RearmPolls, AskPolls, AnswerPolls, EndPolls, StopPolls
<1>2. CASE Poll!Throttle
  BY <1>2, ThrottlePolls
<1>3. CASE Poll!Tick
  BY <1>3, TickPolls
<1> QED BY <1>1, <1>2, <1>3 DEF Poll!Next

LEMMA PollShows == Poll!PollInv => Poll!TypeOK /\ Poll!PollSound
  BY DEF Poll!PollInv, Poll!PollTypes, Poll!Orderly, Poll!PollSound, Poll!FloorKept, Poll!Rotation

\* PublishedPoll: no vendor is asked about an account twice within its floor, nobody is asked
\* twice while an account that is due waits, both while cycles end within their lease, and a
\* failing account rests its step of the ladder and no longer than the ceiling
\* (service/quota_published_policy.go, postgres/quota_published.go).
THEOREM PollHolds == Spec => []PollSound
<1> DEFINE Inv == part = "poll" => Poll!PollInv
<1>1. Init => Inv
  BY PollStart DEF Init, Picked
<1>2. Inv /\ [Next]_wiresVars => Inv'
  <2> SUFFICES ASSUME Inv, [Next]_wiresVars, part' = "poll" PROVE Poll!PollInv'
    OBVIOUS
  <2>1. CASE Next
    <3>1. part = "poll" /\ Poll!Next
      BY <2>1 DEF Next
    <3> QED BY <3>1, PollStep
  <2>2. CASE UNCHANGED wiresVars
    <3>1. /\ part = "poll"
          /\ UNCHANGED <<row, cooling, lease, page, sweep, lastAsked, overtook, outlived, broken>>
      BY <2>2 DEF wiresVars
    <3>2. cooling' \in [Polled -> 0..PollCooldown]
      BY <3>1 DEF Poll!PollInv, Poll!PollTypes, Poll!TypeOK
    <3> QED BY <3>1, <3>2, PollStill
  <2> QED BY <2>1, <2>2
<1>3. Inv => PollSound
  BY PollShows DEF PollSound
<1> QED BY <1>1, <1>2, <1>3, PTL DEF Spec

=============================================================================
