---------------------------- MODULE NodeCatalog ----------------------------
(***************************************************************************)
(* The names a model string may begin with: built-in providers, custom     *)
(* nodes by id or prefix, combos, aliases.  Every replica resolves nodes   *)
(* by an overlay it builds under a lock and believes for a while           *)
(* (cmd/app-serv/provider_index.go); panel requests check a name against   *)
(* that overlay and the tables before they write (service/provider_node.go,*)
(* combo.go, model_catalog_writes.go).  None of the references between the *)
(* tables is a foreign key.                                                *)
(***************************************************************************)
EXTENDS Integers, FiniteSets

CONSTANTS
  Actors, NoActor,
  Replicas,
  Nodes,        \* ids of custom nodes
  Prefixes,     \* what an operator may ask for, a built-in name among them
  BuiltIn,      \* ids and aliases of the embedded registry
  Combos, Aliases,
  FirstNodes,   \* the prefixes stored before
  OverlayTTL, RebuildMax,
  MaxWrites, MaxFaults

NodeCatalogAssumption ==
  /\ NoActor \notin Actors /\ OverlayTTL \in Nat \ {0} /\ {RebuildMax, MaxWrites, MaxFaults} \subseteq Nat
  /\ FirstNodes \in [Nodes -> {""} \union (Prefixes \ BuiltIn)]
  /\ "" \notin Nodes \union Prefixes \union BuiltIn \union Combos \union Aliases

VARIABLES
  nodes,     \* node -> its prefix, "" when there is no such row
  combos,    \* combo -> the name its member begins with, "" when there is no such combo
  aliases,   \* alias -> the name of its target
  cached,    \* replica -> the overlay it believes
  builder,   \* replica -> who rebuilds it, holding the lock
  op,        \* what each actor is at
  version,   \* writes of nodes so far
  answered,  \* replica -> the last write of a node it answered
  padded,    \* nodes whose prefix a patch stored unchecked, at any time
  faults, writes,
  sound      \* every served overlay and every undisturbed erasure was what it promises

catalogVars == <<nodes, combos, aliases, cached, builder, op, version, answered, padded,
                 faults, writes, sound>>

None == ""
Nobody == [n \in Nodes |-> None]
\* An overlay: the nodes read, ticks since it was stored and since they were read, the write
\* it shows, and whether a rebuild failed since.
NoOverlay == [built |-> FALSE, nodes |-> Nobody, age |-> 0, old |-> 0, version |-> 0, fallback |-> FALSE]
Idle == [kind |-> "idle", replica |-> None, at |-> "idle", node |-> None, name |-> None,
         pad |-> FALSE, view |-> NoOverlay, owed |-> 0, alone |-> TRUE]

Init ==
  /\ version = 0 /\ faults = 0 /\ writes = 0 /\ padded = {} /\ sound = TRUE
  /\ nodes = FirstNodes
  /\ combos = [c \in Combos |-> None] /\ aliases = [a \in Aliases |-> None]
  /\ cached = [r \in Replicas |-> NoOverlay] /\ builder = [r \in Replicas |-> NoActor]
  /\ op = [a \in Actors |-> Idle] /\ answered = [r \in Replicas |-> 0]

Move(a, next) == op' = [op EXCEPT ![a] = next]
\* A write lands: everybody else's decision is one it was not part of.
Disturbed(r) == IF r.at = "erase" THEN [r EXCEPT !.alone = FALSE] ELSE r
Lands(a, next) ==
  /\ writes' = writes + 1
  /\ op' = [b \in Actors |-> IF b = a THEN next ELSE Disturbed(op[b])]

-----------------------------------------------------------------------------
(* The overlay of one replica.                                             *)

Stored == {n \in Nodes : nodes[n] # None}
NamesOf(view) == BuiltIn \union UNION {{n, view.nodes[n]} : n \in {m \in Nodes : view.nodes[m] # None}}
\* One entry whose prefix a built-in answers to fails the whole index.
Builds(rows) == \A n \in Nodes : rows[n] \notin BuiltIn
Fresh(r) == cached[r].built /\ cached[r].age < OverlayTTL
Serves(view, owed) ==
  view.fallback \/ (view.version >= owed /\ view.old < OverlayTTL + RebuildMax)

\* The prefix is looked up as it was sent, and stored without the blanks around it.
Taken(r, view) ==
  ~r.pad /\ ( \/ r.name \in NamesOf(view)
              \/ \E n \in Stored \ {r.node} : nodes[n] = r.name )
\* A combo lists combos, aliases and models; an alias means a combo or a model.
Means(name) == IF name \in Aliases /\ aliases[name] # None THEN aliases[name] ELSE name
\* A node takes any model, a built-in provider those it declares or passes through.
ResolvesIn(view, name) == name \in NamesOf(view)
Refers(r, view) ==
  LET name == IF r.kind = "combo" THEN Means(r.name) ELSE r.name
  IN /\ ResolvesIn(view, name) \/ name \in {c \in Combos : combos[c] # None}
     /\ r.kind = "combo" => r.node \notin {r.name, name}
\* What a request makes of the overlay it looked up.
Decided(r, view) ==
  CASE r.kind = "route" -> Idle
    [] r.kind \in {"create", "patch"} -> IF Taken(r, view) THEN Idle ELSE [r EXCEPT !.at = "write"]
    [] r.kind \in {"combo", "alias"} -> IF Refers(r, view) THEN [r EXCEPT !.at = "write"] ELSE Idle

\* A request's lookup takes the overlay while it is fresh, and rebuilds it otherwise.
Look(a, request) ==
  LET r == request.replica IN
  /\ builder[r] = NoActor
  /\ IF Fresh(r)
     THEN /\ Move(a, Decided(request, cached[r]))
          /\ sound' = (sound /\ Serves(cached[r], answered[r]))
          /\ UNCHANGED builder
     ELSE /\ builder' = [builder EXCEPT ![r] = a]
          /\ Move(a, [request EXCEPT !.at = "read", !.owed = answered[r]])
          /\ UNCHANGED sound
  /\ UNCHANGED <<nodes, combos, aliases, cached, version, answered, padded, faults, writes>>

\* staleAfterFailure: what is cached, or the embedded registry alone.
Fallback(r) == [cached[r] EXCEPT !.built = TRUE, !.age = 0, !.fallback = TRUE]
Adopt(a, overlay) ==
  LET r == op[a].replica IN
  /\ cached' = [cached EXCEPT ![r] = overlay]
  /\ builder' = [builder EXCEPT ![r] = NoActor]
  /\ Move(a, Decided([op[a] EXCEPT !.view = NoOverlay, !.owed = 0], overlay))
  /\ sound' = (sound /\ Serves(overlay, op[a].owed))
LoadNodes(a) ==
  /\ op[a].at = "read"
  /\ \/ /\ Move(a, [op[a] EXCEPT !.at = "build",
                      !.view = [NoOverlay EXCEPT !.built = TRUE, !.nodes = nodes, !.version = version]])
        /\ UNCHANGED <<cached, builder, sound, faults>>
     \/ /\ faults < MaxFaults /\ faults' = faults + 1
        /\ Adopt(a, Fallback(op[a].replica))
  /\ UNCHANGED <<nodes, combos, aliases, version, answered, padded, writes>>
Build(a) ==
  /\ op[a].at = "build"
  /\ Adopt(a, IF Builds(op[a].view.nodes) THEN op[a].view ELSE Fallback(op[a].replica))
  /\ UNCHANGED <<nodes, combos, aliases, version, answered, padded, faults, writes>>

\* A node write waits for the rebuild under way and drops what it left; then it answers.
MayInvalidateAtOnce(r) == TRUE
MayInvalidate(r) == builder[r] = NoActor
InvalidateNodeOverlay(a) ==
  LET r == op[a].replica IN
  /\ op[a].at = "written" /\ MayInvalidate(r)
  /\ cached' = [cached EXCEPT ![r] = NoOverlay]
  /\ answered' = [answered EXCEPT ![r] = IF op[a].owed > @ THEN op[a].owed ELSE @]
  /\ Move(a, Idle)
  /\ UNCHANGED <<nodes, combos, aliases, builder, version, padded, faults, writes, sound>>

-----------------------------------------------------------------------------
(* What is asked.                                                          *)

Request(kind, r, node, name) == [Idle EXCEPT !.kind = kind, !.replica = r, !.node = node, !.name = name]
Targets == Nodes \union (Prefixes \ BuiltIn) \union Combos
Requests(r) ==
  {Request("create", r, n, p) : n \in Nodes \ Stored, p \in Prefixes}
  \union {[Request("patch", r, n, p) EXCEPT !.pad = pad] :
            n \in Stored, p \in Prefixes, pad \in BOOLEAN}
  \union {Request("combo", r, c, t) : c \in Combos, t \in Targets}
  \union {Request("alias", r, x, t) : x \in Aliases, t \in Targets}
Ask(a, r) ==
  /\ op[a].at = "idle"
  /\ \/ Look(a, Request("route", r, None, None))
     \/ writes < MaxWrites /\ \E request \in Requests(r) : Look(a, request)

Finish(a, then) ==
  /\ Move(a, then)
  /\ UNCHANGED <<nodes, combos, aliases, cached, builder, version, answered, padded, faults, writes, sound>>
\* A patch of anything else stores the prefix it loaded again, without a look.
Rename(a, r) ==
  /\ op[a].at = "idle" /\ writes < MaxWrites
  /\ \E n \in Stored : Finish(a, [Request("patch", r, n, nodes[n]) EXCEPT !.at = "write"])

\* One unique index on the prefix; a patch of a row that is gone finds nothing to write.
StoreNode(a) ==
  LET n == op[a].node
      refused == \/ \E m \in Stored \ {n} : nodes[m] = op[a].name
                 \/ op[a].kind = "patch" /\ n \notin Stored
  IN /\ op[a].at = "write" /\ op[a].kind \in {"create", "patch"}
     /\ IF refused
        THEN Finish(a, Idle)
        ELSE /\ nodes' = [nodes EXCEPT ![n] = op[a].name]
             /\ version' = version + 1
             /\ padded' = IF op[a].pad THEN padded \union {n} ELSE padded
             /\ Lands(a, [op[a] EXCEPT !.at = "written", !.owed = version + 1,
                                         !.node = None, !.name = None, !.pad = FALSE])
             /\ UNCHANGED <<combos, aliases, cached, builder, answered, faults, sound>>

-----------------------------------------------------------------------------
(* What names a node or a combo.                                           *)

StoreReference(a) ==
  /\ op[a].at = "write" /\ op[a].kind \in {"combo", "alias"}
  /\ IF op[a].kind = "combo"
     THEN combos' = [combos EXCEPT ![op[a].node] = op[a].name] /\ UNCHANGED aliases
     ELSE aliases' = [aliases EXCEPT ![op[a].node] = op[a].name] /\ UNCHANGED combos
  /\ Lands(a, Idle)
  /\ UNCHANGED <<nodes, cached, builder, version, answered, padded, faults, sound>>

References == {combos[c] : c \in Combos} \union {aliases[x] : x \in Aliases}
\* A node may be named by its id and by its prefix.
Spelled(node, prefix) == {node, prefix}
Erase(a, r) ==
  /\ op[a].at = "idle" /\ writes < MaxWrites
  /\ \/ \E n \in Stored :
          /\ Spelled(n, nodes[n]) \intersect References = {}
          /\ Finish(a, [Request("delete", r, n, None) EXCEPT !.at = "erase"])
     \/ \E c \in Combos :
          /\ combos[c] # None /\ \A x \in Aliases : aliases[x] # c
          /\ Finish(a, [Request("uncombo", r, c, None) EXCEPT !.at = "erase"])
\* The node, its endpoints and its model rows go in one transaction.
DeleteCascade(a) ==
  LET n == op[a].node IN
  /\ op[a].at = "erase" /\ op[a].kind = "delete"
  /\ IF n \notin Stored THEN Finish(a, Idle)
     ELSE /\ nodes' = [nodes EXCEPT ![n] = None]
          /\ version' = version + 1
          /\ sound' = (sound /\ (op[a].alone => {n, nodes[n]} \intersect References = {}))
          /\ Lands(a, [op[a] EXCEPT !.at = "written", !.owed = version + 1,
                                         !.node = None, !.name = None, !.pad = FALSE])
          /\ UNCHANGED <<combos, aliases, cached, builder, answered, padded, faults>>
DeleteCombo(a) ==
  LET c == op[a].node IN
  /\ op[a].at = "erase" /\ op[a].kind = "uncombo"
  /\ combos' = [combos EXCEPT ![c] = None]
  /\ sound' = (sound /\ (op[a].alone => \A x \in Aliases : aliases[x] # c))
  /\ Lands(a, Idle)
  /\ UNCHANGED <<nodes, aliases, cached, builder, version, answered, padded, faults>>

\* The panel of another replica writes a node: this one is not told.
WrittenElsewhere ==
  /\ writes < MaxWrites /\ writes' = writes + 1
  /\ \E n \in Nodes, p \in (Prefixes \ BuiltIn) \union {None} :
       /\ nodes[n] # p /\ \A m \in Stored : nodes[m] # p
       /\ p = None => Spelled(n, nodes[n]) \intersect References = {}
       /\ nodes' = [nodes EXCEPT ![n] = p]
  /\ version' = version + 1
  /\ op' = [a \in Actors |-> Disturbed(op[a])]
  /\ UNCHANGED <<combos, aliases, cached, builder, answered, padded, faults, sound>>

-----------------------------------------------------------------------------
\* An overlay that is over is only what a failed rebuild falls back to.
Older(view) ==
  IF ~view.built THEN view
  ELSE IF view.age + 1 < OverlayTTL THEN [view EXCEPT !.age = @ + 1, !.old = @ + 1]
  ELSE [view EXCEPT !.age = OverlayTTL, !.old = 0, !.version = 0]
\* One read of the nodes and the rebuild are bounded together; what waits for the lock
\* or for the database is not.
Tick ==
  /\ \A a \in Actors : op[a].at = "build" => op[a].view.old < RebuildMax
  /\ cached' = [r \in Replicas |-> Older(cached[r])]
  /\ op' = [a \in Actors |-> IF op[a].at = "build" THEN [op[a] EXCEPT !.view.old = @ + 1] ELSE op[a]]
  /\ UNCHANGED <<nodes, combos, aliases, builder, version, answered, padded, faults, writes, sound>>

Step(a) ==
  \/ LoadNodes(a) \/ Build(a) \/ InvalidateNodeOverlay(a)
  \/ StoreNode(a) \/ StoreReference(a)
  \/ DeleteCascade(a) \/ DeleteCombo(a)
Next ==
  \/ \E a \in Actors : Step(a) \/ (\E r \in Replicas : Ask(a, r) \/ Rename(a, r) \/ Erase(a, r))
  \/ WrittenElsewhere \/ Tick
Spec == Init /\ [][Next]_catalogVars

-----------------------------------------------------------------------------
\* Only a row a patch stored with blanks around its prefix fails the index.
RowsBuild == \A n \in Nodes : nodes[n] \in BuiltIn => n \in padded
\* A replica falls back only where a read failed, or such a patch was stored.
FallbackEarned == \A r \in Replicas : cached[r].fallback => faults > 0 \/ padded # {}
\* A lookup serves what this replica's own panel wrote before it began, and what another
\* wrote within the overlay's life and one rebuild, unless the last rebuild failed, and it
\* failed for one of the two reasons above; an erasure with no write between its search for
\* references and its delete leaves no name behind (ErasedUnnamed below has the others).
CatalogSound == sound /\ RowsBuild /\ FallbackEarned

\* What the source says of every row and of every erasure, and the code does not keep:
\* "a prefix that shadows an id or an alias is a CONFLICT rather than a row the loader later
\* trips over" (service/provider_node.go), which a patch with blanks around the prefix does;
AllRowsBuild == Builds(nodes)
\* and "A combo naming the node or an alias targeting its models is refused by name, before
\* anything is erased", which one stored between the search and the delete is not.
ErasedUnnamed ==
  \A n \in Nodes : nodes[n] # None /\ nodes'[n] = None =>
     Spelled(n, nodes[n]) \intersect References = {}

\* The strengthening of the proof.
Names == Nodes \union Prefixes \union Combos \union {None}
Overlay == [built : BOOLEAN, nodes : [Nodes -> Names], age : Nat, old : Nat, version : Nat,
            fallback : BOOLEAN]
Rows == Nodes \union Combos \union Aliases \union {None}
Looking == {"route", "create", "patch", "combo", "alias"}
Operation ==
  [kind : Looking \union {"idle", "delete", "uncombo"}, replica : Replicas \union {None},
   at : {"idle", "read", "build", "write", "written", "erase"},
   node : Rows, name : Names, pad : BOOLEAN,
   view : Overlay, owed : Nat, alone : BOOLEAN]
TypeOK ==
  /\ nodes \in [Nodes -> Names] /\ combos \in [Combos -> Names] /\ aliases \in [Aliases -> Names]
  /\ cached \in [Replicas -> Overlay] /\ answered \in [Replicas -> Nat]
  /\ version \in Nat /\ faults \in Nat /\ padded \subseteq Rows /\ sound \in BOOLEAN
  /\ builder \in [Replicas -> Actors \union {NoActor}]
  /\ op \in [Actors -> Operation]

\* Whoever rebuilds holds the lock, so nothing is answered on that replica meanwhile: what its
\* lookup is owed is what was answered, and what it read came after.
Rebuilds(a, r) ==
  /\ r.at \in {"read", "build"} =>
       r.kind \in Looking /\ builder[r.replica] = a /\ r.owed = answered[r.replica]
  /\ r.at = "build" =>
       /\ r.view.version >= r.owed /\ r.view.old <= RebuildMax /\ ~r.view.fallback
       /\ \A n \in Nodes : r.view.nodes[n] \in BuiltIn => n \in padded
\* What is about to be stored was looked up, or is as it was sent; what is about to be erased
\* is still named by nothing, while nobody else wrote.
Decides(r) ==
  /\ r.at = "write" /\ r.kind \in {"create", "patch"} =>
       r.pad \/ r.node \in padded \/ r.name \notin BuiltIn
  /\ r.at = "erase" /\ r.alone =>
       /\ r.kind = "delete" => Spelled(r.node, nodes[r.node]) \intersect References = {}
       /\ r.kind = "uncombo" => \A x \in Aliases : aliases[x] # r.node
\* No write is ahead of the count of writes.
Counts(r) ==
  /\ r.at = "written" => r.owed <= version
  /\ r.at # "idle" => r.replica \in Replicas
\* A stored overlay shows what was answered, and was read no earlier than it is old.
OverlaysShow ==
  \A r \in Replicas : Fresh(r) =>
    \/ cached[r].fallback
    \/ cached[r].version >= answered[r] /\ cached[r].old <= cached[r].age + RebuildMax
CatalogInv ==
  /\ TypeOK /\ CatalogSound /\ OverlaysShow
  /\ \A r \in Replicas : answered[r] <= version
  /\ \A a \in Actors : Rebuilds(a, op[a]) /\ Decides(op[a]) /\ Counts(op[a])
=============================================================================
