------------------------------- MODULE ProxyRoute -------------------------------
(***************************************************************************)
(* How an outbound request leaves through the proxy pool: the plan over a  *)
(* pool read that is cached for five seconds (service/proxy_route.go,      *)
(* proxy_route_order.go), the walk over its candidates                     *)
(* (dataplane/proxy_route.go, proxy_route_walk.go) and the bounded cache   *)
(* of one HTTP client per candidate that concurrent walks share.           *)
(***************************************************************************)
EXTENDS Integers, Sequences, FiniteSets, Functions

CONSTANTS
  Pool,           \* the proxies, in the order they were created
  Requests,       \* walks that run together
  CacheTicks,     \* proxyListCacheTTL
  ReadTicks,      \* how long a read of the pool may take
  MaxClients,     \* maxProxyTransports
  MaxAttempts,    \* MaxProxyRouteAttempts
  MaxChanges,     \* bound: panel edits and probe verdicts
  MaxPlans        \* bound: plans made

ProxyRouteAssumption ==
  /\ Pool \in Seq(Range(Pool)) /\ Pool # <<>>
  /\ {CacheTicks, MaxClients, MaxAttempts} \subseteq Nat \ {0}
  /\ {ReadTicks, MaxChanges, MaxPlans} \subseteq Nat

Proxies == Range(Pool)
Static == "static"       \* the tail of a plan: the global proxy URL
Candidates == Proxies \union {Static}
NoPin == "no pin"
StaleTicks == CacheTicks + ReadTicks

VARIABLES
  usable,    \* proxies that are enabled and not failed
  idle,      \* history: per proxy, ticks since it was usable, as far as it matters
  binding,   \* the provider's pin, its strategy, and the global switch
  cached,    \* the pool read in memory
  turn,      \* pannelai:proxy:rotation: the counter, as far as a pool of three reads it
  clients,   \* transports: the candidates with a client
  order,     \* transportOrder: the same, oldest first
  walk,      \* per request
  plans, changes

routeVars == <<usable, idle, binding, cached, turn, clients, order, walk, plans, changes>>

NoWalk == [at |-> "idle", rows |-> {}, lag |-> 0, left |-> <<>>, sent |-> 0]

Init ==
  /\ usable = Proxies
  /\ idle = [p \in Proxies |-> 0]
  \* With the switch off and no pin, or a pin of __none__, there is no plan at all.
  /\ binding \in [pin : {NoPin, Head(Pool)}, rotates : BOOLEAN, on : {TRUE}]
       \union [pin : {Pool[Len(Pool)]}, rotates : BOOLEAN, on : {FALSE}]
  /\ cached = [rows |-> {}, age |-> CacheTicks]
  /\ turn = 0
  /\ clients = {}
  /\ order = <<>>
  /\ walk = [r \in Requests |-> NoWalk]
  /\ plans = 0 /\ changes = 0

Become(r, w) == walk' = [walk EXCEPT ![r] = w]
Pooled == <<usable, idle, binding, changes>>
Cache == <<clients, order>>

-----------------------------------------------------------------------------
(* Plan. *)

\* mutant: a hit keeps the read fresh for another five seconds
TouchedOnHit(c) == [c EXCEPT !.age = 0]
Touched(c) == c

\* listProxies: one read for CacheTicks; two that miss together both read.
ReadCached(r) ==
  /\ walk[r].at = "idle" /\ plans < MaxPlans /\ plans' = plans + 1
  /\ cached.age < CacheTicks
  /\ cached' = Touched(cached)
  /\ Become(r, [NoWalk EXCEPT !.at = "order", !.rows = cached.rows])
  /\ UNCHANGED <<Pooled, turn, Cache>>

ReadPool(r) ==
  /\ walk[r].at = "idle" /\ plans < MaxPlans /\ plans' = plans + 1
  /\ cached.age >= CacheTicks
  /\ Become(r, [NoWalk EXCEPT !.at = "store", !.rows = usable])
  /\ UNCHANGED <<Pooled, cached, turn, Cache>>

StorePool(r) ==
  /\ walk[r].at = "store"
  /\ cached' = [rows |-> walk[r].rows, age |-> 0]
  /\ Become(r, [walk[r] EXCEPT !.at = "order", !.lag = 0])
  /\ UNCHANGED <<Pooled, turn, Cache, plans>>

\* A read that fails is not cached: the plan is none, or the request fails on its pin.
PoolUnread(r) ==
  /\ walk[r].at = "store"
  /\ Become(r, NoWalk)
  /\ UNCHANGED <<Pooled, cached, turn, Cache, plans>>

RotateRefs(s, n) == [i \in 1..Len(s) |-> s[((n + i - 1) % Len(s)) + 1]]
ToFront(s, p) ==
  LET at == CHOOSE i \in DOMAIN s : s[i] = p IN
  IF p \notin Range(s) THEN s
  ELSE [i \in 1..Len(s) |-> IF i = 1 THEN p ELSE IF i <= at THEN s[i - 1] ELSE s[i]]

\* The rows that were read, in the order the pool is kept in.
Before(p, q) == \E i, j \in DOMAIN Pool : i < j /\ Pool[i] = p /\ Pool[j] = q
Listed(rows) ==
  {s \in UNION {[1..n -> rows] : n \in 0..Len(Pool)} :
     Range(s) = rows /\ \A i, j \in DOMAIN s : i < j => Before(s[i], s[j])}
AtMost(s, n) == SubSeq(s, 1, IF Len(s) < n THEN Len(s) ELSE n)

\* candidateOrder. The cooldowns are read through a pipeline that is never executed, so
\* the read always fails and no parked candidate sits out; a counter Redis does not
\* answer leaves the stored order. The walk takes the first MaxAttempts.
Order(r) ==
  \E stored \in Listed(walk[r].rows) :
    LET rotates == binding.rotates /\ Len(stored) > 1 IN
    \E ids \in {stored} \union IF rotates THEN {RotateRefs(stored, turn)} ELSE {} :
      LET plan == ToFront(ids, binding.pin) \o IF binding.on THEN <<Static>> ELSE <<>> IN
      /\ walk[r].at = "order"
      /\ turn' = IF rotates THEN (turn + 1) % 6 ELSE turn
      /\ Become(r, IF stored = <<>> THEN NoWalk
                   ELSE [walk[r] EXCEPT !.at = "client", !.rows = {}, !.left = AtMost(plan, MaxAttempts)])
      /\ UNCHANGED <<Pooled, cached, Cache, plans>>

-----------------------------------------------------------------------------
(* The walk. *)

\* clientFor looks under the lock, builds outside it, and looks again.
ClientFound(r) ==
  /\ walk[r].at = "client" /\ Head(walk[r].left) \in clients
  /\ Become(r, [walk[r] EXCEPT !.at = "call"])
  /\ UNCHANGED <<Pooled, cached, turn, Cache, plans>>

ClientBuilt(r) ==
  /\ walk[r].at = "client" /\ Head(walk[r].left) \notin clients
  /\ Become(r, [walk[r] EXCEPT !.at = "keep"])
  /\ UNCHANGED <<Pooled, cached, turn, Cache, plans>>

Keeps(c) == c \notin clients

\* The oldest client goes when the cache is over its size.
ClientKept(r) ==
  LET c == Head(walk[r].left)
      grown == IF Keeps(c) THEN Append(order, c) ELSE order
      over == Len(grown) > MaxClients IN
  /\ walk[r].at = "keep"
  /\ order' = IF over THEN Tail(grown) ELSE grown
  /\ clients' = (clients \union {c}) \ IF over THEN {Head(grown)} ELSE {}
  /\ Become(r, [walk[r] EXCEPT !.at = "call"])
  /\ UNCHANGED <<Pooled, cached, turn, plans>>

GoOn(r, sent) ==
  Become(r, IF Len(walk[r].left) = 1 THEN NoWalk
            ELSE [walk[r] EXCEPT !.at = "client", !.left = Tail(@), !.sent = sent])
Calling(r) == walk[r].at = "call" /\ UNCHANGED <<Pooled, cached, turn, Cache, plans>>

\* An answer that is no refusal of this address, or an error that is neither a network
\* operation's nor a timeout, ends the walk.
Served(r) == Calling(r) /\ Become(r, NoWalk)

\* 429: the address is parked and the next one asked, unless the body cannot be sent again.
AddressRefused(r) == Calling(r) /\ (GoOn(r, walk[r].sent) \/ Become(r, NoWalk))

\* The CONNECT was refused, or the dial failed: nothing was sent.
ConnectFailed(r) == Calling(r) /\ GoOn(r, walk[r].sent)

\* A reset or a timeout after the request was sent is a net.OpError or a net.Error too.
BrokenAfterSend(r) == Calling(r) /\ GoOn(r, walk[r].sent + 1)

-----------------------------------------------------------------------------
Change ==
  /\ changes < MaxChanges /\ changes' = changes + 1
  /\ \E p \in Proxies : usable' = (usable \ {p}) \union ({p} \ usable)
  /\ idle' = [p \in Proxies |-> IF p \in usable' THEN 0 ELSE idle[p]]
  /\ UNCHANGED <<binding, cached, turn, Cache, walk, plans>>

Capped(n) == IF n > StaleTicks THEN n ELSE n + 1
Tick ==
  /\ \A r \in Requests : walk[r].at = "store" => walk[r].lag < ReadTicks
  /\ cached' = [cached EXCEPT !.age = IF @ < CacheTicks THEN @ + 1 ELSE @]
  /\ idle' = [p \in Proxies |-> IF p \in usable THEN 0 ELSE Capped(idle[p])]
  /\ walk' = [r \in Requests |->
       IF walk[r].at = "store" THEN [walk[r] EXCEPT !.lag = @ + 1] ELSE walk[r]]
  /\ UNCHANGED <<usable, binding, turn, Cache, plans, changes>>

Next ==
  \/ \E r \in Requests :
       \/ ReadCached(r) \/ ReadPool(r) \/ StorePool(r) \/ PoolUnread(r) \/ Order(r)
       \/ ClientFound(r) \/ ClientBuilt(r) \/ ClientKept(r)
       \/ Served(r) \/ AddressRefused(r) \/ ConnectFailed(r) \/ BrokenAfterSend(r)
  \/ Change \/ Tick

Spec == Init /\ [][Next]_routeVars
-----------------------------------------------------------------------------
Walk == [at : {"idle", "store", "order", "client", "keep", "call"}, rows : SUBSET Proxies,
         lag : 0..ReadTicks, left : Seq(Candidates), sent : Nat]

TypeOK ==
  /\ usable \subseteq Proxies
  /\ idle \in [Proxies -> 0..StaleTicks + 1]
  /\ cached \in [rows : SUBSET Proxies, age : 0..CacheTicks]
  /\ turn \in Nat
  /\ clients \subseteq Candidates
  /\ order \in Seq(Candidates)
  /\ walk \in [Requests -> Walk]

\* While the cached pool may be handed out, a proxy in it was usable no longer ago than
\* the copy's age and one read: whatever an operator takes out stops being planned that
\* soon, however reads overtake edits and each other.
PoolFresh ==
  cached.age < CacheTicks => \A p \in cached.rows : idle[p] <= cached.age + ReadTicks

\* The client cache and its age list name the same candidates, once each, within the
\* size, whoever builds a client for the same candidate at once.
ClientsListed ==
  /\ Range(order) = clients
  /\ Len(order) = Cardinality(clients)
  /\ Len(order) <= MaxClients

RouteSound == PoolFresh /\ ClientsListed

\* The strengthening of the proof: a proxy that can be used counts as used now; a read that
\* is under way is no older than its lag; a walk that wants a client has a candidate; and no
\* candidate stands twice in the age list, so that the oldest leaves both.
UsableNow == \A p \in usable : idle[p] = 0
ReadsFresh == \A r \in Requests : walk[r].at = "store" => \A p \in walk[r].rows : idle[p] <= walk[r].lag
WalksAhead == \A r \in Requests : walk[r].at \in {"client", "keep", "call"} => walk[r].left # <<>>
ListedOnce == IsFiniteSet(clients) /\ \A i, j \in DOMAIN order : order[i] = order[j] => i = j
RouteInv == TypeOK /\ RouteSound /\ UsableNow /\ ReadsFresh /\ WalksAhead /\ ListedOnce

\* What proxy_route.go says of an error after the connect stage and the walk does not
\* do: a request the wire may have delivered is not sent again.
SentOnce == \A r \in Requests : walk[r].sent = 0
=============================================================================
