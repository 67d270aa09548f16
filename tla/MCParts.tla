------------------------------ MODULE MCParts ------------------------------
(***************************************************************************)
(* The components that meet no other one in a protocol, each with the      *)
(* instance TLC checks it on, side by side in one state space: Init picks  *)
(* one part, its component moves and the variables of the others stay      *)
(* Idle.  A property of a part is the component's own; it speaks of the    *)
(* states in which that part was picked.                                   *)
(***************************************************************************)
EXTENDS Integers, Sequences, FiniteSets, TLC

CONSTANTS
  Clients, Passwords, First, Boots, MaxFails, LockTicks, SessionTicks, MaxChanges, MaxFaults,
  IssuedKeys, Panels, Callers, Limit, WindowTicks, MaxEdits, MaxCalls, MaxUses,
  Editors, Patches, MaxPatches, MaxDbFaults,
  Requests, RelayLegs, DrawTicks, LandTicks, Longest, DrawLimit, MaxTimeouts,
  Calls, QueueDepth, MaxOutages,
  Rounds, People, Tabs, MaxSignCalls, MaxTouches, MaxSignFaults,
  Accounts, HeldKeys, Walkers, Sticky, MaxLegs, MaxFlips,
  Pool, CacheTicks, ReadTicks, MaxClients, MaxAttempts, MaxPoolChanges, MaxPlans,
  Size, FanLimit

VARIABLES
  part,
  budget, cfg, rest, class, run,                                       \* ladder
  row, epoch, session, fails, lock, op, boot, broken, faults,          \* session
  key, edit, required, window, call, let, revoked, edits,              \* door
  listed, health, spentUp, rotates, cursor, counter, leg, turns, begun, flips,   \* walk
  graph, asked, stack, answer, memo, expanded, stopped, unread,        \* names
  usable, idle, binding, cached, turn, clients, order, walk, plans, changes,     \* route
  answers, wants, judges, stage, members, seat, held, results, gone, read, served,  \* fusion
  recorded, told, queue, sending, dropped, failed, taken, went, publisher,
  late, listens, wire, console, process, outages,                      \* feed
  attempt, started, marked, stray, missed, drawn, shown, timeouts,     \* markers
  rows, pool, editor, owed, patches, dbFaults,                         \* settings
  flow, state, grant, tab, accounts, landed, torn, calls, touches, signFaults    \* sign-in

-----------------------------------------------------------------------------
(* The ladders at their real lengths, in seconds.                          *)

Unset == [auth |-> 0, rate |-> 0, transient |-> 0, bill |-> 0, quota |-> 0]
StoredWindows ==
  {Unset,
   [auth |-> 1, rate |-> 300, transient |-> 5, bill |-> 1, quota |-> 18000],
   [auth |-> 900, rate |-> 7, transient |-> 300, bill |-> 3600, quota |-> 86400],
   \* a document that predates the bounds
   [auth |-> 5000, rate |-> 5000, transient |-> 5000, bill |-> 5000, quota |-> 999999]}

PolicyOf(action, ceiling, cooldown) == [action |-> action, ceiling |-> ceiling, cooldown |-> cooldown]
StoredPolicies ==
  {PolicyOf("", 0, 0), PolicyOf("rotate", 0, 0), PolicyOf("", 60, 0), PolicyOf("", 0, 45),
   PolicyOf("park", 100000000, 7200)}

Ladders == INSTANCE ParkLadder WITH
  AuthBase <- 120, AuthMax <- 3600, RateBase <- 2, RateMax <- 300,
  BillBase <- 900, BillMax <- 21600, TransientFlat <- 30, QuotaRest <- 2592000,
  MaxAuthCfg <- 900, MaxRateCfg <- 300, MaxTransientCfg <- 300, MaxBillCfg <- 3600,
  QuotaLadder <- <<900, 3600, 21600, 86400>>,
  WindowCfgs <- StoredWindows, PolicyCfgs <- StoredPolicies,
  Retries <- {0, 1, 120, 100000}, Resets <- {-1, 1, 7200, 100000000},
  MaxStrikes <- 17

-----------------------------------------------------------------------------
(* The panel's own sessions, and its gateway keys.                         *)

Sessions == INSTANCE PanelSession
Door == INSTANCE GatewayKeys WITH Keys <- IssuedKeys

-----------------------------------------------------------------------------
(* From a name to an upstream: selection, combos, proxies, fusion.         *)

\* An account with two keys beside one that is its own credential.
Ranking == <<"a", "b">>
StoredKeys == [x \in {"a", "b"} |-> IF x = "a" THEN <<"k1", "k2">> ELSE <<>>]
Walk == INSTANCE SelectionWalk WITH Legs <- Walkers, KeysOf <- HeldKeys

\* Combos that nest, fall back, meet again and loop through each other and through aliases;
\* limits low enough for a chain, a fan of combos and two aliases without a loop to meet them.
Lists == {<<>>, <<"x">>, <<"g">>, <<"a", "n">>, <<"c">>, <<"x", "m">>, <<"g", "c">>}
StoredGraphs ==
  {[members |-> "a" :> first @@ "b" :> second @@ "c" :> third, target |-> "x" :> x @@ "y" :> y] :
     first \in {<<"b">>, <<"b", "c">>, <<"x", "b">>, <<"g", "x">>}, second \in Lists,
     third \in {<<"n">>, <<"a", "m">>, <<"y">>}, x \in {"b", "y", "g"}, y \in {"c", "x"}}
Names == INSTANCE ComboResolve WITH
  Combos <- {"a", "b", "c"}, AliasNames <- {"x", "y"}, Served <- {"m", "n"}, Gone <- {"g"},
  ComboDepthLimit <- 2, ComboExpansionLimit <- 2, AliasHopLimit <- 2, Graphs <- StoredGraphs

PoolOrder == <<"p1", "p2">>
Route == INSTANCE ProxyRoute WITH MaxChanges <- MaxPoolChanges

Panel == INSTANCE Fusion WITH Limit <- FanLimit

-----------------------------------------------------------------------------
(* What is told about calls: the event feed and the live markers.          *)

Feed == INSTANCE UsageFeed WITH Depth <- QueueDepth, MaxFaults <- MaxOutages, faults <- outages
Markers == INSTANCE LiveMarkers WITH
  Legs <- RelayLegs, StaleTicks <- DrawTicks, Limit <- DrawLimit

-----------------------------------------------------------------------------
(* The settings document, and signing in to a vendor.                      *)

Saver(k) == <<"saver", k>>
Network(k) == <<"network", k>>
LogDays == <<"logging", "days">>
Masked == 9
SentPatches ==
  {Saver("on") :> 1 @@ Saver("url") :> 1, Saver("url") :> 0, Saver("on") :> 1,
   Saver("on") :> 0 @@ LogDays :> 1, LogDays :> 0,
   Network("password") :> Masked @@ Network("binding") :> 1, Network("password") :> 1,
   Network("password") :> Masked @@ Saver("url") :> 1}
Documents == INSTANCE PanelSettings

\* People are model values: their names also serve as labels, beside "Account N".
SignIns == INSTANCE OAuthSignIn WITH MaxCalls <- MaxSignCalls

ASSUME PartsAssumption ==
  /\ Sessions!PanelSessionAssumption /\ Door!GatewayKeysAssumption
  /\ Walk!SelectionWalkAssumption /\ Names!ComboResolveAssumption
  /\ Route!ProxyRouteAssumption /\ Panel!FusionAssumption
  /\ Feed!UsageFeedAssumption /\ Markers!LiveMarkersAssumption
  /\ Documents!PanelSettingsAssumption /\ SignIns!OAuthSignInAssumption

-----------------------------------------------------------------------------
(* A part that was not picked holds nothing.                               *)

Off == "off"
LaddersOff ==
  /\ budget = Off /\ cfg = Off /\ rest = Off /\ class = Off /\ run = Off
SessionsOff ==
  /\ row = Off /\ epoch = Off /\ session = Off /\ fails = Off /\ lock = Off /\ op = Off
  /\ boot = Off /\ broken = Off /\ faults = Off
DoorOff ==
  /\ key = Off /\ edit = Off /\ required = Off /\ window = Off /\ call = Off /\ let = Off
  /\ revoked = Off /\ edits = Off
WalkOff ==
  /\ listed = Off /\ health = Off /\ spentUp = Off /\ rotates = Off /\ cursor = Off
  /\ counter = Off /\ leg = Off /\ turns = Off /\ begun = Off /\ flips = Off
NamesOff ==
  /\ graph = Off /\ asked = Off /\ stack = Off /\ answer = Off /\ memo = Off
  /\ expanded = Off /\ stopped = Off /\ unread = Off
RouteOff ==
  /\ usable = Off /\ idle = Off /\ binding = Off /\ cached = Off /\ turn = Off
  /\ clients = Off /\ order = Off /\ walk = Off /\ plans = Off /\ changes = Off
PanelOff ==
  /\ answers = Off /\ wants = Off /\ judges = Off /\ stage = Off /\ members = Off
  /\ seat = Off /\ held = Off /\ results = Off /\ gone = Off /\ read = Off /\ served = Off
FeedOff ==
  /\ recorded = Off /\ told = Off /\ queue = Off /\ sending = Off /\ dropped = Off
  /\ failed = Off /\ taken = Off /\ went = Off /\ publisher = Off /\ late = Off
  /\ listens = Off /\ wire = Off /\ console = Off /\ process = Off /\ outages = Off
MarkersOff ==
  /\ attempt = Off /\ started = Off /\ marked = Off /\ stray = Off /\ missed = Off
  /\ drawn = Off /\ shown = Off /\ timeouts = Off
DocumentsOff ==
  /\ rows = Off /\ pool = Off /\ editor = Off /\ owed = Off /\ patches = Off
  /\ dbFaults = Off
SignInsOff ==
  /\ flow = Off /\ state = Off /\ grant = Off /\ tab = Off /\ accounts = Off /\ landed = Off /\ torn = Off
  /\ calls = Off /\ touches = Off /\ signFaults = Off

OthersOff(p) ==
  /\ IF p = "ladder" THEN TRUE ELSE LaddersOff
  /\ IF p = "session" THEN TRUE ELSE SessionsOff
  /\ IF p = "door" THEN TRUE ELSE DoorOff
  /\ IF p = "walk" THEN TRUE ELSE WalkOff
  /\ IF p = "names" THEN TRUE ELSE NamesOff
  /\ IF p = "route" THEN TRUE ELSE RouteOff
  /\ IF p = "fusion" THEN TRUE ELSE PanelOff
  /\ IF p = "feed" THEN TRUE ELSE FeedOff
  /\ IF p = "markers" THEN TRUE ELSE MarkersOff
  /\ IF p = "settings" THEN TRUE ELSE DocumentsOff
  /\ IF p = "signin" THEN TRUE ELSE SignInsOff

Init ==
  \/ part = "ladder" /\ Ladders!Init /\ OthersOff("ladder")
  \/ part = "session" /\ Sessions!Init /\ OthersOff("session")
  \/ part = "door" /\ Door!Init /\ OthersOff("door")
  \/ part = "walk" /\ Walk!Init /\ OthersOff("walk")
  \/ part = "names" /\ Names!Init /\ OthersOff("names")
  \/ part = "route" /\ Route!Init /\ OthersOff("route")
  \/ part = "fusion" /\ Panel!Init /\ OthersOff("fusion")
  \/ part = "feed" /\ Feed!Init /\ OthersOff("feed")
  \/ part = "markers" /\ Markers!Init /\ OthersOff("markers")
  \/ part = "settings" /\ Documents!Init /\ OthersOff("settings")
  \/ part = "signin" /\ SignIns!Init /\ OthersOff("signin")

StillLadders == UNCHANGED <<budget, cfg, rest, class, run>>
StillSessions == UNCHANGED <<row, epoch, session, fails, lock, op, boot, broken, faults>>
StillDoor == UNCHANGED <<key, edit, required, window, call, let, revoked, edits>>
StillWalk == UNCHANGED <<listed, health, spentUp, rotates, cursor, counter, leg, turns,
  begun, flips>>
StillNames == UNCHANGED <<graph, asked, stack, answer, memo, expanded, stopped, unread>>
StillRoute == UNCHANGED <<usable, idle, binding, cached, turn, clients, order, walk,
  plans, changes>>
StillPanel == UNCHANGED <<answers, wants, judges, stage, members, seat, held, results,
  gone, read, served>>
StillFeed == UNCHANGED <<recorded, told, queue, sending, dropped, failed, taken, went,
  publisher, late, listens, wire, console, process, outages>>
StillMarkers == UNCHANGED <<attempt, started, marked, stray, missed, drawn, shown,
  timeouts>>
StillDocuments == UNCHANGED <<rows, pool, editor, owed, patches, dbFaults>>
StillSignIns == UNCHANGED <<flow, state, grant, tab, accounts, landed, torn, calls, touches,
  signFaults>>

OthersStill(p) ==
  /\ IF p = "ladder" THEN TRUE ELSE StillLadders
  /\ IF p = "session" THEN TRUE ELSE StillSessions
  /\ IF p = "door" THEN TRUE ELSE StillDoor
  /\ IF p = "walk" THEN TRUE ELSE StillWalk
  /\ IF p = "names" THEN TRUE ELSE StillNames
  /\ IF p = "route" THEN TRUE ELSE StillRoute
  /\ IF p = "fusion" THEN TRUE ELSE StillPanel
  /\ IF p = "feed" THEN TRUE ELSE StillFeed
  /\ IF p = "markers" THEN TRUE ELSE StillMarkers
  /\ IF p = "settings" THEN TRUE ELSE StillDocuments
  /\ IF p = "signin" THEN TRUE ELSE StillSignIns

Next ==
  \/ part = "ladder" /\ Ladders!Next /\ UNCHANGED part /\ OthersStill("ladder")
  \/ part = "session" /\ Sessions!Next /\ UNCHANGED part /\ OthersStill("session")
  \/ part = "door" /\ Door!Next /\ UNCHANGED part /\ OthersStill("door")
  \/ part = "walk" /\ Walk!Next /\ UNCHANGED part /\ OthersStill("walk")
  \/ part = "names" /\ Names!Next /\ UNCHANGED part /\ OthersStill("names")
  \/ part = "route" /\ Route!Next /\ UNCHANGED part /\ OthersStill("route")
  \/ part = "fusion" /\ Panel!Next /\ UNCHANGED part /\ OthersStill("fusion")
  \/ part = "feed" /\ Feed!Next /\ UNCHANGED part /\ OthersStill("feed")
  \/ part = "markers" /\ Markers!Next /\ UNCHANGED part /\ OthersStill("markers")
  \/ part = "settings" /\ Documents!Next /\ UNCHANGED part /\ OthersStill("settings")
  \/ part = "signin" /\ SignIns!Next /\ UNCHANGED part /\ OthersStill("signin")

partsVars == <<part,
  budget, cfg, rest, class, run, row, epoch, session, fails, lock, op, boot, broken, faults,
  key, edit, required, window, call, let, revoked, edits, listed, health, spentUp, rotates,
  cursor, counter, leg, turns, begun, flips, graph, asked, stack, answer, memo, expanded,
  stopped, unread,
  usable, idle, binding, cached, turn, clients, order, walk, plans, changes, answers, wants,
  judges, stage, members, seat, held, results, gone, read, served, recorded, told, queue,
  sending, dropped, failed, taken, went, publisher, late, listens, wire, console, process,
  outages, attempt, started, marked, stray, missed, drawn, shown, timeouts, rows, pool,
  editor, owed, patches, dbFaults, flow, state, grant, tab, accounts, landed, torn,
  calls, touches, signFaults>>
Spec == Init /\ [][Next]_partsVars

-----------------------------------------------------------------------------
\* ParkLadder: no rest outlasts the ceiling of its class, whatever was configured, stated or
\* laddered, a wait a vendor names never undercuts the first step of the ladder, and the
\* doubling ladders match their reference (domain/upstream_key_health.go, settings_routing_rest.go).
RestSound ==
  part = "ladder" => /\ Ladders!TypeOK /\ Ladders!RestHeldInCeiling /\ Ladders!RetryAfterKeepsFloor
                     /\ Ladders!BackoffMatchesReference

\* PanelSession: whoever is let in was verified against the password in force, unless a
\* stored change still owes its revocation (service/session.go, auth.go).
SessionsVerified == part = "session" => Sessions!TypeOK /\ Sessions!SessionsVerified

\* GatewayKeys: no call that came after a key's revocation is served on that key, and a
\* window lets in its limit (service/chat.go Authenticate, redis/limiter.go).
DoorSound == part = "door" => Door!TypeOK /\ Door!DoorSound

\* SelectionWalk: a leg gives up only when it has spent what its snapshot offered, and
\* accounts take turns though legs step one cursor (dataplane/selection_plan.go,
\* redis/endpoint_cursor.go).
WalkSound == part = "walk" => Walk!TypeOK /\ Walk!WalkSound

\* ComboResolve: the walk answers what the name means wherever no guard stopped it and no lookup
\* failed; the guards stop only a name that loops or reaches more combos or aliases than their
\* limits; and the walk ends within them (dataplane/resolve_combo.go, resolve_combo_member.go).
ResolvesMeaning == part = "names" => Names!ResolvesMeaning

\* ProxyRoute: a plan names no proxy taken out longer ago than the copy's age and a read,
\* and the client cache and its age list agree (service/proxy_route.go, dataplane/proxy_route.go).
RouteSound == part = "route" => Route!TypeOK /\ Route!RouteSound

\* Fusion: the semaphore's places are held by who is asking, and a panel asked at once gives
\* the client what asking in turn would have (dataplane/engine_fusion.go).
FusionSound == part = "fusion" => Panel!TypeOK /\ Panel!FusionSound

\* UsageFeed: the console shows stored calls, once and in order, and every event told is
\* published, queued or counted (service/usage_event_publish.go).  LiveMarkers: a frame draws
\* every call being routed that it can know of, and nothing that began before the window
\* (repository/redis/usage_active_store.go).
ViewSound ==
  /\ part = "feed" => Feed!TypeOK /\ Feed!FeedSound
  /\ part = "markers" => Markers!TypeOK /\ Markers!LiveSound

\* PanelSettings: what is stored validates, and what a panel was told is stored stays until
\* that key is changed (service/settings.go Update).
SettingsSound == part = "settings" => Documents!TypeOK /\ Documents!SettingsSound

\* OAuthSignIn: one sign-in connects at most once, a credential stays with the account of
\* the person it belongs to, and a sign-in that loaded a row never undoes a rotation that
\* came after (service/oauth_flow_connect.go, postgres/endpoint_oauth_batch.go).
SignInSound ==
  /\ [](part = "signin" => SignIns!TypeOK /\ SignIns!SignInSound)
  /\ [][part = "signin" => ~SignIns!RotationUndone]_accounts
=============================================================================
