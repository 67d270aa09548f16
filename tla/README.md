# A TLA+ model of the gateway

This directory is the verification project of the AI gateway in `src/app-serv` (Go).
The gateway accepts chat requests in four wire formats, chooses an upstream *provider*,
an *account* of it and one of the account's *credentials* (keys, or the account's own OAuth
token), relays the call, and decides from the answer what to try next and how long the
failing credential rests. Settings, accounts and keys are edited from a panel while requests
are in flight; Postgres holds the durable state, Redis the counters, cursors and leases;
several replicas of the process may run. Paths below are relative to
`src/app-serv/internal/` unless they start with `src/`.

Contents: [inventory](#1-inventory), [hard behaviours](#2-what-is-hard-here),
[modules](#3-the-modules), [runs](#4-the-runs), [bounds](#5-bounds),
[fairness](#6-fairness), [proofs](#7-what-is-proved), [disagreements](#8-where-the-code-and-its-words-disagree),
[not modelled](#9-what-is-not-modelled), [plan](#10-the-plan).

## 1. Inventory

Every component, its state, its operations, and what makes it correct. The list is kept
machine-readable in `PROJECT.json` ("components").

| component | state | operations | correct when |
|---|---|---|---|
| failure policy, park windows (`domain/failure_*.go`, `settings_routing_*.go`) | the stored settings documents | resolve a provider's budget; classify; `RestUntil` | a rest is never endless, a vendor's stated wait is honoured inside the ceiling, ladders never narrow |
| upstream key health (`domain/upstream_key*.go`, `repository/postgres/endpoint_key*.go`, `service/endpoint_key*.go`) | one row per key: status, strikes, class runs, `rate_limited_until`, `disabled_until` | record success / failure, probe, add, patch, replace, bulk disable / enable / tag / delete | concurrent strikes add up, only an answer shortens a park, a parked key comes back, an operator's switch holds, an account keeps one enabled key |
| account health (`domain/upstream_endpoint_*.go`, `repository/postgres/endpoint_parity.go`) | one row per account that is its own credential | the same, plus dead letter | the same |
| OAuth refresh (`service/oauth_refresh_*.go`, `oauth_flow_refresh*.go`, `domain/oauth_refresh.go`) | stored tokens, retry ladder; the worker's attempts, schedule and timer | sweep, attempt, back off, bury, revisit, forced refresh, new login | single-use tokens are never lost or overwritten by older ones, a due token is settled, burial takes five refusals |
| selection plan (`dataplane/selection*.go`, `redis/endpoint_cursor.go`) | one snapshot of the candidates and one instant per walk, cursors in Redis | begin, next, spend | no credential twice, none skipped, accounts take turns |
| relay walk (`dataplane/engine*.go`) | budget, member, credential, held answer, answer to the client | pick, call, classify, fail over, stream, commit | one answer per request, no second call after the first frame, budgets hold, a held answer is not lost |
| combos (`dataplane/resolve*.go`, `rotation.go`) | stored combos and aliases; depth, expansions, memo of one walk | expand, rotate | the name's meaning is found; loops end |
| fusion (`dataplane/engine_fusion.go`) | panel of concurrent calls, semaphore | fan out, collect, judge | the outcome does not depend on the order answers arrive in |
| transport (`dataplane/transport*.go`, `retry.go`) | sessions in use, queue, timers | acquire, queue, release, retry, time to first byte | sessions bounded, no waiter forgotten |
| translation (`dataplane/translate*.go`, `stream.go`, `stop_sequence.go`) | per-stream block state, held-back text | open, delta, close | each wire's protocol holds, nothing is lost, cut answers are seen |
| panel authentication (`domain/auth.go`, `session.go`, `service/auth.go`) | password row, epoch, failures, lock, sessions | bootstrap, sign in, check, change, sign out | nobody is let in on a password no longer in force |
| gateway keys, limiter (`service/gateway_key.go`, `redis/limiter.go`) | keys, windows | issue, edit, revoke, allow | a revoked key stays out, the limit holds |
| quota counters (`service/quota_flush*.go`, `redis/quota_counter.go`) | Redis increments, Postgres windows | count, drain, replace, settle | no increment lost or counted twice |
| published quota (`service/quota_published_*.go`) | vendor snapshots, cooldowns | poll, cache, cool down | stale data never parks |
| usage events, live view (`service/usage_*.go`, `redis/usage_*.go`) | rows, queue, channel, active set | record, publish, consume, mark, prune | no event without a row, none lost uncounted, no ghosts |
| retention, worker leases (`service/*_retention.go`, `redis/worker_lease.go`) | lease holder and expiry | acquire, release, delete | a stalled holder does no harm |
| egress proxies (`service/proxy_route*.go`, `dataplane/proxy_route*.go`) | cached pool, turn, client cache | plan, walk, build clients | the plan follows edits soon, the cache stays bounded |
| OAuth sign-in (`service/oauth_flow_*.go`) | staged state, vendor grant, accounts | start, callback, poll, connect | one use per state, credentials with their owner |
| settings (`service/settings.go`, `domain/settings_*.go`) | the stored groups | read over defaults, patch, validate | what is stored validates and stays stored |
| nodes, registry, catalog; media, embeddings, video; adapters; connectors; router, guard; UI | configuration and data | CRUD, shaping | no protocol between actors |

How they interact. A request loads accounts through the selection plan, the relay walk
calls a connector through the transport, and reports the outcome to the selector, which
writes key or account health. The probe, the panel and the refresh worker write the *same
rows* from snapshots of their own. The refresh worker and the other workers take a lease in
Redis. The settings decide the park budget of every one of these writes. There is no lock
across any load and the write that follows it: that is the subject of the first modules.
Behind an answer the quota counters, the usage row and its event follow, each in a store of its
own; in front of a request stand the gateway key, the limiter, the resolution of the name it asks
for and the egress route of every call.

## 2. What is hard here

* **Stale snapshots written back.** A call holds its copy of a key for as long as the
  upstream answers; a probe for up to fifteen seconds; a refresh for as long as the vendor.
  Each statement merges some columns inside the database and overwrites others.
* **Two statements for one row.** The health statement and the operator's statement cover
  different columns; what is in neither, or in both, is where the mistakes are.
* **Counters next to windows.** The strike is added by the database, the window it earns
  was computed on the snapshot.
* **Liveness without a sweeper.** Nothing clears an expired park: a read decides. A status
  without a window, or a list that filters before the read, is for ever.
* **Single-use tokens** spent by a worker, a forced refresh and a login at the same time.
* **Memory next to rows.** The worker's attempts and schedule live in the process, the dead
  letter in the row; successes and restarts touch one of the two.
* **Layers of defaults** for one duration, in an order only the code knows.
* **Two stores, no transaction.** Counters in Redis and rows in PostgreSQL, a password row and a
  session epoch, a usage row and its event: any step may be the last one, or land late.
* **Shared cursors and caches** read by concurrent requests whose snapshots differ.
* **Guards on one recursion** (depth, hops, expansions, memo) that must not change its result.
* **Timers that race answers**, and a slot that must come back on every way a call can end.
* **Streams cut anywhere**: four formats, three wires, fragments that split markers and calls.
* **Failover and commit.** A walk must stop at the first byte sent, never lose an answer it
  holds, and blame exactly the credential that failed.

`PROJECT.json` ("hazards") lists each at the line where it bites with the properties that
would catch it.

## 3. The modules

| module | models | extends |
|---|---|---|
| `ParkWindow` | the pure path from a stored settings document and a classified failure to the rest it earns | |
| `ParkLadder` | one run of failures under one document: `Init` chooses the document, the vendor's statement and the class, `Strike` is `RecordFailure`'s counter | `ParkWindow` |
| `KeyBreaker` | abstract: what the breaker of a credential promises (Strike, Release, Pass) | |
| `KeyHealth` | the rows of an account's keys and every actor that writes them | `ParkWindow`; instantiates `KeyBreaker` |
| `AccountHealth` | the row of an account that is its own credential | `ParkWindow`; instantiates `KeyBreaker` |
| `OAuthRefresh` | tokens, dead letter, refresh workers, forced refresh, login | |
| `OneAnswer` | abstract: what the gateway promises one client, whatever it tries behind the request | |
| `RelayWalk` | one request walked over its chain of members and their credentials | `ParkWindow`; instantiates `OneAnswer` |
| `QuotaLedger` | abstract: what the durable quota rows promise whoever reads them | |
| `QuotaFlush` | counters in Redis, the rows, leases and flush workers of several replicas | instantiates `QuotaLedger` |
| `UpstreamCall` | calls that share one session of an upstream, with every timer | |
| `StopGuard`, `AnswerWires` | pure: the stop-marker guard; the stream translators as transducers | `AnswerWires` extends `StopGuard` |
| `AnswerStream` | one streamed answer from an upstream to a client wire | `AnswerWires` |
| `RequestWires` | pure: how the turns of a request are rewritten between the chat, Anthropic, Responses and Gemini formats | |
| `RequestTurns` | one conversation, as each client writes it and each upstream reads it | `RequestWires` |
| `VendorMeters` | one account's quota at one of fifteen vendors: the surfaces asked, what they answer, the rows read from it | |
| `PublishedPoll` | the replicas of the poller of published quota, their lease, queue and stamps | |
| `ConnectorCaches` | what a connector keeps between calls: model lists, misses, tokens, configurations | |
| `NodeCatalog` | custom providers, combos and aliases, their edits, and the overlay names resolve against | |
| `MediaCalls` | one media call at a time from its account to its row; video jobs created, moving on and polled | |
| `PanelSession` | signing in to the panel over two stores | |
| `GatewayKeys` | gateway keys, the panel that edits them, the door and its limiter | |
| `SelectionWalk` | concurrent legs over their snapshots and two shared cursors | |
| `ComboResolve` | the guarded recursion from a name to a model | |
| `ProxyRoute` | the plan and walk over the proxy pool, the client cache | |
| `Fusion` | one fusion request: members in parallel, judge | |
| `UsageFeed` | row, event, queue, broker, console, through a shutdown | |
| `LiveMarkers` | the markers of calls being routed | |
| `PanelSettings` | concurrent patches of the settings groups | |
| `OAuthSignIn` | sign-in rounds, and the accounts they connect | |
| `KeyHealthProofs`, `AccountHealthProofs`, `OAuthRefreshProofs`, `RelayWalkProofs`, `QuotaFlushProofs`, `UpstreamCallProofs`, `PartsProofs`, `WiresProofs` | theorems | the module they are named for (`PartsProofs`: `MCParts`, `WiresProofs`: `MCWires`), `TLAPS` |
| `MCParts` | the components that meet no other one in a protocol, side by side | instantiates them |
| `MCWires` | what the gateway and the vendors say to each other, side by side: streams, requests, quota documents, the poller, connector caches, names, media calls | instantiates them |
| other `MC*` | values of the constants for TLC | the module they are named for |

**Time.** No model has an absolute clock. An instant is kept as *what is left*: `Null` (-1)
for SQL NULL or the zero `time.Time`, 0 for an instant that is not in the future, n for n
units ahead. `Tick` lets one unit pass everywhere, in stored rows and in held snapshots
alike, so that a snapshot taken earlier still names the same instants. A plan's own instant
(`SelectionPlan.now`) does not age: what it judged unavailable is in the plan's `closed`.

**KeyHealth.** `key[k]` is the row of `upstream_keys`: status, `consecutive_errors` (errs),
the three class runs, `rate_limited_until` (until), `disabled_until` (dis). `plan[a]` is the
snapshot actor `a` decides on. An action is one load, one decision, or one statement:

| code | action |
|---|---|
| `Selector.BeginPlan`, `SelectionPlan.Next` | `BeginPlan`, `PlanNext` |
| the upstream call, then `Selector.RecordSuccess` → `RecordKeyHealth` | `Answer`, `Serve` |
| `Selector.RecordFailure` → `UpstreamKey.RecordFailure` → `RecordKeyHealth`; `keepsWalking` | `Fail`, with `WalkOn` |
| target / gate failure of a key account; nothing recorded | `Rotate`; `Leave` |
| `EndpointService.Test`, `recordProbe` | `ProbeBegin`, `Answer`, `Serve`, `ProbeFail` |
| `AddKey`, `UpdateKey`, `RemoveKey`, `BulkKeyStatus`, `BulkKeyDelete`, `BulkKeyTags` | `AddKey`, `PatchFields/Value/Status`, `BulkDisable/Enable`, `Remove` |

The statements themselves are the operators `HealthWrite` (`endpoint_key_health.go`) and
`UpdateKeys` (`endpoint_keys.go`), so a column that is, or is not, in a `SET` clause is visible.

**AccountHealth** has the same shape for `upstream_endpoints`: `Outcome` is
`RecordUpstreamOutcome`, `UpdateEndpoint` the statement every other writer shares.

**OAuthRefresh.** A token set is a generation number; the vendor (external) accepts the ones
in `live`. `job[x].stage` is where an actor stands between two reads or writes:
chosen → refresh (grant out) → persist (tokens in hand) or bury → buried. The worker's memory
is `attempts`, `next`, `wake`. `failed` and `crossed` are history variables: the refusals since the account was
last settled (tokens stored, or itself buried), and the workers in the middle of a run when it was.

| code | action |
|---|---|
| a sweep: something due, nothing due or no lease, the accounts cannot be read | `Sweep`; `PassOver`; `Unlisted` |
| `GetByID` before the grant, and its error | `Load`; `Unread` |
| the grant: accepted, accepted and its answer lost, refused | `Granted`; `Unheard`; `Ungranted` |
| `refreshEndpoint` with tokens in hand: stored; the row changed; sealing, the statement or its context failed; committed and reported as failed | `Persist`; `Conflict`; `Dropped`; `Unconfirmed` |
| `sweepOne` and `retryDeadLettered` after an error | `GiveUp`, in every action above that ends in one |
| `MarkRefreshDeadLetter`: load, write, and either failing | `BuryLoad`; `BuryWrite`; `BuryFails` |

**RelayWalk.** `phase` is where the goroutine of the request stands: `member` at the top of `Relay`'s
loop, `leg` at the top of `relayOnce`'s, `call` inside `transport.Do`, `refusal` in it once the body of a refusal is
read (it may ask again after that), `answer` while the response is read, `done`. `closed` is what this leg may not pick (its plan's view plus `spent`), `failed` is
`memberErr`, `held` the member whose truncated answer is set aside, `pre`, `first`, `lastAt` are
`preCallErr`, `firstErr` and the member `lastErr` belongs to.

| code | action |
|---|---|
| top of the chain: the expired budget; a member that does not resolve or translate, or whose plan cannot be loaded; `BeginPlan`; the end of the chain | `OutOfTime`; `RefuseMember`; `BeginLeg`; `Conclude` |
| top of the credential loop: expired, no selection left, `spend` refused, the call | `LegOutOfTime`, `NothingLeft`, `WasteSelection`, `Ask` |
| `transport.Do` answers: the headers of a refusal; a classified refusal, no answer, the client's hang-up, a response | `Refused`; `Refuse`, `Unreachable`, `HangUp`, `Accept` |
| the first frame; the answer is complete; cut short and held; unreadable | `Frame`; `Serve`; `Hold`; `AnswerFails` |
| the clock, the client, rests that end | `Expire`, `Leave`, `Heal` |

What a failure means for a stored row is the subject of the other modules; here a credential is in
`parked` or not, by the same `RestUntil`.

**QuotaFlush.** `hot[m]` is the Redis hash of one meter, `row[m]` its PostgreSQL row, `billed[m]` the history of
what was counted. A cycle is `Begin` (lease) → `ReadPending` → `Write` (may fail, or land later from `late`) →
`Settle` per meter → `Release`; `Expire` frees a lease under a stalled cycle, `Shutdown`, `Crash` and `Boot` are the
process. A refinement `LedgerSpec` says what the rows promise.

**UpstreamCall.** `call[c].at` is the statement a call stands at, `gate` and `queue` the session lane, `left`, `wait`
and `cap` the clocks; `age` is history, the ticks the upstream was waited for, whatever for, up to `AgeCap`, which lies above every bound. A stream in
an envelope waits twice, in `peek` and in `first`, each time under the whole cap; a refusal is read in `failing`, which only the deadline of a body client ends. **AnswerStream** keeps the translator's state with the frames it wrote, and `told`, what the
upstream said, folded without the translators. **ComboResolve** keeps the call stack of the recursion as a sequence,
so every return, early or not, is a step.

**RequestTurns.** `talk` is a conversation as a list of turns (prompt, user, assistant with its reasoning, texts, images
and calls, and the results that follow them); `AsChat`, `AsMessages` and `AsResponses` are how each client writes it, the
operators of `RequestWires` what the translators make of that, one by one in the order `translateUpstreamBody` calls them,
and `Read` what an upstream finds in the body it is sent. Ids and names are sequences of letters, because the code clamps,
numbers and sanitizes them.

**VendorMeters.** `account` is what the vendor counts, `asked` the surfaces a fetcher of `service/quotafetch` has asked so far with the
status of each; `*Wants` is which surface a family asks next after what it heard, `*Body` the document the vendor states (its own shape:
shares, counts used, counts left, amounts), `*Rows` the rows the code reads from it. `Says` states the same account without shapes.

**PublishedPoll.** `Begin` is the head of a cycle (lease, seed page, queue), `Rearm` and `Ask` the loop of `pollAll`, `Answer` is `pollOne` with
every way its writes can fail, `End`, `Stop` and an expiring lease end it. `since` and `rest` say how long ago a row was stamped and for how long.

**MediaCalls.** `Prepare` chooses the account and builds the request, the next step hears the vendor and is `Perform` as a whole: reader, health write, row,
reply. `last` is that call as client, row and store saw it. `VideoPlanRead` words and ids are those of each vendor; `PollRequest` is what an id becomes when it comes back.

**MCParts, MCWires.** TLC is started once for the components of each, which share no state: `part` is chosen by `Init`, only its
component moves, and the variables of the others hold "off". Each is an `INSTANCE` with its own bounds. A property
there says "if this part was chosen, the component's property".

**Faulty variants.** Operators marked "Faulty variant" or "mutant" are never part of a specification;
they are the mistakes the properties are tried against (`PROJECT.json`, "mutants").

## 4. The runs

Each is `tlc -config <cfg> <module>`; the exact list is in `PROJECT.json`.

| run | question | properties |
|---|---|---|
| `key_calls` | two calls and a probe on one key, every recognised failure, time fair | `HealthConsistent`, `ParkEndsByEvidence`, `BreakerSpec`, `ErrorHeals` |
| `key_panel` | a probe, which may name any key, against every panel action on two keys | `SwitchHolds`, `KeyFloorKept` |
| `account` | two calls and an actor that probes, patches and dead-letters one account, time fair | `CallsKeepBreaker`, `AccountHeals` |
| `oauth_worker` | one worker, an expiring token, a refusing vendor, a failing store | `RefreshSettles` |
| `oauth_race` | worker, forced refresh, login and operator around one single-use token; restarts, lost answers, a failing store | `TokensKept`, `LadderWidens`, `BurialEarned` |
| `relay` | one request over three members, two accounts, three attempts | `OneAnswerSpec`, `RestingNotAsked`, `WalkSettles` |
| `quota_flush` | two replicas, late statements, expiring leases, crashes, shutdowns, restarting windows | `LedgerSpec`, `RetiredIsDurable`, `SpendSettles` |
| `upstream_call` | two calls of any kind on one session, all timers, retries, hang-ups | `OneInFlight`, `PreCommitBounded`, `TimeoutIsEarned`, `CallsEnd` |
| `wires` | the parts of `MCWires`: every client wire against every upstream format, streamed and asked; quota documents; the poller; connector caches; names; media calls | `StreamSound`, `AnswerPreserved`, and one property for each other part |
| `parts` | the eleven components of `MCParts` | one property each |

The properties of `parts`:

| property | component | what it says |
|---|---|---|
| `RestSound` | `ParkLadder` | one run of up to 17 failures at the real lengths: no rest past its class's ceiling, a vendor's wait never undercuts the first step, the doubling matches its reference |
| `SessionsVerified` | `PanelSession` | whoever is let in was verified against the password in force, unless a stored change still owes its revocation |
| `DoorSound` | `GatewayKeys` | no call that came after a revocation is served on that key; a window lets in its limit |
| `WalkSound` | `SelectionWalk` | a leg gives up only when its snapshot is spent; accounts lead in turn over one shared cursor |
| `ResolvesMeaning` | `ComboResolve` | whatever the graph, the walk answers a served model the name reaches or none, and the least meaning of the name unless a guard refused something on the way or a lookup failed; no guard refuses a name without a loop that reaches no more names than they allow; it ends within the guards |
| `RouteSound` | `ProxyRoute` | a plan names no proxy taken out longer ago than a copy's age and a read; the client cache and its age list agree |
| `FusionSound` | `Fusion` | the semaphore's places are held by who asks; asking at once gives what asking in turn would have |
| `ViewSound` | `UsageFeed`, `LiveMarkers` | the console shows stored calls once and in order; every encoded event is published, queued or counted; a frame draws every call it can know of, and nothing older than the window |
| `SettingsSound` | `PanelSettings` | what is stored validates; what a panel was told stays until that key changes |
| `SignInSound` | `OAuthSignIn` | a sign-in connects once, a credential stays with its owner, an identity has one account unless a rename hid it, no rotation is undone |

The properties of `wires`:

| property | component | what it says |
|---|---|---|
| `StreamSound`, `AnswerPreserved` | `AnswerStream` | the client's protocol is kept wherever the stream stops, but that tool blocks may stay open behind later blocks; the gateway adds no accounting to what the upstream's own frames state; it is shown the answer up to the marker; a cut body is noticed; a call it is told to dispatch is whole |
| `TurnsSound` | `RequestTurns` | every text, image, call and result reaches the upstream once, in order, in the right mouth; each result names its own call, though ids repeat, are cut or missing; the order is one the vendor accepts |
| `QuotaSound` | `VendorMeters` | a card shows each meter the vendor states and what is used of it, whatever the shape; a poll counts as failed exactly when the vendor failed |
| `PollSound` | `PublishedPoll` | no vendor is asked inside its floor; the budget of a sweep goes round the fleet; an account that fails rests its step of the ladder |
| `CachesSound` | `ConnectorCaches` | a call told that its model is listed was told so of its own account within a copy's age, one told that it is not had the vendor leave it out, or answer a body it cannot be read from, within that age; one read answers everybody who waits; a token handed out lasts |
| `CatalogSound` | `NodeCatalog` | a lookup serves what this replica's panel wrote before it, unless the last rebuild failed, and it fails only for a read that failed or a row that a patch stored with blanks around its prefix; no other row fails the index; an erasure with no write between its search and its delete leaves no name behind |
| `MediaSound` | `MediaCalls` | a failure inside a 200 reaches the client and the row, and rests no credential; whoever is answered has the asset; a poll reads the job of the id it was handed, on its account; what is read after the call was recorded (images, search) may fail the client beside a row of success |

The remaining runs (`stream_stop`, `combo_loop`) are expected to be *violated*: each states what a
comment or a test of the repository says and shows the steps of the code that break it. Section 8 lists them, and what else TLC refutes;
the properties it names are kept in the modules. Where a property holds in one run and is
violated under another configuration the pair says exactly which actor breaks it.

## 5. Bounds

* Ladders are scaled to ticks: bases 1, maxima 2, the quota ceiling 3 (a rest must be able to
  be cut by a ceiling, to be lengthened by a second strike and to outlive a shorter one: three
  distinct lengths suffice). `ParkLadder` in `parts` uses the real lengths instead.
* One key where the property is about one row, two where it is about a last enabled key. Two
  calls: a lost update needs two writers, and each call may repeat, so a third adds only a longer
  queue of the same writes.
* `MaxErrs` stops failures once that many strikes are counted; two is enough for "the second
  is lost", "the second shortens the first" and for the second rung. The breaker counts from any number alike.
* `ProbeDelays` {0, 1}: a probe's rest counts from before it was sent.
* `OAuthRefresh`: `MaxAttempts` 2 or 3 (five in the code), backoffs below and above the sweep
  interval, a three-rung ladder so that widening, holding and restarting differ,
  `MaxIssued` generations of tokens.
* `RelayWalk`: three members, so that an answer can be held, dropped or outrun; two of them on one account,
  so that a credential parked in one leg meets the plan of a later one; three attempts for four
  selections, so that the attempts run out in the middle of a leg. The order of the credentials in a plan is
  left open. A request that is done stays done, hence `CHECK_DEADLOCK FALSE`.
* `QuotaFlush`: two replicas (a stalled holder and its successor), one meter of batch size one, windows of three
  ticks, two units: a window restarts while a batch of the earlier one is in flight. One crash or shutdown, one failure.
* `UpstreamCall`: two calls on one session (a third only lengthens the queue), of each of the five shapes, waits of 0, 1 and 3 ticks against a
  walk clock of 3, a header wait of 4 and a first-byte wait of 2, so that each timer can win each race. `AgeCap` ends the history `age` one above the largest bound.
* `AnswerStream`: three fragments, accounting stated up to twice, two tool calls, two blocks, a marker of two letters that a fragment boundary may
  split, parallel calls that interleave.
* `RequestTurns`: conversations of up to three turns of 20 shapes: ids that repeat across turns, an id over the clamp, names with a
  mark no vendor takes, a missing name, results answered, followed by text, or never; three is what it takes for an id to be
  declared, answered and declared again. The clamps are 3 letters instead of 64.
* `VendorMeters`: a meter holds four units; used none, some, all or more than all. Every subset of a family's meters, every shape,
  every status of every surface.
* `PublishedPoll`: two replicas, a fast and a slow account, one asked a sweep, a seed page of one, a lease of two ticks against cycles of
  one. The ladder has two rungs, so that a run of failures stands at the first, at the ceiling, and beyond it. Cycles longer than their
  lease are left to `outlived` (section 9).
* `parts`: two clients and one password change, so that a login crosses it; two panels and two callers at the door, and
  windows that turn over between them; an account with two keys beside one without, legs that overlap; 648 stored graphs of
  three combos and two aliases with loops, dead ends and shared members, under limits of two combos deep, two expansions and two alias hops, each of
  which a graph without a loop can reach; two proxies and a cache for one client; three
  fusion members on two places; three events through a queue of one; two requests of two attempts; two panels with
  patches that overlap in keys, groups and neither; two sign-ins of the same or of two people, in two tabs.
* `ConnectorCaches`: two callers, two accounts and a service account, a model listed for one; a token outlives the buffer by a tick, a miss and a list last one, a read may take one.
* `NodeCatalog`: one node, one built-in name, one combo, one alias; two actors and a second replica that writes behind this one's back, two writes, one fault.
* `MediaCalls`: two accounts, every format and every video dialect, two calls (a job and its poll), one failing store.
* Symmetry is used in `wires` only, over the two replicas of the poller, and over the two callers of the caches and names, who are the two accounts of the media calls: no expression tells either pair apart.

## 6. Fairness

`KeyHealth` (`key_calls`) and `AccountHealth` assume only `WF(Tick)`: time passes. No caller, vendor or operator
owes a step. `OAuthRefresh` adds `WF(Work(w))`: the worker's loop runs under `runSupervised`,
which starts it again, and every outbound call it makes has a timeout, so a grant ends one
way or the other. Nothing is assumed of the vendor, of the panel or of forced refreshes, nor of the store: `RefreshSettles` says
that a due token is settled or the store fails infinitely often. The replica of a liveness run does not restart. `RelayWalk` assumes `WF(Timed)`: the goroutine of a request goes on, a
call and a single body being bounded by timeouts of the transport, and whatever is read for a client that left being
cancelled. Two reads are left out, both for a client that waits for a stream (`Unbounded`): the stream, which only its idle guard bounds,
and the body of a refusal, which nothing does (section 8). `WalkSettles` therefore ends in `done` or in one of them.

`QuotaFlush` assumes that the ticker keeps starting cycles and that a cycle goes on (`WF` of `Drain` and `Denied`), that
a lease expires and a late statement lands, that time passes, and that a process that stopped is started again: all
done by the runtime, Redis, PostgreSQL or the supervisor, none by a client. `SpendSettles` says that once calls stop the rows
catch up. `UpstreamCall` assumes that timers fire and the process goes on, that a client reads or leaves, that an
answer that keeps coming is finite (`SF`, because its end is only enabled between chunks). Nothing is assumed of an upstream that is silent,
be it on the body of a refusal: `CallsEnd` says that every call ends but one whose stream client waits for ever for such a body, and those
queued behind it.
The parts of `parts` and `wires` are checked for safety only: their operations are requests that nobody owes.

## 7. What is proved

Eight modules are checked by `tlapm` to the last leaf. None bounds what a run has to bound: the number of callers,
keys, actors, replicas, windows and attempts, the lengths of ladders and timers, the overlap of credentials are arbitrary.
Every proof has the same shape: an invariant `I` that TLC checked first, `Init => I`, one lemma per action for
`I /\ [Next]_vars => I'`, and the property from `I` and one step.

`KeyHealthProofs`, which begins with the lemmas and theorems of `ParkWindow`, holds for every
value of the constants that satisfies `LadderAssumption` and `KeyHealthAssumption` (bases and
ceilings are positive, every ceiling lies within the quota ceiling, which the constants of
`upstream_key_health.go` and `failure_class_policy.go` satisfy).

* `BackoffBounded`, `HealthForIsPolicy`, `RestUntilBounded`: whatever documents are stored, the resolved
  budget is inside its bounds, and whatever was classified, the rest is none or in 0..`QuotaRest`.
* `Inductive`, `Spec => []IInv`. `TypeOK`, `HealthConsistent` and `ParkBounded` are not
  inductive: `RecordKeyHealth` stores the status and, on a reset, the window *of a snapshot*,
  so what the rows satisfy after a write depends on what an arbitrarily old snapshot
  satisfied. `IInv` therefore says of every snapshot any actor holds what it says of the rows.
  With it each action preserves it by `RestUntilBounded` and arithmetic on one row.
* `TypeCorrect`, `RowsConsistent`, `NoEndlessPark` follow from `IInv`.
* `ImplementsBreaker`: `Spec => Breaker!Spec`. Every write is a strike, a release or a
  stutter of `KeyBreaker`; `IInv` supplies that a reset writes no window.
* `ParksEndByEvidence` (`ParkEndsByEvidence`): a park is shortened by time, by an answer of its credential, or by one more write, which
  the property spells out (`BlindRelease`): a probe that reports a missing target or a gate on a snapshot without strikes. `BlindShortens`
  shows that such a write is the only one. What the repository says, that answers alone release, is `ParkReleasedByAnswer`, which TLC refutes (section 8).
* `SwitchesHold` (`SwitchHolds`): a disable ends as an operator asked, by a write whose snapshot is older than it, or by a refusal of the credential.
  An answer never ends one, although a probe may be made of a disabled key; a stale write does (section 8), and so does a refusal, because
  `RecordFailure` sets the status to error whatever it was.
* `GuardsKeepTheFloor` (`KeyFloorKept`) needs of `IInv` only the shape of rows and snapshots. Besides the step itself it needs that no
  other actor's step drops a snapshot (`OthersSnapshot`): only then is the actor whose snapshot went away the one who decided.
  The guards of the panel look at statuses only; a replaced value asks none and drops the deadline of a timed disable, so it can take
  the last key that comes back by itself. The property says that nothing else takes one.


`RelayWalkProofs`, from `RelayAssumption` alone (a non-empty chain, at least one attempt), for any chain of
members, any overlap of their credentials, any budget and any set of refusals:

* `WalkInductive`, `Spec => []WalkInv`. `ErrorIsOwned` speaks of the end of a walk only; who is blamed there is
  put together leg by leg from `failed`, `pre`, `first` and `lastAt`, so `WalkInv` adds what these say in the middle
  of one: `attempts` and `calls` add up; a leg with a failure has called its own member; a walk between legs that
  holds no answer remembers the member it called last; a leg's plan excludes whoever rests.
* `ErrorsAreOwned`, `WalkTypes` follow, and `RestingIsLeftAlone` from `Avoided`.
* `KeepsOneAnswer`: `Spec => OneAnswer!Spec`. Every way out of a leg is a `Drop`, a `Finish` or a stutter; `WalkInv` supplies that a
  first frame is heard only while a stream is being answered.

`AccountHealthProofs`, from `AccountHealthAssumption` (budgets are policies whose rate base the settings' validation holds to
five minutes, and so below the longest rest):

* `AccountStaysSound`, `Spec => []AccountInv`: the row, and every snapshot somebody may still write back whole, rest no longer than
  the longest park. The bound on the rate base is needed: the overload ladder is raised to it, and without the bound TLC gives a policy whose rest
  exceeds the ceiling.
* `CallsKeepTheBreaker` (`CallsKeepBreaker`): every call's statement is a strike, a release or a stutter of `KeyBreaker`, whatever
  stood in the row. The proof also found that two arms of `Outcome`'s CASE overlapped (a class run and a park in one write), which TLC reads in
  order and TLA+ does not; they are exclusive now.

`OAuthRefreshProofs`, from `OAuthRefreshAssumption` (actors are of one kind, a backoff per attempt but the last, a ladder of at
least one rung), for any number of workers, forced refreshes, logins and operators:

* `TokensStaySound`, `Spec => []TokensInv`. What is in hand between a vendor's answer and the statement that stores it decides: it is newer
  than the row it was loaded from, two actors hold different tokens, and the vendor accepts what the row holds unless it is in somebody's hand or was
  lost. A run of attempts that is used up is on its way to a dead letter.
* `TokensAreKept` (`TokensKept`) follows from it; the condition of `UpdateIfUnchanged` carries the proof. A usable token is lost only with an
  answer nobody heard, a process that stopped with it, or a seal or statement that failed while the row still showed the tokens the refresh had spent.
* `LadderOnlyWidens` (`LadderWidens`), with the hypotheses that there is one worker (the lease) and one operator, and that the ladder
  widens. With two operators TLC refutes it: a patch that loaded before a burial may land after another operator's. `RungsKept` is the
  invariant: the row a burial or a patch holds is not above, respectively not below, the stored rung.
* `BurialsAreEarned` (`BurialEarned`), with no hypothesis: whoever else forces, logs in, patches, restarts or fails. `RunsEarned` is the invariant:
  a run of attempts is no longer than the refusals since the account was last settled, unless it was settled in the middle of that run. Without
  the exception, `BuriedAfterAttempts`, TLC refutes it (section 8): the run is in the worker's memory and tokens another one stored do not end it.

`QuotaFlushProofs`, from `QuotaFlushAssumption`, for any replicas, meters and windows:

* `FlushStaysSound`, `Spec => []FlushInv`. What a copy in a worker's batch or in a late statement says was once the counter's total
  (`NothingOverstated`), copies are at most a tick past the window they name (`CopiesAreRecent`), and what is about to be marked was written
  (`WrittenFirst`). A late statement of an older window may overwrite a newer row's copy for a tick; `Overtaken` names exactly that case.
* `RetiringIsSafe` (`RetiredIsDurable`) and `FlushImplementsLedger` (`LedgerSpec`: `Spec => Ledger!Spec`). Both need
  `WindowTicks > 2`: a window outlasts a statement's timeout and the tick after it. Real windows last minutes at least, a statement seconds.

`UpstreamCallProofs`, from `UpstreamCallAssumption`, for any number of calls:

* `CallsStaySound`, `Spec => []CallInv`, with `OneInFlight` and `PreCommitBounded` as `SessionsServeOneCall` and `CallsAreBounded`.
  Neither is inductive: `Laned` adds that only calls of the session queue or hold its slot; `Clocked` adds what every timer that is running owes to the
  walk's clock and to what has been waited; `Counted` adds that a call that is not handed out has begun no more than its retries.
* `TimeIsEarned` (`TimeoutIsEarned`): of the walk's clock a call lost nothing it did not wait for the upstream.

`PartsProofs`, from `PartsAssumption`, for the parts of `parts` whose constants are constants of `MCParts`. Each theorem is
`Spec => []Property`; the invariant is `part = "..." => I`, where `I` is the component's own:

* `LettingInIsVerified` (`SessionsVerified`), any clients, passwords, boots, failures and clocks. Of sessions alone the property is not
  inductive: a login that has read row and epoch lets its client in two steps later. `LoginsVerified` says of it what the property says of
  sessions, and `HashesKnown` that nobody is ahead of the epoch or verified against NULL. `LogoutInv` to `ChangeRevokesInv` are
  then one lemma a statement.
* `DoorHolds` (`DoorSound`), any keys, panels, callers, limit and window. `RevocationsStored`: an update computed from a copy older than a
  revocation may still land, and must not clear it; `WindowCounted`: the counter is never behind the calls it let in.
* `SettingsStaySound` (`SettingsSound`), any panels and any patches of the modelled keys that validate as input, with one masked secret,
  the proxy's password: a patch is a whole-group write computed from an earlier read. `Disturbed`, `Silenced`, `Computed` and `Written`
  follow a patch from that read to its last statement: whoever runs beside another one of its group knows it, what a patch sets is
  owed to nobody meanwhile, what it computed validates and keeps what is owed, and what it wrote alone is still there.
* `ViewHolds` (`ViewSound`). The feed, for any calls, depth of queue and failures: `TakenOnce` and `SentNext` place every event at its
  number among those taken, `WireBehind` puts what the subscription still holds behind what the console shows; without the latter an
  event shown next could be older than the last line. The markers, for any requests, legs, window and limit, as long as a late
  command lands inside the window (`LandTicks < StaleTicks`): `RunningIsMarked` reaches one tick past what a frame draws, because
  the prune keeps what is exactly as old as the window and the frame does not draw it.
* `WalkHolds` (`WalkSound`), any accounts, keys, legs and sticky limit. That a leg that gives up spent its snapshot follows from one `Ask`
  alone: an account it passed offered nothing, in the order the rotation gives, which leaves no account out (`RotatedAll`). The turns need
  `LastRunCounted`: the last run handed out stands at the cursor and is as long as the cursor counts, unless the pool's size was met in it; then one
  more position either lengthens that run (`RunGoesOn`) or begins the next (`RunEnds`). A stored offset the pool outgrew counts by its remainder.
* `RouteHolds` (`RouteSound`), any pool, requests, ages and size of the client cache. `ReadsFresh` says of a read under way what the property says of
  the copy it will store; `ListedOnce`, that no candidate stands twice in the age list, is why evicting the oldest removes it from both.
* `FusionHolds` (`FusionSound`), any members, limit and answers. `ResultsTold` ties each result to its member by position, and
  `ChosenAfterAll` carries the choice over the second call or the judge's. The order of sources comes down to there being one
  ascending sequence of a set (`Ascending`).
* `SignInsStaySound` (`SignInSound`, with its action property), any finite set of rounds, any people, requests, refreshes, renames and
  failures. `HeldOnce`: a round whose tokens are in hand is in one request's and has not landed, which is what the consuming read of the
  state buys; `RowsFound` and `RowsOwned` carry the identity from the lookup to the write; `LabelsHold` is why the insert's unique label
  stands in for a unique identity. `LabelIsFree` is the pigeonhole behind "Account N". Ids are unique, so the row a write replaces is the
  one whose credential it loaded, and no rotation is undone.

`WiresProofs`, from `WiresAssumption`, in the same shape for three parts of `wires` whose constants are constants of `MCWires`:

* `CatalogHolds` (`CatalogSound`), any panels, replicas, nodes, names, ages and failures. What a lookup is owed is what its replica had answered
  when it began to rebuild; `Rebuilds` says that it holds the replica's lock from then on, so that this is still so when it stores, and that
  the rows it read are of that version or later. `OverlaysShow` says the same of what is cached and fresh. `Decides` carries what an edit or a
  delete found out about the names up to the statement that acts on it: a row whose prefix is a built-in name is one that a patch stored with blanks
  around it at some time (`padded`), and an erasure beside no other write is of what nothing names. Without the two exceptions TLC refutes both
  (`AllRowsBuild`, `ErasedUnnamed`, section 8); the theorem says how far the code keeps them.
* `CachesHold` (`CachesSound`), any callers, accounts, models, lifetimes and bounds. `CopiesTrue` compares every stored configuration and refusal with
  the instant the vendor last said so, or last answered a body the model could not be read from, and `Honest` gives every call in hand the same: a
  list is of this moment (`Hears`), because time passes only while nobody holds an answer. That a refusal is the vendor's own word is
  `MissesAreRefusals`, which TLC refutes (section 8). `Leads`, `Named` and `Waits` are why a waiter is never left: who reads is who the
  table names, and only that one removes the entry, before it answers those who wait. `TokensLast` is the buffer less the one exchange a
  relative lifetime is counted late by. The assumption had to say that "nobody" is not a caller.
* `PollHolds` (`PollSound`), any replicas, accounts, floors, budget, slots, lease and ladder that doubles to its ceiling. None of the three statements
  is inductive. `Alone` says that whoever sweeps holds the lease, so one replica does, and `AsRead` that nobody then wrote the rows its queue was read
  from: an ask judges a copy, and the row is that copy grown older by the sweep. `Stamped` ties a row to when its account was last asked, which is
  the floor; `Turns` says that who was asked past a waiting account is less overdue than it, `PassedOver` that whoever is still queued is not: together
  nobody gets a second turn. That a rearmed row keeps its rung follows from the floor being above what the row rested. The types,
  `Rowed` and the upper bound of a rest need no lease and hold though cycles outlive theirs. The assumption states the rungs as a sequence
  (`publishedNextDelay` doubles in a loop) and that a quarter over a rung below the ceiling stays below it, which the doubling of 30 seconds towards
  30 minutes satisfies.

Only model-checked: the liveness properties (`ErrorHeals`, `AccountHeals`, `RefreshSettles`, `WalkSettles`, `SpendSettles`, `CallsEnd`),
`StreamSound`, `AnswerPreserved`, `TurnsSound`, `QuotaSound` and `MediaSound` of `wires`, whose modules compute over data (translations, quota
documents, media formats), and the properties of the parts `ladder` and `names`.
The numeric reference of `ParkLadder` would be an induction over the run, and the meaning of a name in
`ComboResolve` an induction over its graph: both stay with TLC.
Modules that only TLC reads (`VendorMeters`, `MediaCalls`, `AnswerStream`) have CASE arms that are tried in
the order they are written, like the switches of the code they stand for.

## 8. Where the code and its words disagree

2 runs of `PROJECT.json` are expected to be violated (its "findings"):

* **`stream_stop` / `StopEndsStream`** (`dataplane/engine_stream.go:58`). relayStream writes state.Finish() after every stream, and ClaudeStreamState.Finish writes a message_delta and a message_stop without asking whether an Anthropic upstream's own message_stop was already forwarded, so the client reads two of each; dataplane/translate_stream_claude_test.go:126-128 says "TestClaudeStreamState_FrameOrder pins Anthropic's block discipline: message_start comes first, each content block is opened before it is fed and closed before the next opens, and message_stop ends the stream".
* **`combo_loop` / `RoutableNeverRefused`** (`dataplane/resolve_combo.go:144`). A combo whose members were all refused is remembered as failed even when one of them was refused only for the depth at which the walk met it, and the remembered failure answers the combo met again on a shorter way; dataplane/resolve_combo.go:97-99 says "The first entry that still resolves wins, and only a combo with no routable entry at all fails: a reference left behind by an edit must cost its own member, not the whole combo".

The following were met while modelling. Where a configuration `<cfg>.cfg` is named, `tlc -config <cfg>.cfg <module>`
reproduces it, the module being `MC` and the part of the name before the underscore; where only a module
is named, that module defines the property and a configuration with the actors and inputs the entry names refutes it.
The properties of section 4 hold all the same.

* **`KeyHealth` / `ParkReleasedByAnswer`** (`service/endpoint_probe_use.go:96`). recordProbe hands a missing target (404) or a gate to RecordKeyFailure like a refusal of the key and writes the result; on a snapshot without strikes the statement reads it as a reset and clears a park earned meanwhile; repository/postgres/endpoint_key_health.go:25-26 says "A reset stays absolute because a served call is the evidence that releases the park". One call, one prober and ProbeClasses = {"target"} refute it.
* **`KeyHealth` / `DisableHolds`** (`repository/postgres/endpoint_key_health.go:35`). RecordKeyHealth writes SET status = $1 from the caller's snapshot, so a call that loaded the key before it was disabled puts it back, as active when it is served and in error when it is refused; repository/postgres/endpoint_key_health.go:19-20 says "It touches health columns only" and service/endpoint_probe_use.go:134-135 says disabled "is the operator's own decision". One call and one operator who may switch refute it.
* **`OAuthRefresh` / `BuriedAfterAttempts`** (`service/oauth_refresh_worker.go:166`). Only sweepOne clears the attempts, so a forced refresh that succeeds leaves the worker's count where it was, and a later failure buries the account after fewer attempts; service/oauth_refresh_worker.go:28-29 says "base backoff doubling per attempt with jitter, capped, and a dead letter after five attempts" and service/oauth_refresh_schedule.go:30-31 says of clearRetry that it "ends the endpoint's failure run: neither its attempt count nor its next attempt survives a success or a dead letter". One worker and one forcer, with Rotates = FALSE, refute it; BurialEarned says what remains.
* **`UpstreamCall` / `WalkBoundsCall`** (`dataplane/upstream.go:183`). The body of a refusal is read with no timer when the client asked for a stream: an upstream that sends the headers of an error and then nothing holds the call, and the session it holds, past the walk's clock and every wait of an attempt, for as long as it likes; dataplane/transport_call.go:77-78 says "one credential may not outlive the request's walk", and dataplane/stream.go:68-70 that a stalled upstream "would otherwise hold the client's connection until the client gave up". Two calls of one serialized session under Spec refute it; the bounds of section 4 count no such read, and Stalled names it.
* **`AnswerStream` / `BlocksOneAtATime`** (`dataplane/translate_stream_claude_delta.go:108`). toolCallFrames opens a tool_use block without closing the tool blocks before it, and text after a tool opens a block of its own: tool blocks stay open, their input buffered, until closeBlocks; dataplane/translate_stream_claude_test.go:126-128 says "each content block is opened before it is fed and closed before the next opens". A messages client on an OpenAI upstream, with two calls and two blocks, refutes it.
* **`AnswerStream` / `BlocksCloseInOrder`** (`dataplane/translate_stream_claude_blocks.go:41`). closeBlocks stops the thinking and the text block first and the tool blocks after them, and a reply that goes on in text after a tool has the text block at a higher index; dataplane/translate_stream_claude_blocks.go:37-38 says it stops "every open block, ordered by index so the client sees them close in the order they opened". A messages client on an OpenAI upstream, with two blocks, refutes it.
* **`AnswerStream` / `NumbersOnce`** (`dataplane/translate_stream_openai_frames.go:90`). usageSent only stops Finish from adding a chunk of its own: every vendor frame that carries usage is forwarded, so an upstream that states the numbers on the finish frame and in a frame after it has them delivered twice; dataplane/translate_stream_openai.go:70-73 says the mark is there "so one stream carries at most one delivery of the numbers". A chat client on an OpenAI upstream, with MaxStated = 2, refutes it.
* **`ConnectorCaches` / `MissesAreRefusals`** (`provider/qoder_catalog_lookup.go:145`). Any body of a 200 is taken for the list: fetchCatalog asks for nothing but the status, and findQoderModelConfig answers "not found" of an error document, or of a list cut at the limit, which the lookup tells its caller as "the vendor does not list model" and remembers for the window of a miss; provider/qoder_catalog.go:46-47 says "misses carries the model names the vendor refused to that account". The bounds of Wires.cfg refute it: two callers and one misfortune.
* **`NodeCatalog` / `AllRowsBuild`** (`service/provider_node.go:149`). Update looks the prefix up as it was sent and Reprefix stores it trimmed, so " openai" passes the check against the built-in names, and from then on every rebuild of the overlay fails on that row and no custom node resolves; service/provider_node.go:75-77 says "a prefix that shadows an id or an alias is a CONFLICT rather than a row the loader later trips over" and :135 of Update "refusing a prefix that would collide with the registry". The bounds of Wires.cfg refute it with one panel.
* **`NodeCatalog` / `ErasedUnnamed`** (`service/provider_node.go:183`). Combos and aliases are searched before the delete and not in its transaction, so one stored in between names a node that is gone; service/provider_node.go:173-174 says "A combo naming the node or an alias targeting its models is refused by name, before anything is erased". The bounds of Wires.cfg refute it with two panels.
* **`KeyHealth` / `DisableHolds`** (`service/endpoint_probe_use.go:142`). A probe that names a disabled key is made, and a refusal of it is recorded like any other: RecordFailure sets the status to error, so the key comes back when that park ends; endpoint_probe_use.go:133-135 says of the choice of the key that "Only `disabled` is refused here". SwitchHolds names it as one of the three ways a disable ends.
* **`KeyHealth` / `EnabledIsRoutable`** (`repository/postgres/endpoint_keys.go:60`). updateKey writes neither rate_limited_until nor the runs, so the park Enable cleared in memory survives in the row; domain/upstream_key_operator.go:41-44 says "Enable returns the credential to rotation and clears what being switched off had accumulated: its window, the health park, and every class's run".
* **`KeyHealth` / `ErrorHeals`** (`repository/postgres/endpoint_keys.go:62`). A patch of the label writes the snapshot's status back; when a call healed the key in between, the row is in error with no window and Available never answers true; domain/upstream_key_health.go:94-95 says "A parked key becomes usable again once its window expires, without an explicit reset".
* **`AccountHealth` / `ReleasedByAnswer`** (`repository/postgres/endpoint_parity.go:59`). The write treats AccountConsecutiveErrors() == 0 as a served call, but a failure that does not implicate the credential also writes it on a snapshot with no strike, and so clears the park another call earned; endpoint_parity.go:25-26 says "A parked account is never selected, so the release only lands on a call the account served".
* **`AccountHealth` / `ParkFollowsAction`** (`domain/upstream_endpoint_account_health.go:38`). RecordAccountFailure parks for WindowFor(class) and never asks ActionFor, so an account parks under a class the operator's table rotates past; dataplane/selection_health.go:138-140 says "One read answers both halves of the failure, so the park and the walk cannot disagree about it".
* **`AccountHealth` / `EnabledIsHonest`** (`service/endpoint_bulk_mutation.go:166`). BulkStatus writes an account only when status or deadline moved, so enabling an active account that is parked writes nothing, and the run is in no statement at all; endpoint_bulk_mutation.go:143-144 says "Releasing clears the window, the health park and the breaker run".
* **`AccountHealth` / `DisableHolds`** (`repository/postgres/endpoint_oauth_batch.go:81`). updateEndpoint writes status = $3 from the aggregate the worker loaded before the vendor call's verdict was stored, so a dead letter overwrites a disable made meanwhile; domain/oauth_refresh.go:69-70 says "`disabled` is an operator decision, and no worker may vote it back into rotation" and :56-57 says "that state is not health tracking's to overwrite".
* **`OAuthRefresh` / `GrantEndsDeadLetter`** (`repository/postgres/endpoint_oauth_batch.go:160`). The token write of an accepted grant stores oauth, account and updated_at only, so MarkHealthy and ClearRefreshRetry before it are lost; service/oauth_flow_refresh.go:178-179 says "it also ends the dead-letter and its retry ladder" and oauth_refresh_worker.go:135-136 "Success ends the dead-letter and the ladder, both inside the refresh path".
* **`KeyHealth` / `TimedDisableEnds`** (`domain/upstream_endpoint_keys.go:92`). Replacing the value copies the status but not disabledUntil, so a timed disable becomes permanent; upstream_endpoint_keys.go:90-91 says "The replacement keeps the health the key already earned" and domain/upstream_key_health.go:99 says "An operator's disable works the same way".
* **`ParkLadder` / `ConfiguredWindowIsTheRest`** (`domain/failure_class_policy.go:103`). The transient and unknown classes carry a default cooldown, and RestUntil takes a class cooldown over the ladder, so a configured transient window is never the rest; domain/settings_routing_rest.go:46-47 says "a window an operator configured is a decision the class ceiling must not overrule".
* **`ParkLadder` / `FirstFailureWithholds`** (`domain/settings_routing_rest.go:43`). RestUntil answers a stated reset that is already past as it stands, so the credential is parked for no time; domain/upstream_key_health.go:112-113 says "The first failure parks the key for its class's window, so a dead credential stops serving immediately".
* **`AccountHealth` / `TimedDisableEnds`** (`dataplane/selection.go:142`). The candidates of a provider are listed with Status active, so an account whose disable window elapsed is not considered; domain/upstream_endpoint_operator.go:24-25 says "It still reads `disabled`, and the router serves it".
* **`KeyHealth` / `KeyFloor`** (`service/endpoint_keys.go:80`). The guard on the last enabled key is decided on a snapshot with no lock or condition on the write, so two operators can each disable one of two keys; domain/upstream_endpoint_keys.go:45-46 says a removal is refused "when that would leave a key-backed endpoint unable to route".
* **`KeyHealth` / `StrikeEarnsItsStep`** (`repository/postgres/endpoint_key_health.go:58`). The strike is counted in the database but the window was computed from the snapshot's run, so two concurrent failures count two strikes under the window of the first; endpoint_key_health.go:23-24 says the merge exists because "two selectors holding one starting count would otherwise land one increment and the shorter backoff".
* **`OAuthRefresh` / `SweepSleeps`** (`service/oauth_refresh_schedule.go:55`). A retry recorded for an account that is no longer listed as due stays in w.next, its delay is negative for ever and every sweep starts the next one at once; oauth_refresh_schedule.go:6 says "Run wakes at the earliest recorded attempt instead of sleeping inside the loop" and :39-40 says nextWake answers "zero when that retry is already due".
* **`RelayWalk` / `HeldAnswerServed`** (`dataplane/engine_relay_walk.go:88`). A held answer is served only when the chain runs to its end: the returns at lines 88 (time), 128 (stop) and 139 (a failure not worth failing over) answer an error instead; engine_relay_walk.go:79-82 says "It is held aside instead: a later member may answer properly, and if none does, the body is still what the first member would have served".
* **`RelayWalk` / `BudgetReportsLearned`** (`dataplane/engine_budget.go:100`). A walk cut by its attempts answers UPSTREAM_TIMEOUT although every call it made was, say, rate limited; domain/settings_routing.go:99 says "Both bounds stop the walk and report what it already learned" and engine_budget.go:6 "both answer with the failure the walk already has rather than inventing a third one".
* **`RelayWalk` / `SelectionIsSpent`** (`dataplane/engine_relay.go:112`). The attempts are asked after plan.Next has chosen and stamped a credential; engine_relay.go:94 says "Both bounds are checked before another credential is picked".
* **`RelayWalk` / `CredentialFirst`** (`dataplane/engine_answer.go:148`). An answer that cannot be read ends the leg whatever the recorder says about the walk: the account's other credentials are not tried; engine_relay.go:27 says "A failover-worthy failure excludes the credential and tries the next".
* **`GatewayKeys` / `RevokedReadsRevoked`** (`service/gateway_key.go:91`). A PATCH that read the row before a revocation writes its status back behind it, so a revoked key reads active or disabled; it is still refused, because the lookup also asks revoked_at. domain/gateway_key.go Transition says a revoked key cannot be revived.
* **`SelectionWalk` / `LaterOneServes`** (`dataplane/selection_plan.go:100`). pickFrom answers one credential of an account and passes to the next account when it cannot be unsealed, so the sibling keys of an unreadable one are not tried in that leg; selection_plan.go:69-71 says "the walk logs it and serves a later credential. It reaches the caller only when nothing answered".
* **`ProxyRoute` / `SentOnce`** (`dataplane/proxy_route_walk.go:113`). A reset or a timeout after the request was sent is a net.OpError or a net.Error too, so the walk sends the request again through the next proxy; proxy_route_walk.go:108-112 says "every mid-response error are the upstream's, not the pool's".
* **`ProxyRoute`** (`repository/redis/proxy_rotation.go:102`). ParkedAll queues its EXISTS commands and then calls pipe.Do with no command instead of executing the pipeline, which answers an error at once: the cooldowns are never read. service/proxy_route_order.go:22-24 says "minus parked candidates while an unparked one remains". The model has the code's behaviour: no candidate sits out.
* **`UsageFeed` / `QueuedIsPublished`** (`service/usage_event_publish.go:123`). The event a publish is under way for when the workers are cancelled is published on the cancelled context and fails; the drain flushes only those behind it. usage_event_publish.go:136-141 says the drain exists so that shutdown does not "abort the drain at once and lose the very events this exists to flush".
* **`LiveMarkers` / `LongCallStaysLit`** (`domain/usage_active.go:27`). A marker carries the instant its call began, so a stream longer than the window goes dark while it is being routed; usage_active.go:30-31 says a marker "is one request the gateway is routing right now".
* **`PanelSettings` / `SameGroupKept`** (`service/settings.go:157`). A group is stored whole as the panel computed it, so of two panels that retune different keys of one group the later undoes the other's; settings.go:90-92 promises this only across groups.
* **`OAuthSignIn` / `FailureIsRetryable`** (`service/oauth_flow_device_poll.go:45`). The device state is consumed before the account is connected, so a failure of the connection leaves nothing to poll; oauth_flow_device_poll.go:43 says a failure "leaves the staged state retryable".
* **`QuotaFlush` / `MarkedIsMirrored`** (`repository/redis/quota_counter_script.go:65`). settleScript stores the total the flush wrote as the mark although the running total moved on, and marks a window that restarted meanwhile with the total of the one before; quota_counter_script.go:53 says "For each window it marks the flushed total". The next flush writes such a window again, which RetiredIsDurable and SpendSettles check.
* **`UpstreamCall` / `WalkBoundsCall`** (`dataplane/transport_call.go:91`). Even without such a refusal a call that asked for a stream outlives the walk by the header wait, and in an envelope by one first-byte wait: the walk's clock bounds neither, and openEnvelopeWithin and firstByteWithin each start the whole cap.
* **`UpstreamCall` / `BegunBounded`** (`provider/qoder_envelope.go:40`). A connection that breaks before the first frame of an envelope is answered as a refusal and so repeated like one (Replayable), although the upstream may have begun what it was asked; BegunBounded counts no attempt its envelope refused.
* **`UpstreamCall` / `OnlySilenceCuts`** (`dataplane/stream.go:124`). The idle timer runs on while the chunk is being written to the client, so a slow client is cut like a silent upstream; stream.go:70-72 says "a legitimately long answer is never cut off, only a genuine silence is".
* **`NodeCatalog`** (`service/provider_node_probe.go:49`). The comment says the node's own prefix must not be a collision with itself, but the running index already carries it, so a PATCH that repeats the prefix is always refused.
* **`MediaCalls` / `RowTellsAnswer`** (`service/media_search.go:67`). Images and search results are read after Perform has recorded the call, so a 200 that cannot be read is a success in the usage rows and of the credential while the client gets an error; media_perform.go reads a body before it accounts wherever a format has a reader.
* **`MediaCalls` / `RowTellsAnswer`** (`service/media_refusal.go:20`). The comment says a call the client saw fail is visible in the logs, but a request that cannot be built after its account was chosen leaves no row.
* **`MediaCalls`** (`service/media_call.go:167`). A stored override has a default model that the panel shows as the effective one; a call without a model uses the registry's default alone.
* **`MediaCalls`** (`dataplane/media_gemini.go:32`). GeminiEmbeddingsURL builds a new target from the base URL, so a credential that applyMediaCredential placed in the query is dropped.
* **`NodeCatalog`** (`src/app-serv/cmd/app-serv/provider_index.go:136`). The comment says a failed rebuild serves the last good overlay if one was built; after an invalidation there is none, so one failed read right after an edit leaves every custom node unresolved for a window of 30 seconds.

## 9. What is not modelled

See "components" in `PROJECT.json` for the reason of each: the connectors' headers and addresses and
CRUD without a protocol are left out for good; the others are in the plan. In the modelled parts:

* keys and accounts: encryption and masking, tags, priorities and labels (a patch of them is one action), the audit
  log, wording of errors. `RemoveKey`'s first statement rewrites unchanged columns of the account and is folded into the delete.
* `ComboResolve`: a disabled model is one that is gone (the list of the disabled that cannot be read serves it, `resolve_disabled.go`); an alias whose target is another alias restarts the hop count as the code does, so alias loops through
  combos end at the expansion limit. The rotation of a combo's members is left out.
* `AnswerStream`: ids are a flag (present or not); reasoning shapes of vendors are one kind of fragment; where
  several markers overlap the guard finds the earliest of what has arrived, as the code does, and the reference agrees
  only on markers that do not overlap, hence one marker in the run.
* `RequestTurns`: tool declarations, sampling parameters and the wording of continuations are data without a property. Two cases are
  outside what a client may hold: assistant text between a call and its output (a Responses client's items are not reordered, so
  the result no longer follows its call), and a call without a name (dropped, while its result stays). A conversation that is only a prompt
  has no messages at an Anthropic upstream; at Gemini it is made the user's turn.
* `VendorMeters`: resets are left out, and so are titles and plan names. A `commandcode` credits body that is not JSON draws "all credits
  spent"; the property leaves it out.
* `PublishedPoll`: the lease of five minutes is not renewed, and a sweep of 40 accounts on four slots may last longer when every fetch and
  write uses up its timeout; then two sweeps overlap and both may ask one account. The properties except a run in which that
  happened (`outlived`), and the instance's cycles end before. A stamp that cannot be written leaves the row at the head of the queue.
* `Fusion`: how the judge's prompt is appended to a request body of each wire.
* `UsageFeed`: an event its codec refuses is logged and in no counter (`Withhold`); the cancellation of consumer and publisher is one step, as both share one context.
* `PanelSettings`: three groups of the six; keys a stored group lacks read as zero, as JSON decoding leaves them.
* `GatewayKeys`: a window's last half second admits more than the limit because the wait rounds to none; the bound of the property says so.
* `OAuthSignIn`: token formats and their validity. No index of the store keeps one identity in one row: the label does, and only while
  nobody renames the first account between the lookup and the insert of a second first sign-in. TLC finds the split that such a rename
  opens, so the property claims one account for every identity outside `torn`, the history of those renames.

## 10. The plan


Done: every module of section 3, proofs of every safety property the runs of a single component check, of nine of the eleven components of `parts` and
of three of the seven of `wires`; the other four compute over data. Next:

1. The combo's rotation cursor beside those of `SelectionWalk`, translation of answers that are not streamed, endpoint administration,
   token saver and reasoning intent.

The runs are kept few: components that share no protocol are parts of one run with a property each.

