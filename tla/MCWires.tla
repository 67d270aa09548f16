------------------------------ MODULE MCWires ------------------------------
(***************************************************************************)
(* What the gateway and the vendors say to each other: answers that        *)
(* stream, the requests before them, the documents of published quota and  *)
(* the poller that asks for them.  As in MCParts, Init picks one part and  *)
(* the variables of the others stay Off.                                   *)
(***************************************************************************)
EXTENDS Integers, Sequences, FiniteSets, TLC

CONSTANTS
  Parts,   \* the parts a run checks
  letA, letB, letT, letX, letE, letO, letC, replica1, replica2, caller1, caller2, nobody,
  Pollers, Polled, Floors, PollRungs, PollCeiling, PollBudget, PollSlots, PollPage, PollCooldown,
  PollLease, MaxFailures, MaxWait, MaxCycle,                                                \* poll
  Callers, Holders, Exchanged, ServiceHolders, Offered, FirstOffer, Lifetimes, Buffer, ExchangeMax,
  IdentityTTL, CatalogTTL, MissTTL, FetchMax, MaxMisses, MaxNow, MaxAsks, MaxFlips, MaxMisfortunes, \* caches
  Panels, Watched, NodeIDs, NodePrefixes, BuiltInNames, ComboNames, AliasNames, FirstPrefixes,
  OverlayTTL, RebuildMax, MaxWrites, MaxStoreFaults                                         \* catalog

VARIABLES
  part,
  leg, mapper, state, up, told, phase, truncated,                      \* stream
  talk, pair, sent,                                                    \* turns
  family, account, asked, result,                                      \* meters
  row, cooling, lease, page, sweep, lastAsked, overtook, outlived, broken, \* poll
  clock, minted, known, configs, misses, reading, call, listed, seen, flips,
  asks, misfortunes,  \* caches
  nodes, combos, aliases, cached, builder, op, version, answered, padded, faults,
  writes, sound,  \* catalog
  disabled, resting, jobs, held, mediaCall, ended, mediaCalls, mediaFaults  \* media

-----------------------------------------------------------------------------
(* Streamed answers: two letters, one marker of two letters that fragments *)
(* may split.                                                              *)
Stream == INSTANCE AnswerStream WITH
  Opening <- letO, Closing <- letC, Markers <- {<<letA, letB>>},
  Clients <- {"chat", "messages", "responses"},
  Sources <- {"openai", "claude", "responses", "gemini"},
  Fragments <- {<<letA>>, <<letB>>, <<letB, letA>>},
  Tagged <- {<<letO, letB>>, <<letB, letC>>, <<letA, letC, letA>>},
  Thought <- <<letT>>, Argument <- <<letX>>, Trouble <- <<letE>>,
  MaxFragments <- 3, MaxStated <- 2, MaxCalls <- 2, MaxBlocks <- 2

-----------------------------------------------------------------------------
(* Conversations, as the clients write them and the upstreams read them.   *)

Says(by, pieces) == [by |-> by, says |-> pieces, think |-> FALSE, calls |-> <<>>, next |-> "none"]
Replies(thinks, pieces, made, nexts) ==
  {[by |-> "assistant", says |-> pieces, think |-> thinks, calls |-> made, next |-> then] : then \in nexts}
Asks(id, name) == [id |-> id, name |-> name]
Then == {"none", "results", "text"}
\* Ids and names that repeat, are too long, hold marks no vendor takes, or are missing.
Shapes ==
  {Says("system", <<"billing", "text">>), Says("user", <<"text">>),
   Says("user", <<"broken", "text", "image">>)}
  \union Replies(TRUE, <<"text">>, <<>>, {"none"}) \union Replies(TRUE, <<>>, <<>>, {"none"})
  \union Replies(FALSE, <<"text">>, <<Asks(<<"c">>, <<"f">>)>>, Then)
  \union Replies(TRUE, <<>>, <<Asks(<<"c">>, <<"f">>), Asks(<<"d">>, <<"9", "x", "y">>)>>, Then)
  \union Replies(TRUE, <<"blank">>, <<Asks(<<"c", "-", "2">>, <<"g", "/">>)>>, Then)
  \union Replies(TRUE, <<>>, <<Asks(<<"c">>, <<>>)>>, {"results", "text"})
  \union Replies(FALSE, <<>>, <<Asks(<<"l", "l", "l", "l">>, <<"f">>), Asks(<<"z">>, <<>>)>>, Then)
Talks == INSTANCE RequestTurns WITH
  ResponsesCallIDMaxLen <- 3, GeminiMaxFunctionNameLen <- 3,
  Letters <- {"f", "g", "x", "y", "c", "d", "z", "l"}, Digits <- {"9", "2"}, Marks <- {"-"},
  TurnShapes <- Shapes, MaxTurns <- 3

-----------------------------------------------------------------------------
(* Quota documents: meters of four, from untouched to overdrawn.           *)
AllFamilies == {"claude", "minimax", "commandcode", "codebuddy", "deepseek", "github", "glm", "groq",
                "kimi", "opencode", "qoder", "zed", "gemini", "antigravity", "grok"}
Meters == INSTANCE VendorMeters WITH
  Families <- AllFamilies, Full <- 4,
  Uses <- [f \in AllFamilies |->
             IF f \in {"antigravity", "codebuddy"} THEN {1, 4} ELSE {0, 1, 4, 5}]

-----------------------------------------------------------------------------
(* The poller: two replicas, a fast and a slow account, one asked a sweep. *)
Poll == INSTANCE PublishedPoll WITH
  asked <- lastAsked,
  Replicas <- Pollers, Accounts <- Polled, Floor <- Floors, Rungs <- PollRungs,
  Ceiling <- PollCeiling, Budget <- PollBudget, Concurrency <- PollSlots, PageSize <- PollPage,
  Cooldown <- PollCooldown, LeaseTicks <- PollLease, MaxRun <- MaxFailures,
  MaxOverdue <- MaxWait, MaxAge <- MaxCycle
TwoFloors == <<1, 2>>
TwoRungs == <<1, 2>>

-----------------------------------------------------------------------------
(* What connectors keep: an account whose token is exchanged, one with a    *)
(* device token and a service account, one model listed for the first.  A   *)
(* token lives one tick longer than the buffer, a miss and a configuration  *)
(* one tick, a read may take one.                                           *)
Caches == INSTANCE ConnectorCaches WITH
  NoCaller <- nobody, Accounts <- Holders, Personal <- Exchanged, Service <- ServiceHolders,
  Models <- Offered, FirstListed <- FirstOffer, Lives <- Lifetimes, MaxFaults <- MaxMisfortunes
ListedFirst == [a \in Holders |-> IF a = "a" THEN {"m"} ELSE {}]
StatedLives == {[by |-> "in", ticks |-> 3]}

-----------------------------------------------------------------------------
(* Names: one node stored, its prefix and a built-in name to ask for, one    *)
(* combo and one alias; one replica watched, its overlay lives one tick.     *)
Catalog == INSTANCE NodeCatalog WITH
  Actors <- Panels, NoActor <- nobody, Replicas <- Watched, Nodes <- NodeIDs,
  Prefixes <- NodePrefixes, BuiltIn <- BuiltInNames, Combos <- ComboNames, Aliases <- AliasNames,
  FirstNodes <- FirstPrefixes, MaxFaults <- MaxStoreFaults
StoredFirst == [n \in NodeIDs |-> "p"]

-----------------------------------------------------------------------------
(* Media: two accounts, every format and video vendor, one call that may be *)
(* a poll of the job another created, one store that fails.                 *)
Media == INSTANCE MediaCalls WITH
  off <- disabled, parked <- resting, call <- mediaCall, last <- ended, calls <- mediaCalls,
  faults <- mediaFaults,
  Accounts <- {caller1, caller2}, Nobody <- nobody,
  Vendors <- {"xai", "agnes", "openrouter", "tokenrouter", "vertex"}, MaxCalls <- 2, MaxFaults <- 1

ASSUME WiresAssumption ==
  /\ Talks!RequestTurnsAssumption /\ Meters!VendorMetersAssumption /\ Poll!PublishedPollAssumption
  /\ Caches!ConnectorCachesAssumption
  /\ Catalog!NodeCatalogAssumption
  /\ Media!MediaCallsAssumption

\* Replicas and callers are told apart by nothing.
Alike == Permutations({replica1, replica2}) \union Permutations({caller1, caller2})

-----------------------------------------------------------------------------
Off == "off"
StreamOff ==
  /\ leg = Off /\ mapper = Off /\ state = Off /\ up = Off /\ told = Off /\ phase = Off
  /\ truncated = Off
TalksOff == talk = Off /\ pair = Off /\ sent = Off
MetersOff == family = Off /\ account = Off /\ asked = Off /\ result = Off
PollOff ==
  /\ row = Off /\ cooling = Off /\ lease = Off /\ page = Off /\ sweep = Off
  /\ lastAsked = Off /\ overtook = Off /\ outlived = Off /\ broken = Off
CachesOff ==
  /\ clock = Off /\ minted = Off /\ known = Off /\ configs = Off /\ misses = Off /\ reading = Off
  /\ call = Off /\ listed = Off /\ seen = Off /\ flips = Off /\ asks = Off /\ misfortunes = Off
CatalogOff ==
  /\ nodes = Off /\ combos = Off /\ aliases = Off /\ cached = Off /\ builder = Off
  /\ op = Off /\ version = Off /\ answered = Off /\ padded = Off /\ faults = Off
  /\ writes = Off /\ sound = Off
MediaOff ==
  /\ disabled = Off /\ resting = Off /\ jobs = Off /\ held = Off /\ mediaCall = Off
  /\ ended = Off /\ mediaCalls = Off /\ mediaFaults = Off

StillStream == UNCHANGED <<leg, mapper, state, up, told, phase, truncated>>
StillTalks == UNCHANGED <<talk, pair, sent>>
StillMeters == UNCHANGED <<family, account, asked, result>>
StillPoll == UNCHANGED <<row, cooling, lease, page, sweep, lastAsked, overtook, outlived, broken>>
StillCaches == UNCHANGED <<clock, minted, known, configs, misses, reading, call, listed, seen,
  flips, asks, misfortunes>>
StillCatalog == UNCHANGED <<nodes, combos, aliases, cached, builder, op, version,
  answered, padded, faults, writes, sound>>
StillMedia == UNCHANGED <<disabled, resting, jobs, held, mediaCall, ended, mediaCalls,
  mediaFaults>>

OthersOff(p) ==
  /\ IF p = "stream" THEN TRUE ELSE StreamOff
  /\ IF p = "turns" THEN TRUE ELSE TalksOff
  /\ IF p = "meters" THEN TRUE ELSE MetersOff
  /\ IF p = "poll" THEN TRUE ELSE PollOff
  /\ IF p = "caches" THEN TRUE ELSE CachesOff
  /\ IF p = "catalog" THEN TRUE ELSE CatalogOff
  /\ IF p = "media" THEN TRUE ELSE MediaOff
OthersStill(p) ==
  /\ IF p = "stream" THEN TRUE ELSE StillStream
  /\ IF p = "turns" THEN TRUE ELSE StillTalks
  /\ IF p = "meters" THEN TRUE ELSE StillMeters
  /\ IF p = "poll" THEN TRUE ELSE StillPoll
  /\ IF p = "caches" THEN TRUE ELSE StillCaches
  /\ IF p = "catalog" THEN TRUE ELSE StillCatalog
  /\ IF p = "media" THEN TRUE ELSE StillMedia

Picked ==
  \/ part = "stream" /\ Stream!Init /\ OthersOff("stream")
  \/ part = "turns" /\ Talks!Init /\ OthersOff("turns")
  \/ part = "meters" /\ Meters!Init /\ OthersOff("meters")
  \/ part = "poll" /\ Poll!Init /\ OthersOff("poll")
  \/ part = "caches" /\ Caches!Init /\ OthersOff("caches")
  \/ part = "catalog" /\ Catalog!Init /\ OthersOff("catalog")
  \/ part = "media" /\ Media!Init /\ OthersOff("media")
Init == part \in Parts /\ Picked
Next ==
  \/ part = "stream" /\ Stream!Next /\ UNCHANGED part /\ OthersStill("stream")
  \/ part = "turns" /\ Talks!Next /\ UNCHANGED part /\ OthersStill("turns")
  \/ part = "meters" /\ Meters!Next /\ UNCHANGED part /\ OthersStill("meters")
  \/ part = "poll" /\ Poll!Next /\ UNCHANGED part /\ OthersStill("poll")
  \/ part = "caches" /\ Caches!Next /\ UNCHANGED part /\ OthersStill("caches")
  \/ part = "catalog" /\ Catalog!Next /\ UNCHANGED part /\ OthersStill("catalog")
  \/ part = "media" /\ Media!Next /\ UNCHANGED part /\ OthersStill("media")

wiresVars ==
  <<part, leg, mapper, state, up, told, phase, truncated, talk, pair, sent, family, account,
    asked, result, row, cooling, lease, page, sweep, lastAsked, overtook, outlived, broken,
    clock, minted, known, configs, misses, reading, call, listed, seen, flips, asks,
    misfortunes, nodes, combos, aliases, cached, builder, op, version, answered, padded,
    faults, writes, sound, disabled, resting, jobs, held, mediaCall, ended, mediaCalls,
    mediaFaults>>
Spec == Init /\ [][Next]_wiresVars

-----------------------------------------------------------------------------
\* AnswerStream: whatever the upstream sends and wherever it stops, the client reads a stream
\* of its own protocol, but that tool blocks of a messages client stay open behind the blocks
\* opened after them (dataplane/translate_stream_*.go), a stream is called truncated exactly
\* when the body ended before its own terminal event (engine_stream.go), and every tool call
\* the client is told to dispatch is whole (translate_responses_answer.go responsesFinishReason).
StreamSound == part = "stream" => Stream!StreamSound
\* AnswerStream: the client is shown the answer up to the stop marker, the reasoning, and
\* each call's arguments, whatever fragments the vendor cut them into (stop_sequence.go).
AnswerPreserved == part = "stream" => Stream!AnswerPreserved

\* RequestTurns: a conversation any client holds reaches any upstream whole, in an order that
\* vendor takes, each result with the call it answers (dataplane/translate_*.go).
TurnsSound == part = "turns" => Talks!TurnsSound

\* VendorMeters: the card shows each meter the vendor states, with what is really used of it,
\* and a poll counts as failed when the vendor failed (service/quotafetch).
QuotaSound == part = "meters" => Meters!MetersSound

\* PublishedPoll: no vendor is asked inside its floor, the budget rotates over the fleet, and an
\* account that fails rests its step of the ladder (service/quota_published_worker.go).
PollSound == part = "poll" => Poll!TypeOK /\ Poll!PollSound

\* ConnectorCaches: a model a connector calls listed was listed for that account within the copy's
\* age, one it refuses was off the list, or left out of a body the vendor answered with 200, one
\* read per account answers everybody who waits, and a reused token lasts
\* (provider/qoder_catalog_lookup.go, qoder_jobtoken.go, vertex_token.go).
CachesSound == part = "caches" => Caches!CachesSound

\* NodeCatalog: a lookup serves what this replica's panel wrote before it unless the last rebuild
\* failed; a rebuild fails only on a read that failed or on a row a PATCH stored with blanks
\* around its prefix; and a node or combo nobody wrote around is erased with nothing naming it
\* (cmd/app-serv/provider_index.go, service/provider_node.go).
CatalogSound == part = "catalog" => Catalog!CatalogSound

\* MediaCalls: a failure inside a 200 is the vendor's, never the credential's; a usage row says
\* what the client was told, but for an image or a search, whose answer is decoded after the row
\* was written, so one that cannot be decoded is already a success (service/media_search.go:65-69,
\* media_image.go:40); a poll reads the job its id was handed out for, on that job's account
\* (service/media_perform.go, media_video.go).
MediaSound == part = "media" => Media!MediaSound
=============================================================================
