\* The instances are in MCWires. A part stops where its bounds stop it.
CONSTANTS
  Parts = {"stream", "turns", "meters", "poll", "caches", "catalog", "media"}
  letA = letA
  letB = letB
  letT = letT
  letX = letX
  letE = letE
  letO = letO
  letC = letC
  replica1 = replica1
  replica2 = replica2
  caller1 = caller1
  caller2 = caller2
  nobody = nobody
  Pollers = {replica1, replica2}
  Polled = {1, 2}
  Floors <- TwoFloors
  PollRungs <- TwoRungs
  PollCeiling = 2
  PollBudget = 1
  PollSlots = 1
  PollPage = 1
  PollCooldown = 1
  PollLease = 2
  MaxFailures = 2
  MaxWait = 1
  MaxCycle = 1
  Callers = {caller1, caller2}
  Holders = {"a", "b", "s"}
  Exchanged = {"a", "s"}
  ServiceHolders = {"s"}
  Offered = {"m"}
  FirstOffer <- ListedFirst
  Lifetimes <- StatedLives
  Buffer = 2
  ExchangeMax = 1
  IdentityTTL = 1
  CatalogTTL = 1
  MissTTL = 1
  FetchMax = 1
  MaxMisses = 1
  MaxNow = 3
  MaxAsks = 2
  MaxFlips = 1
  MaxMisfortunes = 1
  Panels = {caller1, caller2}
  Watched = {replica1}
  NodeIDs = {"n"}
  NodePrefixes = {"p", "b"}
  BuiltInNames = {"b"}
  ComboNames = {"c"}
  AliasNames = {"x"}
  FirstPrefixes <- StoredFirst
  OverlayTTL = 1
  RebuildMax = 1
  MaxWrites = 2
  MaxStoreFaults = 1
SPECIFICATION Spec
INVARIANTS StreamSound AnswerPreserved TurnsSound QuotaSound PollSound CachesSound CatalogSound MediaSound
SYMMETRY Alike
CHECK_DEADLOCK FALSE
