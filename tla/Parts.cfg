\* The instances are in MCParts. A part stops where its bounds stop it.
CONSTANTS
  Clients = {"c1", "c2"}
  Passwords = {"p", "q"}
  First = "p"
  Boots = {"b1", "b2"}
  MaxFails = 2
  LockTicks = 1
  SessionTicks = 1
  MaxChanges = 1
  MaxFaults = 1
  \* Two windows' worth of half seconds: a call may land before, in and after the last one.
  IssuedKeys = {"k1"}
  Panels = {"p1", "p2"}
  Callers = {"c1", "c2"}
  Limit = 2
  WindowTicks = 3
  MaxEdits = 2
  MaxCalls = 4
  MaxUses = 1
  Editors = {"e1", "e2"}
  Patches <- SentPatches
  MaxPatches = 3
  MaxDbFaults = 1
  \* A relay may fail over once; a call may run past the window.
  Requests = {"r1", "r2"}
  RelayLegs = 2
  DrawTicks = 2
  LandTicks = 1
  Longest = 3
  DrawLimit = 3
  MaxTimeouts = 1
  Calls = {"c1", "c2", "c3"}
  QueueDepth = 1
  MaxOutages = 1
  \* Two sign-ins, of the same person or of two, in two tabs.
  Rounds = {"g1", "g2"}
  People = {Ann, Bob}
  Tabs = {"t1", "t2"}
  MaxSignCalls = 3
  MaxTouches = 1
  MaxSignFaults = 1
  \* Two accounts of three keys and tokens; three legs, two at a time.
  Accounts <- Ranking
  HeldKeys <- StoredKeys
  Walkers = {"l1", "l2"}
  Sticky = 2
  MaxLegs = 3
  MaxFlips = 1
  \* One proxy edit between two plans; the client cache holds one client of three.
  Pool <- PoolOrder
  CacheTicks = 2
  ReadTicks = 1
  MaxClients = 1
  MaxAttempts = 2
  MaxPoolChanges = 1
  MaxPlans = 2
  \* Three members on two places.
  Size = 3
  FanLimit = 2
SPECIFICATION Spec
INVARIANTS
  RestSound SessionsVerified DoorSound WalkSound ResolvesMeaning RouteSound FusionSound
  ViewSound SettingsSound
PROPERTY SignInSound
CHECK_DEADLOCK FALSE
