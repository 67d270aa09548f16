CONSTANTS
  Calls = {c1, c2}
  Serialized = {c1, c2}
  Shapes <- AllShapes
  Nobody = Nobody
  WalkTicks = 3
  HeaderTicks = 4
  FirstByteTicks = 2
  IdleTicks = 1
  Attempts = 3
  MaxPOSTRetries = 1
  Waits = {0, 1, 3}
SPECIFICATION FairSpec
INVARIANTS OneInFlight PreCommitBounded
PROPERTIES TimeoutIsEarned CallsEnd
CHECK_DEADLOCK FALSE
