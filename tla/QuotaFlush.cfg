CONSTANTS
  Meters = {w1}
  Units = {1}
  Replicas = {p1, p2}
  WindowTicks = 3
  BatchSize = 1
  Nobody = Nobody    Orphan = Orphan
  MaxBilled = 2
  MaxFailures = 1
  MaxStops = 1
SPECIFICATION FairSpec
PROPERTIES LedgerSpec RetiredIsDurable SpendSettles
CHECK_DEADLOCK FALSE
