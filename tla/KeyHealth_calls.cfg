CONSTANTS
  AuthBase = 1        AuthMax = 2
  RateBase = 1        RateMax = 2
  BillBase = 1        BillMax = 2
  TransientFlat = 1   QuotaRest = 3
  MaxAuthCfg = 2      MaxRateCfg = 2
  MaxTransientCfg = 2 MaxBillCfg = 2
  QuotaLadder <- MCQuotaLadder
  Policies <- MCDefault
  NoPlan = NoPlan     NoKey = NoKey
  Keys = {k1}
  InitialKeys = {k1}
  KeyBacked = TRUE
  Calls = {c1, c2}
  Probers = {p1}
  Operators = {}
  OperatorOps = {}
  DisableWindows <- MCNoWindow
  Rests <- MCTwoRests
  ProbeClasses = {"auth", "target"}
  ProbeDelays = {1}
  MaxErrs = 2
SPECIFICATION FairSpec
INVARIANT HealthConsistent
PROPERTIES ParkEndsByEvidence BreakerSpec ErrorHeals
