CONSTANTS
  AuthBase = 1        AuthMax = 2
  RateBase = 1        RateMax = 2
  BillBase = 1        BillMax = 2
  TransientFlat = 1   QuotaRest = 3
  MaxAuthCfg = 2      MaxRateCfg = 2
  MaxTransientCfg = 2 MaxBillCfg = 2
  QuotaLadder <- MCQuotaLadder
  Policies <- MCDefault
  NoPlan = NoPlan     NoKey = NoKey
  Keys = {k1, k2}
  InitialKeys = {k1}
  KeyBacked = TRUE
  Calls = {}
  Probers = {p1}
  Operators = {o1}
  OperatorOps = {"add", "fields", "value", "status", "disable", "enable", "remove"}
  DisableWindows <- MCOneTick
  Rests <- MCNoWindow
  ProbeClasses = {"auth", "target"}
  ProbeDelays = {0}
  MaxErrs = 1
SPECIFICATION Spec
PROPERTIES SwitchHolds KeyFloorKept
