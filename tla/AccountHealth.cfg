CONSTANTS
  AuthBase = 1        AuthMax = 2
  RateBase = 1        RateMax = 2
  BillBase = 1        BillMax = 2
  TransientFlat = 1   QuotaRest = 3
  MaxAuthCfg = 2      MaxRateCfg = 2
  MaxTransientCfg = 2 MaxBillCfg = 2
  QuotaLadder <- MCQuotaLadder
  Policies <- MCDefault
  NoPlan = NoPlan
  Calls = {c1, c2}
  Probers = {b1}
  Operators = {b1}
  OperatorOps = {"fields", "status", "disable", "enable"}
  Buriers = {b1}
  Rests <- MCFailures
  DisableWindows <- MCOneTick
  MaxErrs = 2
SPECIFICATION FairSpec
PROPERTIES CallsKeepBreaker AccountHeals
