CONSTANTS
  AuthBase = 1        AuthMax = 2
  RateBase = 1        RateMax = 2
  BillBase = 1        BillMax = 2
  TransientFlat = 1   QuotaRest = 3
  MaxAuthCfg = 2      MaxRateCfg = 2
  MaxTransientCfg = 2 MaxBillCfg = 2
  QuotaLadder <- MCQuotaLadder
  k1 = k1  k2 = k2  k3 = k3
  Credentials = {k1, k2, k3}
  NoCred = NoCred
  Policies <- MCDefault
  Refusals <- MCRefusals
  Chain <- MCChain
  MaxAttempts = 3
  Streams = {TRUE, FALSE}
  Written = {TRUE, FALSE}
SPECIFICATION FairSpec
PROPERTIES OneAnswerSpec RestingNotAsked WalkSettles
CHECK_DEADLOCK FALSE
