SPECIFICATION FairSpec
CONSTANTS
  Txns = {t1, t2, t3}
  SENTINEL = SENTINEL
  Mode = "coins"
  Threshold = 2
  MaxRetries = 1
  ExitOnFailure = FALSE
  InitialTotals = {2, 3}
  Budget = 2
  GasCosts <- SomeGas
  Transfers <- SomeTransfers
  Refills = {1, 2}
  MergeGas = 1
  MaxBalance = 4
  Events <- Disturbances
PROPERTIES
  EveryFutureResolves
  CloseReturns
CHECK_DEADLOCK FALSE
