SPECIFICATION Spec
CONSTANTS
  Txns = {t1, t2, t3}
  SENTINEL = SENTINEL
  Mode = "coins"
  Threshold = 2
  MaxRetries = 1
  ExitOnFailure = TRUE
  InitialTotals = {2, 3}
  Budget = 2
  GasCosts <- SomeGas
  Transfers <- SomeTransfers
  Refills = {1, 2}
  MergeGas = 1
  MaxBalance = 4
  Events <- Disturbances
INVARIANTS
  SkippedNeverAttempted
  DrainedAtExit
  StartsFunded
  SerialInv
PROPERTIES
  NothingAfterHalt
  KeepsPromise
CHECK_DEADLOCK FALSE
