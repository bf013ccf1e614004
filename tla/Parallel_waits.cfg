SPECIFICATION FairSpec
CONSTANTS
  t1 = t1
  t2 = t2
  t3 = t3
  o1 = o1
  o2 = o2
  g1 = g1
  g2 = g2
  g3 = g3
  g4 = g4
  Txns <- Three
  Objects = {o1, o2}
  Coins = {g1, g2, g3, g4}
  SENTINEL = SENTINEL
  NoCoin = NoCoin
  NoItem = NoItem
  Mode = "coins"
  Uses <- Nothing
  Deferred <- Nothing
  MaxConcurrent = 1
  MaxRetries = 1
  ExitOnFailure = FALSE
  Threshold = 2
  CoinValue = 2
  InitialCoins <- OneCoin
  InitialAmounts = {2, 3}
  GasCosts = {0}
  Splits = {0}
  Overhead = 1
  MaxBatch = 1
  MaxTracked = 9
  MaxPool = 4
  Events = {"gas_fails"}
PROPERTY
  CloseReturns
CHECK_DEADLOCK FALSE
