SPECIFICATION Spec
CONSTANTS
  t1 = t1
  t2 = t2
  t3 = t3
  o1 = o1
  o2 = o2
  g1 = g1
  g2 = g2
  g3 = g3
  g4 = g4
  Txns <- Three
  Objects = {o1, o2}
  Coins = {g1, g2, g3, g4}
  SENTINEL = SENTINEL
  NoCoin = NoCoin
  NoItem = NoItem
  Mode = "address"
  Uses <- Chain
  Deferred <- Chain
  MaxConcurrent = 2
  MaxRetries = 1
  ExitOnFailure = TRUE
  Threshold = 2
  CoinValue = 3
  InitialCoins <- NoCoins
  InitialAmounts = {2, 3}
  GasCosts = {1}
  Splits <- SomeSplits
  Overhead = 1
  MaxBatch = 2
  MaxTracked = 6
  MaxPool = 4
  Events <- Disturbances
INVARIANTS
  ParallelInv
  SkippedNeverAttempted
  ConflictsInOrder
  QuietIsClean
PROPERTY
  KeepsPromise
CHECK_DEADLOCK FALSE
