SPECIFICATION Spec
CONSTANTS
  t1 = t1
  t2 = t2
  t3 = t3
  o1 = o1
  o2 = o2
  g1 = g1
  g2 = g2
  g3 = g3
  g4 = g4
  Txns <- Three
  Objects = {o1, o2}
  Coins = {g1, g2, g3}
  SENTINEL = SENTINEL
  NoCoin = NoCoin
  NoItem = NoItem
  Mode = "coins"
  Uses <- Nothing
  Deferred <- Nothing
  MaxConcurrent = 2
  MaxRetries = 1
  ExitOnFailure = FALSE
  Threshold = 2
  CoinValue = 2
  InitialCoins <- TwoCoins
  InitialAmounts = {2, 3}
  GasCosts = {2}
  Splits = {0}
  Overhead = 1
  MaxBatch = 2
  MaxTracked = 8
  MaxPool = 4
  Events <- Disturbances
INVARIANTS
  CoinsExclusive
  InFlightBounded
CHECK_DEADLOCK FALSE
