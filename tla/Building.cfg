SPECIFICATION FairSpec
CONSTANTS
  t1 = t1
  t2 = t2
  t3 = t3
  t4 = t4
  pool = pool
  c1 = c1
  c2 = c2
  c3 = c3
  Tasks = {t1, t2, t3}
  Limits = {1, 2}
  Objects = {pool, c1, c2, c3}
  Shared <- SharedPool
  Balance <- Wallet
  MaxPayment = 2
  Budgets = {1, 4}
  Jobs <- SomeJobs
INVARIANTS
  BuildingInv
  ArgsMean
  OneInputEach
  BuiltIsCurrent
  PaymentCovers
  FewestCoins
PROPERTIES
  EveryTaskEnds
CHECK_DEADLOCK FALSE
