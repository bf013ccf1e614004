SPECIFICATION FairSpec
CONSTANTS
  c1 = c1
  c2 = c2
  Callers = {c1, c2}
  Kinds = {"objects", "package", "module", "transaction"}
  Objects = {1, 2, 3}
  Reservations = {2}
  PageSize = 1
  Modules = {1, 2, 3}
  Pages <- SomePages
  Timeout = 4
  PollInterval = 2
INVARIANTS
  ResultsComplete
PROPERTIES
  EveryCallEnds
CHECK_DEADLOCK FALSE
