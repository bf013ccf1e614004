SPECIFICATION FairSpec
CONSTANTS
  Callers = {c1, c2, c3}
  Objects = {o1, o2}
INVARIANTS
  MutualExclusion
  SomeoneCanRun
  TrackerInv
PROPERTIES
  NoOvertaking
  EveryClaimGranted
CHECK_DEADLOCK FALSE
