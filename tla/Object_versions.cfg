SPECIFICATION Spec
CONSTANTS
  o1 = o1
  o2 = o2
  t1 = t1
  t2 = t2
  Objects = {o1, o2}
  Txns = {t1, t2}
  Modes <- ModesBoth
  Features <- AllFeatures
  FirstVer = 8
  MaxVer = 11
  MaxEntries = 1
SYMMETRY Sym
INVARIANTS
  CacheExact
  OnlyPinsGoStale
  BehindOnlyAcrossWidth
PROPERTIES
  NothingRevived
CHECK_DEADLOCK FALSE
