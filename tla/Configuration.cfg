SPECIFICATION Spec
CONSTANTS
  g1 = g1
  g2 = g2
  p1 = p1
  p2 = p2
  k1 = k1
  k2 = k2
  a1 = a1
  a2 = a2
  s1 = s1
  s2 = s2
  u1 = u1
  u2 = u2
  GroupNames = {g1, g2}
  Profiles = {p1, p2}
  Keys = {k1, k2}
  Aliases = {a1, a2}
  NoName = NoName
  BadKey = BadKey
  Blocks <- SomeBlocks
  ProfileBlocks <- SomeProfileBlocks
  Imports <- SomeImports
  Sessions = {s1, s2}
  Claims = {u1, u2}
  NoJwt = NoJwt
  NoPair = NoPair
  MaxIdentities = 2
  MaxOps = 4
SYMMETRY Symmetric
INVARIANTS
  Aligned
  ActivesExist
  SignsWithOwnKey
  ProofBindsKey
PROPERTIES
  AliasesKeepTheirKeys
CHECK_DEADLOCK FALSE
