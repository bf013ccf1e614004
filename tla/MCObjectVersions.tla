--------------------------- MODULE MCObjectVersions ---------------------------
(* Constants of ObjectVersions for TLC. *)
EXTENDS ObjectVersions, TLC

CONSTANTS o1, o2, t1, t2

ModesBoth == {"serial", "parallel"}
AllFeatures == {"references", "lost", "share", "delete", "peek", "foreign", "registry"}
Sym == Permutations(Objects) \union Permutations(Txns)
==============================================================================
