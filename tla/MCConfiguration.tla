--------------------------- MODULE MCConfiguration ---------------------------
(* Constants of Configuration and ZkLoginSession for TLC. *)
EXTENDS ZkLoginSession, TLC

CONSTANTS g1, g2, p1, p2, k1, k2, a1, a2, s1, s2, u1, u2

\* One that repeats a key, one with a key string that is not valid.
Entry(k, a) == [key |-> k, alias |-> a]
SomeBlocks ==
  {<<Entry(k2, a2)>>, <<Entry(k2, a2), Entry(k1, a1)>>,
   <<Entry(k1, a1), Entry(k1, a2)>>, <<Entry(k1, a1), Entry(BadKey, a2)>>}

SomeImports == {<<Entry(k1, a1)>>}
SomeProfileBlocks == {<<p1>>, <<p1, p2, p1>>}

Symmetric == Permutations(GroupNames) \union Permutations(Sessions) \union Permutations(Claims)
==============================================================================
