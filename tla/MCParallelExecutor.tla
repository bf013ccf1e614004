-------------------------- MODULE MCParallelExecutor --------------------------
(***************************************************************************)
(* Instances of ParallelExecutor for TLC: three transactions, independent  *)
(* or each sharing an owned object with the next.                          *)
(***************************************************************************)
EXTENDS ParallelExecutor, TLC

CONSTANTS t1, t2, t3, o1, o2, g1, g2, g3, g4

Three == {t1, t2, t3}

\* t1 and t2 use o1; t2 and t3 use o2.
Chain == t1 :> {o1} @@ t2 :> {o1, o2} @@ t3 :> {o2}

Nothing == [t \in Three |-> {}]

OneCoin == <<g1>>
TwoCoins == <<g1, g2>>
NoCoins == <<>>

\* A merge into the accumulator, nothing, a split.
SomeSplits == {-1, 0, 1}

Failures == {"build_fails", "execute_fails", "gas_fails", "cancel", "decline"}
Disturbances == {"build_fails", "execute_fails", "gas_fails", "cancel", "decline",
                 "callback_raises"}
===============================================================================
