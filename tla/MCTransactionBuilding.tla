------------------------ MODULE MCTransactionBuilding ------------------------
(* Constants of TransactionBuilding for TLC. *)
EXTENDS TransactionBuilding, TLC

CONSTANTS t1, t2, t3, t4, pool, c1, c2, c3

\* pool is a shared object, the coins are the payer's.
Wallet == c1 :> 5 @@ c2 :> 3 @@ c3 :> 2
SharedPool == {pool}

SomeJobs ==
  {Call("f", <<ById(c1, FALSE), Pure(2)>>),
   Call("f", <<ById(pool, TRUE), ByReference(c1, FALSE)>>),
   Call("g", <<ByReference(pool, FALSE)>>),
   SplitGas(2),
   Build("coins", {}), Build("coins", {c2, c3}), Build("auto", {})}
==============================================================================
