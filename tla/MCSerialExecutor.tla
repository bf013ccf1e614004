--------------------------- MODULE MCSerialExecutor ---------------------------
(***************************************************************************)
(* Instances of SerialExecutor for TLC.                                    *)
(***************************************************************************)
EXTENDS SerialExecutor

Disturbances == {"cancel", "late_submit", "callback_raises", "lost_reply"}

\* Gas costs with a rebate, transfers out of and into the gas coin.
SomeGas == {-1, 1, 2}
SomeTransfers == {-2, 0, 1}
===============================================================================
