---------------------------- MODULE SerialExecutor ----------------------------
(***************************************************************************)
(* The serial transaction executor (executors/serial_executor.py): submit, *)
(* close, the background processor task with its retries, replenishment    *)
(* through on_balance_low, hard stop, and the gas bookkeeping of           *)
(* SerialQueueProcessor.                                                   *)
(*                                                                         *)
(* Coroutines interleave only where one suspends.  The processor task      *)
(* suspends in queue.get() on an empty queue, while a transaction is       *)
(* built, while it is executed, in the on_balance_low callback and while   *)
(* funds are added; everything between two suspensions is one action.      *)
(* The balances are in an abstract unit; `coin' is what the chain holds    *)
(* in the managed gas coin (COINS) or in the address accumulator           *)
(* (ADDRESS_BALANCE).                                                      *)
(***************************************************************************)
EXTENDS Integers, Sequences

CONSTANTS
  Txns,           \* the transactions of the run, each submitted at most once
  SENTINEL,       \* _SENTINEL, the shutdown marker of the queue
  Mode,           \* options.gas_mode: "coins" or "address"
  Threshold,      \* options.min_threshold_balance
  MaxRetries,     \* options.max_retries
  ExitOnFailure,  \* options.on_failure = "exit"
  InitialTotals,  \* possible balances of the coins selected at start
  Budget,         \* the gas budget a transaction must be able to cover
  GasCosts,       \* net gas of an executed transaction (a rebate is negative)
  Transfers,      \* what its commands take out of txn.gas (a merge is negative)
  Refills,        \* amounts on_balance_low may provide
  MergeGas,       \* net gas of the transaction that merges coins
  MaxBalance,     \* bound on the balances
  Events          \* the disturbances the environment may cause, out of
                  \* "cancel", "late_submit", "callback_raises", "lost_reply"

ASSUME ModeAssumption == Mode \in {"coins", "address"}
ASSUME SentinelAssumption == SENTINEL \notin Txns
ASSUME NumbersAssumption ==
  /\ {Threshold, MaxRetries, Budget, MergeGas, MaxBalance} \subseteq Nat
  /\ InitialTotals \subseteq {n \in Nat : n >= Threshold /\ n >= MergeGas}
  /\ Refills \subseteq Nat
  /\ GasCosts \subseteq Int /\ Transfers \subseteq Int
ASSUME OptionsAssumption == ExitOnFailure \in BOOLEAN

VARIABLES
  fut,        \* the future of each transaction
  order,      \* history: the transactions in submission order
  halted,     \* _dead
  queue,      \* _queue
  closing,    \* _closing
  pc,         \* where the processor task is suspended, or how it ended
  cur,        \* the item being processed (the last one between items)
  retries,    \* item.retry_count
  tracked,    \* _tracked_balance
  coin,       \* the balance on chain
  behind,     \* _gas_summary names an old version of the gas coin
  attempted,  \* history: transactions handed to client.execute
  late        \* history: transactions queued after close()

worker == <<pc, cur, retries>>
gas == <<tracked, coin, behind>>
vars == <<fut, order, halted, queue, closing, pc, cur, retries,
          tracked, coin, behind, attempted, late>>

INSTANCE ExecutorPromise WITH InOrder <- TRUE

Ended == {"done", "crashed"}

TypeOK ==
  /\ fut \in [Txns -> FutureStates]
  /\ order \in Seq(Txns)
  /\ queue \in Seq(Txns \union {SENTINEL})
  /\ halted \in BOOLEAN /\ closing \in BOOLEAN /\ behind \in BOOLEAN
  /\ pc \in {"get", "build", "execute", "callback", "fund"} \union Ended
  /\ cur \in Txns \union {SENTINEL}
  /\ retries \in 0..MaxRetries
  /\ tracked \in Nat /\ coin \in Nat
  /\ attempted \in SUBSET Txns /\ late \in SUBSET Txns

(***************************************************************************)
(* _initialize: coins worth at least the threshold are selected; in COINS  *)
(* mode several coins are first merged into the primary, which costs gas.  *)
(***************************************************************************)
Init ==
  /\ fut = [t \in Txns |-> "none"]
  /\ order = <<>> /\ queue = <<>>
  /\ halted = FALSE /\ closing = FALSE
  /\ pc = "get" /\ cur = SENTINEL /\ retries = 0
  /\ \E total \in InitialTotals, merged \in BOOLEAN :
       coin = IF Mode = "coins" /\ merged THEN total - MergeGas ELSE total
  /\ tracked = coin
  /\ behind = FALSE
  /\ attempted = {} /\ late = {}
------------------------------------------------------------------------------
(***************************************************************************)
(* The holders of the executor and of its futures.                         *)
(***************************************************************************)

\* Mutant of Submit: a halted executor still queues.
SubmitAlways(t) ==
  /\ fut[t] = "none"
  /\ closing /\ ~halted => "late_submit" \in Events
  /\ fut' = [fut EXCEPT ![t] = "pending"]
  /\ queue' = Append(queue, t)
  /\ late' = IF closing /\ ~halted THEN late \union {t} ELSE late
  /\ order' = Append(order, t)
  /\ UNCHANGED <<halted, closing, worker, gas, attempted>>

\* _submit_one: only _dead is looked at, not _closing.
Submit(t) ==
  /\ fut[t] = "none"
  /\ closing /\ ~halted => "late_submit" \in Events
  /\ fut' = [fut EXCEPT ![t] = IF halted THEN "skipped" ELSE "pending"]
  /\ queue' = IF halted THEN queue ELSE Append(queue, t)
  /\ late' = IF closing /\ ~halted THEN late \union {t} ELSE late
  /\ order' = Append(order, t)
  /\ UNCHANGED <<halted, closing, worker, gas, attempted>>

\* The caller's task is cancelled or times out while it awaits the future.
CancelFuture(t) ==
  /\ "cancel" \in Events
  /\ fut[t] = "pending"
  /\ fut' = [fut EXCEPT ![t] = "cancelled"]
  /\ UNCHANGED <<order, halted, queue, closing, worker, gas, attempted, late>>

\* close() puts the sentinel once and then waits for the processor task.
Close ==
  /\ ~closing
  /\ closing' = TRUE
  /\ queue' = Append(queue, SENTINEL)
  /\ UNCHANGED <<fut, order, halted, worker, gas, attempted, late>>
------------------------------------------------------------------------------
(***************************************************************************)
(* Hard stop and the settling of the current item.                         *)
(***************************************************************************)

\* Positions of queued items whose future is already cancelled in f.
Refusing(f) == {i \in 1..Len(queue) : queue[i] \in Txns /\ f[queue[i]] = "cancelled"}

\* Mutant of Drained: a hard stop does not drain the queue.
DrainedNothing(f) == {t \in Txns : FALSE /\ f[t] = "pending"}

\* Queued transactions that the drain loop reaches.
Drained(f) ==
  {queue[i] : i \in {k \in 1..Len(queue) : \A j \in Refusing(f) : k < j}} \ {SENTINEL}

\* Mutant of HardStop: the executor is marked dead and goes on with its queue.
HardStopLater(f) ==
  /\ halted' = TRUE
  /\ fut' = f
  /\ pc' = "get"
  /\ UNCHANGED queue

(***************************************************************************)
(* _hard_stop, from a state where the futures are f.  set_result on a      *)
(* cancelled future raises InvalidStateError out of the drain loop and     *)
(* ends the processor task.  Otherwise the task takes the sentinel that    *)
(* was just queued, and ends, before anything else runs.                   *)
(***************************************************************************)
HardStop(f) ==
  /\ halted' = TRUE
  /\ fut' = [t \in Txns |-> IF t \in Drained(f) THEN "skipped" ELSE f[t]]
  /\ IF Refusing(f) = {}
     THEN queue' = <<>> /\ pc' = "done"
     ELSE /\ pc' = "crashed"
          /\ \E i \in Refusing(f) :
               /\ \A j \in Refusing(f) : i <= j
               /\ queue' = SubSeq(queue, i + 1, Len(queue))

\* An exception leaves the processor loop; the executor is not marked dead.
Crash ==
  /\ pc' = "crashed"
  /\ UNCHANGED <<fut, queue, halted>>

\* item.future.set_result(r), then a hard stop or on to `next'.
Finish(r, stop, next) ==
  LET settled == [fut EXCEPT ![cur] = r] IN
  IF fut[cur] = "cancelled" THEN Crash
  ELSE IF stop THEN HardStop(settled)
  ELSE fut' = settled /\ pc' = next /\ UNCHANGED <<queue, halted>>

\* The item is waiting for funds to be tried again, its future still open.
Retrying == fut[cur] # "ok"

\* Mutant of Refused: the item waiting for its retry is skipped too.
RefusedSkips ==
  IF Retrying THEN Finish("skipped", TRUE, "get") ELSE HardStop(fut)

\* _replenish() returned False.
Refused ==
  IF Retrying THEN Finish("exec_error", TRUE, "get") ELSE HardStop(fut)
------------------------------------------------------------------------------
(***************************************************************************)
(* The processor task.                                                     *)
(***************************************************************************)

\* Mutant of Get: the sentinel does not end the loop.
GetPastSentinel ==
  /\ pc = "get" /\ queue # <<>>
  /\ queue' = Tail(queue)
  /\ IF Head(queue) = SENTINEL
     THEN UNCHANGED <<pc, cur, retries>>
     ELSE pc' = "build" /\ cur' = Head(queue) /\ retries' = 0
  /\ UNCHANGED <<fut, order, halted, closing, gas, attempted, late>>

\* _processor_loop takes the next item, or the sentinel and ends.
Get ==
  /\ pc = "get" /\ queue # <<>>
  /\ queue' = Tail(queue)
  /\ IF Head(queue) = SENTINEL
     THEN pc' = "done" /\ UNCHANGED <<cur, retries>>
     ELSE pc' = "build" /\ cur' = Head(queue) /\ retries' = 0
  /\ UNCHANGED <<fut, order, halted, closing, gas, attempted, late>>

Build ==
  /\ pc = "build"
  /\ pc' = "execute"
  /\ attempted' = attempted \union {cur}
  /\ UNCHANGED <<fut, order, halted, queue, closing, cur, retries, gas, late>>

BuildFails ==
  /\ pc = "build"
  /\ Finish("build_error", ExitOnFailure, "get")
  /\ UNCHANGED <<order, closing, cur, retries, gas, attempted, late>>

\* The chain executes a transaction with net gas g that takes x from the coin.
ChainExecutes(g, x) ==
  /\ ~behind
  /\ coin >= Budget
  /\ coin' = coin - g - x
  /\ coin' \in 0..MaxBalance

\* Mutant of Deduct: no clamping at 0.
DeductAll(balance, g) == balance - g

\* update_tracked_balance
Deduct(balance, g) == IF g > balance THEN 0 ELSE balance - g

\* The test at the end of process(): NEED_FUNDS.
NeedsFunds(balance) == balance > 0 /\ balance < Threshold

(***************************************************************************)
(* client.execute succeeds; the effects update the gas coin reference and  *)
(* the tracked balance before the future is settled.                       *)
(***************************************************************************)
ExecuteOk ==
  \E g \in GasCosts, x \in Transfers :
    /\ pc = "execute"
    /\ ChainExecutes(g, x)
    /\ tracked' = Deduct(tracked, g)
    /\ tracked' <= MaxBalance
    /\ behind' = FALSE
    /\ Finish("ok", FALSE, IF NeedsFunds(tracked') THEN "callback" ELSE "get")
    /\ UNCHANGED <<order, closing, cur, retries, attempted, late>>

\* "insufficient gas": ask for funds and try again, at most MaxRetries times.
OutOfGas ==
  /\ pc = "execute"
  /\ ~behind /\ coin < Budget
  /\ IF retries >= MaxRetries
     THEN Finish("exec_error", TRUE, "get")
     ELSE pc' = "callback" /\ UNCHANGED <<fut, queue, halted>>
  /\ UNCHANGED <<order, closing, cur, retries, gas, attempted, late>>

\* Any other failure reported for the execution.
ExecuteFails ==
  /\ pc = "execute"
  /\ Finish("exec_error", ExitOnFailure, "get")
  /\ UNCHANGED <<order, closing, cur, retries, gas, attempted, late>>

\* The chain executed the transaction, but the reply was lost.
ReplyLost ==
  \E g \in GasCosts, x \in Transfers :
    /\ "lost_reply" \in Events
    /\ pc = "execute"
    /\ ChainExecutes(g, x)
    /\ behind' = (Mode = "coins")
    /\ Finish("exec_error", ExitOnFailure, "get")
    /\ UNCHANGED <<order, closing, cur, retries, tracked, attempted, late>>

\* on_balance_low returned coins; add_funds starts.
CallbackOk ==
  /\ pc = "callback"
  /\ pc' = "fund"
  /\ UNCHANGED <<fut, order, halted, queue, closing, cur, retries, gas,
                 attempted, late>>

\* on_balance_low is None, or returned nothing.
CallbackDeclines ==
  /\ pc = "callback"
  /\ Refused
  /\ UNCHANGED <<order, closing, cur, retries, gas, attempted, late>>

\* The await of on_balance_low is outside the try block of run_replenishment.
CallbackRaises ==
  /\ "callback_raises" \in Events
  /\ pc = "callback"
  /\ Crash
  /\ UNCHANGED <<order, closing, cur, retries, gas, attempted, late>>

\* Mutant of AddFunds, in COINS mode: any amount will do.
AddFundsAny(a) ==
  /\ ~behind /\ coin >= MergeGas
  /\ coin' = coin + a - MergeGas
  /\ tracked' = coin'
  /\ behind' = FALSE

(***************************************************************************)
(* add_funds.  COINS: coins worth at least the threshold are merged into   *)
(* the gas coin by a transaction that this coin pays for, and the tracked  *)
(* balance is read back from it.  ADDRESS_BALANCE: one of the coins is     *)
(* sent to the accumulator, and its amount added to the tracked balance.   *)
(***************************************************************************)
AddFunds(a) ==
  IF Mode = "coins"
  THEN /\ a >= Threshold
       /\ ~behind /\ coin >= MergeGas
       /\ coin' = coin + a - MergeGas
       /\ tracked' = coin'
       /\ behind' = FALSE
  ELSE /\ coin' = coin + a
       /\ tracked' = tracked + a
       /\ UNCHANGED behind

FundOk ==
  \E a \in Refills :
    /\ pc = "fund"
    /\ AddFunds(a)
    /\ {coin', tracked'} \subseteq 0..MaxBalance
    /\ IF Retrying THEN pc' = "build" /\ retries' = retries + 1
                   ELSE pc' = "get" /\ UNCHANGED retries
    /\ UNCHANGED <<fut, order, halted, queue, closing, cur, attempted, late>>

\* add_funds raised: bad coins, too little, or its transaction failed.
FundFails ==
  /\ pc = "fund"
  /\ Refused
  /\ UNCHANGED <<order, closing, cur, retries, gas, attempted, late>>

Processor ==
  \/ Get
  \/ Build \/ BuildFails
  \/ ExecuteOk \/ OutOfGas \/ ExecuteFails \/ ReplyLost
  \/ CallbackOk \/ CallbackDeclines \/ CallbackRaises
  \/ FundOk \/ FundFails

Next ==
  \/ \E t \in Txns : Submit(t) \/ CancelFuture(t)
  \/ Close
  \/ Processor

Spec == Init /\ [][Next]_vars

\* The node answers every request and on_balance_low returns or raises.
FairSpec == Spec /\ WF_vars(Processor)
------------------------------------------------------------------------------
(***************************************************************************)
(* The serial executor keeps the promise made with a future, in submission *)
(* order: the oldest pending future is the one that gets a result.         *)
(***************************************************************************)
KeepsPromise == PromiseSpec

(***************************************************************************)
(* ExecutionSkipped means that the transaction was not attempted: it was   *)
(* never handed to the node, so the caller may submit it elsewhere.        *)
(***************************************************************************)
SkippedNeverAttempted ==
  \A t \in Txns : fut[t] = "skipped" => t \notin attempted

(***************************************************************************)
(* When the processor task has ended by itself (sentinel or hard stop), no *)
(* future is left open except those of items queued behind the sentinel.   *)
(***************************************************************************)
DrainedAtExit ==
  pc = "done" => \A t \in Txns : fut[t] = "pending" => t \in late

(***************************************************************************)
(* COINS mode: once a transaction has succeeded, the next one starts (or a *)
(* retry restarts) with a tracked balance at the threshold or above, since *)
(* on_balance_low is asked first.  A balance of exactly 0 is not reported: *)
(* process() tests for more than 0 and less than the threshold.            *)
(***************************************************************************)
StartsFunded ==
  Mode = "coins" /\ pc \in {"build", "execute"} /\ (\E t \in Txns : fut[t] = "ok")
    => tracked >= Threshold \/ tracked = 0

(***************************************************************************)
(* A hard stop is final: a dead executor hands nothing to the node any     *)
(* more and moves no funds, whatever was queued, retried or submitted.     *)
(***************************************************************************)
NothingAfterHalt == [][halted => UNCHANGED <<attempted, coin, pc>>]_vars

(***************************************************************************)
(* The invariant behind SkippedNeverAttempted and NothingAfterHalt.  A     *)
(* queued transaction was never tried, is open or withdrawn, and is queued *)
(* once; the item being processed has left the queue and is not skipped;   *)
(* an item that waits for funds to be tried again has a try left; a dead   *)
(* executor's processor task has ended.                                    *)
(***************************************************************************)
Waits(t) == \E i \in 1..Len(queue) : queue[i] = t

Busy == pc \in {"build", "execute", "callback", "fund"}

QueuedUntried ==
  \A t \in Txns : Waits(t) => fut[t] \in {"pending", "cancelled"} /\ t \notin attempted

QueuedOnce ==
  \A i, j \in 1..Len(queue) : queue[i] \in Txns /\ queue[i] = queue[j] => i = j

UnsubmittedUntried == \A t \in Txns : fut[t] = "none" => t \notin attempted

CurrentTaken ==
  Busy => cur \in Txns /\ fut[cur] \notin {"none", "skipped"} /\ ~Waits(cur)

RetryLeft == pc \in {"callback", "fund"} /\ Retrying => retries < MaxRetries

HaltedEnded == halted => pc \in Ended

QueueInv ==
  /\ TypeOK
  /\ QueuedUntried /\ QueuedOnce /\ UnsubmittedUntried
  /\ CurrentTaken /\ RetryLeft /\ HaltedEnded
  /\ SkippedNeverAttempted

(***************************************************************************)
(* The invariant behind KeepsPromise and DrainedAtExit.  The order holds   *)
(* exactly the submitted transactions; as long as the processor task runs, *)
(* an open future belongs to a queued item or to the one being processed;  *)
(* the queue is in submission order, and nothing open was submitted before *)
(* the item being processed; that item has no result yet, except while     *)
(* funds are asked for after its success; what is queued behind the        *)
(* sentinel came after close().                                            *)
(***************************************************************************)
Submitted ==
  /\ \A t \in Txns : fut[t] # "none" => \E i \in 1..Len(order) : order[i] = t
  /\ \A i \in 1..Len(order) : fut[order[i]] # "none"

OpenHeld ==
  pc \notin Ended =>
    \A t \in Txns : fut[t] = "pending" => Waits(t) \/ (Busy /\ t = cur)

QueueInOrder ==
  \A i, j \in 1..Len(order) : \A k, m \in 1..Len(queue) :
    order[i] = queue[k] /\ order[j] = queue[m] /\ i < j => k < m

CurrentOldest == Busy => OldestPending(cur)

CurrentOpen ==
  Busy => \/ fut[cur] \in {"pending", "cancelled"}
          \/ pc \in {"callback", "fund"} /\ fut[cur] = "ok"

LateBehindSentinel ==
  \A i, j \in 1..Len(queue) :
    queue[i] = SENTINEL => closing /\ (i < j /\ queue[j] \in Txns => queue[j] \in late)

DoneClosed == pc = "done" => closing \/ halted

OrderInv ==
  /\ Submitted /\ OpenHeld /\ QueueInOrder
  /\ CurrentOldest /\ CurrentOpen
  /\ LateBehindSentinel /\ DoneClosed
  /\ DrainedAtExit

(***************************************************************************)
(* The invariant behind StartsFunded: the processor also goes back to its  *)
(* queue with a balance at the threshold, or 0.                            *)
(***************************************************************************)
FundedInv ==
  Mode = "coins" /\ pc \in {"get", "build", "execute"} /\ (\E t \in Txns : fut[t] = "ok")
    => tracked >= Threshold \/ tracked = 0

SerialInv == QueueInv /\ OrderInv /\ FundedInv

\* For good, nobody settles t any more: an exception has left the processor loop (the callback
\* raised, or a result met a cancelled future), or t is behind the sentinel.
Abandoned(t) == pc = "crashed" \/ (pc = "done" /\ t \in late)

(***************************************************************************)
(* Every future resolves: to a result, to an error or to ExecutionSkipped, *)
(* through retries, hard stops, lost replies and cancelled neighbours.  It *)
(* stays pending only if its transaction is abandoned.                     *)
(***************************************************************************)
EveryFutureResolves ==
  \A t \in Txns : fut[t] = "pending" ~> fut[t] # "pending" \/ Abandoned(t)

\* close() returns: the processor task it waits for ends.
CloseReturns == closing ~> pc \in Ended
==============================================================================
