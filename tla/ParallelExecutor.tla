--------------------------- MODULE ParallelExecutor ---------------------------
(***************************************************************************)
(* The parallel transaction executor (executors/base_parallel_executor.py  *)
(* and parallel_executor.py) composed with its conflict tracker, its       *)
(* concurrency semaphore and its gas coin pool (gas_pool.py).              *)
(*                                                                         *)
(* One build worker takes the submitted items in order, claims their       *)
(* object ids, a permit and, in COINS mode, a gas coin, and starts a task  *)
(* per item.  Tasks interleave with each other, with the worker and with   *)
(* the callers where they suspend; what runs between two suspensions is    *)
(* one action.  An acquisition that need not wait does not suspend.        *)
(***************************************************************************)
EXTENDS Integers, Sequences, SequencesExt

CONSTANTS
  Txns,           \* the transactions of the run, each submitted at most once
  Objects,        \* ids of the owned objects they use
  Coins,          \* gas coins of the sender
  SENTINEL,       \* _SENTINEL
  NoCoin,         \* gas_coin = None
  NoItem,         \* the worker has not taken an item yet
  Mode,           \* options.gas_mode: "coins" or "address"
  Uses,           \* the owned objects each transaction uses
  Deferred,       \* those given as ids, still unresolved at submission
  MaxConcurrent,  \* options.max_concurrent
  MaxRetries,     \* options.max_retries
  ExitOnFailure,  \* options.on_failure = "exit"
  Threshold,      \* options.min_threshold_balance
  CoinValue,      \* balance of a gas coin
  InitialCoins,   \* the coins selected at start, largest first
  InitialAmounts, \* ADDRESS_BALANCE: balances after initialization
  GasCosts,       \* net gas of an executed transaction
  Splits,         \* ADDRESS_BALANCE: what a transaction takes out of the
                  \* accumulator besides gas (negative: puts in)
  Overhead,       \* _SEND_FUNDS_GAS_OVERHEAD
  MaxBatch,       \* bound on the coins on_balance_low returns at once
  MaxTracked,     \* bound on the tracked balance
  MaxPool,        \* bound on the length of the pool
  Events          \* what the environment may do, out of "build_fails",
                  \* "execute_fails", "gas_fails", "cancel", "decline",
                  \* "callback_raises", "owned_coins"

ASSUME ModeAssumption == Mode \in {"coins", "address"}
ASSUME MarkersAssumption == SENTINEL \notin Txns /\ NoItem \notin Txns /\ NoCoin \notin Coins
ASSUME InputsAssumption ==
  /\ Uses \in [Txns -> SUBSET Objects]
  /\ Deferred \in [Txns -> SUBSET Objects]
  /\ \A t \in Txns : Deferred[t] \subseteq Uses[t]
ASSUME NumbersAssumption ==
  /\ MaxConcurrent \in Nat \ {0}
  /\ {MaxRetries, Threshold, CoinValue, Overhead, MaxBatch, MaxTracked, MaxPool} \subseteq Nat
  /\ InitialCoins \in Seq(Coins) /\ InitialAmounts \subseteq Nat
  /\ GasCosts \subseteq Int /\ Splits \subseteq Int
ASSUME OptionsAssumption == ExitOnFailure \in BOOLEAN

VARIABLES
  fut,        \* the future of each transaction
  order,      \* history: the transactions in submission order
  halted,     \* _dead
  closing,    \* close() was called
  queue,      \* _build_queue
  wpc,        \* where the build worker waits, or how it ended
  wcur,       \* the item it is preparing
  wcancel,    \* _build_task.cancel() was called
  permits,    \* value of the semaphore
  line,       \* those waiting for the semaphore, as their transactions
  pool,       \* the queue of GasCoinPool
  tracked,    \* _tracked_balance
  tpc,        \* where the task of each transaction waits
  held,       \* the gas coin of each task
  retries,    \* item.retry_count
  sending,    \* ADDRESS_BALANCE: what the funding transaction of each task sends
  attempted,  \* history: transactions handed to client.execute
  waiters, keys, isSet, claim, phase  \* the conflict tracker

promise == <<fut, order, halted>>
wstate == <<wpc, wcur, wcancel>>
semaphore == <<permits, line>>
tstate == <<tpc, held, retries, sending>>
tracker == <<waiters, keys, isSet, claim, phase>>
vars == <<fut, order, halted, closing, queue, wpc, wcur, wcancel, permits, line,
          pool, tracked, tpc, held, retries, sending, attempted,
          waiters, keys, isSet, claim, phase>>

CT == INSTANCE ConflictTracker WITH Callers <- Txns

Promise == INSTANCE ExecutorPromise WITH InOrder <- FALSE

WorkerEnded == {"done", "cancelled", "crashed"}

\* A task between its creation and its end.
Running(t) == tpc[t] \notin {"none", "ended"}

TypeOK ==
  /\ fut \in [Txns -> Promise!FutureStates]
  /\ order \in Seq(Txns)
  /\ halted \in BOOLEAN /\ closing \in BOOLEAN /\ wcancel \in BOOLEAN
  /\ queue \in Seq(Txns \union {SENTINEL})
  /\ wpc \in {"get", "conflict", "semaphore", "checkout"} \union WorkerEnded
  /\ wcur \in Txns \union {NoItem}
  /\ permits \in 0..MaxConcurrent
  /\ line \in Seq(Txns)
  /\ pool \in Seq(Coins)
  /\ tracked \in Nat
  /\ tpc \in [Txns -> {"none", "build", "execute", "callback", "fund",
                       "retry callback", "retry fund", "reacquire", "ended"}]
  /\ held \in [Txns -> Coins \union {NoCoin}]
  /\ retries \in [Txns -> 0..MaxRetries]
  /\ sending \in [Txns -> Int]
  /\ attempted \in SUBSET Txns
  /\ CT!TypeOK

\* _initialize
Init ==
  /\ fut = [t \in Txns |-> "none"] /\ order = <<>>
  /\ halted = FALSE /\ closing = FALSE
  /\ queue = <<>>
  /\ wpc = "get" /\ wcur = NoItem /\ wcancel = FALSE
  /\ permits = MaxConcurrent /\ line = <<>>
  /\ pool = IF Mode = "coins" THEN InitialCoins ELSE <<>>
  /\ IF Mode = "coins" THEN tracked = Len(InitialCoins) * CoinValue
                       ELSE tracked \in InitialAmounts
  /\ tpc = [t \in Txns |-> "none"]
  /\ held = [t \in Txns |-> NoCoin]
  /\ retries = [t \in Txns |-> 0]
  /\ sending = [t \in Txns |-> 0]
  /\ attempted = {}
  /\ CT!Init
------------------------------------------------------------------------------
(***************************************************************************)
(* The holders of the executor and of its futures.                         *)
(***************************************************************************)

\* _submit_one
Submit(t) ==
  /\ fut[t] = "none"
  /\ fut' = [fut EXCEPT ![t] = IF halted THEN "skipped" ELSE "pending"]
  /\ queue' = IF halted THEN queue ELSE Append(queue, t)
  /\ order' = Append(order, t)
  /\ UNCHANGED <<halted, closing, wstate, semaphore, pool, tracked, tstate,
                 attempted, tracker>>

\* The caller's task is cancelled or times out while it awaits the future.
CancelFuture(t) ==
  /\ "cancel" \in Events
  /\ fut[t] = "pending"
  /\ fut' = [fut EXCEPT ![t] = "cancelled"]
  /\ UNCHANGED <<order, halted, closing, queue, wstate, semaphore, pool, tracked,
                 tstate, attempted, tracker>>

\* Mutant of Close: the sentinel is not queued.
CloseQuietly ==
  /\ ~closing
  /\ closing' = TRUE
  /\ halted' = TRUE
  /\ UNCHANGED <<fut, order, queue, wstate, semaphore, pool, tracked, tstate,
                 attempted, tracker>>

\* close() marks the executor dead and queues the sentinel, unless it is dead
\* already; then it waits for the worker and for the tasks in flight.
Close ==
  /\ ~closing
  /\ closing' = TRUE
  /\ halted' = TRUE
  /\ queue' = IF halted THEN queue ELSE Append(queue, SENTINEL)
  /\ UNCHANGED <<fut, order, wstate, semaphore, pool, tracked, tstate, attempted,
                 tracker>>
------------------------------------------------------------------------------
(***************************************************************************)
(* The build worker.                                                       *)
(***************************************************************************)

\* The task of t is created, with the coin at the head of the pool.
StartTask(t) ==
  /\ wpc' = "get"
  /\ tpc' = [tpc EXCEPT ![t] = "build"]
  /\ held' = [held EXCEPT ![t] = IF Mode = "coins" THEN Head(pool) ELSE NoCoin]
  /\ pool' = IF Mode = "coins" THEN Tail(pool) ELSE pool

\* With a permit in hand: gas_pool.checkout(), then the task.
TakeCoin(t) ==
  IF Mode = "coins" /\ pool = <<>>
  THEN wpc' = "checkout" /\ UNCHANGED <<tpc, held, pool>>
  ELSE StartTask(t)

\* With the claim granted: semaphore.acquire(), behind those who already wait.
TakePermit(t) ==
  IF permits = 0 \/ line # <<>>
  THEN wpc' = "semaphore" /\ line' = Append(line, t)
       /\ UNCHANGED <<permits, tpc, held, pool>>
  ELSE permits' = permits - 1 /\ UNCHANGED line /\ TakeCoin(t)

\* The worker takes a transaction from the queue of a live executor.
WorkerTakes ==
  LET t == Head(queue) IN
  /\ wpc = "get" /\ ~wcancel
  /\ queue # <<>> /\ t # SENTINEL
  /\ ~halted
  /\ queue' = Tail(queue)
  /\ wcur' = t
  /\ CT!Acquire(t, Deferred[t])
  /\ IF phase'[t] = "holding"
     THEN TakePermit(t)
     ELSE wpc' = "conflict" /\ UNCHANGED <<semaphore, tpc, held, pool>>
  /\ UNCHANGED <<promise, closing, wcancel, tracked, retries, sending,
                 attempted>>

\* The worker finds the executor dead; a cancelled future makes it fail.
WorkerSkips ==
  LET t == Head(queue) IN
  /\ wpc = "get" /\ ~wcancel
  /\ queue # <<>> /\ t # SENTINEL
  /\ halted
  /\ queue' = Tail(queue)
  /\ IF fut[t] = "cancelled"
     THEN wpc' = "crashed" /\ UNCHANGED fut
     ELSE fut' = [fut EXCEPT ![t] = "skipped"] /\ UNCHANGED wpc
  /\ UNCHANGED <<order, halted, closing, wcur, wcancel, semaphore, pool, tracked,
                 tstate, attempted, tracker>>

WorkerStops ==
  /\ wpc = "get" /\ ~wcancel
  /\ queue # <<>> /\ Head(queue) = SENTINEL
  /\ queue' = Tail(queue)
  /\ wpc' = "done"
  /\ UNCHANGED <<promise, closing, wcur, wcancel, semaphore, pool, tracked, tstate,
                 attempted, tracker>>

\* conflict_tracker.acquire() returns after waiting.
WorkerClaims ==
  /\ wpc = "conflict" /\ ~wcancel
  /\ CT!Granted(wcur)
  /\ TakePermit(wcur)
  /\ UNCHANGED <<promise, closing, queue, wcur, wcancel, tracked, retries, sending,
                 attempted>>

\* The one who waits longest for the semaphore gets a permit.
LeaveLine(t) ==
  /\ permits > 0
  /\ line # <<>> /\ Head(line) = t
  /\ permits' = permits - 1
  /\ line' = Tail(line)

\* semaphore.acquire() returns after waiting.
WorkerPermitted ==
  /\ wpc = "semaphore" /\ ~wcancel
  /\ LeaveLine(wcur)
  /\ TakeCoin(wcur)
  /\ UNCHANGED <<promise, closing, queue, wcur, wcancel, tracked, retries, sending,
                 attempted, tracker>>

\* gas_pool.checkout() returns after waiting.
WorkerPaid ==
  /\ wpc = "checkout" /\ ~wcancel
  /\ pool # <<>>
  /\ StartTask(wcur)
  /\ UNCHANGED <<promise, closing, queue, wcur, wcancel, semaphore, tracked,
                 retries, sending, attempted, tracker>>

(***************************************************************************)
(* CancelledError reaches the worker.  queue.get() has a handler for it;   *)
(* anywhere else it drops the item, with what was acquired for it.         *)
(***************************************************************************)
WorkerCancelled ==
  /\ wcancel
  /\ wpc \notin WorkerEnded
  /\ wpc' = IF wpc = "get" THEN "done" ELSE "cancelled"
  /\ line' = IF wpc = "semaphore" THEN RemoveFirst(line, wcur) ELSE line
  /\ IF wpc = "conflict" THEN CT!Cancel(wcur) ELSE UNCHANGED tracker
  /\ UNCHANGED <<promise, closing, queue, wcur, wcancel, permits, pool, tracked,
                 tstate, attempted>>

Worker ==
  \/ WorkerTakes \/ WorkerSkips \/ WorkerStops
  \/ WorkerClaims \/ WorkerPermitted \/ WorkerPaid
  \/ WorkerCancelled
------------------------------------------------------------------------------
(***************************************************************************)
(* The end of a task, and the hard stop.                                   *)
(***************************************************************************)

\* Positions of queued items whose future is already cancelled.
Refusing(f) == {i \in 1..Len(queue) : queue[i] \in Txns /\ f[queue[i]] = "cancelled"}

\* Mutant of Drained: transactions in flight are skipped too.
DrainedInFlight(f) == {t \in Txns : f[t] = "pending"}

\* Queued transactions that the drain loop of _hard_stop reaches.
Drained(f) ==
  {queue[i] : i \in {k \in 1..Len(queue) : \A j \in Refusing(f) : k < j}} \ {SENTINEL}

\* Mutant of HardStop: what is drained stays in the queue.
HardStopKeepsQueue(f) ==
  IF halted
  THEN fut' = f /\ UNCHANGED <<halted, queue, wcancel>>
  ELSE /\ halted' = TRUE
       /\ fut' = [t \in Txns |-> IF t \in Drained(f) THEN "skipped" ELSE f[t]]
       /\ queue' = Append(queue, SENTINEL)
       /\ wcancel' = (wpc \notin WorkerEnded)

(***************************************************************************)
(* _hard_stop, called with the futures f: nothing if already dead.  When   *)
(* the drain loop meets a cancelled future, set_result raises: the rest of *)
(* the queue stays, no sentinel is added and the worker is not cancelled.  *)
(***************************************************************************)
HardStop(f) ==
  IF halted
  THEN fut' = f /\ UNCHANGED <<halted, queue, wcancel>>
  ELSE /\ halted' = TRUE
       /\ fut' = [t \in Txns |-> IF t \in Drained(f) THEN "skipped" ELSE f[t]]
       /\ IF Refusing(f) = {}
          THEN queue' = <<SENTINEL>> /\ wcancel' = (wpc \notin WorkerEnded)
          ELSE /\ UNCHANGED wcancel
               /\ \E i \in Refusing(f) :
                    /\ \A j \in Refusing(f) : i <= j
                    /\ queue' = SubSeq(queue, i + 1, Len(queue))

NoStop(f) == fut' = f /\ UNCHANGED <<halted, queue, wcancel>>

\* Mutant of Settled: done() is not looked at.
SettledAnyway(t, r) == [fut EXCEPT ![t] = r]

\* "if not item.future.done(): item.future.set_result(r)"
Settled(t, r) == IF fut[t] = "pending" THEN [fut EXCEPT ![t] = r] ELSE fut

\* The task ends: it releases its reservation, then its permit, in its last step.
End(t) ==
  /\ tpc' = [tpc EXCEPT ![t] = "ended"]
  /\ held' = [held EXCEPT ![t] = NoCoin]
  /\ sending' = [sending EXCEPT ![t] = 0]
  /\ permits' = permits + 1
  /\ CT!Release(t)
  /\ UNCHANGED <<line, retries>>

\* What a step of a task never touches.
TaskFrame == UNCHANGED <<order, closing, wpc, wcur>>
------------------------------------------------------------------------------
(***************************************************************************)
(* The execution tasks.                                                    *)
(***************************************************************************)

Build(t) ==
  /\ tpc[t] = "build"
  /\ tpc' = [tpc EXCEPT ![t] = "execute"]
  /\ attempted' = attempted \union {t}
  /\ NoStop(fut)
  /\ TaskFrame
  /\ UNCHANGED <<semaphore, pool, tracked, held, retries, sending, tracker>>

\* Mutant of BuildFails: the future is left open.
BuildFailsSilently(t) ==
  /\ "build_fails" \in Events
  /\ tpc[t] = "build"
  /\ NoStop(fut)
  /\ End(t)
  /\ TaskFrame
  /\ UNCHANGED <<pool, tracked, attempted>>

\* The coin of a failed transaction is retired: it does not return to the pool.
BuildFails(t) ==
  /\ "build_fails" \in Events
  /\ tpc[t] = "build"
  /\ NoStop(Settled(t, "build_error"))
  /\ End(t)
  /\ TaskFrame
  /\ UNCHANGED <<pool, tracked, attempted>>

\* update_tracked_balance, and a SPLIT of update_tracked_balance_from_accumulator
Deduct(balance, g) == IF g > balance THEN 0 ELSE balance - g

\* Net gas is always deducted, accumulator writes in ADDRESS_BALANCE mode.
Spent(balance, g, x) ==
  IF Mode = "coins" THEN Deduct(balance, g) ELSE Deduct(Deduct(balance, g), x)

(***************************************************************************)
(* Success: effects are applied, the coin returns to the pool, the future  *)
(* is settled; below the threshold funds are asked for before the end.     *)
(***************************************************************************)
ExecuteOk(t) ==
  \E g \in GasCosts, x \in Splits :
    /\ tpc[t] = "execute"
    /\ tracked' = Spent(tracked, g, x)
    /\ tracked' <= MaxTracked
    /\ pool' = IF Mode = "coins" THEN Append(pool, held[t]) ELSE pool
    /\ NoStop(Settled(t, "ok"))
    /\ IF tracked' < Threshold
       THEN /\ tpc' = [tpc EXCEPT ![t] = "callback"]
            /\ held' = [held EXCEPT ![t] = NoCoin]
            /\ UNCHANGED <<semaphore, retries, sending, tracker>>
       ELSE End(t)
    /\ TaskFrame
    /\ UNCHANGED attempted

\* Mutant of OutOfGas: the reservation is released before the retry.
OutOfGasReleases(t) ==
  /\ "gas_fails" \in Events
  /\ tpc[t] = "execute"
  /\ retries[t] < MaxRetries
  /\ tpc' = [tpc EXCEPT ![t] = "retry callback"]
  /\ held' = [held EXCEPT ![t] = NoCoin]
  /\ NoStop(fut)
  /\ CT!Release(t)
  /\ TaskFrame
  /\ UNCHANGED <<semaphore, pool, tracked, retries, sending, attempted>>

\* "insufficient gas" with retries left: the coin is retired, funds are asked.
OutOfGas(t) ==
  /\ "gas_fails" \in Events
  /\ tpc[t] = "execute"
  /\ retries[t] < MaxRetries
  /\ tpc' = [tpc EXCEPT ![t] = "retry callback"]
  /\ held' = [held EXCEPT ![t] = NoCoin]
  /\ NoStop(fut)
  /\ TaskFrame
  /\ UNCHANGED <<semaphore, pool, tracked, retries, sending, attempted, tracker>>

\* A failure that is not retried; one for lack of gas is a hard stop.
ExecuteFails(t) ==
  /\ tpc[t] = "execute"
  /\ \/ /\ "gas_fails" \in Events /\ retries[t] >= MaxRetries
        /\ HardStop(Settled(t, "exec_error"))
     \/ /\ "execute_fails" \in Events
        /\ IF ExitOnFailure THEN HardStop(Settled(t, "exec_error"))
                            ELSE NoStop(Settled(t, "exec_error"))
  /\ End(t)
  /\ TaskFrame
  /\ UNCHANGED <<pool, tracked, attempted>>

\* Coins of the sender that the executor does not manage at the moment.
Spare == Coins \ (ToSet(pool) \union {held[t] : t \in Txns})

\* What on_balance_low may return; the executor does not look for coins it has.
Offers == IF "owned_coins" \in Events THEN Coins ELSE Spare

\* The coins it returns must be worth the threshold.
Batches ==
  {b \in SeqOf(Offers, MaxBatch) :
     b # <<>> /\ IsInjective(b) /\ Len(b) * CoinValue >= Threshold}

(***************************************************************************)
(* The amount that send_funds_to_account moves from n coins to the         *)
(* accumulator: the first coin, if another one pays the gas; what is       *)
(* missing, if the only one has more than that; else all of it, if the     *)
(* sender has another coin for gas.                                        *)
(***************************************************************************)
Amount(n) ==
  LET missing == Threshold - tracked
  IN  IF n = 1 /\ CoinValue > missing + Overhead THEN missing ELSE CoinValue

\* on_balance_low has returned coins (or ids, and they have been fetched).  The amount to send
\* depends on the balance of this moment.
CallbackOk(t) ==
  /\ tpc[t] \in {"callback", "retry callback"}
  /\ IF Mode = "coins" THEN UNCHANGED sending
     ELSE \E b \in Batches : sending' = [sending EXCEPT ![t] = Amount(Len(b))]
  /\ tpc' = [tpc EXCEPT ![t] = IF @ = "callback" THEN "fund" ELSE "retry fund"]
  /\ NoStop(fut)
  /\ TaskFrame
  /\ UNCHANGED <<semaphore, pool, tracked, held, retries, attempted, tracker>>

\* The balance has passed the threshold since it was found low: a negative amount is no u64.
Unfit(t) == tpc[t] \in {"fund", "retry fund"} /\ sending[t] < 0

(***************************************************************************)
(* _replenish() returns False: there is no callback, it returned nothing,  *)
(* or _add_funds raised.  On a retry the future is settled without a test: *)
(* if it was cancelled, the task fails before it reaches the hard stop.    *)
(***************************************************************************)
Refused(t) ==
  /\ "decline" \in Events \/ Unfit(t)
  /\ \/ /\ tpc[t] \in {"callback", "fund"}
        /\ HardStop(fut)
     \/ /\ tpc[t] \in {"retry callback", "retry fund"}
        /\ IF fut[t] = "cancelled" THEN NoStop(fut)
                                   ELSE HardStop(Settled(t, "exec_error"))
  /\ End(t)
  /\ TaskFrame
  /\ UNCHANGED <<pool, tracked, attempted>>

\* Mutant of CallbackRaises: no "finally" gives the permit back.
CallbackLeaksPermit(t) ==
  /\ "callback_raises" \in Events
  /\ tpc[t] \in {"callback", "retry callback"}
  /\ tpc' = [tpc EXCEPT ![t] = "ended"]
  /\ NoStop(fut)
  /\ CT!Release(t)
  /\ TaskFrame
  /\ UNCHANGED <<semaphore, held, retries, sending, pool, tracked, attempted>>

\* on_balance_low raises: the task ends, and on a retry leaves its future open.
CallbackRaises(t) ==
  /\ "callback_raises" \in Events
  /\ tpc[t] \in {"callback", "retry callback"}
  /\ NoStop(fut)
  /\ End(t)
  /\ TaskFrame
  /\ UNCHANGED <<pool, tracked, attempted>>

(***************************************************************************)
(* What _add_funds makes of the pool and of the tracked balance: coins go  *)
(* to the end of the pool; what was sent is in the accumulator.            *)
(***************************************************************************)
Fundings(t) ==
  IF Mode = "coins"
  THEN {[pool |-> pool \o b, tracked |-> tracked + Len(b) * CoinValue] : b \in Batches}
  ELSE {[pool |-> pool, tracked |-> tracked + a] : a \in {sending[t]} \intersect Nat}

Bounded(f) == Len(f.pool) <= MaxPool /\ f.tracked <= MaxTracked

\* Funds were added after a success: the task ends.
FundOk(t) ==
  \E f \in Fundings(t) :
    /\ tpc[t] = "fund"
    /\ Bounded(f)
    /\ pool' = f.pool /\ tracked' = f.tracked
    /\ NoStop(fut)
    /\ End(t)
    /\ TaskFrame
    /\ UNCHANGED attempted

\* Mutant of RetryFunded: the coin stays in the pool.
RetryKeepsCoin(t) ==
  \E f \in Fundings(t) :
    /\ tpc[t] = "retry fund"
    /\ Bounded(f)
    /\ tracked' = f.tracked
    /\ sending' = [sending EXCEPT ![t] = 0]
    /\ retries' = [retries EXCEPT ![t] = @ + 1]
    /\ held' = [held EXCEPT ![t] = Head(f.pool)]
    /\ pool' = f.pool
    /\ tpc' = [tpc EXCEPT ![t] = "build"]
    /\ NoStop(fut)
    /\ TaskFrame
    /\ UNCHANGED <<semaphore, attempted, tracker>>

(***************************************************************************)
(* Funds were added for a retry.  In COINS mode the task gives its permit  *)
(* back, takes the coin at the head of the pool, which is not empty now,   *)
(* and acquires the semaphore again, behind those who already wait.        *)
(***************************************************************************)
RetryFunded(t) ==
  \E f \in Fundings(t) :
    /\ tpc[t] = "retry fund"
    /\ Bounded(f)
    /\ tracked' = f.tracked
    /\ sending' = [sending EXCEPT ![t] = 0]
    /\ retries' = [retries EXCEPT ![t] = @ + 1]
    /\ IF Mode = "coins"
       THEN held' = [held EXCEPT ![t] = Head(f.pool)] /\ pool' = Tail(f.pool)
       ELSE UNCHANGED <<held, pool>>
    /\ IF Mode = "coins" /\ line # <<>>
       THEN /\ permits' = permits + 1 /\ line' = Append(line, t)
            /\ tpc' = [tpc EXCEPT ![t] = "reacquire"]
       ELSE UNCHANGED semaphore /\ tpc' = [tpc EXCEPT ![t] = "build"]
    /\ NoStop(fut)
    /\ TaskFrame
    /\ UNCHANGED <<attempted, tracker>>

\* Mutant of Reacquire: the retry does not wait for a permit.
ReacquireAtOnce(t) ==
  /\ tpc[t] = "reacquire"
  /\ line' = RemoveFirst(line, t)
  /\ tpc' = [tpc EXCEPT ![t] = "build"]
  /\ NoStop(fut)
  /\ TaskFrame
  /\ UNCHANGED <<permits, pool, tracked, held, retries, sending, attempted, tracker>>

Reacquire(t) ==
  /\ tpc[t] = "reacquire"
  /\ LeaveLine(t)
  /\ tpc' = [tpc EXCEPT ![t] = "build"]
  /\ NoStop(fut)
  /\ TaskFrame
  /\ UNCHANGED <<pool, tracked, held, retries, sending, attempted, tracker>>

Task(t) ==
  \/ Build(t) \/ BuildFails(t)
  \/ ExecuteOk(t) \/ OutOfGas(t) \/ ExecuteFails(t)
  \/ CallbackOk(t) \/ Refused(t) \/ CallbackRaises(t)
  \/ FundOk(t) \/ RetryFunded(t) \/ Reacquire(t)

Next ==
  \/ \E t \in Txns : Submit(t) \/ CancelFuture(t) \/ Task(t)
  \/ Close
  \/ Worker

Spec == Init /\ [][Next]_vars

(***************************************************************************)
(* The event loop runs what is ready, the node answers every request and   *)
(* on_balance_low returns or raises.                                       *)
(***************************************************************************)
FairSpec == Spec /\ WF_vars(Worker) /\ \A t \in Txns : WF_vars(Task(t))
------------------------------------------------------------------------------
(***************************************************************************)
(* The parallel executor keeps the promise made with a future, without the *)
(* order of the serial one: outcomes are final, and only a halted executor *)
(* skips.                                                                  *)
(***************************************************************************)
KeepsPromise == Promise!PromiseSpec

(***************************************************************************)
(* ExecutionSkipped means that the transaction was not attempted, however  *)
(* submission, the worker, close() and hard stops interleave.              *)
(***************************************************************************)
SkippedNeverAttempted ==
  \A t \in Txns : fut[t] = "skipped" => t \notin attempted

(***************************************************************************)
(* Each task in flight holds its gas coin exclusively: no other task has   *)
(* it, and the pool cannot hand it out again, through retries, retirements *)
(* and replenishments.                                                     *)
(***************************************************************************)
CoinsExclusive ==
  /\ IsInjective(pool)
  /\ \A t \in Txns : held[t] # NoCoin =>
       /\ held[t] \notin ToSet(pool)
       /\ \A u \in Txns : held[u] = held[t] => u = t

\* The tasks that a permit allows to run.
InFlight == {t \in Txns : Running(t) /\ tpc[t] # "reacquire"}

(***************************************************************************)
(* At most max_concurrent tasks are between build and settlement, although *)
(* a retry gives its permit back and takes another.                        *)
(***************************************************************************)
InFlightBounded == Cardinality(InFlight) <= MaxConcurrent

(***************************************************************************)
(* Owned-object inputs are serialised: transactions that share an owned    *)
(* object run in the order in which they were submitted, one after the end *)
(* of the other, retries and failures included.  The worker claims only    *)
(* ids that are still unresolved, so it holds when Deferred = Uses.        *)
(***************************************************************************)
ConflictsInOrder ==
  \A i, j \in 1..Len(order) :
    /\ i < j /\ Uses[order[i]] \intersect Uses[order[j]] # {}
    /\ tpc[order[j]] # "none"
    => tpc[order[i]] = "ended"

(***************************************************************************)
(* Nothing is leaked: when the worker is idle and every task has ended, in *)
(* whatever way, all permits are back and no object id is claimed.         *)
(***************************************************************************)
QuietIsClean ==
  wpc = "get" /\ (\A t \in Txns : ~Running(t))
    => permits = MaxConcurrent /\ CT!InFlightIds = {}

(***************************************************************************)
(* on_balance_low returns a list of coins to add, or nothing to halt.      *)
(* While no transaction fails and each of its calls returns coins that are *)
(* worth the threshold (Events = {}), nothing but close() halts.           *)
(***************************************************************************)
OnlyCloseHalts == halted => closing

\* The worker waits for a coin, and no task is left that could return or add one.
Starved == wpc = "checkout" /\ pool = <<>> /\ ~wcancel /\ \A t \in Txns : ~Running(t)

\* For good, nobody settles t any more: a hard stop cancelled the worker that was preparing it,
\* or it is queued behind one that found a cancelled future, or behind one that is starved.
Abandoned(t) ==
  \/ wpc = "cancelled" /\ wcur = t
  \/ wpc = "crashed" /\ \E i \in 1..Len(queue) : queue[i] = t
  \/ Starved

(***************************************************************************)
(* Every future resolves: to a result, to an error or to ExecutionSkipped, *)
(* whatever fails, is cancelled, is retried or halts the executor.  It     *)
(* stays pending only if its transaction is abandoned.                     *)
(***************************************************************************)
EveryFutureResolves ==
  \A t \in Txns : fut[t] = "pending" ~> fut[t] # "pending" \/ Abandoned(t)

\* close() returns: the worker and the tasks it waits for end.
CloseReturns ==
  closing ~> wpc \in WorkerEnded /\ \A t \in Txns : ~Running(t)

\* The worker waits at the empty queue of a dead executor, to which a drain loop that met a
\* cancelled future (nobody has taken it) has not added the sentinel.
Undrained ==
  /\ halted /\ wpc = "get" /\ queue = <<>> /\ ~wcancel
  /\ \A t \in Txns : ~Running(t)
  /\ \E t \in Txns : fut[t] = "cancelled" /\ tpc[t] = "none"

(***************************************************************************)
(* close() returns through failures, cancelled futures, retries and hard   *)
(* stops in any order, unless the worker starves or a drain loop has left  *)
(* it without a sentinel.                                                  *)
(***************************************************************************)
CloseReturnsUnlessStuck ==
  closing ~> \/ wpc \in WorkerEnded /\ \A t \in Txns : ~Running(t)
             \/ Starved \/ Undrained
------------------------------------------------------------------------------
(***************************************************************************)
(* The invariant behind the properties above: semaphore, queue, tasks,     *)
(* futures and tracker agree.                                              *)
(***************************************************************************)

\* Each permit is free, with a task, with the worker that waits for a coin, or
\* lost with a worker cancelled there.
PermitsKept ==
  LET used == Cardinality(InFlight) + IF wpc = "checkout" THEN 1 ELSE 0
  IN  /\ IsFiniteSet(InFlight)
      /\ permits + used <= MaxConcurrent
      /\ wpc # "cancelled" => permits + used = MaxConcurrent

Submitted(t) == \E i \in 1..Len(order) : order[i] = t

\* t was submitted before u.
Before(t, u) ==
  \E i, j \in 1..Len(order) : i < j /\ order[i] = t /\ order[j] = u

Queued(t) == \E i \in 1..Len(queue) : queue[i] = t

Preparing(t) == wcur = t /\ wpc \in {"conflict", "semaphore", "checkout"}

\* The tracker knows a transaction as the worker and the task do.
PhasesMatch ==
  /\ wpc \in {"conflict", "semaphore", "checkout"} => wcur \in Txns
  /\ \A t \in Txns :
       /\ phase[t] = "idle" => tpc[t] = "none" /\ ~Preparing(t)
       /\ phase[t] = "waiting" => tpc[t] = "none" /\ Preparing(t) /\ wpc = "conflict"
       /\ phase[t] = "cancelled" => tpc[t] = "none" /\ wpc = "cancelled"
       /\ phase[t] = "released" => tpc[t] = "ended" /\ ~Preparing(t)
       /\ phase[t] = "holding" =>
            \/ Running(t) /\ ~Preparing(t)
            \/ tpc[t] = "none" /\ Preparing(t) /\ wpc # "conflict"
            \/ tpc[t] = "none" /\ wpc = "cancelled"

\* Only what was not submitted has no future, only what was never taken is skipped
\* or queued, and only a task attempts.
FuturesMatch ==
  \A t \in Txns :
    /\ fut[t] = "none" <=> ~Submitted(t)
    /\ fut[t] \in {"none", "skipped"} => phase[t] = "idle"
    /\ Queued(t) => fut[t] \in {"pending", "cancelled"} /\ phase[t] = "idle"
    /\ t \in attempted => tpc[t] # "none"

\* Transactions are queued and taken in the order of submission, and a live
\* executor forgets none.
TakenInOrder ==
  /\ \A i, j \in 1..Len(order) : order[i] = order[j] => i = j
  /\ \A k, m \in 1..Len(queue) :
       k < m /\ {queue[k], queue[m]} \subseteq Txns => Before(queue[k], queue[m])
  /\ \A t, u \in Txns : Before(t, u) /\ phase[u] # "idle" => phase[t] # "idle"
  /\ ~halted => \A t \in Txns : Submitted(t) /\ phase[t] = "idle" => Queued(t)

\* Claims are queued in the order of submission, and conflicting ones granted in it.
ClaimsInOrder ==
  /\ \A t \in Txns : phase[t] # "idle" => claim[t] = Deferred[t]
  /\ \A o \in Objects : \A k, m \in 1..Len(waiters[o]) :
       k < m => Before(waiters[o][k], waiters[o][m])
  /\ \A t, u \in Txns :
       /\ Before(t, u) /\ Deferred[t] \intersect Deferred[u] # {}
       /\ phase[u] \in {"holding", "released"}
       => phase[t] = "released"

\* A task that may execute has a coin; a retry under way is one of max_retries.
TasksReady ==
  \A t \in Txns :
    /\ Mode = "coins" /\ tpc[t] \in {"build", "execute", "reacquire"} => held[t] \in Coins
    /\ tpc[t] \in {"retry callback", "retry fund"} => retries[t] < MaxRetries

\* The defaultdict keeps no key of an empty deque.
KeysExact == keys = {o \in Objects : waiters[o] # <<>>}

(***************************************************************************)
(* Permits are neither created nor lost but with a cancelled worker,       *)
(* nothing queued, skipped or unsubmitted is with the tracker, the worker  *)
(* or a task, and conflicting transactions are granted in the order of     *)
(* submission: however callers, worker, tasks and hard stops interleave.   *)
(***************************************************************************)
ParallelInv ==
  /\ TypeOK /\ PermitsKept /\ PhasesMatch /\ FuturesMatch /\ TakenInOrder
  /\ CT!TrackerInv /\ ClaimsInOrder /\ KeysExact /\ TasksReady
==============================================================================
