# TLA+ models of pysui

pysui is a Python SDK for the Sui blockchain: it builds transactions, signs
them and talks to a node over GraphQL or gRPC. Most of it translates data. The
parts with state, concurrency and failure are modelled here, checked with TLC and
in part proved with TLAPS: the asyncio executors that queue transactions, pay
for them and run them; the object versions they remember; the building of one
transaction by several coroutines; the clients with their sessions and paged
listings; the configuration with its file, and the zkLogin sessions that file
their keys with it.

## 1. Inventory

`executors/X.py` stands for `src/pysui/sui/sui_common/executors/X.py`, and file
names without a directory are found under `src/pysui/`.

| Component | State it keeps | Operations | What makes it correct |
|---|---|---|---|
| Conflict tracker (`conflict_tracker.py`) | a deque of `asyncio.Event` per object id | `acquire`, `release`, `in_flight_ids` | exclusion per object, no lost wake-up, submission order, no deadlock |
| Serial executor (`serial_executor.py`) | queue, `_dead`, `_closing`, processor task, tracked balance, gas coin reference | `submit`, `close`, the processor loop, `add_funds` | every future resolves once, in order; *skipped* means *not attempted*; nothing runs after a hard stop; funds are asked for in time |
| Parallel executor (`base_parallel_executor.py`, `parallel_executor.py`) | build queue, `_dead`, `_closing`, build worker, tasks in flight, semaphore, tracked balance | `submit`, `close`, `_build_worker`, `_execute_item`, `_hard_stop` | the same without the order; bounded concurrency; conflicting transactions in order; one coin per task; nothing leaked |
| Gas coin pool (`gas_pool.py`) | queue of coins | `checkout`, `checkin`, `replenish`, `reset` | a coin is in the pool or with one task |
| Gas funding (`gas_utils.py`) | none of its own | `run_replenishment`, `send_funds_to_account`, balance updates | an answer of False only when funds could not be added; balances never negative |
| Object registry (`object_registry.py`) | LRU map of object versions and tombstones, one per process | `upsert`, `upsert_many`, `tombstone`, `get`, `get_many`, `evict` | versions never go back; bounded size; nothing deleted comes back |
| Object cache (`cache.py`, `base_caching_executor.py`, `object_id_extract.py`) | entries by kind | `apply_effects`, lookups, `sync_to_registry` | no stale owned entry after effects |
| Task queues (`queue.py`) | lock or semaphore | `run_task` | serial execution, bounded parallelism, every waiter gets its turn |
| Transaction builder and transactions (`txn_transaction_builder.py`, `async_txn.py`, `txn_gas.py`, `txn_tx_argparse.py`) | inputs, commands, deferred inputs, what was built | adding inputs and commands, resolution, gas selection, build | arguments keep their meaning; an object is one input; what is built is current; the payment covers |
| Async helpers (`async_funcs.py`) | LRU cache | `AsyncLRU` | a remembered answer is that of the call |
| Clients and paging (`async_client.py`, `pgql_clients.py`, `pgrpc_clients.py`) | session, semaphore, connection | `execute`, `execute_for_all`, `wait_for_transaction`, `close` | complete listings, every call ends |
| Configuration (`config/*.py`) | groups, profiles, parallel lists of keys, addresses, aliases; the file | add, remove, rename, switch, import, save, reopen | lists stay aligned; what is active exists; a name stands for one key |
| zkLogin (`zklogin_client.py`) | session: ephemeral key, JWT, proof | `process_jwt`, `get_proof` | an address signs with its own secret; proof and session belong together |
| Seal (`seal_client.py`) | session key, services | encryption, decryption | not modelled |
| Types, queries, generated messages, BCS, keys | none | conversions | round trips |

How they interact. A caller adds commands to a transaction. Those that name an
object leave a deferred input behind, or, in a transaction of the serial
executor, a reference that the executor's cache has. The caller submits the
transaction to an executor, which answers with a future and queues
an item. One background coroutine takes items from the queue. In the serial
executor it builds, executes and settles each item itself. In the parallel
executor it claims the ids of the transaction's deferred objects at the conflict
tracker, a permit of the semaphore and, in COINS mode, a coin of the pool, and
then starts a task that builds, executes and settles the item and gives
everything back. A build resolves deferred inputs from the cache or by one
request, chooses a gas payment and signs. Effects go to the cache, and from the
caches of parallel tasks to the registry. Both executors estimate their gas
balance after each transaction and
call the user's `on_balance_low` when it is low; what the callback returns is
added to the gas funds by transactions of the executor itself. A refusal or a
failure with `on_failure="exit"` is a *hard stop*: the executor is dead, and
queued items resolve to `ExecutionSkipped`. Requests go through a client, which
for GraphQL lets one at a time on its session. Whoever signs asks the
configuration for the key pair of an address; zkLogin sessions put theirs there.

What is hard here: coroutines interleave at every `await`; holders may cancel
the futures; `close()` and hard stops meet submissions, retries and the worker
at any point; permits, coins and claims are acquired in several places and in
different orders; callbacks raise; replies get lost; objects change between
the lookup and the execution, and between two pages of a listing; operations of the
configuration fail half way and the file keeps what was saved before. The complete list, with
the line where each bites, is under `hazards` in `PROJECT.json`.

## 2. Modules

| Module | Models | Kind |
|---|---|---|
| `ExecutorPromise` | what a future promises | abstract specification |
| `ConflictTracker` | `conflict_tracker.py` | component |
| `SerialExecutor` | `serial_executor.py` with `gas_utils.py` | component, implements `ExecutorPromise` |
| `ParallelExecutor` | `base_parallel_executor.py`, `parallel_executor.py`, `gas_pool.py`, `gas_utils.py`, with an instance of `ConflictTracker` | composition, implements `ExecutorPromise` |
| `ObjectCache` | `cache.py` | operators on one cache |
| `ObjectRegistry` | `object_registry.py` | operators on the registry |
| `ObjectVersions` | the way of an object's version through both: commands, builds, effects of both executors | composition |
| `TaskQueue` | `queue.py` | component |
| `TransactionBuilding` | `async_txn.py`, `txn_transaction_builder.py`, `txn_gas.py`, run through a `TaskQueue` | composition |
| `ProtocolClient` | `async_client.py` with both clients | component |
| `Configuration` | `config/*.py` | component |
| `ZkLoginSession` | `zklogin_client.py` on top of `Configuration` | composition |
| `ConflictTrackerProofs`, `SerialExecutorProofs`, `ParallelExecutorProofs`, `ObjectVersionsProofs`, `TransactionBuildingProofs`, `ProtocolClientProofs`, `ZkLoginSessionProofs` | | theorems |
| `CollectionLemmas` | what the library's operators on sequences, minima and sums do | lemmas |
| `MC...` | | definitions that give constants their values |

### What an action is

asyncio runs one coroutine at a time and switches only where one *suspends*.
An `await` of something that is ready does not suspend: an uncontended lock, a
queue that has an item, a semaphore with a permit and nobody waiting, an event
that is set. So an action is the code from one suspension to the next, along
one path. For instance `ExecuteOk(t)` of `ParallelExecutor` starts with the
answer of `client.execute` and covers the update of the balance, the return of
the coin, the settling of the future and either the call of the callback or
the whole end of the task, `finally` clause included. The
variables `pc`, `wpc` and `tpc` record where a coroutine is suspended.

Two consequences are used all over. The critical sections of the conflict
tracker contain no `await`, so its lock is never contended and each section is
one step. And after a hard stop the serial processor takes the sentinel it has
just queued before anything else can run, so `HardStop` ends it at once.

The semaphore is that of Python 3.11 and later: FIFO, and one who arrives while
others wait goes behind them (`line`). In Python 3.10, which the package still
admits, a newcomer may overtake; that semaphore is not modelled.

### Correspondence

`PROJECT.json` (`map`) names the lines of each definition. The variables bear
a comment with the name of the attribute they stand for. In short:

* `ConflictTracker`. `waiters` is `_waiters`; an event is named by its caller,
  who has at most one in each deque. `phase` and `claim` say where a caller is.
  `keys` are the keys present in the `defaultdict`: reading it creates them,
  which matters for `in_flight_ids`. `Acquire` queues, `Granted` resumes the
  waiter, `Release` is release by a holder and the second release by
  `__aexit__` as well, `Cancel` is a `CancelledError` while waiting.
* `SerialExecutor`. `fut`, `queue`, `halted` (`_dead`), `closing`, `pc` and
  `cur` of the processor task, `retries`, `tracked` (`_tracked_balance`).
  `coin` is the truth on chain that `tracked` estimates, and `behind` says that
  `_gas_summary` names an old version of the coin, which happens when a reply
  is lost. `attempted` and `late` are history. `Finish` is the common end of
  `_process_item`: settle the future (or crash, if it is cancelled: `set_result`
  raises `InvalidStateError`), then go on or stop.
* `ParallelExecutor`. The worker has the places `get`, `conflict`, `semaphore`
  and `checkout`; a task has `build`, `execute`, `callback` and `fund`, the
  latter two twice (after a success, and on a retry), and `reacquire`.
  `WorkerTakes` runs through claim, permit and coin as far as it can without
  suspending. `HardStop` drains the queue, and cancels the worker; if it meets a
  cancelled future it raises half way, which the model keeps.

Balances and gas are small numbers in an abstract unit. Transactions, coins and
objects are model values: what they contain decides nothing here but the object
ids they use (`Uses`, `Deferred`), which are constants.
* `ParallelExecutor`, funding. In ADDRESS_BALANCE mode `CallbackOk` fixes what
  `send_funds_to_account` will send (`Amount`, kept in `sending`), from the
  balance of that moment; the transaction itself takes effect, or fails, a step
  later. The fetch of coins that were returned as ids is part of the place
  `callback`. `Unfit` is an amount that cannot be encoded.
* `ObjectVersions`. `refs` are the inputs of a transaction with the version each
  is pinned to, or none while it is deferred; `looked` and `answer` are what the
  cache and the node said during a build. `chain` is the truth. `pinned` (inputs
  resolved when their command named them) and `unseen` (objects changed by
  something whose effects the executor never got) are history. Versions are
  numbers whose digits count (`Base`), as the registry compares them as strings.
  A parallel task has a cache of its own, which ends with it.
* `TransactionBuilding`. `step` is the `await` a task is suspended at, `draft`
  the local variables of a build: the ids it asked for, the clone it works on
  and what its commands split off the gas coin. `inputs` and `commands` are
  the builder's, `built` is `_built_transaction`. An argument is a position among the inputs.
  `known` is what `AsyncLRU` remembers; a miss may be concurrent with another.
* `ProtocolClient`. `line` is `_slock`: its first coroutine has the session,
  the others wait. The record of a call has its place, what it requests next
  (`ask`), its cursor (`token`), what it has (`result`), and the module whose parts
  it fetches (`at`, `part`). `kept` and `seen` are history of what the address
  owned during the listing, `cut` of the modules that could not be completed.
  Objects come and go only while a listing could see it; the chain is still
  otherwise, which nobody could tell.
* `Configuration`. `groups`, `active` and `file`; an operation persists or not, as its
  caller says. `NewKeypairFails` and the other two actions with `HalfDone` are
  the operations that raise after they have changed something. `AnyReopen`
  (and `Restart`, with sessions) is a new process that starts from the file.
  `transient` are the key pairs that are never saved.
* `ZkLoginSession`. A session is its nonce. `requests` are the proofs the prover
  was asked for; `ProofArrives` pairs the proof with what the session has *then*.

### Abstract specification

`ExecutorPromise` says what the documentation promises of a future: it is
pending from submission on unless the executor is halted, in which case it is
skipped at once; a step gives at most one pending future a result, and skips
others only if the executor is halted from then on; nothing that is settled changes; halted is for ever.
With `InOrder`, the future that gets the result is the oldest pending one.
`SerialExecutor` implements it with `InOrder = TRUE`, `ParallelExecutor` with
`FALSE`. The refinement mapping is the identity on `fut`, `order` and `halted`.

## 3. Runs

| Run | Question | Instance |
|---|---|---|
| `ConflictTracker` | exclusion, wake-ups, absence of deadlock, order, the inductive invariant; every claim is granted | 3 callers, any claims on 2 objects, again and again |
| `Serial_safety` | what is skipped, drained and funded; order of results; the inductive invariant; all disturbances | 3 transactions, COINS, `exit`, 1 retry |
| `Serial_live` | every future resolves, `close()` returns; all disturbances | as above, `continue` |
| `Parallel_address` | order of conflicting transactions, what is skipped, leaks; the inductive invariant; all disturbances | 3 transactions in a chain over 2 objects, 2 at a time, `exit`; funds of one or two coins |
| `Parallel_coins` | exclusive coins, bounded concurrency; all disturbances | 3 independent transactions, 2 at a time, 2 coins of 3 in the pool, `continue` |
| `Parallel_live` | every future resolves, `close()` returns; failures, retries, hard stops, cancelled futures | 3 transactions in a chain, 2 at a time, 2 coins of 4 in the pool, `continue` |
| `Object_versions` | what caches and registry say; which references go stale; nothing deleted comes back | 2 transactions, 2 objects, versions 8 to 11, a registry of 1 entry, both executors, all features |
| `Building` | arguments, inputs, what is built, the gas payment; the inductive invariant; every task ends | 3 tasks of any of 7 jobs on one transaction, queues of 1 and 2, 3 coins |
| `Configuration` | alignment, actives, aliases; which secret signs, which proof is filed | 2 groups, 2 profiles, 2 keys, 2 aliases, 2 sessions, 4 operations |
| `Clients` | complete listings; every call ends | 2 coroutines, any kind of call each, both protocols |
| `Parallel_waits` | *violated*: deviation D1 | 1 at a time, 1 coin, gas failures |
| `Parallel_shortfall` | *violated*: deviation D2 | as `Parallel_address`, nothing fails or declines |

The type invariants are parts of the inductive invariants: `TrackerInv`, `SerialInv`,
`ParallelInv` and `BuildingInv`, whose type invariant contains `QueueOK`, the limit
and the exclusion of the queues. The inductive invariants of the other modules (`VersionsInv`
and `RegistryInv`, `ConfigInv` and `ZkInv`, `ClientInv`) are proved; to see one
fail after a change of the model, add it to the `INVARIANTS` of the module's run.

Why the bounds are enough.

* Executors. Three transactions give one that runs, one that
  waits behind it and one that waits behind both or arrives late; that is also
  the least number for a cycle or an overtaking among claims. Two objects let claims
  overlap without being equal. With `max_concurrent = 2` there are two tasks
  besides the worker that waits for the semaphore, and a
  retry (`max_retries = 1`) both succeeds and is exhausted. The balances range
  around the threshold, the budget and 0: gas can push the balance below the
  threshold, to exactly 0 and below (where it is clamped), rebates and merges
  push it up. `Overhead` and `CoinValue` are such that all three ways of sending
  funds occur. `MaxBalance`, `MaxTracked`, `MaxPool` and `MaxBatch` bound balances,
  the pool and the number of coins the callback returns at once; they only cut off further
  replenishment. Each transaction is submitted at most once, which bounds the
  queue.
* `Object_versions`. Two transactions on two objects give effects in both orders and
  a fetch that one overtakes. Versions start at 8, so that they grow from one digit
  to two, where the comparison of strings turns round; a registry of one entry
  evicts with the second object. Objects and transactions are symmetric.
* `Building`. Three tasks: two that overlap and a third that meets what they left.
  The jobs name an object by id and by reference, before and after it is
  resolved, mutably and not, split the gas coin, and build with a payment of
  coins, of coins of which some are in use, and with the choice left to pysui.
  Coins of 5, 3 and 2 with at most two per payment and budgets 1 and 4 make
  payments that fit with one coin, with two, and not at all.
* `Configuration`. Two of each are the least number for an index that is
  wrong. Blocks include one that repeats a key and one with a bad key string; a block of profiles
  repeats its first behind another, so that two of three are kept. Four
  operations (`MaxOps`) suffice to add, activate, damage and use.
  What holds for every number of operations and every block is proved (section 4).
* `Clients`. A page of one item, three objects of which the second is a coin
  reservation, so that the second page is empty and has a successor; modules with both
  parts, none and one part longer than a page, the last of three pages. Two polls use up the timeout.

`CHECK_DEADLOCK FALSE` is set where the system stops for good: a closed executor,
operations or tasks that are used up.

`Events` and `Features` select what the environment does. In the serial module build and
execution failures and a declining callback are always possible, and the
set adds cancelled futures, submissions after `close()`, a callback that
raises and lost replies. In the parallel module every failure is in the set.
`Features` of `ObjectVersions`: references given by the caller, lost replies,
sharing, deletion, dry runs, changes by others, other users of the registry.

Fairness. `FairSpec` of the executors has weak fairness of the processor task, of the build
worker and of each execution task: the event loop runs every coroutine that is
ready, and a node request or a callback is assumed to end, with an answer or an
exception. Nothing is assumed of callers: they need not submit, cancel or
close. In `ConflictTracker` the fairness is on resuming a waiter and on the
release of each holder, which the parallel executor
does in its `async with`. In `TransactionBuilding` it is on `Grant`, which is
asyncio's wake-up of the oldest waiter, and on the tasks inside a queue; in
`ProtocolClient` on the steps of each coroutine: it is woken, answered or failed, its
sleep ends. Nobody is obliged to cancel, to raise, to close the session or to
begin.

What liveness excepts. The executors' futures are not all resolved when something goes wrong
at the wrong moment (section 5), so the two liveness runs have the disturbances and
the properties name the states in which a transaction is abandoned for good, each of them a
state that no step leaves. Serial (`Abandoned`): an exception has ended the
processor; the transaction is behind the sentinel. Parallel: the worker was cancelled while it prepared the
transaction; it has crashed and the transaction is queued behind it; it waits for a coin
that no task is left to return (`Starved`). `CloseReturnsUnlessStuck` excepts `Starved`, and
the worker that a drain loop left without a sentinel when it met a cancelled future
(`Undrained`). TLC refutes the properties of the parallel executor when any one of these
exceptions is taken out. A behaviour without the cause is not excused: without a cancelled
future, a lost sentinel violates the property. `Parallel_live` leaves out a callback that raises, which on a retry
abandons the transaction it was called for; `Parallel_address` has it.

## 4. Proofs

All theorems are for any sets of callers, objects, transactions, groups, keys and sessions
and any numbers that
satisfy the named assumptions of the modules; `tlapm` checks them to the last
leaf.

### The conflict tracker

`TrackerInv` gives type
correctness, `MutexCorrect` (mutual exclusion), `WakeupCorrect` (no lost
wake-up) and `FifoCorrect` (the action property `NoOvertaking`). Exclusion
alone is not inductive. It needs that a caller's event is in a deque at most
once and exactly while its claim is unreleased, that of the queued events
exactly the heads are set (so that `Release` wakes the right one, and a second
release nobody), and that a holder is at the head of every id it claimed. Two
holders of one object would then both be the head of its deque.

`NoCircularWait` (`SomeoneCanRun`) is not about the deques one by one but about all
of them together. `acquire()` appends to all its deques in one step; so callers can be given
ranks, in the order in which they queued, such that the ranks ascend in every
deque (`Ranked`). While nobody holds, the waiter of least rank is the
head of all its deques, and `TrackerInv` says that its events are set.

### The serial executor

`SerialInv` has three parts. `QueueInv` gives `SkippedCorrect` (*skipped* means *never
attempted*) and `HaltCorrect` (the action property `NothingAfterHalt`). That a skipped
transaction was not attempted needs `QueuedUntried` and `QueuedOnce` (a hard
stop skips what is queued; that what it drains was never tried, and that no copy stays behind
to be tried later, is what they say), `CurrentTaken` (the item in hand is not in the
queue, so a hard stop during a retry cannot skip it) and `UnsubmittedUntried`
(submission to a dead executor skips). `RetryLeft` is what keeps the retry
count within its type. There is one lemma for each way a step may end: `StayInv` (nothing
is settled), `FinishInv`, `HardStopInv` and `RefusedInv`; the cases of `Next`
refer to them. `HaltCorrect` follows because a dead executor's task has ended, so
no action of `Processor` is enabled.

`OrderInv` says that an open future is queued or in hand, that the queue has
the order of submission, that the item in hand is the oldest that is open, and that only late
submissions are behind the sentinel. It gives `NothingLeftBehind` (`DrainedAtExit`) and
`SerialKeepsPromise`, the refinement of `ExecutorPromise` with `InOrder = TRUE`: the step that
settles a future settles the oldest one. `FundedInv` extends `StartsFunded` to the
moment at which the processor waits for its next item, and gives `FundedStarts`.

### The parallel executor

`ParallelInv` relates what five parts of the code keep separately.
`PermitsKept` accounts for every permit: free, with a task, with the worker at the
checkout of a coin, or lost with a worker that was cancelled there.
`PhasesMatch` says for every phase of a reservation where its
transaction is, in the worker or in a task; `FuturesMatch` the same of the future;
`TakenInOrder` that the queue has the order of submission and nothing is taken out of turn;
`ClaimsInOrder` that the deques have that order too and that conflicting transactions are
granted in it. `TrackerInv` is the invariant of the instance `CT`; what
`ConflictTrackerProofs` proves of the tracker's actions is used for those of the worker and of
the tasks that perform them.
Most steps of a task change only that task's place. `TaskStep(t)` and
`PlaceStep(t)` say what all of them have in common, and one lemma for each carries the
invariant over; the action of a task has only to be shown to be such a step.

`FlightBounded` and `QuietLeaksNothing` follow from `PermitsKept` and `PhasesMatch`,
`SkippedWereNotTried` from `FuturesMatch`. `ConflictsSerialised` has the hypothesis
`Deferred = Uses`: the worker claims the objects that it can see, which are those given as ids;
an object given as a full reference is not claimed, and for it the property does not hold
in the code. `CoinsStayExclusive` is an invariant of its own, with two hypotheses: the
coins found at the start are distinct, and `on_balance_low` returns coins the executor does not
have yet (section 5 says what happens otherwise). `ParallelKeepsPromise` is
the refinement of `ExecutorPromise` with `InOrder = FALSE`.

### Object versions

`VersionsInv` gives `CacheIsExact` and `OnlyPinsAreStale`. What a transaction knows
about its inputs depends on its phase, and `Holds` and `HeldCurrent` say what: looked up while the
build resolves, written into the transaction when it is ready, answered by the node once
it was sent. It is current as long as nobody else changes the object, because transactions in flight
share no guarded input (`InputsApart`): in the parallel executor a reservation
sees to that, in the serial one there is only one transaction at a time. A cache entry may
differ from the chain only while the effects that will correct it are on their way (`Changing`).

`RegistryInv` gives `OnlyShorterBehind` and `NothingIsRevived`. An entry of an object
that is owned on the chain is no tombstone and not from the future; once the effects of its
last change were reported, it is as good as the chain's version in the order of strings, so
that effects which come late do not replace it. That order is the reason for the assumption
`MaxVer < Base * Base`: the model has versions of one and of two digits. `upsert_many()` enters the
objects one by one and may evict between two of them; `ManyRows` says what it leaves
in whatever order it takes them. `NothingIsRevived` covers
`sync_to_registry()` as well as commands, builds, expiry and eviction.

### Building a transaction

The proof takes `BuildingInv` apart (`Parts`): the shape of the state (`Shape`), the builder
(`Builder`), what the last build returned (`Outcome`), and what each task holds while it is
suspended (`Local`), so that the step of a task has to be looked at for that
task only. Another task can step in between two suspensions when the queue admits two
at a time. `ArgumentsMean` and `ObjectsHaveOneInput` hold even then;
`BuiltNeverStale` and the budget in `PaymentsCover` are about the `SerialQueue`
(`limit = 1`), where a task has the builder to itself. A command's arguments are added
one after the other and any of them may append an input or find one that is there; the induction is along
the arguments (`Adding`). Inputs are never taken out or reordered, so an index
that was handed out stays right.

`PaymentsAreShortest` is about the greedy selection: the coins in order of value are taken
until they suffice. `RichestAreWorthMost` says that no other set of so many coins is worth
more; so a set that pays with fewer coins would be worth no more than a prefix that does not
pay. `CollectionLemmas` has what this needs of sums over sets and of removal from sequences.

### The client

`ClientInv` gives `NothingIsMissed` (`ResultsComplete`). While a call is under way, its
listing has every object up to the cursor that was owned since the call began, and
none beyond the cursor (`ObjectsSoFar`); the next page starts there, and the concatenation
stays sorted. While the modules of a package are completed, the ones before the module at hand are
whole or had a request for them fail, the ones behind it are as they came (`Completing`), and the part
at hand continues where the module's first page ended (`PartSoFar`). The
pages are any number and size; the theorem is for any number of callers, who share the session.

### Configuration and zkLogin

`Invariant` proves `ConfigInv /\ ZkInv` inductive; from it follow
`StaysAligned`, `ActivesStayThere`, `SignersOwnTheirKeys` and `ProofsBindTheirKeys`, for any
number of operations and any blocks. `ConfigInv` says
that every group, in memory and in the file, is *good*: its three lists have one length, each
address is that of the key at its index and each alias entry holds that key, the active
address and profile are among those of the group; and that the active group exists. The file has to be in the invariant, since reopening makes it the memory.
Each way to change a group has a lemma that it stays good (`ExtendedGood`,
`WithoutIdentityGood`, `ChosenGood`, ...); the lemmas on sequences before them say
what appending and dropping do to lists that belong together. `ZkInv` says that a filed
pair has the secret of the address it is filed under and a proof for its own session;
a request keeps the nonce it was made with, so that a JWT which is replaced
while the prover is awaited changes the seed and the address together.

`AliasesStandStill` is an action property: an alias that a group has before and after a step
stands for the same key and address. Groups are found by name, so it needs that
names are not repeated (`NamesInv`). A step puts one group back, appends one or drops one;
in the group that is put back, entries may have moved, but each old alias keeps its
key and address. Reopening, which reads the file again and may go back behind what was not
saved, is outside of the property.

### Only model-checked

Liveness, which needs fairness and `ENABLED` and is out of the provers' reach:
`EveryClaimGranted`, `EveryFutureResolves`, `CloseReturns`, `CloseReturnsUnlessStuck`, `EveryTaskEnds` and
`EveryCallEnds`. Every other property of a passing run has a theorem, with the
hypotheses named above. `TaskQueue` has no theorems of its own: its type invariant and exclusion are
proved as part of `BuildingInv`. None of the modules has a `RECURSIVE` operator;
sequences are folded.

## 5. Deviations

Where the code does something else than its documentation or comments say. The
first two are runs of the project that TLC finds violated.

* D1, `Parallel_waits`. A retry in COINS mode gives its permit back, takes a
  coin and waits for a permit; the worker takes the permit and waits for a
  coin (`base_parallel_executor.py:325-329`). With one of each left both wait
  and `close()` never returns.
* D2, `Parallel_shortfall`. With one coin to add, `send_funds_to_account` sends
  `min_threshold_balance - existing_balance` (`gas_utils.py:108`). Two tasks find
  the balance low; when the second gets there, the funds of the first have lifted it above the
  threshold, the amount is negative, its encoding as a u64 raises, and the
  executor halts with enough funds, although the callback returned coins and not
  "`None`/`[]` to halt" (`executors.rst:258`).

The others were met on the way and have no run of their own.

Serial executor.

* `_process_item` calls `set_result` without a test of
  `done()` (`serial_executor.py:423`). If the holder has cancelled the future,
  `InvalidStateError` ends the processor task; `_dead` stays False, later
  submissions are queued, and no other future ever resolves. `EveryFutureResolves` excepts this.
* The callback is awaited
  outside the `try` (`gas_utils.py:189`), so its exception ends the processor
  task, which `EveryFutureResolves` excepts, where the docstring promises True or
  False (`gas_utils.py:178`).
* `_submit_one` looks at `_dead`
  and not at `_closing` (`serial_executor.py:380`); what is submitted after
  `close()` is queued behind the sentinel and never resolves. `DrainedAtExit` and
  `EveryFutureResolves` therefore except `late`.
* `Serial_safety` with the invariant `tracked = coin` between transactions: in
  COINS mode only net gas is deducted from the tracked balance, not what a
  transaction splits off the gas coin, although it "tracks the managed gas coin
  balance" (`executors.rst:76`).
* A balance clamped to exactly 0 is not reported (`serial_executor.py:223`),
  although the callback is invoked "when the managed gas coin balance drops
  below" the threshold (`executors.rst:132`). `StartsFunded` excepts 0.

Parallel executor.

* `_hard_stop` drains the queue and cancels the worker
  (`base_parallel_executor.py:445`). The item the worker has taken already, and
  for which it waits at the tracker, the semaphore or the pool, is in neither
  place: its future stays pending (first part of `Abandoned`).
* When the drain loop meets a cancelled future
  (`base_parallel_executor.py:437`) it raises after setting `_dead`, before the
  sentinel is queued; `close()` then waits for the worker for ever (`Undrained`).
* `Parallel_coins` with `"owned_coins"` among the events: `_add_funds` appends the coins the callback returns
  without looking for those it manages (`base_parallel_executor.py:165`). If
  the callback returns coins of the sender as they are on chain, one coin is
  handed to two tasks, contrary to "each in-flight transaction holds one coin
  exclusively" (`executors.rst:225`).
* Failures retire coins
  (`base_parallel_executor.py:333`), nothing brings any back, and the worker
  waits in `checkout()` for ever (`Starved`); the "next refill cycle" of `gas_pool.py:58`
  does not exist.
* `Parallel_address` with `Deferred <- Nothing`: only ids that are unresolved at submission
  are claimed (`base_parallel_executor.py:222`), so transactions that were
  given resolved objects are not serialised, although "owned-object inputs are
  serialised automatically" (`executors.rst:223`). `ConflictsInOrder` holds for
  deferred ids; `ObjectVersions` calls the others `Unguarded`.
* A second release of a reservation creates an empty deque that nothing
  removes (`conflict_tracker.py:77`), so `in_flight_ids()` names an id nobody
  claims. `QuietIsClean` shows that the executor itself, which releases once,
  leaves none.

Object versions.

* Versions are compared as strings (`object_registry.py:183`), although "Higher version always
  wins" (`base_caching_executor.py:82`): "9" beats "10", so a newer version is
  dropped when the digits grow. `BehindOnlyAcrossWidth` shows that nothing
  else makes the registry fall behind, besides what the LRU bound dropped: an older report
  comes back after the eviction of a newer one.
* A command of a serial transaction pins the version the cache has when it is
  added (`txn_tx_argparse.py:91`); of two transactions that reuse an object and
  are prepared together the second is refused, although "subsequent transactions
  that reuse the same objects resolve from cache" (`executors.rst:35`). `OnlyPinsGoStale`
  shows that these pins are the only references that go stale.
* An object that becomes shared keeps its owned entry, which wins lookups
  (`cache.py:296`). The serial cache is never reset after a lost reply. A dry run
  stores what it fetched into the executor's cache, however late. Effects of the
  executor's own funding transactions are not applied to it. `unseen` stands for
  all of these in the properties.

Building.

* A deferred input keeps the mutability of its first use, so an object used as `&` and then as
  `&mut` is requested immutably if it is shared; a reference that is given after
  the deferred use adds a second input. `OneInputEach` excepts the latter.
* A command that is added while a build awaits something leaves a
  `built_transaction` without it, which `_invalidates_build` is there to
  prevent. `BuiltIsCurrent` therefore asks for a `SerialQueue`.
* The key of `AsyncLRU` includes `str(vars(self))`, so it changes with the
  transaction. `acquire_coins` has no bound of 256 coins, which the gas selection has.

Configuration and zkLogin.

* `new_group` means to roll back (`pysui_config.py:449,460,472`), but the calls it
  tests raise instead of returning: the half-built group stays, with the profiles before the first repeated one (`NewGroupFails`). `new_keypair` with
  `make_active` raises after adding the key when no group is active.
* The test that a generated alias is unique is void (`confgroup.py:284,299`),
  and `add_keys` compares the keys and aliases of a call with those of the
  group and not with each other. `AliasesKeepTheirKeys` is about groups without repetition.
* `get_proof` pairs the proof of the JWT it sent with the seed of the one the session has
  when the answer comes. Without an active group the key pair is kept and not filed.
* `ZkSealConfig.remove_group` leaves `active_group_name` dangling; decryption asks
  all services in spite of the threshold.

Clients.

* A listing of packages is returned as a success although modules lack functions or
  datatypes, when a further request fails (`async_client.py:174`), where the docstring promises
  them "fully accumulated" (`:78`). `ResultsComplete` excepts `cut`.
* The GraphQL renderings of `GetCoins` and `GetGas` do not drop coin reservations
  (`pgql_query.py:2685-2709`), the gRPC ones do, in spite of the
  consistency that `sui_commands.rst:39` describes. The model lists objects, where both do.
* `close()` before the first request closes nothing, and later requests open a
  session; a request on a closed session raises instead of returning a
  `SuiRpcResult`, as do exceptions that `_execute` does not name. This is GraphQL's; gRPC has no session,
  and what closing its channels does to requests is among what `Fails` and `Raises` allow.
* `wait_for_transaction` counts poll intervals and not time (`pgql_clients.py:601`),
  and exists for GraphQL only, although `async_funcs.py:213` calls it on any client.

## 6. What is not modelled

* What a transaction contains, in the executors' modules: there a build succeeds or
  fails. `TransactionBuilding` has the inputs and commands but neither
  encoding nor signatures, no publishing, no receiving or optional objects,
  no withdrawals, no sponsors.
* `send_funds_to_account` of the serial executor and the initial selection of
  coins: the amounts it may yield.
* Cancellation of the executors' own tasks by the application or by the end of
  the event loop, and direct calls of `add_funds` by the application.
* `GasCoinPool.reset`, `is_low` and `min_balance_per_coin`, which the executors do not use;
  coins keep one value in the pool.
* The function and custom entries of the cache, `reset()` of the registry.
* Subscriptions, the schema request of the GraphQL constructor, partial answers to
  simulations; cursors are opaque, so the node's pagination is modelled
  from its use.
* Urls, protocols and key formats of the configuration; the Seal client; cryptography.
* Generated protocol messages (`sui_grpc/suimsgs`), query texts and their decoding, BCS types,
  command records: most of the lines of the repository, and tables and conversions without
  state or control. They are named here for good: a model would repeat them.

## 7. Plan

Done: all modules of section 2 and the theorems of section 4. Left, in this order:

1. The Seal client's session; publishing and receiving in `TransactionBuilding`.
2. A registry promise (an entry never goes back, a deleted object stays deleted)
   as an abstract specification that `ObjectVersions` implements.
3. An abstract listing (a set of objects that only changes at its borders) that
   the paging of `ProtocolClient` implements.
