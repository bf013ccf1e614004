--------------------------- MODULE ExecutorPromise ---------------------------
(***************************************************************************)
(* What a transaction executor promises to the holder of a future returned *)
(* by submit(), independently of queues, gas and retries: the class        *)
(* comments of SerialExecutor and _BaseParallelExecutor and the ways       *)
(* their code settles futures.                                             *)
(*                                                                         *)
(*  - a future leaves "pending" once, and its outcome is final;            *)
(*  - ExecutionSkipped is only given by a halted executor, and a halted    *)
(*    executor gives it to every new submission;                           *)
(*  - at most one future at a time receives an execution outcome and, when *)
(*    InOrder, it is the oldest one pending (the serial executor).         *)
(***************************************************************************)
EXTENDS Naturals, Sequences

CONSTANTS
  Txns,     \* the transactions that may be submitted, each once
  InOrder   \* TRUE for the serial executor

VARIABLES
  fut,      \* the state of each transaction's future
  order,    \* the transactions in the order they were submitted
  halted    \* _dead

promiseVars == <<fut, order, halted>>

\* Outcomes of a transaction that was tried.
Results == {"ok", "build_error", "exec_error"}

FutureStates == {"none", "pending", "cancelled", "skipped"} \union Results

PromiseInit ==
  /\ fut = [t \in Txns |-> "none"]
  /\ order = <<>>
  /\ halted = FALSE

PromiseSubmit(t) ==
  /\ fut[t] = "none"
  /\ fut' = [fut EXCEPT ![t] = IF halted THEN "skipped" ELSE "pending"]
  /\ order' = Append(order, t)
  /\ UNCHANGED halted

\* The holder cancels the future (for example asyncio.wait_for timing out).
Withdraw(t) ==
  /\ fut[t] = "pending"
  /\ fut' = [fut EXCEPT ![t] = "cancelled"]
  /\ UNCHANGED <<order, halted>>

\* No pending transaction was submitted before t.
OldestPending(t) ==
  \E i \in 1..Len(order) :
    order[i] = t /\ \A j \in 1..(i - 1) : fut[order[j]] # "pending"

\* At most one transaction gets a result; those in skip are skipped with it.
Settle(done, r, skip) ==
  /\ \A t \in done \union skip : fut[t] = "pending"
  /\ \A t, u \in done : t = u
  /\ InOrder => \A t \in done : OldestPending(t)
  /\ halted' \in {halted, TRUE}
  /\ skip # {} => halted'
  /\ fut' = [t \in Txns |-> IF t \in done THEN r
                            ELSE IF t \in skip THEN "skipped" ELSE fut[t]]
  /\ UNCHANGED order

PromiseNext ==
  \/ \E t \in Txns : PromiseSubmit(t) \/ Withdraw(t)
  \/ \E done, skip \in SUBSET Txns, r \in Results : Settle(done, r, skip)

PromiseSpec == PromiseInit /\ [][PromiseNext]_promiseVars
==============================================================================
