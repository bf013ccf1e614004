------------------------------ MODULE TaskQueue ------------------------------
(***************************************************************************)
(* SerialQueue and ParallelQueue (executors/queue.py): run_task() calls a  *)
(* task inside `async with` a lock or a semaphore.  The serial queue is    *)
(* the one whose limit is 1.  Waiters are woken in the order in which they *)
(* came, and a newcomer does not pass them.                                *)
(*                                                                         *)
(* What a task does once inside is the business of the module that extends *)
(* this one; it ends with Leave, raising or not.                           *)
(***************************************************************************)
EXTENDS Naturals, Sequences, SequencesExt

CONSTANTS
  Tasks,
  Limits  \* the limits a queue may have

ASSUME QueueAssumption == Limits \subseteq Nat \ {0}

VARIABLES
  limit,    \* 1 for SerialQueue, max_tasks for ParallelQueue
  waiting,  \* tasks that wait for the lock or the semaphore, oldest first
  inside,   \* tasks that hold it
  ended     \* tasks whose run_task() is over

queueVars == <<limit, waiting, inside, ended>>

QueueInit ==
  /\ limit \in Limits
  /\ waiting = <<>>
  /\ inside = {}
  /\ ended = {}

Waiting(t) == \E i \in DOMAIN waiting : waiting[i] = t

\* Mutant: the limit is not looked at.
RoomForAll == TRUE

Room == Cardinality(inside) < limit

\* run_task() is called.
Arrive(t) ==
  /\ ~Waiting(t) /\ t \notin inside \union ended
  /\ IF Room /\ waiting = <<>>
     THEN inside' = inside \union {t} /\ UNCHANGED waiting
     ELSE waiting' = Append(waiting, t) /\ UNCHANGED inside
  /\ UNCHANGED <<limit, ended>>

\* The oldest waiter goes on.
Grant ==
  /\ waiting # <<>> /\ Room
  /\ inside' = inside \union {Head(waiting)}
  /\ waiting' = Tail(waiting)
  /\ UNCHANGED <<limit, ended>>

\* The block is left, with a result or an exception.
Leave(t) ==
  /\ inside' = inside \ {t}
  /\ ended' = ended \union {t}
  /\ UNCHANGED <<limit, waiting>>

\* The caller gives up before its task has begun.
Abandon(t) ==
  /\ \E i \in DOMAIN waiting : waiting[i] = t /\ waiting' = RemoveAt(waiting, i)
  /\ ended' = ended \union {t}
  /\ UNCHANGED <<limit, inside>>

QueueOK ==
  /\ limit \in Limits
  /\ inside \subseteq Tasks /\ ended \subseteq Tasks
  /\ IsFiniteSet(inside) /\ Cardinality(inside) <= limit
  /\ waiting \in Seq(Tasks) /\ IsInjective(waiting)
  /\ inside \intersect (ended \union ToSet(waiting)) = {}
  /\ ended \intersect ToSet(waiting) = {}
=============================================================================
