--------------------------- MODULE ConflictTracker ---------------------------
(***************************************************************************)
(* The per-object FIFO lock table of the parallel executor                 *)
(* (executors/conflict_tracker.py).                                        *)
(*                                                                         *)
(* A caller claims a set of object ids: acquire() appends one fresh        *)
(* asyncio.Event per id to the id's deque, sets the event of every deque   *)
(* it found empty, and waits for all of its events.  release() pops the    *)
(* caller's event from the head of each deque and sets the next one.       *)
(*                                                                         *)
(* The critical sections under _lock contain no await, so each is one      *)
(* atomic step.  Events are never cleared, so waiting for them one by one  *)
(* in sorted order is the same as waiting for all of them.  An event is    *)
(* named by its caller: a caller has at most one event in each deque.      *)
(***************************************************************************)
EXTENDS Naturals, Sequences, SequencesExt

CONSTANTS
  Callers,  \* coroutines that use the tracker
  Objects   \* object ids

VARIABLES
  waiters,  \* _waiters: the deque of each id (<<>> also for an absent key)
  keys,     \* the keys present in the defaultdict _waiters
  isSet,    \* the events that are set, as <<caller, id>>
  claim,    \* the ids of the caller's current or last claim (_claimed)
  phase     \* where the caller is in acquire / use / release

vars == <<waiters, keys, isSet, claim, phase>>

Phases == {"idle", "waiting", "holding", "released", "cancelled"}

TypeOK ==
  /\ waiters \in [Objects -> Seq(Callers)]
  /\ keys \in SUBSET Objects
  /\ isSet \in SUBSET (Callers \X Objects)
  /\ claim \in [Callers -> SUBSET Objects]
  /\ phase \in [Callers -> Phases]

Init ==
  /\ waiters = [o \in Objects |-> <<>>]
  /\ keys = {}
  /\ isSet = {}
  /\ claim = [c \in Callers |-> {}]
  /\ phase = [c \in Callers |-> "idle"]
------------------------------------------------------------------------------
\* q[0] is ev: the caller's event is the first of the id's deque.
IsHead(c, o) == waiters[o] # <<>> /\ Head(waiters[o]) = c

\* The ids whose deque is empty when the claim is queued.
FreeIds(ids) == {o \in ids : waiters[o] = <<>>}

(***************************************************************************)
(* acquire(conflict_ids).  A claim that finds every deque empty, the empty *)
(* claim included, is granted without suspending.                          *)
(***************************************************************************)
Acquire(c, ids) ==
  /\ phase[c] \in {"idle", "released"}
  /\ waiters' = [o \in Objects |-> IF o \in ids THEN Append(waiters[o], c)
                                                ELSE waiters[o]]
  /\ keys' = keys \union ids
  /\ isSet' = (isSet \ ({c} \X Objects)) \union ({c} \X FreeIds(ids))
  /\ claim' = [claim EXCEPT ![c] = ids]
  /\ phase' = [phase EXCEPT ![c] = IF FreeIds(ids) = ids THEN "holding"
                                                         ELSE "waiting"]

\* Mutant of Granted: one event is enough.
GrantedByAny(c) ==
  /\ phase[c] = "waiting"
  /\ \E o \in claim[c] : <<c, o>> \in isSet
  /\ phase' = [phase EXCEPT ![c] = "holding"]
  /\ UNCHANGED <<waiters, keys, isSet, claim>>

\* The last ev.wait() of acquire() returns and the reservation is handed out.
Granted(c) ==
  /\ phase[c] = "waiting"
  /\ \A o \in claim[c] : <<c, o>> \in isSet
  /\ phase' = [phase EXCEPT ![c] = "holding"]
  /\ UNCHANGED <<waiters, keys, isSet, claim>>

(***************************************************************************)
(* The task waiting in acquire() is cancelled (a hard stop cancels the     *)
(* build worker there).  Nothing removes its events from the deques.       *)
(***************************************************************************)
Cancel(c) ==
  /\ phase[c] = "waiting"
  /\ phase' = [phase EXCEPT ![c] = "cancelled"]
  /\ UNCHANGED <<waiters, keys, isSet, claim>>

(***************************************************************************)
(* _release(claimed).  A reservation may be released more than once:       *)
(* release() is public and __aexit__ calls it again.  The second time the  *)
(* event is in no deque: q.remove() raises ValueError, which is swallowed, *)
(* but reading the defaultdict has created the key.                        *)
(***************************************************************************)
Remaining(c, o) ==
  IF IsHead(c, o) THEN Tail(waiters[o]) ELSE RemoveFirst(waiters[o], c)

\* Mutants of Woken: nobody is woken; the newest waiter is woken.
WokenNobody(c) == {e \in isSet : e[1] = c}

WokenNewest(c) ==
  {<<Last(waiters[o]), o>> :
     o \in {p \in claim[c] : IsHead(c, p) /\ Tail(waiters[p]) # <<>>}}

Woken(c) == {<<Head(Tail(waiters[o])), o>> :
               o \in {p \in claim[c] : IsHead(c, p) /\ Tail(waiters[p]) # <<>>}}

Release(c) ==
  /\ phase[c] \in {"holding", "released"}
  /\ waiters' = [o \in Objects |-> IF o \in claim[c] THEN Remaining(c, o)
                                                     ELSE waiters[o]]
  /\ keys' = (keys \union claim[c])
               \ {o \in claim[c] : IsHead(c, o) /\ Tail(waiters[o]) = <<>>}
  /\ isSet' = isSet \union Woken(c)
  /\ phase' = [phase EXCEPT ![c] = "released"]
  /\ UNCHANGED claim

Next ==
  \E c \in Callers :
    \/ \E ids \in SUBSET Objects : Acquire(c, ids)
    \/ Granted(c)
    \/ Cancel(c)
    \/ Release(c)

(***************************************************************************)
(* The event loop resumes a waiter whose events are set, and a reservation *)
(* is used as a context manager, so a holder releases.                     *)
(***************************************************************************)
Spec == Init /\ [][Next]_vars

FairSpec ==
  /\ Spec
  /\ \A c \in Callers : WF_vars(Granted(c))
  /\ \A c \in Callers : WF_vars(phase[c] = "holding" /\ Release(c))
------------------------------------------------------------------------------
\* in_flight_ids()
InFlightIds == keys

Occurs(c, o) == \E i \in 1..Len(waiters[o]) : waiters[o][i] = c

\* c's event was queued on o before d's.
Ahead(o, c, d) ==
  \E i, j \in 1..Len(waiters[o]) :
    i < j /\ waiters[o][i] = c /\ waiters[o][j] = d

(***************************************************************************)
(* Two callers never hold reservations on a common object: this is what    *)
(* keeps two in-flight transactions from using one owned object.           *)
(***************************************************************************)
MutualExclusion ==
  \A c, d \in Callers :
    c # d /\ phase[c] = "holding" /\ phase[d] = "holding"
      => claim[c] \intersect claim[d] = {}

(***************************************************************************)
(* No wake-up is lost: the caller whose event is first in a deque has that *)
(* event set, whatever releases and repeated releases came before.         *)
(***************************************************************************)
NoLostWakeup ==
  \A o \in Objects :
    waiters[o] # <<>> => <<Head(waiters[o]), o>> \in isSet

(***************************************************************************)
(* The tracker cannot deadlock by itself: while somebody waits, somebody   *)
(* holds a reservation, can be granted one, or was cancelled with its      *)
(* events queued.                                                          *)
(***************************************************************************)
SomeoneCanRun ==
  (\E c \in Callers : phase[c] = "waiting")
    => \E c \in Callers :
         \/ phase[c] \in {"holding", "cancelled"}
         \/ phase[c] = "waiting" /\ \A o \in claim[c] : <<c, o>> \in isSet

(***************************************************************************)
(* Grants respect the order of arrival on every object: a caller is not    *)
(* granted while one that queued on the same object before it still waits. *)
(***************************************************************************)
NoOvertaking ==
  [][\A c, d \in Callers, o \in Objects :
       /\ Ahead(o, c, d)
       /\ phase[c] \in {"waiting", "holding"}
       /\ phase'[c] \in {"waiting", "holding"}
       => phase'[d] # "holding"]_vars

(***************************************************************************)
(* The invariant behind the three above.  A deque names a caller at most   *)
(* once, and exactly while the caller has an unreleased claim on the id;   *)
(* of the queued events, exactly those at the heads are set; a holder is   *)
(* at the head of every id it claimed.                                     *)
(***************************************************************************)
QueuedOnce ==
  \A o \in Objects : \A i, j \in 1..Len(waiters[o]) :
    waiters[o][i] = waiters[o][j] => i = j

QueuedIffClaimed ==
  \A c \in Callers, o \in Objects :
    Occurs(c, o) <=> /\ o \in claim[c]
                     /\ phase[c] \in {"waiting", "holding", "cancelled"}

SetIffHead ==
  \A c \in Callers, o \in Objects :
    Occurs(c, o) => (<<c, o>> \in isSet <=> IsHead(c, o))

HoldersAreHeads ==
  \A c \in Callers :
    phase[c] = "holding" => \A o \in claim[c] : IsHead(c, o)

TrackerInv ==
  TypeOK /\ QueuedOnce /\ QueuedIffClaimed /\ SetIffHead /\ HoldersAreHeads

(***************************************************************************)
(* Unless a waiter is cancelled, every claim is eventually granted.        *)
(***************************************************************************)
EveryClaimGranted ==
  [](\A c \in Callers : phase[c] # "cancelled")
    => \A c \in Callers : phase[c] = "waiting" ~> phase[c] = "holding"
==============================================================================
