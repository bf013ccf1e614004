------------------------- MODULE ParallelExecutorProofs -------------------------
(***************************************************************************)
(* Proofs about ParallelExecutor, for any transactions, objects, coins,    *)
(* limits and events: its invariant ParallelInv, and from it that at most  *)
(* max_concurrent tasks are in flight, that conflicting transactions run   *)
(* one after the other in the order of submission, that skipped ones were  *)
(* never attempted, that a quiet executor has leaked nothing, and that the *)
(* executor keeps the promise made with its futures.                       *)
(*                                                                         *)
(* TaskStep and PlaceStep say what the steps of a task, and of the worker  *)
(* and the callers, may do; each part of the invariant is shown to survive *)
(* those, and the actions are opened only to show that they are such       *)
(* steps.                                                                  *)
(***************************************************************************)
EXTENDS ParallelExecutor, FiniteSetTheorems, WellFoundedInduction, TLAPS

Tracker == INSTANCE ConflictTrackerProofs WITH Callers <- Txns

-----------------------------------------------------------------------------
(***************************************************************************)
(* The tracker that the executor uses is the one of ConflictTrackerProofs. *)
(***************************************************************************)
LEMMA SameInvariant ==
  /\ CT!TrackerInv <=> Tracker!TrackerInv
  /\ CT!TrackerInv' <=> Tracker!TrackerInv'
BY DEF CT!TrackerInv, CT!TypeOK, CT!Phases, CT!QueuedOnce, CT!QueuedIffClaimed,
       CT!Occurs, CT!SetIffHead, CT!IsHead, CT!HoldersAreHeads,
       Tracker!TrackerInv, Tracker!TypeOK, Tracker!Phases, Tracker!QueuedOnce,
       Tracker!QueuedIffClaimed, Tracker!Occurs, Tracker!SetIffHead, Tracker!IsHead,
       Tracker!HoldersAreHeads

LEMMA SameActions ==
  ASSUME NEW t \in Txns
  PROVE  /\ \A ids : CT!Acquire(t, ids) <=> Tracker!Acquire(t, ids)
         /\ CT!Granted(t) <=> Tracker!Granted(t)
         /\ CT!Cancel(t) <=> Tracker!Cancel(t)
BY DEF CT!Acquire, CT!FreeIds, CT!Granted, CT!Cancel,
       Tracker!Acquire, Tracker!FreeIds, Tracker!Granted, Tracker!Cancel

(***************************************************************************)
(* What a call of the tracker does to its variables when its invariant     *)
(* holds.  Grants: the deques with a new entry at the end.                 *)
(***************************************************************************)
LEMMA AcquireEffect ==
  ASSUME CT!TrackerInv, NEW t \in Txns, NEW ids \in SUBSET Objects, CT!Acquire(t, ids)
  PROVE  /\ CT!TrackerInv'
         /\ \A o \in Objects :
              waiters'[o] = IF o \in ids THEN Append(waiters[o], t) ELSE waiters[o]
         /\ claim' = [claim EXCEPT ![t] = ids]
         /\ phase[t] \in {"idle", "released"}
         /\ \/ phase' = [phase EXCEPT ![t] = "waiting"]
            \/ /\ phase' = [phase EXCEPT ![t] = "holding"]
               /\ \A o \in ids : waiters[o] = <<>>
         /\ KeysExact => KeysExact'
<1>1. CT!TrackerInv'
  BY SameInvariant, SameActions, Tracker!AcquireInv
<1>2. \A o \in Objects :
        waiters'[o] = IF o \in ids THEN Append(waiters[o], t) ELSE waiters[o]
  BY DEF CT!Acquire
<1>3. /\ claim' = [claim EXCEPT ![t] = ids]
      /\ phase[t] \in {"idle", "released"}
      /\ \/ phase' = [phase EXCEPT ![t] = "waiting"]
         \/ /\ phase' = [phase EXCEPT ![t] = "holding"]
            /\ \A o \in ids : waiters[o] = <<>>
  BY DEF CT!Acquire, CT!FreeIds
<1>4. ASSUME KeysExact PROVE KeysExact'
  <2>1. \A o \in Objects : waiters[o] \in Seq(Txns)
    BY DEF CT!TrackerInv, CT!TypeOK
  <2>2. \A o \in Objects : Append(waiters[o], t) # <<>>
    BY <2>1, Tracker!AppendFacts
  <2>3. keys' = keys \union ids
    BY DEF CT!Acquire
  <2> QED BY <1>2, <1>4, <2>2, <2>3 DEF KeysExact
<1> QED BY <1>1, <1>2, <1>3, <1>4

LEMMA GrantedEffect ==
  ASSUME CT!TrackerInv, NEW t \in Txns, CT!Granted(t)
  PROVE  /\ CT!TrackerInv'
         /\ phase[t] = "waiting"
         /\ phase' = [phase EXCEPT ![t] = "holding"]
         /\ UNCHANGED <<waiters, keys, claim>>
         /\ \A o \in claim[t] : CT!IsHead(t, o)
<1>1. CT!TrackerInv'
  BY SameInvariant, SameActions, Tracker!GrantedInv
<1>2. \A o \in claim[t] : CT!IsHead(t, o)
  BY DEF CT!Granted, CT!TrackerInv, CT!SetIffHead, CT!QueuedIffClaimed, CT!TypeOK
<1> QED BY <1>1, <1>2 DEF CT!Granted

LEMMA CancelEffect ==
  ASSUME CT!TrackerInv, NEW t \in Txns, CT!Cancel(t)
  PROVE  /\ CT!TrackerInv'
         /\ phase[t] = "waiting"
         /\ phase' = [phase EXCEPT ![t] = "cancelled"]
         /\ UNCHANGED <<waiters, keys, claim>>
<1>1. CT!TrackerInv'
  BY SameInvariant, SameActions, Tracker!CancelInv
<1> QED BY <1>1 DEF CT!Cancel

\* Releasing a reservation in use: the holder is the head of all its deques.
LEMMA ReleaseEffect ==
  ASSUME CT!TrackerInv, NEW t \in Txns, CT!Release(t), phase[t] = "holding"
  PROVE  /\ CT!TrackerInv'
         /\ \A o \in claim[t] : o \in Objects /\ waiters[o] # <<>>
         /\ \A o \in Objects :
              waiters'[o] = IF o \in claim[t] THEN Tail(waiters[o]) ELSE waiters[o]
         /\ claim' = claim
         /\ phase' = [phase EXCEPT ![t] = "released"]
         /\ KeysExact => KeysExact'
<1>1. \A o \in claim[t] : o \in Objects /\ CT!IsHead(t, o)
  BY DEF CT!TrackerInv, CT!HoldersAreHeads, CT!TypeOK
<1>2. \A o \in Objects :
        waiters'[o] = IF o \in claim[t] THEN Tail(waiters[o]) ELSE waiters[o]
  BY <1>1 DEF CT!Release, CT!Remaining
<1>3. CT!TrackerInv'
  <2>1. waiters' = [o \in Objects |-> IF o \in claim[t] THEN Tail(waiters[o])
                                                        ELSE waiters[o]]
    BY <1>1 DEF CT!Release, CT!Remaining
  <2>2. \A o \in claim[t] : Tracker!Remaining(t, o) = Tail(waiters[o])
    BY <1>1 DEF CT!IsHead, Tracker!Remaining, Tracker!IsHead
  <2>3. Tracker!Release(t)
    BY <2>1, <2>2 DEF CT!Release, CT!Woken, CT!IsHead,
                      Tracker!Release, Tracker!Woken, Tracker!IsHead
  <2> QED BY <2>3, SameInvariant, Tracker!ReleaseInv
<1>4. ASSUME KeysExact PROVE KeysExact'
  <2>1. keys' = (keys \union claim[t])
                  \ {o \in claim[t] : CT!IsHead(t, o) /\ Tail(waiters[o]) = <<>>}
    BY DEF CT!Release
  <2> QED BY <1>1, <1>2, <1>4, <2>1 DEF KeysExact, CT!IsHead
<1> QED BY <1>1, <1>2, <1>3, <1>4 DEF CT!Release, CT!IsHead

-----------------------------------------------------------------------------
(***************************************************************************)
(* Sequences.                                                              *)
(***************************************************************************)

\* A suffix holds items of the sequence, in the same order.
LEMMA SuffixFacts ==
  ASSUME NEW S, NEW q \in Seq(S), NEW i \in 1..Len(q)
  PROVE  LET r == SubSeq(q, i + 1, Len(q)) IN
         /\ r \in Seq(S)
         /\ Len(r) = Len(q) - i
         /\ \A k \in 1..Len(r) : i + k \in 1..Len(q) /\ r[k] = q[i + k]
OBVIOUS

\* A non-empty set of natural numbers has a least element.
LEMMA LeastElement ==
  ASSUME NEW I \in SUBSET Nat, I # {}
  PROVE  \E i \in I : \A j \in I : i <= j
<1> DEFINE Less == {ss \in Nat \X Nat : ss[1] < ss[2]}
<1>0. IsWellFoundedOn(Less, Nat)
  BY NatLessThanWellFounded, Zenon DEF OpToRel
<1>1. PICK i \in I : \A j \in I : ~(<<j, i>> \in Less)
  BY <1>0, WFMin
<1>2. \A j \in I : i \in Nat /\ j \in Nat /\ ~(j < i)
  BY <1>1, Zenon
<1>3. \A j \in I : i <= j
  BY <1>2
<1> QED BY <1>3

\* Leaving a line: the others stay in it.
LEMMA RemoveAtIsSeq ==
  ASSUME NEW S, NEW q \in Seq(S), NEW i \in 1..Len(q)
  PROVE  RemoveAt(q, i) \in Seq(S)
<1>1. SubSeq(q, 1, i - 1) \in Seq(S)
  OBVIOUS
<1>2. SubSeq(q, i + 1, Len(q)) \in Seq(S)
  OBVIOUS
<1> QED BY <1>1, <1>2 DEF RemoveAt

LEMMA RemoveFirstIsSeq ==
  ASSUME NEW S, NEW q \in Seq(S), NEW e
  PROVE  RemoveFirst(q, e) \in Seq(S)
<1>1. CASE \E i \in 1..Len(q) : q[i] = e
  <2> DEFINE I == {i \in 1..Len(q) : q[i] = e}
  <2>0. I \in SUBSET Nat /\ I # {}
    BY <1>1
  <2>1. \E i \in I : \A j \in I : i <= j
    <3> HIDE DEF I
    <3> QED BY <2>0, LeastElement
  <2>2. Min(I) \in I
    BY <2>1 DEF Min
  <2>3. RemoveFirst(q, e) = RemoveAt(q, Min(I))
    BY <1>1 DEF RemoveFirst, SelectInSeq
  <2>4. Min(I) \in 1..Len(q)
    BY <2>2
  <2> QED BY <2>3, <2>4, RemoveAtIsSeq
<1>2. CASE ~\E i \in 1..Len(q) : q[i] = e
  BY <1>2 DEF RemoveFirst
<1> QED BY <1>1, <1>2

\* Before is a strict order of the submitted transactions.
LEMMA BeforeFacts ==
  ASSUME TypeOK, TakenInOrder, NEW t, NEW u, Before(t, u)
  PROVE  /\ t \in Txns /\ u \in Txns /\ t # u
         /\ ~Before(u, t)
         /\ Submitted(t) /\ Submitted(u)
<1>1. order \in Seq(Txns)
  BY DEF TypeOK
<1>2. PICK i \in 1..Len(order), j \in 1..Len(order) :
        i < j /\ order[i] = t /\ order[j] = u
  BY DEF Before
<1>3. \A k, m \in 1..Len(order) : order[k] = order[m] => k = m
  BY DEF TakenInOrder
<1>4. t # u /\ ~Before(u, t)
  BY <1>1, <1>2, <1>3 DEF Before
<1> QED BY <1>1, <1>2, <1>4 DEF Submitted

\* Any two of them are ordered.
LEMMA BeforeTotal ==
  ASSUME TypeOK, NEW t, NEW u, Submitted(t), Submitted(u), t # u
  PROVE  Before(t, u) \/ Before(u, t)
<1>1. PICK i \in 1..Len(order) : order[i] = t
  BY DEF Submitted
<1>2. PICK j \in 1..Len(order) : order[j] = u
  BY DEF Submitted
<1>3. i < j \/ j < i
  BY <1>1, <1>2
<1> QED BY <1>1, <1>2, <1>3 DEF Before

\* An unchanged order orders as before.
LEMMA SameOrder ==
  ASSUME order' = order
  PROVE  /\ \A t, u : Before(t, u)' <=> Before(t, u)
         /\ \A t : Submitted(t)' <=> Submitted(t)
BY DEF Before, Submitted

(***************************************************************************)
(* A task enters, leaves or stays in the set of those in flight.           *)
(***************************************************************************)
LEMMA InFlightChanges ==
  ASSUME TypeOK, PermitsKept, NEW t \in Txns, NEW p, tpc' = [tpc EXCEPT ![t] = p]
  PROVE  LET was == tpc[t] \notin {"none", "ended", "reacquire"}
             is  == p \notin {"none", "ended", "reacquire"}
         IN  /\ IsFiniteSet(InFlight') /\ Cardinality(InFlight) \in Nat
             /\ Cardinality(InFlight') =
                  Cardinality(InFlight) + (IF is THEN 1 ELSE 0) - (IF was THEN 1 ELSE 0)
<1> DEFINE is == p \notin {"none", "ended", "reacquire"}
<1>1. IsFiniteSet(InFlight) /\ Cardinality(InFlight) \in Nat
  BY FS_CardinalityType DEF PermitsKept
<1>2. t \in InFlight <=> tpc[t] \notin {"none", "ended", "reacquire"}
  BY DEF InFlight, Running
<1>3. CASE is
  <2>1. InFlight' = InFlight \union {t}
    BY <1>3 DEF InFlight, Running, TypeOK
  <2> QED BY <1>1, <1>2, <1>3, <2>1, FS_AddElement
<1>4. CASE ~is
  <2>1. InFlight' = InFlight \ {t}
    BY <1>4 DEF InFlight, Running, TypeOK
  <2> QED BY <1>1, <1>2, <1>4, <2>1, FS_RemoveElement
<1> QED BY <1>3, <1>4

(***************************************************************************)
(* A hard stop skips queued transactions only, and what it leaves in the   *)
(* queue it does not skip.                                                 *)
(***************************************************************************)
LEMMA HardStopEffect ==
  ASSUME ParallelInv, order' = order,
         NEW f \in [Txns -> Promise!FutureStates],
         \A t \in Txns : Queued(t) => f[t] = fut[t],
         HardStop(f)
  PROVE  /\ halted' = TRUE /\ wcancel' \in BOOLEAN
         /\ queue' \in Seq(Txns \union {SENTINEL})
         /\ fut' \in [Txns -> Promise!FutureStates]
         /\ \A t \in Txns : Queued(t)' => Queued(t) /\ fut'[t] = fut[t]
         /\ \A t \in Txns : \/ fut'[t] = f[t]
                            \/ /\ ~halted
                               /\ Queued(t) /\ f[t] = "pending" /\ fut'[t] = "skipped"
         /\ \A k, m \in 1..Len(queue') :
              k < m /\ {queue'[k], queue'[m]} \subseteq Txns
                => Before(queue'[k], queue'[m])
<1>0. /\ queue \in Seq(Txns \union {SENTINEL}) /\ SENTINEL \notin Txns
      /\ halted \in BOOLEAN /\ wcancel \in BOOLEAN
  BY MarkersAssumption DEF ParallelInv, TypeOK
<1>1. \A k, m \in 1..Len(queue) :
        k < m /\ {queue[k], queue[m]} \subseteq Txns => Before(queue[k], queue[m])
  BY DEF ParallelInv, TakenInOrder
<1>2. CASE halted
  BY <1>0, <1>1, <1>2 DEF HardStop, Queued
<1>3. CASE ~halted
  <2>1. /\ halted' = TRUE
        /\ fut' = [t \in Txns |-> IF t \in Drained(f) THEN "skipped" ELSE f[t]]
    BY <1>3 DEF HardStop
  <2>2. fut' \in [Txns -> Promise!FutureStates]
    BY <2>1 DEF Promise!FutureStates
  <2>3. ASSUME NEW t \in Txns, t \in Drained(f)
        PROVE  Queued(t) /\ f[t] = "pending"
    <3>1. PICK k \in 1..Len(queue) : queue[k] = t /\ \A j \in Refusing(f) : k < j
      BY <2>3 DEF Drained
    <3>2. k \notin Refusing(f)
      BY <3>1
    <3>3. Queued(t) /\ f[t] # "cancelled"
      BY <3>1, <3>2 DEF Refusing, Queued
    <3> QED BY <3>3 DEF ParallelInv, FuturesMatch
  <2>4. CASE Refusing(f) = {}
    <3>1. queue' = <<SENTINEL>> /\ wcancel' \in BOOLEAN
      BY <1>3, <2>4 DEF HardStop
    <3> QED BY <1>0, <1>3, <2>1, <2>2, <2>3, <3>1 DEF Queued
  <2>5. CASE Refusing(f) # {}
    <3>1. PICK i \in Refusing(f) : /\ \A j \in Refusing(f) : i <= j
                                   /\ queue' = SubSeq(queue, i + 1, Len(queue))
      BY <1>3, <2>5 DEF HardStop
    <3>2. i \in 1..Len(queue) /\ wcancel' = wcancel
      BY <1>3, <2>5 DEF Refusing, HardStop
    <3>3. /\ queue' \in Seq(Txns \union {SENTINEL})
          /\ \A k \in 1..Len(queue') : /\ i + k \in 1..Len(queue)
                                       /\ queue'[k] = queue[i + k]
      BY <1>0, <3>1, <3>2, SuffixFacts
    <3>4. ASSUME NEW t \in Txns, Queued(t)'
          PROVE  Queued(t) /\ t \notin Drained(f)
      <4>1. PICK k \in 1..Len(queue') : queue'[k] = t
        BY <3>4 DEF Queued
      <4>2. i + k \in 1..Len(queue) /\ queue[i + k] = t
        BY <4>1, <3>3
      <4>3. ASSUME t \in Drained(f) PROVE FALSE
        <5>1. PICK m \in 1..Len(queue) : /\ \A j \in Refusing(f) : m < j
                                         /\ queue[m] = t
          BY <4>3 DEF Drained
        <5>2. m < i + k
          BY <5>1, <3>1, <3>2, <4>1
        <5>3. Before(t, t)
          BY <1>1, <5>1, <5>2, <4>2
        <5> QED BY <5>3, BeforeFacts DEF ParallelInv
      <4> QED BY <4>2, <4>3 DEF Queued
    <3>5. \A k, m \in 1..Len(queue') :
            k < m /\ {queue'[k], queue'[m]} \subseteq Txns
              => Before(queue'[k], queue'[m])
      <4> SUFFICES ASSUME NEW k \in 1..Len(queue'), NEW m \in 1..Len(queue'), k < m,
                          {queue'[k], queue'[m]} \subseteq Txns
                   PROVE  Before(queue'[k], queue'[m])
        OBVIOUS
      <4>1. /\ i + k \in 1..Len(queue) /\ i + m \in 1..Len(queue) /\ i + k < i + m
            /\ queue'[k] = queue[i + k] /\ queue'[m] = queue[i + m]
        BY <3>2, <3>3
      <4> QED BY <1>1, <4>1
    <3> QED BY <1>0, <1>3, <2>1, <2>2, <2>3, <3>2, <3>3, <3>4, <3>5
  <2> QED BY <2>4, <2>5
<1> QED BY <1>2, <1>3

-----------------------------------------------------------------------------
(***************************************************************************)
(* What a step of the task of t may do to what the actors share: the       *)
(* permit it has, the tracker, the futures and the executor itself.        *)
(***************************************************************************)
Places == {"build", "execute", "callback", "fund", "retry callback", "retry fund",
           "reacquire", "ended"}

Futures == [Txns -> Promise!FutureStates]

TaskStep(t) ==
  \E p \in Places :
    /\ Running(t)
    /\ tpc' = [tpc EXCEPT ![t] = p]
    /\ TaskFrame
    /\ permits' = permits + (IF tpc[t] = "reacquire" THEN 0 ELSE 1)
                          - (IF p \in {"reacquire", "ended"} THEN 0 ELSE 1)
    /\ tpc[t] = "reacquire" => permits > 0
    /\ line' \in Seq(Txns)
    /\ attempted' \in {attempted, attempted \union {t}}
    /\ IF p = "ended" THEN CT!Release(t) ELSE UNCHANGED tracker
    /\ \E f \in Futures :
         /\ f = fut \/ \E r \in Promise!Results : f = Settled(t, r)
         /\ NoStop(f) \/ HardStop(f)

\* The coins, the balance and what belongs to one task alone.
DataTyped ==
  /\ pool \in Seq(Coins)
  /\ tracked \in Nat
  /\ held \in [Txns -> Coins \union {NoCoin}]
  /\ retries \in [Txns -> 0..MaxRetries]
  /\ sending \in [Txns -> Int]
  /\ TasksReady

(***************************************************************************)
(* What a step of the worker that prepares t may do: it takes t from the   *)
(* queue or has it already, and it goes to wait for the claim, for a       *)
(* permit or for a coin, or it starts the task.                            *)
(***************************************************************************)
PlaceStep(t) ==
  \E p \in {"conflict", "semaphore", "checkout", "get"} :
    /\ wpc' = p /\ wcur' = t
    /\ tpc' = IF p = "get" THEN [tpc EXCEPT ![t] = "build"] ELSE tpc
    /\ permits' = permits + (IF wpc = "checkout" THEN 1 ELSE 0)
                          - (IF p \in {"checkout", "get"} THEN 1 ELSE 0)
    /\ permits' \in Nat
    /\ line' \in Seq(Txns)
    /\ UNCHANGED <<promise, closing, wcancel, attempted>>
    /\ \/ /\ wpc = "get" /\ ~halted
          /\ queue # <<>> /\ Head(queue) = t /\ queue' = Tail(queue)
          /\ CT!Acquire(t, Deferred[t])
          /\ p = "conflict" <=> phase'[t] # "holding"
       \/ /\ wpc = "conflict" /\ wcur = t
          /\ CT!Granted(t)
          /\ UNCHANGED queue
          /\ p # "conflict"
       \/ /\ wpc \in {"semaphore", "checkout"} /\ wcur = t
          /\ UNCHANGED <<queue, tracker>>
          /\ p \in {"checkout", "get"}

\* The types of what most steps count with.
LEMMA InvTypes ==
  ASSUME ParallelInv
  PROVE  /\ permits \in Nat /\ MaxConcurrent \in Nat /\ permits <= MaxConcurrent
         /\ line \in Seq(Txns) /\ order \in Seq(Txns)
         /\ fut \in Futures
         /\ tpc \in [Txns -> Places \union {"none"}]
         /\ phase \in [Txns -> CT!Phases]
         /\ claim \in [Txns -> SUBSET Objects]
         /\ \A o \in Objects : waiters[o] \in Seq(Txns)
<1>1. TypeOK /\ CT!TypeOK
  BY DEF ParallelInv, TypeOK
<1>2. permits \in Nat /\ MaxConcurrent \in Nat /\ permits <= MaxConcurrent
  <2>1. MaxConcurrent \in Nat
    BY NumbersAssumption
  <2>2. permits \in 0..MaxConcurrent
    BY <1>1 DEF TypeOK
  <2> QED BY <2>1, <2>2
<1>3. line \in Seq(Txns) /\ order \in Seq(Txns) /\ fut \in Futures
  BY <1>1 DEF TypeOK, Futures
<1>4. tpc \in [Txns -> Places \union {"none"}]
  BY <1>1 DEF TypeOK, Places
<1>5. /\ phase \in [Txns -> CT!Phases]
      /\ claim \in [Txns -> SUBSET Objects]
      /\ \A o \in Objects : waiters[o] \in Seq(Txns)
  BY <1>1 DEF CT!TypeOK
<1> QED BY <1>2, <1>3, <1>4, <1>5

\* Settling changes the future of t at most, and not to one without a result.
LEMMA SettledFacts ==
  ASSUME TypeOK, NEW t \in Txns, NEW r \in Promise!Results
  PROVE  /\ Settled(t, r) \in Futures
         /\ \A u \in Txns : u # t => Settled(t, r)[u] = fut[u]
         /\ Settled(t, r)[t] = IF fut[t] = "pending" THEN r ELSE fut[t]
         /\ r \notin {"none", "pending", "cancelled", "skipped"}
BY DEF TypeOK, Settled, Futures, Promise!FutureStates, Promise!Results

\* A batch of coins is a sequence of coins; what it is worth is a natural number.
LEMMA BatchFacts ==
  ASSUME NEW b \in Batches
  PROVE  /\ b \in Seq(Coins) /\ b # <<>>
         /\ Len(b) \in Nat /\ Len(b) * CoinValue \in Nat
<1>1. Offers \subseteq Coins
  BY DEF Offers, Spare
<1>2. PICK m \in 0..MaxBatch : b \in [1..m -> Offers]
  BY DEF Batches, SeqOf
<1>3. MaxBatch \in Nat /\ CoinValue \in Nat
  BY NumbersAssumption
<1>4. b \in Seq(Coins) /\ b # <<>>
  BY <1>1, <1>2, <1>3 DEF Batches
<1>5. Len(b) \in Nat
  BY <1>4
<1>6. Len(b) * CoinValue \in Nat
  BY <1>3, <1>5
<1> QED BY <1>4, <1>5, <1>6

\* _add_funds leaves coins in the pool and a natural number as the balance.
LEMMA FundingFacts ==
  ASSUME TypeOK, NEW t \in Txns, NEW f \in Fundings(t)
  PROVE  /\ f.pool \in Seq(Coins) /\ f.tracked \in Nat
         /\ Mode = "coins" => f.pool # <<>>
<1>1. pool \in Seq(Coins) /\ tracked \in Nat
  BY DEF TypeOK
<1>2. CASE Mode = "coins"
  <2>1. PICK b \in Batches : f = [pool |-> pool \o b, tracked |-> tracked + Len(b) * CoinValue]
    BY <1>2 DEF Fundings
  <2>2. b \in Seq(Coins) /\ b # <<>> /\ Len(b) * CoinValue \in Nat
    BY BatchFacts
  <2>3. f.pool = pool \o b /\ f.tracked = tracked + Len(b) * CoinValue
    BY <2>1
  <2>4. pool \o b \in Seq(Coins) /\ pool \o b # <<>>
    BY <1>1, <2>2
  <2> QED BY <1>1, <2>2, <2>3, <2>4
<1>3. CASE Mode # "coins"
  <2>1. PICK a \in {sending[t]} \intersect Nat : f = [pool |-> pool, tracked |-> tracked + a]
    BY <1>3 DEF Fundings
  <2> QED BY <1>1, <1>3, <2>1
<1> QED BY <1>2, <1>3

\* What the end of a task does, as a step of the task.
LEMMA EndEffect ==
  ASSUME ParallelInv, NEW t \in Txns, Running(t), tpc[t] # "reacquire", End(t),
         pool' \in Seq(Coins), tracked' \in Nat
  PROVE  /\ tpc' = [tpc EXCEPT ![t] = "ended"] /\ permits' = permits + 1
         /\ line' = line /\ CT!Release(t) /\ line' \in Seq(Txns)
         /\ DataTyped'
<1>1. /\ tpc \in [Txns -> {"none", "ended"} \union Places]
      /\ held \in [Txns -> Coins \union {NoCoin}]
      /\ retries \in [Txns -> 0..MaxRetries]
      /\ sending \in [Txns -> Int] /\ line \in Seq(Txns)
      /\ TasksReady
  BY DEF ParallelInv, TypeOK, Places
<1>2. /\ tpc' = [tpc EXCEPT ![t] = "ended"]
      /\ held' = [held EXCEPT ![t] = NoCoin]
      /\ sending' = [sending EXCEPT ![t] = 0]
      /\ retries' = retries
  BY DEF End
<1>3. TasksReady'
  BY <1>1, <1>2 DEF TasksReady
<1>4. held' \in [Txns -> Coins \union {NoCoin}] /\ sending' \in [Txns -> Int]
  BY <1>1, <1>2
<1> QED BY <1>1, <1>2, <1>3, <1>4 DEF End, DataTyped

-----------------------------------------------------------------------------
(***************************************************************************)
(* The actions of a task are task steps.                                   *)
(***************************************************************************)

\* A step that leaves the permit and the tracker alone.
LEMMA StaysStep ==
  ASSUME ParallelInv, NEW t \in Txns, Running(t), tpc[t] # "reacquire",
         NEW p \in Places \ {"reacquire", "ended"},
         tpc' = [tpc EXCEPT ![t] = p],
         TaskFrame, UNCHANGED <<semaphore, tracker>>,
         attempted' \in {attempted, attempted \union {t}},
         NEW f \in Futures, f = fut \/ \E r \in Promise!Results : f = Settled(t, r),
         NoStop(f)
  PROVE  TaskStep(t)
<1>1. permits' = permits + 1 - 1 /\ line' \in Seq(Txns) /\ p \in Places
  BY InvTypes DEF semaphore
<1> QED BY <1>1 DEF TaskStep, tracker

\* The last step of a task.
LEMMA EndsStep ==
  ASSUME ParallelInv, NEW t \in Txns, Running(t), tpc[t] # "reacquire",
         End(t), pool' \in Seq(Coins), tracked' \in Nat,
         TaskFrame, UNCHANGED attempted,
         NEW f \in Futures, f = fut \/ \E r \in Promise!Results : f = Settled(t, r),
         NoStop(f) \/ HardStop(f)
  PROVE  TaskStep(t) /\ DataTyped'
<1>1. /\ tpc' = [tpc EXCEPT ![t] = "ended"] /\ permits' = permits + 1
      /\ CT!Release(t) /\ line' \in Seq(Txns)
      /\ DataTyped'
  BY EndEffect
<1>2. permits' = permits + 1 - 0 /\ "ended" \in Places
  <2>1. permits \in Nat
    BY InvTypes
  <2> QED BY <1>1, <2>1 DEF Places
<1> QED BY <1>1, <1>2 DEF TaskStep

LEMMA TaskIsStep ==
  ASSUME ParallelInv, NEW t \in Txns, Task(t)
  PROVE  TaskStep(t) /\ DataTyped'
<1>0. /\ TypeOK /\ TasksReady /\ DataTyped
      /\ fut \in Futures
      /\ pool \in Seq(Coins) /\ tracked \in Nat /\ MaxRetries \in Nat
  BY NumbersAssumption DEF ParallelInv, TypeOK, DataTyped, Futures
<1>a. /\ permits \in Nat /\ line \in Seq(Txns)
      /\ tpc \in [Txns -> Places \union {"none"}]
  BY InvTypes
<1>1. \A r \in Promise!Results : Settled(t, r) \in Futures
  BY <1>0, SettledFacts
<1>2. {"ok", "build_error", "exec_error"} = Promise!Results
  BY DEF Promise!Results
<1>3. CASE Build(t)
  <2>1. TaskStep(t)
    BY <1>0, <1>3, StaysStep DEF Build, Running, Places, semaphore, tracker
  <2>2. DataTyped'
    BY <1>0, <1>3 DEF Build, DataTyped, TasksReady, TypeOK
  <2> QED BY <2>1, <2>2
<1>4. CASE BuildFails(t)
  BY <1>0, <1>1, <1>2, <1>4, EndsStep DEF BuildFails, Running
<1>5. CASE ExecuteOk(t)
  <2>1. PICK g \in GasCosts, x \in Splits :
          /\ tpc[t] = "execute"
          /\ tracked' = Spent(tracked, g, x)
          /\ pool' = IF Mode = "coins" THEN Append(pool, held[t]) ELSE pool
          /\ NoStop(Settled(t, "ok"))
          /\ IF tracked' < Threshold
             THEN /\ tpc' = [tpc EXCEPT ![t] = "callback"]
                  /\ held' = [held EXCEPT ![t] = NoCoin]
                  /\ UNCHANGED <<semaphore, retries, sending, tracker>>
             ELSE End(t)
          /\ TaskFrame
          /\ UNCHANGED attempted
    BY <1>5 DEF ExecuteOk
  <2>2. tracked' \in Nat
    <3>1. g \in Int /\ x \in Int
      BY NumbersAssumption
    <3>2. \A b \in Nat, y \in Int : Deduct(b, y) \in Nat
      BY DEF Deduct
    <3> QED BY <1>0, <2>1, <3>1, <3>2 DEF Spent
  <2>3. pool' \in Seq(Coins)
    <3>1. Mode = "coins" => held[t] \in Coins
      BY <1>0, <2>1 DEF TasksReady
    <3> QED BY <1>0, <2>1, <3>1
  <2>4. CASE tracked' < Threshold
    <3>1. TaskStep(t)
      BY <1>1, <1>2, <2>1, <2>4, StaysStep DEF Running, Places, semaphore, tracker
    <3>2. DataTyped'
      BY <1>0, <2>1, <2>2, <2>3, <2>4 DEF DataTyped, TasksReady, TypeOK
    <3> QED BY <3>1, <3>2
  <2>5. CASE ~(tracked' < Threshold)
    BY <1>1, <1>2, <2>1, <2>2, <2>3, <2>5, EndsStep DEF Running
  <2> QED BY <2>4, <2>5
<1>6. CASE OutOfGas(t)
  <2>1. TaskStep(t)
    BY <1>0, <1>6, StaysStep DEF OutOfGas, Running, Places, semaphore, tracker
  <2>2. DataTyped'
    BY <1>0, <1>6 DEF OutOfGas, DataTyped, TasksReady, TypeOK
  <2> QED BY <2>1, <2>2
<1>7. CASE ExecuteFails(t)
  BY <1>0, <1>1, <1>2, <1>7, EndsStep DEF ExecuteFails, Running
<1>8. CASE CallbackOk(t)
  <2>1. /\ tpc[t] \in {"callback", "retry callback"}
        /\ tpc' = [tpc EXCEPT ![t] = IF @ = "callback" THEN "fund" ELSE "retry fund"]
        /\ NoStop(fut) /\ TaskFrame
        /\ UNCHANGED <<semaphore, pool, tracked, held, retries, attempted, tracker>>
    BY <1>8 DEF CallbackOk
  <2>2. TaskStep(t)
    <3> DEFINE p == IF tpc[t] = "callback" THEN "fund" ELSE "retry fund"
    <3>1. p \in Places \ {"reacquire", "ended"} /\ tpc' = [tpc EXCEPT ![t] = p]
      BY <1>a, <2>1 DEF Places
    <3> HIDE DEF p
    <3> QED BY <1>0, <2>1, <3>1, StaysStep DEF Running, semaphore, tracker
  <2>3. sending' \in [Txns -> Int]
    <3>1. \A n : Amount(n) \in Int
      BY <1>0, NumbersAssumption DEF Amount
    <3>2. sending \in [Txns -> Int]
      BY <1>0 DEF TypeOK
    <3>3. sending' = sending \/ \E n : sending' = [sending EXCEPT ![t] = Amount(n)]
      BY <1>8 DEF CallbackOk
    <3> QED BY <3>1, <3>2, <3>3
  <2>4. DataTyped'
    BY <1>0, <2>1, <2>3 DEF DataTyped, TasksReady, TypeOK
  <2> QED BY <2>2, <2>4
<1>9. CASE Refused(t)
  <2>1. /\ tpc[t] \in {"callback", "fund", "retry callback", "retry fund"}
        /\ \/ HardStop(fut) \/ NoStop(fut) \/ HardStop(Settled(t, "exec_error"))
        /\ End(t) /\ TaskFrame /\ UNCHANGED <<pool, tracked, attempted>>
    BY <1>9 DEF Refused
  <2> QED BY <1>0, <1>1, <1>2, <2>1, EndsStep DEF Running
<1>10. CASE CallbackRaises(t)
  BY <1>0, <1>10, EndsStep DEF CallbackRaises, Running
<1>11. CASE FundOk(t)
  <2>1. PICK f \in Fundings(t) :
          /\ tpc[t] = "fund" /\ pool' = f.pool /\ tracked' = f.tracked
          /\ NoStop(fut) /\ End(t) /\ TaskFrame /\ UNCHANGED attempted
    BY <1>11 DEF FundOk
  <2>2. pool' \in Seq(Coins) /\ tracked' \in Nat
    BY <1>0, <2>1, FundingFacts
  <2> QED BY <1>0, <2>1, <2>2, EndsStep DEF Running
<1>12. CASE RetryFunded(t)
  <2>1. PICK f \in Fundings(t) :
          /\ tpc[t] = "retry fund"
          /\ tracked' = f.tracked
          /\ sending' = [sending EXCEPT ![t] = 0]
          /\ retries' = [retries EXCEPT ![t] = @ + 1]
          /\ IF Mode = "coins"
             THEN held' = [held EXCEPT ![t] = Head(f.pool)] /\ pool' = Tail(f.pool)
             ELSE UNCHANGED <<held, pool>>
          /\ IF Mode = "coins" /\ line # <<>>
             THEN /\ permits' = permits + 1 /\ line' = Append(line, t)
                  /\ tpc' = [tpc EXCEPT ![t] = "reacquire"]
             ELSE UNCHANGED semaphore /\ tpc' = [tpc EXCEPT ![t] = "build"]
          /\ NoStop(fut) /\ TaskFrame
          /\ UNCHANGED <<attempted, tracker>>
    BY <1>12 DEF RetryFunded
  <2>2. /\ f.pool \in Seq(Coins) /\ f.tracked \in Nat
        /\ Mode = "coins" => f.pool # <<>>
    BY <1>0, FundingFacts
  <2>3. /\ Mode = "coins" => Head(f.pool) \in Coins /\ Tail(f.pool) \in Seq(Coins)
        /\ pool' \in Seq(Coins)
    <3>1. Mode = "coins" => Head(f.pool) \in Coins /\ Tail(f.pool) \in Seq(Coins)
      BY <2>2, Tracker!TailFacts
    <3> QED BY <1>0, <2>1, <3>1
  <2>4. retries' \in [Txns -> 0..MaxRetries]
    <3>1. retries \in [Txns -> 0..MaxRetries]
      BY <1>0 DEF DataTyped
    <3>2. retries[t] < MaxRetries /\ retries[t] \in 0..MaxRetries
      BY <1>0, <2>1, <3>1 DEF TasksReady
    <3>3. retries[t] + 1 \in 0..MaxRetries
      BY <1>0, <3>2
    <3> QED BY <2>1, <3>1, <3>3
  <2>5. held' \in [Txns -> Coins \union {NoCoin}] /\ sending' \in [Txns -> Int]
    <3>1. held \in [Txns -> Coins \union {NoCoin}] /\ sending \in [Txns -> Int]
      BY <1>0 DEF DataTyped
    <3>2. held' \in [Txns -> Coins \union {NoCoin}]
      BY <2>1, <2>3, <3>1
    <3>3. sending' = [sending EXCEPT ![t] = 0]
      BY <2>1
    <3>4. sending' \in [Txns -> Int]
      BY <3>1, <3>3
    <3> QED BY <3>2, <3>4
  <2>6. TasksReady'
    <3>1. \A u \in Txns : u # t => tpc'[u] = tpc[u] /\ retries'[u] = retries[u]
      <4>1. \A u \in Txns : u # t => tpc'[u] = tpc[u]
        BY <1>a, <2>1
      <4>2. \A u \in Txns : u # t => retries'[u] = retries[u]
        BY <1>0, <2>1 DEF DataTyped
      <4> QED BY <4>1, <4>2
    <3>2. \A u \in Txns : u # t => held'[u] = held[u]
      BY <1>0, <2>1 DEF DataTyped
    <3>3. tpc'[t] \in {"reacquire", "build"}
      BY <1>a, <2>1
    <3>4. Mode = "coins" => held'[t] \in Coins
      BY <1>0, <2>1, <2>3 DEF DataTyped
    <3> QED BY <1>0, <3>1, <3>2, <3>3, <3>4 DEF TasksReady
  <2>7. DataTyped'
    BY <2>1, <2>2, <2>3, <2>4, <2>5, <2>6 DEF DataTyped
  <2>8. CASE Mode = "coins" /\ line # <<>>
    <3>a. line' = Append(line, t) /\ permits' = permits + 1
      BY <2>1, <2>8
    <3>1. line' \in Seq(Txns) /\ permits' = permits + 1 - 0
      BY <1>a, <3>a
    <3>2. TaskStep(t)
      BY <1>0, <2>1, <2>8, <3>1 DEF TaskStep, Running, tracker, Places
    <3> QED BY <2>7, <3>2
  <2>9. CASE ~(Mode = "coins" /\ line # <<>>)
    <3>1. TaskStep(t)
      BY <1>0, <2>1, <2>9, StaysStep DEF Running, Places, tracker
    <3> QED BY <2>7, <3>1
  <2> QED BY <2>8, <2>9
<1>13. CASE Reacquire(t)
  <2>1. /\ tpc[t] = "reacquire" /\ permits > 0
        /\ permits' = permits - 1 /\ line' = Tail(line) /\ line # <<>>
        /\ tpc' = [tpc EXCEPT ![t] = "build"]
        /\ NoStop(fut) /\ TaskFrame
        /\ UNCHANGED <<pool, tracked, held, retries, sending, attempted, tracker>>
    BY <1>13 DEF Reacquire, LeaveLine
  <2>2. line' \in Seq(Txns) /\ permits' = permits + 0 - 1
    BY <1>a, <2>1, Tracker!TailFacts
  <2>3. TaskStep(t)
    BY <1>0, <2>1, <2>2 DEF TaskStep, Running, tracker, Places
  <2>4. DataTyped'
    BY <1>0, <2>1 DEF DataTyped, TasksReady, TypeOK
  <2> QED BY <2>3, <2>4
<1> QED
  BY <1>3, <1>4, <1>5, <1>6, <1>7, <1>8, <1>9, <1>10, <1>11, <1>12, <1>13 DEF Task

-----------------------------------------------------------------------------
(***************************************************************************)
(* The actions of the worker that prepare a transaction are place steps.   *)
(***************************************************************************)
LEMMA StartTaskFacts ==
  ASSUME ParallelInv, NEW t \in Txns, StartTask(t), Mode = "coins" => pool # <<>>,
         UNCHANGED <<tracked, retries, sending>>
  PROVE  /\ DataTyped'
         /\ wpc' = "get" /\ tpc' = [tpc EXCEPT ![t] = "build"]
<1>0. /\ tpc \in [Txns -> Places \union {"none"}]
      /\ held \in [Txns -> Coins \union {NoCoin}]
      /\ pool \in Seq(Coins) /\ TasksReady
      /\ DataTyped
  BY InvTypes DEF ParallelInv, TypeOK, DataTyped
<1>1. Mode = "coins" => Head(pool) \in Coins /\ Tail(pool) \in Seq(Coins)
  BY <1>0, Tracker!TailFacts
<1>2. pool' \in Seq(Coins)
  BY <1>0, <1>1 DEF StartTask
<1>3. held' \in [Txns -> Coins \union {NoCoin}]
  BY <1>0, <1>1 DEF StartTask
<1>4. TasksReady'
  <2>1. \A u \in Txns : u # t => tpc'[u] = tpc[u] /\ held'[u] = held[u]
    BY <1>0 DEF StartTask
  <2>2. tpc'[t] = "build" /\ (Mode = "coins" => held'[t] \in Coins)
    BY <1>0, <1>1 DEF StartTask
  <2> QED BY <1>0, <2>1, <2>2 DEF TasksReady
<1> QED BY <1>0, <1>2, <1>3, <1>4 DEF DataTyped, StartTask

LEMMA TakeCoinFacts ==
  ASSUME ParallelInv, NEW t \in Txns, TakeCoin(t), UNCHANGED <<tracked, retries, sending>>
  PROVE  /\ DataTyped'
         /\ \/ wpc' = "checkout" /\ tpc' = tpc
            \/ wpc' = "get" /\ tpc' = [tpc EXCEPT ![t] = "build"]
<1>1. CASE Mode = "coins" /\ pool = <<>>
  BY <1>1 DEF TakeCoin, DataTyped, TasksReady, ParallelInv, TypeOK
<1>2. CASE ~(Mode = "coins" /\ pool = <<>>)
  BY <1>2, StartTaskFacts DEF TakeCoin
<1> QED BY <1>1, <1>2

LEMMA TakePermitFacts ==
  ASSUME ParallelInv, NEW t \in Txns, TakePermit(t), UNCHANGED <<tracked, retries, sending>>
  PROVE  /\ DataTyped'
         /\ line' \in Seq(Txns) /\ permits' \in Nat
         /\ \/ wpc' = "semaphore" /\ tpc' = tpc /\ permits' = permits
            \/ wpc' = "checkout" /\ tpc' = tpc /\ permits' = permits - 1
            \/ wpc' = "get" /\ tpc' = [tpc EXCEPT ![t] = "build"] /\ permits' = permits - 1
<1>0. permits \in Nat /\ line \in Seq(Txns)
  BY InvTypes
<1>1. CASE permits = 0 \/ line # <<>>
  <2>1. /\ wpc' = "semaphore" /\ line' = Append(line, t)
        /\ UNCHANGED <<permits, tpc, held, pool>>
    BY <1>1 DEF TakePermit
  <2>2. DataTyped'
    BY <2>1 DEF DataTyped, TasksReady, ParallelInv, TypeOK
  <2>3. line' \in Seq(Txns)
    BY <1>0, <2>1
  <2> QED BY <1>0, <2>1, <2>2, <2>3
<1>2. CASE ~(permits = 0 \/ line # <<>>)
  <2>1. permits' = permits - 1 /\ line' = line /\ TakeCoin(t)
    BY <1>2 DEF TakePermit
  <2>2. permits' \in Nat
    BY <1>0, <1>2, <2>1
  <2> QED BY <1>0, <2>1, <2>2, TakeCoinFacts
<1> QED BY <1>1, <1>2

\* Who takes the head of the queue.
LEMMA TakenFacts ==
  ASSUME ParallelInv, queue # <<>>, Head(queue) # SENTINEL
  PROVE  /\ Head(queue) \in Txns /\ Queued(Head(queue))
<1>1. queue \in Seq(Txns \union {SENTINEL})
  BY DEF ParallelInv, TypeOK
<1>2. Head(queue) \in Txns \union {SENTINEL} /\ Head(queue) = queue[1] /\ 1 \in 1..Len(queue)
  BY <1>1
<1> QED BY <1>2 DEF Queued

LEMMA WorkerIsStep ==
  ASSUME ParallelInv, WorkerTakes \/ WorkerClaims \/ WorkerPermitted \/ WorkerPaid
  PROVE  \E t \in Txns : PlaceStep(t) /\ DataTyped'
<1>0. permits \in Nat /\ line \in Seq(Txns)
  BY InvTypes
<1>1. CASE WorkerTakes
  <2> DEFINE t == Head(queue)
  <2>1. t \in Txns
    BY <1>1, TakenFacts DEF WorkerTakes
  <2> HIDE DEF t
  <2>2. /\ wpc = "get" /\ ~halted /\ queue # <<>> /\ Head(queue) = t
        /\ queue' = Tail(queue) /\ wcur' = t
        /\ CT!Acquire(t, Deferred[t])
        /\ IF phase'[t] = "holding"
           THEN TakePermit(t)
           ELSE wpc' = "conflict" /\ UNCHANGED <<semaphore, tpc, held, pool>>
        /\ UNCHANGED <<promise, closing, wcancel, tracked, retries, sending, attempted>>
    BY <1>1 DEF WorkerTakes, t
  <2>3. CASE phase'[t] = "holding"
    <3>1. /\ DataTyped'
          /\ line' \in Seq(Txns) /\ permits' \in Nat
          /\ \/ wpc' = "semaphore" /\ tpc' = tpc /\ permits' = permits
             \/ wpc' = "checkout" /\ tpc' = tpc /\ permits' = permits - 1
             \/ wpc' = "get" /\ tpc' = [tpc EXCEPT ![t] = "build"] /\ permits' = permits - 1
      BY <2>1, <2>2, <2>3, TakePermitFacts
    <3>2. permits' = permits + 0 - (IF wpc' \in {"checkout", "get"} THEN 1 ELSE 0)
      BY <1>0, <3>1
    <3>3. PlaceStep(t)
      BY <2>2, <2>3, <3>1, <3>2 DEF PlaceStep
    <3> QED BY <2>1, <3>1, <3>3
  <2>4. CASE phase'[t] # "holding"
    <3>1. wpc' = "conflict" /\ UNCHANGED <<permits, line, tpc, held, pool>>
      BY <2>2, <2>4 DEF semaphore
    <3>2. DataTyped'
      BY <2>2, <3>1 DEF DataTyped, TasksReady, ParallelInv, TypeOK
    <3>3. permits' = permits + 0 - 0 /\ permits' \in Nat /\ line' \in Seq(Txns)
      BY <1>0, <3>1
    <3>4. PlaceStep(t)
      BY <2>2, <2>4, <3>1, <3>3 DEF PlaceStep
    <3> QED BY <2>1, <3>2, <3>4
  <2> QED BY <2>3, <2>4
<1>2. CASE WorkerClaims
  <2>1. wcur \in Txns
    BY <1>2 DEF WorkerClaims, ParallelInv, PhasesMatch
  <2>2. /\ wpc = "conflict" /\ CT!Granted(wcur) /\ TakePermit(wcur)
        /\ UNCHANGED <<promise, closing, queue, wcur, wcancel, tracked, retries, sending,
                       attempted>>
    BY <1>2 DEF WorkerClaims
  <2>3. /\ DataTyped'
        /\ line' \in Seq(Txns) /\ permits' \in Nat
        /\ \/ wpc' = "semaphore" /\ tpc' = tpc /\ permits' = permits
           \/ wpc' = "checkout" /\ tpc' = tpc /\ permits' = permits - 1
           \/ wpc' = "get" /\ tpc' = [tpc EXCEPT ![wcur] = "build"] /\ permits' = permits - 1
    BY <2>1, <2>2, TakePermitFacts
  <2>4. permits' = permits + 0 - (IF wpc' \in {"checkout", "get"} THEN 1 ELSE 0)
    BY <1>0, <2>3
  <2>5. PlaceStep(wcur)
    BY <2>2, <2>3, <2>4 DEF PlaceStep
  <2> QED BY <2>1, <2>3, <2>5
<1>3. CASE WorkerPermitted
  <2>1. wcur \in Txns
    BY <1>3 DEF WorkerPermitted, ParallelInv, PhasesMatch
  <2>2. /\ wpc = "semaphore" /\ TakeCoin(wcur)
        /\ permits > 0 /\ permits' = permits - 1 /\ line # <<>> /\ line' = Tail(line)
        /\ UNCHANGED <<promise, closing, queue, wcur, wcancel, tracked, retries, sending,
                       attempted, tracker>>
    BY <1>3 DEF WorkerPermitted, LeaveLine
  <2>3. /\ DataTyped'
        /\ \/ wpc' = "checkout" /\ tpc' = tpc
           \/ wpc' = "get" /\ tpc' = [tpc EXCEPT ![wcur] = "build"]
    BY <2>1, <2>2, TakeCoinFacts
  <2>4. line' \in Seq(Txns)
    BY <1>0, <2>2, Tracker!TailFacts
  <2>5. permits' = permits + 0 - 1 /\ permits' \in Nat
    BY <1>0, <2>2
  <2>6. PlaceStep(wcur)
    BY <2>2, <2>3, <2>4, <2>5 DEF PlaceStep
  <2> QED BY <2>1, <2>3, <2>6
<1>4. CASE WorkerPaid
  <2>1. wcur \in Txns
    BY <1>4 DEF WorkerPaid, ParallelInv, PhasesMatch
  <2>2. /\ wpc = "checkout" /\ StartTask(wcur) /\ pool # <<>>
        /\ UNCHANGED <<promise, closing, queue, wcur, wcancel, permits, line, tracked,
                       retries, sending, attempted, tracker>>
    BY <1>4 DEF WorkerPaid, semaphore
  <2>3. DataTyped' /\ wpc' = "get" /\ tpc' = [tpc EXCEPT ![wcur] = "build"]
    BY <2>1, <2>2, StartTaskFacts
  <2>4. permits' = permits + 1 - 1 /\ permits' \in Nat /\ line' \in Seq(Txns)
    BY <1>0, <2>2
  <2>5. PlaceStep(wcur)
    BY <2>2, <2>3, <2>4 DEF PlaceStep
  <2> QED BY <2>1, <2>3, <2>5
<1> QED BY <1>1, <1>2, <1>3, <1>4

-----------------------------------------------------------------------------
(***************************************************************************)
(* The parts of the invariant, under the changes that steps make to their  *)
(* variables.                                                              *)
(***************************************************************************)

LEMMA Transfer ==
  ASSUME NEW a \in Int, NEW n \in Int, NEW w \in Int, NEW i \in Int, NEW c \in Int,
         NEW d \in Int
  PROVE  (a + w - i + c - d) + ((n + i - w) + d) = a + (n + c)
OBVIOUS

\* A permit goes from the semaphore to a task or to the worker that waits for
\* a coin, or back.
LEMMA PermitsPart ==
  ASSUME ParallelInv, NEW t \in Txns, NEW p, tpc' = [tpc EXCEPT ![t] = p],
         permits' = permits
           + (IF tpc[t] \in {"none", "ended", "reacquire"} THEN 0 ELSE 1)
           - (IF p \in {"none", "ended", "reacquire"} THEN 0 ELSE 1)
           + (IF wpc = "checkout" THEN 1 ELSE 0)
           - (IF wpc' = "checkout" THEN 1 ELSE 0),
         permits' \in Nat,
         wpc = "cancelled" => wpc' = "cancelled"
  PROVE  PermitsKept' /\ permits' \in 0..MaxConcurrent
<1> DEFINE was == IF tpc[t] \in {"none", "ended", "reacquire"} THEN 0 ELSE 1
           is == IF p \in {"none", "ended", "reacquire"} THEN 0 ELSE 1
           chk == IF wpc = "checkout" THEN 1 ELSE 0
           next == IF wpc' = "checkout" THEN 1 ELSE 0
           n == Cardinality(InFlight)
<1>1. /\ IsFiniteSet(InFlight') /\ n \in Nat
      /\ Cardinality(InFlight') = n + is - was
  BY InFlightChanges DEF ParallelInv
<1>2. /\ permits + (n + chk) <= MaxConcurrent
      /\ wpc # "cancelled" => permits + (n + chk) = MaxConcurrent
  BY DEF ParallelInv, PermitsKept
<1>3. permits \in Nat /\ MaxConcurrent \in Nat
  BY InvTypes
<1>4. /\ was \in {0, 1} /\ is \in {0, 1} /\ chk \in {0, 1} /\ next \in {0, 1}
      /\ permits' = permits + was - is + chk - next
      /\ Cardinality(InFlight') = n + is - was
  BY <1>1
<1> HIDE DEF was, is, chk, next, n
<1>5. permits' + (Cardinality(InFlight') + next) = permits + (n + chk)
  <2>1. /\ was \in Int /\ is \in Int /\ chk \in Int /\ next \in Int
        /\ permits \in Int /\ n \in Int
    BY <1>1, <1>3, <1>4
  <2>2. (permits + was - is + chk - next) + ((n + is - was) + next) = permits + (n + chk)
    BY <2>1, Transfer
  <2>3. /\ permits' = permits + was - is + chk - next
        /\ Cardinality(InFlight') = n + is - was
    BY <1>4
  <2> QED BY <2>2, <2>3, Zenon
<1>6. Cardinality(InFlight') \in Nat
  BY <1>1, FS_CardinalityType
<1>7. permits' <= MaxConcurrent
  BY <1>2, <1>3, <1>4, <1>5, <1>6
<1>8. /\ permits' + (Cardinality(InFlight') + next) <= MaxConcurrent
      /\ wpc' # "cancelled" => permits' + (Cardinality(InFlight') + next) = MaxConcurrent
  BY <1>2, <1>5
<1>9. PermitsKept'
  BY <1>1, <1>8 DEF PermitsKept, next
<1> QED BY <1>3, <1>7, <1>9

\* Taking the head of the queue.
LEMMA TailQueue ==
  ASSUME ParallelInv, order' = order, queue # <<>>, queue' = Tail(queue)
  PROVE  /\ queue' \in Seq(Txns \union {SENTINEL})
         /\ \A u \in Txns : Queued(u)' <=> Queued(u) /\ u # Head(queue)
         /\ \A k, m \in 1..Len(queue') :
              k < m /\ {queue'[k], queue'[m]} \subseteq Txns
                => Before(queue'[k], queue'[m])
         /\ \A u \in Txns : Head(queue) \in Txns /\ Queued(u) /\ u # Head(queue)
                              => Before(Head(queue), u)
<1>0. /\ queue \in Seq(Txns \union {SENTINEL})
      /\ TypeOK /\ TakenInOrder
      /\ \A k, m \in 1..Len(queue) :
           k < m /\ {queue[k], queue[m]} \subseteq Txns => Before(queue[k], queue[m])
  BY DEF ParallelInv, TypeOK, TakenInOrder
<1>1. /\ queue' \in Seq(Txns \union {SENTINEL})
      /\ Len(queue) \in Nat \ {0} /\ Len(queue') = Len(queue) - 1
      /\ \A i \in 1..Len(queue') : queue'[i] = queue[i + 1]
      /\ Head(queue) = queue[1]
  BY <1>0, Tracker!TailFacts
<1>2. \A i \in 1..Len(queue') : i + 1 \in 1..Len(queue)
  BY <1>1
<1>3. ASSUME NEW u \in Txns, NEW i \in 1..Len(queue), queue[i] = u, i # 1
      PROVE  Queued(u)'
  <2>1. i - 1 \in 1..Len(queue') /\ (i - 1) + 1 = i
    BY <1>1, <1>3
  <2> QED BY <1>1, <1>3, <2>1 DEF Queued
<1>4. ASSUME NEW u \in Txns, Queued(u)'
      PROVE  Queued(u) /\ u # Head(queue)
  <2>1. PICK i \in 1..Len(queue') : queue'[i] = u
    BY <1>4 DEF Queued
  <2>2. queue[i + 1] = u /\ i + 1 \in 1..Len(queue) /\ 1 < i + 1 /\ 1 \in 1..Len(queue)
    BY <1>1, <1>2, <2>1
  <2>3. queue[1] # u
    BY <1>0, <2>2, BeforeFacts
  <2> QED BY <1>1, <2>2, <2>3 DEF Queued
<1>5. ASSUME NEW k \in 1..Len(queue'), NEW m \in 1..Len(queue'), k < m,
             {queue'[k], queue'[m]} \subseteq Txns
      PROVE  Before(queue'[k], queue'[m])
  <2>1. k + 1 < m + 1 /\ queue'[k] = queue[k + 1] /\ queue'[m] = queue[m + 1]
    BY <1>1, <1>5
  <2> QED BY <1>0, <1>2, <1>5, <2>1
<1>6. ASSUME NEW u \in Txns, Head(queue) \in Txns, Queued(u), u # Head(queue)
      PROVE  Before(Head(queue), u)
  <2>1. PICK i \in 1..Len(queue) : queue[i] = u
    BY <1>6 DEF Queued
  <2>2. 1 < i /\ 1 \in 1..Len(queue)
    BY <1>1, <1>6, <2>1
  <2> QED BY <1>0, <1>1, <1>6, <2>1, <2>2
<1>7. ASSUME NEW u \in Txns, Queued(u), u # Head(queue)
      PROVE  Queued(u)'
  <2>1. PICK i \in 1..Len(queue) : queue[i] = u
    BY <1>7 DEF Queued
  <2> QED BY <1>1, <1>3, <1>7, <2>1
<1>8. \A u \in Txns : Queued(u)' <=> Queued(u) /\ u # Head(queue)
  BY <1>4, <1>7
<1>9. \A k, m \in 1..Len(queue') :
        k < m /\ {queue'[k], queue'[m]} \subseteq Txns => Before(queue'[k], queue'[m])
  BY <1>5
<1> QED BY <1>1, <1>6, <1>8, <1>9

\* With an unchanged order, the claims stay in order when what is queued now,
\* claimed now and granted now is.
LEMMA ClaimsKept ==
  ASSUME order' = order,
         \A u \in Txns : phase'[u] # "idle" => claim'[u] = Deferred[u],
         \A o \in Objects : \A k, m \in 1..Len(waiters'[o]) :
           k < m => Before(waiters'[o][k], waiters'[o][m]),
         \A u, v \in Txns :
           /\ Before(u, v) /\ Deferred[u] \intersect Deferred[v] # {}
           /\ phase'[v] \in {"holding", "released"}
           => phase'[u] = "released"
  PROVE  ClaimsInOrder'
BY DEF ClaimsInOrder, Before

\* A claim is queued behind those of the transactions submitted before.
LEMMA ClaimsAcquire ==
  ASSUME ParallelInv, order' = order, NEW t \in Txns, CT!Acquire(t, Deferred[t]),
         phase[t] = "idle", Submitted(t),
         \A u \in Txns : Before(u, t) => phase[u] # "idle"
  PROVE  ClaimsInOrder'
<1>0. /\ TypeOK /\ TakenInOrder /\ CT!TrackerInv /\ ClaimsInOrder /\ FuturesMatch
      /\ phase \in [Txns -> CT!Phases] /\ claim \in [Txns -> SUBSET Objects]
      /\ \A o \in Objects : waiters[o] \in Seq(Txns)
      /\ Deferred[t] \in SUBSET Objects
  BY InvTypes, InputsAssumption DEF ParallelInv
<1>1. /\ \A o \in Objects :
           waiters'[o] = IF o \in Deferred[t] THEN Append(waiters[o], t) ELSE waiters[o]
      /\ claim' = [claim EXCEPT ![t] = Deferred[t]]
      /\ \/ phase' = [phase EXCEPT ![t] = "waiting"]
         \/ /\ phase' = [phase EXCEPT ![t] = "holding"]
            /\ \A o \in Deferred[t] : waiters[o] = <<>>
  BY <1>0, AcquireEffect
<1>3. \A u \in Txns : phase'[u] # "idle" => claim'[u] = Deferred[u]
  BY <1>0, <1>1 DEF ClaimsInOrder
<1>4. ASSUME NEW o \in Objects, NEW k \in 1..Len(waiters'[o]), NEW m \in 1..Len(waiters'[o]),
             k < m
      PROVE  Before(waiters'[o][k], waiters'[o][m])
  <2>1. CASE o \notin Deferred[t]
    BY <1>0, <1>1, <1>4, <2>1 DEF ClaimsInOrder
  <2>2. CASE o \in Deferred[t]
    <3>0. waiters'[o] = Append(waiters[o], t) /\ waiters[o] \in Seq(Txns)
      BY <1>0, <1>1, <2>2
    <3>1. /\ Len(waiters'[o]) = Len(waiters[o]) + 1 /\ Len(waiters[o]) \in Nat
          /\ waiters'[o][Len(waiters[o]) + 1] = t
          /\ \A i \in 1..Len(waiters[o]) : waiters'[o][i] = waiters[o][i]
      BY <3>0, Tracker!AppendFacts
    <3>2. k \in 1..Len(waiters[o]) /\ waiters'[o][k] = waiters[o][k]
      BY <1>4, <3>1
    <3>3. CASE m \in 1..Len(waiters[o])
      BY <1>0, <1>4, <3>1, <3>2, <3>3 DEF ClaimsInOrder
    <3>4. CASE m \notin 1..Len(waiters[o])
      <4> DEFINE u == waiters[o][k]
      <4>1. m = Len(waiters[o]) + 1 /\ waiters'[o][m] = t
        BY <3>1, <3>4
      <4>2. u \in Txns /\ CT!Occurs(u, o)
        BY <1>0, <3>2 DEF CT!Occurs
      <4>3. phase[u] \in {"waiting", "holding", "cancelled"}
        BY <1>0, <4>2 DEF CT!TrackerInv, CT!QueuedIffClaimed
      <4>4. u # t /\ fut[u] # "none" /\ Submitted(u)
        BY <1>0, <4>2, <4>3 DEF FuturesMatch
      <4>5. ~Before(t, u)
        BY <1>0, <4>2, <4>3 DEF TakenInOrder
      <4>6. Before(u, t)
        BY <1>0, <4>4, <4>5, BeforeTotal
      <4> QED BY <3>2, <4>1, <4>6
    <3> QED BY <3>3, <3>4
  <2> QED BY <2>1, <2>2
<1>5. ASSUME NEW u \in Txns, NEW v \in Txns, Before(u, v),
             Deferred[u] \intersect Deferred[v] # {}, phase'[v] \in {"holding", "released"}
      PROVE  phase'[u] = "released"
  <2>1. CASE v = t
    <3>1. u # t /\ phase[u] # "idle" /\ claim[u] = Deferred[u]
      BY <1>0, <1>5, <2>1, BeforeFacts DEF ClaimsInOrder
    <3>2. \A o \in Deferred[t] : waiters[o] = <<>>
      BY <1>0, <1>1, <1>5, <2>1
    <3>3. PICK o \in Objects : o \in Deferred[t] /\ o \in Deferred[u]
      BY <1>0, <1>5, <2>1
    <3>4. ~CT!Occurs(u, o)
      BY <3>2, <3>3 DEF CT!Occurs
    <3>5. phase[u] \notin {"waiting", "holding", "cancelled"}
      BY <1>0, <3>1, <3>3, <3>4 DEF CT!TrackerInv, CT!QueuedIffClaimed
    <3>6. phase[u] = "released"
      BY <1>0, <3>1, <3>5 DEF CT!Phases
    <3> QED BY <1>0, <1>1, <3>1, <3>6
  <2>2. CASE v # t
    <3>1. phase[v] \in {"holding", "released"}
      BY <1>0, <1>1, <1>5, <2>2
    <3>2. phase[u] = "released"
      BY <1>0, <1>5, <3>1 DEF ClaimsInOrder
    <3> QED BY <1>0, <1>1, <3>2
  <2> QED BY <2>1, <2>2
<1> QED BY <1>3, <1>4, <1>5, ClaimsKept

\* Only the first claim of each deque is granted.
LEMMA ClaimsGranted ==
  ASSUME ParallelInv, order' = order, NEW t \in Txns, CT!Granted(t)
  PROVE  ClaimsInOrder'
<1>0. /\ TypeOK /\ TakenInOrder /\ CT!TrackerInv /\ ClaimsInOrder
      /\ phase \in [Txns -> CT!Phases] /\ claim \in [Txns -> SUBSET Objects]
      /\ \A o \in Objects : waiters[o] \in Seq(Txns)
  BY InvTypes DEF ParallelInv
<1>1. /\ phase[t] = "waiting" /\ phase' = [phase EXCEPT ![t] = "holding"]
      /\ UNCHANGED <<waiters, claim>>
      /\ \A o \in claim[t] : CT!IsHead(t, o)
  BY <1>0, GrantedEffect
<1>3. \A u \in Txns : phase'[u] # "idle" => claim'[u] = Deferred[u]
  BY <1>0, <1>1 DEF ClaimsInOrder
<1>4. \A o \in Objects : \A k, m \in 1..Len(waiters'[o]) :
        k < m => Before(waiters'[o][k], waiters'[o][m])
  BY <1>0, <1>1 DEF ClaimsInOrder
<1>5. ASSUME NEW u \in Txns, NEW v \in Txns, Before(u, v),
             Deferred[u] \intersect Deferred[v] # {}, phase'[v] \in {"holding", "released"}
      PROVE  phase'[u] = "released"
  <2>0. u # v /\ ~Before(v, u)
    BY <1>0, <1>5, BeforeFacts
  <2>1. CASE v = t
    <3>1. phase[u] # "idle" /\ claim[u] = Deferred[u] /\ claim[t] = Deferred[t]
      BY <1>0, <1>1, <1>5, <2>1 DEF TakenInOrder, ClaimsInOrder
    <3>2. PICK o \in Objects : o \in claim[t] /\ o \in claim[u]
      BY <1>0, <1>5, <2>1, <3>1
    <3>3. ASSUME CT!Occurs(u, o) PROVE FALSE
      <4>1. PICK i \in 1..Len(waiters[o]) : waiters[o][i] = u
        BY <3>3 DEF CT!Occurs
      <4>2. waiters[o][1] = t /\ 1 \in 1..Len(waiters[o])
        BY <1>0, <1>1, <3>2, <4>1 DEF CT!IsHead
      <4>3. 1 < i
        BY <2>0, <2>1, <4>1, <4>2
      <4>4. Before(t, u)
        BY <1>0, <4>1, <4>2, <4>3 DEF ClaimsInOrder
      <4> QED BY <2>0, <2>1, <4>4
    <3>4. phase[u] = "released"
      BY <1>0, <3>1, <3>2, <3>3 DEF CT!TrackerInv, CT!QueuedIffClaimed, CT!Phases
    <3> QED BY <1>0, <1>1, <3>4
  <2>2. CASE v # t
    <3>1. phase[v] \in {"holding", "released"}
      BY <1>0, <1>1, <1>5, <2>2
    <3>2. phase[u] = "released"
      BY <1>0, <1>5, <3>1 DEF ClaimsInOrder
    <3> QED BY <1>0, <1>1, <3>2
  <2> QED BY <2>1, <2>2
<1> QED BY <1>3, <1>4, <1>5, ClaimsKept

\* Releasing a claim lets the next ones advance.
LEMMA ClaimsReleased ==
  ASSUME ParallelInv, order' = order, NEW t \in Txns, CT!Release(t), phase[t] = "holding"
  PROVE  ClaimsInOrder'
<1>0. /\ CT!TrackerInv /\ ClaimsInOrder
      /\ phase \in [Txns -> CT!Phases]
      /\ \A o \in Objects : waiters[o] \in Seq(Txns)
  BY InvTypes DEF ParallelInv
<1>1. /\ \A o \in claim[t] : o \in Objects /\ waiters[o] # <<>>
      /\ \A o \in Objects :
           waiters'[o] = IF o \in claim[t] THEN Tail(waiters[o]) ELSE waiters[o]
      /\ claim' = claim
      /\ phase' = [phase EXCEPT ![t] = "released"]
  BY <1>0, ReleaseEffect
<1>3. \A u \in Txns : phase'[u] # "idle" => claim'[u] = Deferred[u]
  BY <1>0, <1>1 DEF ClaimsInOrder
<1>4. ASSUME NEW o \in Objects, NEW k \in 1..Len(waiters'[o]), NEW m \in 1..Len(waiters'[o]),
             k < m
      PROVE  Before(waiters'[o][k], waiters'[o][m])
  <2>1. CASE o \notin claim[t]
    BY <1>0, <1>1, <1>4, <2>1 DEF ClaimsInOrder
  <2>2. CASE o \in claim[t]
    <3>0. waiters'[o] = Tail(waiters[o]) /\ waiters[o] \in Seq(Txns) /\ waiters[o] # <<>>
      BY <1>0, <1>1, <2>2
    <3>1. /\ Len(waiters[o]) \in Nat \ {0} /\ Len(waiters'[o]) = Len(waiters[o]) - 1
          /\ \A i \in 1..Len(waiters'[o]) : waiters'[o][i] = waiters[o][i + 1]
      BY <3>0, Tracker!TailFacts
    <3>2. /\ k + 1 \in 1..Len(waiters[o]) /\ m + 1 \in 1..Len(waiters[o]) /\ k + 1 < m + 1
          /\ waiters'[o][k] = waiters[o][k + 1] /\ waiters'[o][m] = waiters[o][m + 1]
      BY <1>4, <3>1
    <3> QED BY <1>0, <3>2 DEF ClaimsInOrder
  <2> QED BY <2>1, <2>2
<1>5. ASSUME NEW u \in Txns, NEW v \in Txns, Before(u, v),
             Deferred[u] \intersect Deferred[v] # {}, phase'[v] \in {"holding", "released"}
      PROVE  phase'[u] = "released"
  <2>1. phase[v] \in {"holding", "released"}
    BY <1>0, <1>1, <1>5
  <2>2. phase[u] = "released"
    BY <1>0, <1>5, <2>1 DEF ClaimsInOrder
  <2> QED BY <1>0, <1>1, <2>2
<1> QED BY <1>3, <1>4, <1>5, ClaimsKept

\* The claims do not change, except that a waiter may be cancelled.
LEMMA ClaimsSame ==
  ASSUME ParallelInv, order' = order, UNCHANGED <<waiters, claim>>,
         \/ UNCHANGED phase
         \/ \E t \in Txns : phase[t] = "waiting" /\ phase' = [phase EXCEPT ![t] = "cancelled"]
  PROVE  ClaimsInOrder'
<1>0. ClaimsInOrder /\ phase \in [Txns -> CT!Phases]
  BY InvTypes DEF ParallelInv
<1>1. \A u, v : Before(u, v)' <=> Before(u, v)
  BY SameOrder
<1>2. \A u \in Txns : /\ phase'[u] # "idle" => phase[u] # "idle"
                      /\ phase'[u] \in {"holding", "released"} => phase'[u] = phase[u]
                      /\ phase[u] = "released" => phase'[u] = "released"
  BY <1>0
<1> QED BY <1>0, <1>1 DEF ClaimsInOrder


-----------------------------------------------------------------------------
(***************************************************************************)
(* The invariant survives the steps of every actor.                        *)
(***************************************************************************)
WorkerPlaces == {"get", "conflict", "semaphore", "checkout"} \union WorkerEnded

LEMMA TypeKept ==
  ASSUME fut' \in Futures, order' \in Seq(Txns), halted' \in BOOLEAN, closing' \in BOOLEAN,
         wcancel' \in BOOLEAN, queue' \in Seq(Txns \union {SENTINEL}),
         wpc' \in WorkerPlaces, wcur' \in Txns \union {NoItem},
         permits' \in 0..MaxConcurrent, line' \in Seq(Txns),
         tpc' \in [Txns -> Places \union {"none"}], attempted' \in SUBSET Txns,
         DataTyped', CT!TrackerInv'
  PROVE  TypeOK'
BY DEF TypeOK, Futures, WorkerPlaces, Places, DataTyped, CT!TrackerInv

LEMMA TrackerSame ==
  ASSUME CT!TrackerInv, UNCHANGED tracker
  PROVE  CT!TrackerInv'
<1>1. UNCHANGED <<waiters, keys, isSet, claim, phase>>
  BY DEF tracker
<1>2. CT!TypeOK' /\ CT!QueuedOnce' /\ CT!QueuedIffClaimed'
  BY <1>1 DEF CT!TrackerInv, CT!TypeOK, CT!QueuedOnce, CT!QueuedIffClaimed, CT!Occurs
<1>3. CT!SetIffHead' /\ CT!HoldersAreHeads'
  BY <1>1 DEF CT!TrackerInv, CT!SetIffHead, CT!Occurs, CT!IsHead, CT!HoldersAreHeads
<1> QED BY <1>2, <1>3 DEF CT!TrackerInv

\* The transaction that the worker prepares has no task yet, and is claimed for.
LEMMA PlaceFacts ==
  ASSUME ParallelInv, NEW t \in Txns, NEW p \in {"conflict", "semaphore", "checkout", "get"},
         order' = order,
         \/ /\ wpc = "get" /\ ~halted
            /\ queue # <<>> /\ Head(queue) = t /\ queue' = Tail(queue)
            /\ CT!Acquire(t, Deferred[t])
            /\ p = "conflict" <=> phase'[t] # "holding"
         \/ /\ wpc = "conflict" /\ wcur = t
            /\ CT!Granted(t)
            /\ UNCHANGED queue
            /\ p # "conflict"
         \/ /\ wpc \in {"semaphore", "checkout"} /\ wcur = t
            /\ UNCHANGED <<queue, tracker>>
            /\ p \in {"checkout", "get"}
  PROVE  /\ tpc[t] = "none" /\ fut[t] \notin {"none", "skipped"} /\ Submitted(t)
         /\ phase' = [phase EXCEPT ![t] = IF p = "conflict" THEN "waiting" ELSE "holding"]
         /\ CT!TrackerInv' /\ ClaimsInOrder' /\ KeysExact'
         /\ queue' \in Seq(Txns \union {SENTINEL})
         /\ \A u \in Txns : Queued(u)' => Queued(u) /\ u # t
         /\ \A u \in Txns : Queued(u) /\ u # t => Queued(u)'
         /\ \A k, m \in 1..Len(queue') :
              k < m /\ {queue'[k], queue'[m]} \subseteq Txns
                => Before(queue'[k], queue'[m])
         /\ \A u \in Txns : Before(u, t) => phase[u] # "idle"
<1>0. /\ TypeOK /\ TakenInOrder /\ CT!TrackerInv /\ ClaimsInOrder /\ KeysExact
      /\ PhasesMatch /\ FuturesMatch
      /\ phase \in [Txns -> CT!Phases] /\ Deferred[t] \in SUBSET Objects
      /\ queue \in Seq(Txns \union {SENTINEL})
  BY InvTypes, InputsAssumption DEF ParallelInv, TypeOK
<1>1. CASE /\ wpc = "get" /\ ~halted
           /\ queue # <<>> /\ Head(queue) = t /\ queue' = Tail(queue)
           /\ CT!Acquire(t, Deferred[t])
           /\ p = "conflict" <=> phase'[t] # "holding"
  <2>1. t # SENTINEL /\ Queued(t)
    BY <1>1, TakenFacts, MarkersAssumption
  <2>2. /\ phase[t] = "idle" /\ fut[t] \in {"pending", "cancelled"}
        /\ tpc[t] = "none" /\ Submitted(t)
    BY <1>0, <2>1 DEF FuturesMatch, PhasesMatch
  <2>3. /\ CT!TrackerInv' /\ KeysExact'
        /\ \/ phase' = [phase EXCEPT ![t] = "waiting"]
           \/ phase' = [phase EXCEPT ![t] = "holding"]
    BY <1>0, <1>1, AcquireEffect
  <2>4. phase' = [phase EXCEPT ![t] = IF p = "conflict" THEN "waiting" ELSE "holding"]
    BY <1>0, <1>1, <2>3
  <2>5. /\ queue' \in Seq(Txns \union {SENTINEL})
        /\ \A u \in Txns : Queued(u)' <=> Queued(u) /\ u # t
        /\ \A k, m \in 1..Len(queue') :
             k < m /\ {queue'[k], queue'[m]} \subseteq Txns
               => Before(queue'[k], queue'[m])
        /\ \A u \in Txns : Queued(u) /\ u # t => Before(t, u)
    BY <1>1, TailQueue
  <2>6. ASSUME NEW u \in Txns, Before(u, t) PROVE phase[u] # "idle"
    <3>1. Submitted(u) /\ u # t /\ ~Before(t, u)
      BY <1>0, <2>6, BeforeFacts
    <3>2. ~Queued(u)
      BY <2>5, <3>1
    <3> QED BY <1>0, <1>1, <3>1, <3>2 DEF TakenInOrder
  <2>7. ClaimsInOrder'
    BY <1>1, <2>2, <2>6, ClaimsAcquire
  <2> QED BY <2>2, <2>3, <2>4, <2>5, <2>6, <2>7
<1>2. ASSUME wpc \in {"conflict", "semaphore", "checkout"}, wcur = t, queue' = queue,
             phase[t] \in {"waiting", "holding"}, tpc[t] = "none"
      PROVE  /\ fut[t] \notin {"none", "skipped"} /\ Submitted(t)
             /\ queue' \in Seq(Txns \union {SENTINEL})
             /\ \A u \in Txns : Queued(u)' => Queued(u) /\ u # t
             /\ \A u \in Txns : Queued(u) /\ u # t => Queued(u)'
             /\ \A k, m \in 1..Len(queue') :
                  k < m /\ {queue'[k], queue'[m]} \subseteq Txns
                    => Before(queue'[k], queue'[m])
             /\ \A u \in Txns : Before(u, t) => phase[u] # "idle"
  <2>1. fut[t] \notin {"none", "skipped"} /\ Submitted(t) /\ ~Queued(t)
    BY <1>0, <1>2 DEF FuturesMatch
  <2>2. \A u : Queued(u)' <=> Queued(u)
    BY <1>2 DEF Queued
  <2> QED BY <1>0, <1>2, <2>1, <2>2 DEF TakenInOrder
<1>3. CASE /\ wpc = "conflict" /\ wcur = t
           /\ CT!Granted(t)
           /\ UNCHANGED queue
           /\ p # "conflict"
  <2>1. /\ CT!TrackerInv' /\ phase[t] = "waiting"
        /\ phase' = [phase EXCEPT ![t] = "holding"]
        /\ UNCHANGED <<waiters, keys, claim>>
    BY <1>0, <1>3, GrantedEffect
  <2>2. ClaimsInOrder' /\ KeysExact'
    BY <1>0, <1>3, <2>1, ClaimsGranted DEF KeysExact
  <2>3. tpc[t] = "none"
    BY <1>0, <2>1 DEF PhasesMatch
  <2> QED BY <1>2, <1>3, <2>1, <2>2, <2>3
<1>4. CASE /\ wpc \in {"semaphore", "checkout"} /\ wcur = t
           /\ UNCHANGED <<queue, tracker>>
           /\ p \in {"checkout", "get"}
  <2>1. phase[t] = "holding" /\ tpc[t] = "none"
    BY <1>0, <1>4 DEF PhasesMatch, Preparing, CT!Phases
  <2>2. ClaimsInOrder' /\ KeysExact'
    BY <1>0, <1>4, ClaimsSame DEF KeysExact, tracker
  <2>3. CT!TrackerInv'
    BY <1>0, <1>4, TrackerSame
  <2>4. phase' = [phase EXCEPT ![t] = "holding"]
    BY <1>0, <1>4, <2>1 DEF tracker
  <2> QED BY <1>2, <1>4, <2>1, <2>2, <2>3, <2>4
<1> QED BY <1>1, <1>3, <1>4

LEMMA TakenKept ==
  ASSUME order' = order,
         \A i, j \in 1..Len(order) : order[i] = order[j] => i = j,
         \A k, m \in 1..Len(queue') :
           k < m /\ {queue'[k], queue'[m]} \subseteq Txns => Before(queue'[k], queue'[m]),
         \A t, u \in Txns : Before(t, u) /\ phase'[u] # "idle" => phase'[t] # "idle",
         ~halted' => \A t \in Txns : Submitted(t) /\ phase'[t] = "idle" => Queued(t)'
  PROVE  TakenInOrder'
<1>1. \A i, j \in 1..Len(order') : order'[i] = order'[j] => i = j
  OBVIOUS
<1>2. \A k, m \in 1..Len(queue') :
        k < m /\ {queue'[k], queue'[m]} \subseteq Txns => Before(queue[k], queue[m])'
  BY DEF Before
<1>3. \A t : Submitted(t)' <=> Submitted(t)
  BY SameOrder
<1>4. \A t, u : Before(t, u)' <=> Before(t, u)
  BY SameOrder
<1> QED BY <1>1, <1>2, <1>3, <1>4 DEF TakenInOrder

LEMMA PlaceInv ==
  ASSUME ParallelInv, NEW t \in Txns, PlaceStep(t), DataTyped'
  PROVE  ParallelInv'
<1>0. /\ TypeOK /\ TakenInOrder /\ PhasesMatch /\ FuturesMatch
      /\ phase \in [Txns -> CT!Phases]
      /\ tpc \in [Txns -> Places \union {"none"}] /\ permits \in Nat
      /\ attempted \in SUBSET Txns
  BY InvTypes DEF ParallelInv, TypeOK
<1>1. PICK p \in {"conflict", "semaphore", "checkout", "get"} :
        /\ wpc' = p /\ wcur' = t
        /\ tpc' = IF p = "get" THEN [tpc EXCEPT ![t] = "build"] ELSE tpc
        /\ permits' = permits + (IF wpc = "checkout" THEN 1 ELSE 0)
                              - (IF p \in {"checkout", "get"} THEN 1 ELSE 0)
        /\ permits' \in Nat
        /\ line' \in Seq(Txns)
        /\ UNCHANGED <<promise, closing, wcancel, attempted>>
        /\ \/ /\ wpc = "get" /\ ~halted
              /\ queue # <<>> /\ Head(queue) = t /\ queue' = Tail(queue)
              /\ CT!Acquire(t, Deferred[t])
              /\ p = "conflict" <=> phase'[t] # "holding"
           \/ /\ wpc = "conflict" /\ wcur = t
              /\ CT!Granted(t)
              /\ UNCHANGED queue
              /\ p # "conflict"
           \/ /\ wpc \in {"semaphore", "checkout"} /\ wcur = t
              /\ UNCHANGED <<queue, tracker>>
              /\ p \in {"checkout", "get"}
  BY DEF PlaceStep
<1>2. /\ wpc' = p /\ wcur' = t /\ permits' \in Nat /\ line' \in Seq(Txns)
      /\ fut' = fut /\ order' = order /\ halted' = halted /\ closing' = closing
      /\ wcancel' = wcancel /\ attempted' = attempted
      /\ wpc \in {"get", "conflict", "semaphore", "checkout"}
      /\ p \in {"conflict", "semaphore", "checkout", "get"}
  BY <1>1 DEF promise
<1>3. /\ tpc[t] = "none" /\ fut[t] \notin {"none", "skipped"} /\ Submitted(t)
      /\ phase' = [phase EXCEPT ![t] = IF p = "conflict" THEN "waiting" ELSE "holding"]
      /\ CT!TrackerInv' /\ ClaimsInOrder' /\ KeysExact'
      /\ queue' \in Seq(Txns \union {SENTINEL})
      /\ \A u \in Txns : Queued(u)' => Queued(u) /\ u # t
      /\ \A u \in Txns : Queued(u) /\ u # t => Queued(u)'
      /\ \A k, m \in 1..Len(queue') :
           k < m /\ {queue'[k], queue'[m]} \subseteq Txns
             => Before(queue'[k], queue'[m])
      /\ \A u \in Txns : Before(u, t) => phase[u] # "idle"
  BY <1>1, <1>2, PlaceFacts
<1>4. /\ tpc' = [tpc EXCEPT ![t] = IF p = "get" THEN "build" ELSE "none"]
      /\ tpc' \in [Txns -> Places \union {"none"}]
  <2>1. tpc' = [tpc EXCEPT ![t] = IF p = "get" THEN "build" ELSE "none"]
    BY <1>0, <1>1, <1>3
  <2>2. {"build", "none"} \subseteq Places \union {"none"}
    BY DEF Places
  <2> QED BY <1>0, <2>1, <2>2
<1>5. PermitsKept' /\ permits' \in 0..MaxConcurrent
  <2> DEFINE q == IF p = "get" THEN "build" ELSE "none"
  <2>1. permits' = permits
          + (IF tpc[t] \in {"none", "ended", "reacquire"} THEN 0 ELSE 1)
          - (IF q \in {"none", "ended", "reacquire"} THEN 0 ELSE 1)
          + (IF wpc = "checkout" THEN 1 ELSE 0)
          - (IF wpc' = "checkout" THEN 1 ELSE 0)
    <3>1. permits' = permits + (IF wpc = "checkout" THEN 1 ELSE 0)
                             - (IF p \in {"checkout", "get"} THEN 1 ELSE 0)
      BY <1>1
    <3>2. tpc[t] = "none" /\ wpc' = p /\ permits \in Nat
      BY <1>0, <1>2, <1>3
    <3>3. CASE p = "get"
      BY <3>1, <3>2, <3>3
    <3>4. CASE p = "checkout"
      BY <3>1, <3>2, <3>4
    <3>5. CASE p \in {"conflict", "semaphore"}
      BY <3>1, <3>2, <3>5
    <3> QED BY <1>2, <3>3, <3>4, <3>5
  <2>2. tpc' = [tpc EXCEPT ![t] = q] /\ wpc # "cancelled" /\ permits' \in Nat
    BY <1>2, <1>4
  <2> HIDE DEF q
  <2> QED BY <2>1, <2>2, PermitsPart
<1>6. TypeOK'
  <2>1. /\ fut' \in Futures /\ order' \in Seq(Txns) /\ halted' \in BOOLEAN
        /\ closing' \in BOOLEAN /\ wcancel' \in BOOLEAN /\ attempted' \in SUBSET Txns
    BY <1>0, <1>2, InvTypes DEF TypeOK
  <2>2. wpc' \in WorkerPlaces /\ wcur' \in Txns \union {NoItem}
    BY <1>2 DEF WorkerPlaces
  <2> QED BY <1>2, <1>3, <1>4, <1>5, <2>1, <2>2, TypeKept
<1>7. PhasesMatch'
  <2>1. ASSUME NEW u \in Txns, u # t
        PROVE  phase'[u] = phase[u] /\ tpc'[u] = tpc[u] /\ ~Preparing(u)'
    BY <1>0, <1>2, <1>3, <1>4, <2>1 DEF Preparing
  <2>2. ASSUME NEW u \in Txns, u # t
        PROVE  ~Preparing(u)
    <3>1. wpc = "get" \/ wcur = t
      BY <1>1
    <3> QED BY <2>2, <3>1 DEF Preparing
  <2>3. phase'[t] = IF p = "conflict" THEN "waiting" ELSE "holding"
    BY <1>0, <1>3
  <2>4. tpc'[t] = IF p = "get" THEN "build" ELSE "none"
    BY <1>0, <1>4
  <2>5. Preparing(t)' <=> p # "get"
    BY <1>2 DEF Preparing
  <2>6. wpc' \in {"conflict", "semaphore", "checkout"} => wcur' \in Txns
    BY <1>2
  <2>7. ASSUME NEW u \in Txns, u # t
        PROVE  /\ phase'[u] = "idle" => tpc'[u] = "none" /\ ~Preparing(u)'
               /\ phase'[u] \notin {"waiting", "cancelled"}
               /\ phase'[u] = "released" => tpc'[u] = "ended" /\ ~Preparing(u)'
               /\ phase'[u] = "holding" => Running(u)' /\ ~Preparing(u)'
    <3>1. wpc # "cancelled" /\ wpc' # "cancelled"
      BY <1>2
    <3>2. phase'[u] = phase[u] /\ tpc'[u] = tpc[u] /\ ~Preparing(u)' /\ ~Preparing(u)
      BY <2>1, <2>2, <2>7
    <3> QED BY <1>0, <3>1, <3>2 DEF PhasesMatch, Running
  <2>8. /\ phase'[t] \in {"waiting", "holding"}
        /\ phase'[t] = "waiting" => tpc'[t] = "none" /\ Preparing(t)' /\ wpc' = "conflict"
        /\ phase'[t] = "holding" =>
             \/ Running(t)' /\ ~Preparing(t)'
             \/ tpc'[t] = "none" /\ Preparing(t)' /\ wpc' # "conflict"
    BY <1>2, <2>3, <2>4, <2>5 DEF Running
  <2> QED BY <2>6, <2>7, <2>8 DEF PhasesMatch
<1>8. FuturesMatch'
  <2>1. ASSUME NEW u \in Txns, u # t
        PROVE  phase'[u] = phase[u] /\ tpc'[u] = tpc[u]
    BY <1>0, <1>3, <1>4, <2>1
  <2>2. ASSUME NEW u \in Txns
        PROVE  /\ fut[u] = "none" <=> ~Submitted(u)
               /\ fut[u] \in {"none", "skipped"} => phase'[u] = "idle"
               /\ Queued(u)' => fut[u] \in {"pending", "cancelled"} /\ phase'[u] = "idle"
               /\ u \in attempted => tpc'[u] # "none"
    <3>1. t \notin attempted /\ ~Queued(t)'
      BY <1>0, <1>3 DEF FuturesMatch
    <3>2. u = t => fut[t] # "none" /\ Submitted(t) /\ fut[t] # "skipped"
      BY <1>3
    <3>3. CASE u = t
      BY <3>1, <3>2, <3>3
    <3>4. CASE u # t
      BY <1>0, <1>3, <2>1, <3>4 DEF FuturesMatch
    <3> QED BY <3>3, <3>4
  <2>3. \A u : Submitted(u)' <=> Submitted(u)
    BY <1>2, SameOrder
  <2> QED BY <1>2, <2>2, <2>3 DEF FuturesMatch
<1>9. TakenInOrder'
  <2>1. ASSUME NEW u \in Txns, NEW v \in Txns, Before(u, v), phase'[v] # "idle"
        PROVE  phase'[u] # "idle"
    <3>1. phase[u] # "idle"
      BY <1>0, <1>3, <2>1 DEF TakenInOrder
    <3> QED BY <1>0, <1>2, <1>3, <3>1
  <2>2. ASSUME ~halted, NEW u \in Txns, Submitted(u), phase'[u] = "idle"
        PROVE  Queued(u)'
    <3>1. u # t /\ phase[u] = "idle"
      BY <1>0, <1>2, <1>3, <2>2
    <3> QED BY <1>0, <1>3, <2>2, <3>1 DEF TakenInOrder
  <2>3. \A i, j \in 1..Len(order) : order[i] = order[j] => i = j
    BY <1>0 DEF TakenInOrder
  <2> QED BY <1>2, <1>3, <2>1, <2>2, <2>3, TakenKept
<1>10. TasksReady'
  BY DEF DataTyped
<1> QED BY <1>3, <1>5, <1>6, <1>7, <1>8, <1>9, <1>10 DEF ParallelInv

\* What a task does to the futures, with or without a hard stop.
LEMMA FuturesChange ==
  ASSUME ParallelInv, order' = order, NEW t \in Txns, phase[t] # "idle", NEW f \in Futures,
         f = fut \/ \E r \in Promise!Results : f = Settled(t, r),
         NoStop(f) \/ HardStop(f)
  PROVE  /\ halted' \in BOOLEAN /\ wcancel' \in BOOLEAN
         /\ queue' \in Seq(Txns \union {SENTINEL}) /\ fut' \in Futures
         /\ \A u \in Txns : Queued(u)' => Queued(u) /\ fut'[u] = fut[u]
         /\ \A u \in Txns : u # t => fut'[u] = fut[u] \/ Queued(u)
         /\ \A u \in Txns : fut'[u] = "none" <=> fut[u] = "none"
         /\ \A u \in Txns : fut'[u] = "skipped" => fut[u] = "skipped" \/ Queued(u)
         /\ \A k, m \in 1..Len(queue') :
              k < m /\ {queue'[k], queue'[m]} \subseteq Txns
                => Before(queue'[k], queue'[m])
         /\ ~halted' => ~halted /\ queue' = queue
<1>0. /\ TypeOK /\ TakenInOrder /\ FuturesMatch /\ fut \in Futures
      /\ ~Queued(t) /\ fut[t] \notin {"none", "skipped"}
      /\ queue \in Seq(Txns \union {SENTINEL})
      /\ halted \in BOOLEAN /\ wcancel \in BOOLEAN
  BY InvTypes DEF ParallelInv, FuturesMatch, TypeOK
<1>1. /\ \A u \in Txns : u # t => f[u] = fut[u]
      /\ f[t] \notin {"none", "skipped"}
  BY <1>0, SettledFacts
<1>2. \A u \in Txns : Queued(u) => f[u] = fut[u]
  BY <1>0, <1>1
<1>3. CASE NoStop(f)
  <2>1. fut' = f /\ halted' = halted /\ queue' = queue /\ wcancel' = wcancel
    BY <1>3 DEF NoStop
  <2>2. \A u \in Txns : Queued(u)' <=> Queued(u)
    BY <2>1 DEF Queued
  <2>3. \A k, m \in 1..Len(queue') :
          k < m /\ {queue'[k], queue'[m]} \subseteq Txns => Before(queue'[k], queue'[m])
    BY <1>0, <2>1 DEF TakenInOrder
  <2> QED BY <1>0, <1>1, <1>2, <2>1, <2>2, <2>3
<1>4. CASE HardStop(f)
  <2>1. /\ halted' = TRUE /\ wcancel' \in BOOLEAN
        /\ queue' \in Seq(Txns \union {SENTINEL})
        /\ fut' \in Futures
        /\ \A u \in Txns : Queued(u)' => Queued(u) /\ fut'[u] = fut[u]
        /\ \A u \in Txns : \/ fut'[u] = f[u]
                           \/ Queued(u) /\ f[u] = "pending" /\ fut'[u] = "skipped"
        /\ \A k, m \in 1..Len(queue') :
             k < m /\ {queue'[k], queue'[m]} \subseteq Txns
               => Before(queue'[k], queue'[m])
    BY <1>2, <1>4, HardStopEffect DEF Futures
  <2> QED BY <1>0, <1>1, <1>2, <2>1
<1> QED BY <1>3, <1>4

LEMMA TaskInv ==
  ASSUME ParallelInv, NEW t \in Txns, TaskStep(t), DataTyped'
  PROVE  ParallelInv'
<1>0. /\ TypeOK /\ TakenInOrder /\ PhasesMatch /\ FuturesMatch /\ CT!TrackerInv
      /\ phase \in [Txns -> CT!Phases]
      /\ tpc \in [Txns -> Places \union {"none"}] /\ permits \in Nat
      /\ attempted \in SUBSET Txns
      /\ KeysExact
  BY InvTypes DEF ParallelInv, TypeOK
<1>1. PICK p \in Places :
        /\ Running(t)
        /\ tpc' = [tpc EXCEPT ![t] = p]
        /\ TaskFrame
        /\ permits' = permits + (IF tpc[t] = "reacquire" THEN 0 ELSE 1)
                              - (IF p \in {"reacquire", "ended"} THEN 0 ELSE 1)
        /\ tpc[t] = "reacquire" => permits > 0
        /\ line' \in Seq(Txns)
        /\ attempted' \in {attempted, attempted \union {t}}
        /\ IF p = "ended" THEN CT!Release(t) ELSE UNCHANGED tracker
        /\ \E f \in Futures :
             /\ f = fut \/ \E r \in Promise!Results : f = Settled(t, r)
             /\ NoStop(f) \/ HardStop(f)
  BY DEF TaskStep
<1>2. PICK f \in Futures : /\ f = fut \/ \E r \in Promise!Results : f = Settled(t, r)
                           /\ NoStop(f) \/ HardStop(f)
  BY <1>1
<1>3. /\ order' = order /\ closing' = closing /\ wpc' = wpc /\ wcur' = wcur
      /\ line' \in Seq(Txns)
  BY <1>1 DEF TaskFrame
<1>4. /\ tpc[t] \notin {"none", "ended"}
      /\ phase[t] = "holding" /\ ~Preparing(t)
  <2>1. tpc[t] \notin {"none", "ended"}
    BY <1>1 DEF Running
  <2> QED BY <1>0, <2>1 DEF PhasesMatch, CT!Phases
<1>5. /\ halted' \in BOOLEAN /\ wcancel' \in BOOLEAN
      /\ queue' \in Seq(Txns \union {SENTINEL}) /\ fut' \in Futures
      /\ \A u \in Txns : Queued(u)' => Queued(u) /\ fut'[u] = fut[u]
      /\ \A u \in Txns : u # t => fut'[u] = fut[u] \/ Queued(u)
      /\ \A u \in Txns : fut'[u] = "none" <=> fut[u] = "none"
      /\ \A u \in Txns : fut'[u] = "skipped" => fut[u] = "skipped" \/ Queued(u)
      /\ \A k, m \in 1..Len(queue') :
           k < m /\ {queue'[k], queue'[m]} \subseteq Txns
             => Before(queue'[k], queue'[m])
      /\ ~halted' => ~halted /\ queue' = queue
  BY <1>2, <1>3, <1>4, FuturesChange
<1>6. /\ CT!TrackerInv' /\ ClaimsInOrder' /\ KeysExact'
      /\ phase' = [phase EXCEPT ![t] = IF p = "ended" THEN "released" ELSE "holding"]
  <2>1. CASE p = "ended"
    <3>1. CT!Release(t)
      BY <1>1, <2>1
    <3>2. ClaimsInOrder'
      BY <1>3, <1>4, <3>1, ClaimsReleased
    <3> QED BY <1>0, <1>4, <2>1, <3>1, <3>2, ReleaseEffect
  <2>2. CASE p # "ended"
    <3>1. UNCHANGED tracker
      BY <1>1, <2>2
    <3>2. UNCHANGED <<waiters, keys, claim, phase>>
      BY <3>1 DEF tracker
    <3>3. ClaimsInOrder' /\ KeysExact'
      BY <1>0, <1>3, <3>2, ClaimsSame DEF KeysExact
    <3>4. CT!TrackerInv'
      BY <1>0, <3>1, TrackerSame
    <3> QED BY <1>0, <1>4, <2>2, <3>2, <3>3, <3>4
  <2> QED BY <2>1, <2>2
<1>7. tpc' = [tpc EXCEPT ![t] = p] /\ tpc' \in [Txns -> Places \union {"none"}] /\ p # "none"
  <2>1. "none" \notin Places
    BY DEF Places
  <2> QED BY <1>0, <1>1, <2>1
<1>8. PermitsKept' /\ permits' \in 0..MaxConcurrent
  <2>1. permits' = permits
          + (IF tpc[t] \in {"none", "ended", "reacquire"} THEN 0 ELSE 1)
          - (IF p \in {"none", "ended", "reacquire"} THEN 0 ELSE 1)
          + (IF wpc = "checkout" THEN 1 ELSE 0)
          - (IF wpc' = "checkout" THEN 1 ELSE 0)
    <3>1. permits' = permits + (IF tpc[t] = "reacquire" THEN 0 ELSE 1)
                             - (IF p \in {"reacquire", "ended"} THEN 0 ELSE 1)
      BY <1>1
    <3>2. /\ tpc[t] \in {"none", "ended", "reacquire"} <=> tpc[t] = "reacquire"
          /\ p \in {"none", "ended", "reacquire"} <=> p \in {"reacquire", "ended"}
          /\ wpc' = wpc /\ permits \in Nat
      BY <1>0, <1>3, <1>4, <1>7
    <3>3. CASE wpc = "checkout"
      BY <3>1, <3>2, <3>3
    <3>4. CASE wpc # "checkout"
      BY <3>1, <3>2, <3>4
    <3> QED BY <3>3, <3>4
  <2>2. permits' \in Nat
    <3>1. /\ permits' = permits + (IF tpc[t] = "reacquire" THEN 0 ELSE 1)
                               - (IF p \in {"reacquire", "ended"} THEN 0 ELSE 1)
          /\ tpc[t] = "reacquire" => permits > 0
      BY <1>1
    <3> QED BY <1>0, <3>1
  <2> QED BY <1>3, <1>7, <2>1, <2>2, PermitsPart
<1>9. TypeOK'
  <2>1. /\ order' \in Seq(Txns) /\ closing' \in BOOLEAN
        /\ wpc' \in WorkerPlaces /\ wcur' \in Txns \union {NoItem}
    BY <1>0, <1>3 DEF TypeOK, WorkerPlaces
  <2>2. attempted' \in SUBSET Txns
    BY <1>0, <1>1
  <2> QED BY <1>3, <1>5, <1>6, <1>7, <1>8, <2>1, <2>2, TypeKept
<1>10. \A u \in Txns : /\ u # t => phase'[u] = phase[u] /\ tpc'[u] = tpc[u]
                       /\ Preparing(u)' <=> Preparing(u)
  BY <1>0, <1>3, <1>6, <1>7 DEF Preparing
<1>11. /\ phase'[t] = IF p = "ended" THEN "released" ELSE "holding"
       /\ tpc'[t] = p
  BY <1>0, <1>6, <1>7
<1>12. PhasesMatch'
  <2>1. wpc' \in {"conflict", "semaphore", "checkout"} => wcur' \in Txns
    BY <1>0, <1>3 DEF PhasesMatch
  <2>2. ASSUME NEW u \in Txns, u # t
        PROVE  /\ phase'[u] = "idle" => tpc'[u] = "none" /\ ~Preparing(u)'
               /\ phase'[u] = "waiting" => tpc'[u] = "none" /\ Preparing(u)' /\ wpc' = "conflict"
               /\ phase'[u] = "cancelled" => tpc'[u] = "none" /\ wpc' = "cancelled"
               /\ phase'[u] = "released" => tpc'[u] = "ended" /\ ~Preparing(u)'
               /\ phase'[u] = "holding" =>
                    \/ Running(u)' /\ ~Preparing(u)'
                    \/ tpc'[u] = "none" /\ Preparing(u)' /\ wpc' # "conflict"
                    \/ tpc'[u] = "none" /\ wpc' = "cancelled"
    BY <1>0, <1>3, <1>10, <2>2 DEF PhasesMatch, Running
  <2>3. /\ phase'[t] \in {"released", "holding"} /\ ~Preparing(t)'
        /\ phase'[t] = "released" => tpc'[t] = "ended"
        /\ phase'[t] = "holding" => Running(t)'
    BY <1>4, <1>7, <1>10, <1>11 DEF Running
  <2> QED BY <2>1, <2>2, <2>3 DEF PhasesMatch
<1>13. FuturesMatch'
  <2>1. ASSUME NEW u \in Txns
        PROVE  /\ fut'[u] = "none" <=> ~Submitted(u)
               /\ fut'[u] \in {"none", "skipped"} => phase'[u] = "idle"
               /\ Queued(u)' => fut'[u] \in {"pending", "cancelled"} /\ phase'[u] = "idle"
               /\ u \in attempted' => tpc'[u] # "none"
    <3>1. u # t => phase'[u] = phase[u] /\ tpc'[u] = tpc[u]
      BY <1>10
    <3>2. /\ ~Queued(t) /\ fut[t] \notin {"none", "skipped"} /\ tpc'[t] # "none"
          /\ Queued(u) => u # t
      BY <1>0, <1>4, <1>7, <1>11 DEF FuturesMatch
    <3>3. u \in attempted' => u = t \/ u \in attempted
      BY <1>1
    <3>4. u \in attempted' => tpc'[u] # "none"
      BY <1>0, <3>1, <3>2, <3>3 DEF FuturesMatch
    <3>5. fut'[u] \in {"none", "skipped"} => phase'[u] = "idle"
      <4>1. ASSUME fut'[u] \in {"none", "skipped"}
            PROVE  u # t /\ (fut[u] \in {"none", "skipped"} \/ Queued(u))
        BY <1>5, <3>2, <4>1
      <4> QED BY <1>0, <3>1, <4>1 DEF FuturesMatch
    <3>6. Queued(u)' => fut'[u] \in {"pending", "cancelled"} /\ phase'[u] = "idle"
      BY <1>0, <1>5, <3>1, <3>2 DEF FuturesMatch
    <3>7. fut'[u] = "none" <=> ~Submitted(u)
      BY <1>0, <1>5 DEF FuturesMatch
    <3> QED BY <3>4, <3>5, <3>6, <3>7
  <2>2. \A u : Submitted(u)' <=> Submitted(u)
    BY <1>3, SameOrder
  <2> QED BY <2>1, <2>2 DEF FuturesMatch
<1>14. TakenInOrder'
  <2>1. \A u \in Txns : phase'[u] = "idle" <=> phase[u] = "idle"
    BY <1>4, <1>10, <1>11
  <2>2. \A u, v \in Txns : Before(u, v) /\ phase'[v] # "idle" => phase'[u] # "idle"
    BY <1>0, <2>1 DEF TakenInOrder
  <2>3. ASSUME ~halted', NEW u \in Txns, Submitted(u), phase'[u] = "idle"
        PROVE  Queued(u)'
    <3>1. ~halted /\ queue' = queue
      BY <1>5, <2>3
    <3>2. Queued(u)
      BY <1>0, <2>1, <2>3, <3>1 DEF TakenInOrder
    <3> QED BY <3>1, <3>2 DEF Queued
  <2>4. \A i, j \in 1..Len(order) : order[i] = order[j] => i = j
    BY <1>0 DEF TakenInOrder
  <2> QED BY <1>3, <1>5, <2>2, <2>3, <2>4, TakenKept
<1>15. TasksReady'
  BY DEF DataTyped
<1> QED BY <1>6, <1>8, <1>9, <1>12, <1>13, <1>14, <1>15 DEF ParallelInv

\* Steps that move no task, claim or permit.
LEMMA QueueStepInv ==
  ASSUME ParallelInv,
         UNCHANGED <<order, wcur, permits, line, pool, tracked, tstate, attempted, tracker>>,
         halted' \in BOOLEAN, closing' \in BOOLEAN, wcancel' \in BOOLEAN,
         wpc' = wpc \/ (wpc = "get" /\ wpc' \in {"done", "crashed"}),
         queue' \in Seq(Txns \union {SENTINEL}), fut' \in Futures,
         \A u \in Txns : Queued(u)' => Queued(u) /\ fut'[u] \in {"pending", "cancelled"},
         \A u \in Txns : fut'[u] = "none" <=> fut[u] = "none",
         \A u \in Txns : fut'[u] = "skipped" => fut[u] = "skipped" \/ Queued(u),
         \A k, m \in 1..Len(queue') :
           k < m /\ {queue'[k], queue'[m]} \subseteq Txns => Before(queue'[k], queue'[m]),
         ~halted' => ~halted /\ \A u \in Txns : Queued(u) => Queued(u)'
  PROVE  ParallelInv'
<1>0. /\ TypeOK /\ TakenInOrder /\ PhasesMatch /\ FuturesMatch /\ CT!TrackerInv
      /\ permits \in 0..MaxConcurrent /\ tpc \in [Txns -> Places \union {"none"}]
      /\ KeysExact /\ TasksReady /\ PermitsKept
  BY InvTypes DEF ParallelInv, TypeOK
<1>1. /\ order' = order /\ wcur' = wcur /\ permits' = permits /\ line' = line
      /\ pool' = pool /\ tracked' = tracked /\ attempted' = attempted
      /\ tpc' = tpc /\ held' = held /\ retries' = retries /\ sending' = sending
      /\ UNCHANGED tracker
      /\ UNCHANGED <<waiters, keys, isSet, claim, phase>>
  BY DEF tstate, tracker
<1>2. CT!TrackerInv' /\ ClaimsInOrder' /\ KeysExact'
  BY <1>0, <1>1, TrackerSame, ClaimsSame DEF KeysExact
<1>3. TasksReady' /\ DataTyped'
  BY <1>0, <1>1 DEF TasksReady, DataTyped, TypeOK
<1>4. TypeOK'
  <2>1. /\ wpc' \in WorkerPlaces /\ wcur' \in Txns \union {NoItem} /\ line' \in Seq(Txns)
        /\ attempted' \in SUBSET Txns /\ order' \in Seq(Txns)
    BY <1>0, <1>1 DEF TypeOK, WorkerPlaces, WorkerEnded
  <2> QED BY <1>0, <1>1, <1>2, <1>3, <2>1, TypeKept
<1>5. /\ wpc' = "checkout" <=> wpc = "checkout"
      /\ wpc' = "cancelled" <=> wpc = "cancelled"
  OBVIOUS
<1>6. PermitsKept'
  BY <1>0, <1>1, <1>5 DEF PermitsKept, InFlight, Running
<1>7. PhasesMatch'
  <2>1. /\ wpc' \in {"conflict", "semaphore", "checkout"} <=>
             wpc \in {"conflict", "semaphore", "checkout"}
        /\ wpc' = "conflict" <=> wpc = "conflict"
    OBVIOUS
  <2>2. \A u : Preparing(u)' <=> Preparing(u)
    BY <1>1, <2>1 DEF Preparing
  <2> QED BY <1>0, <1>1, <1>5, <2>1, <2>2 DEF PhasesMatch, Running
<1>8. FuturesMatch'
  <2>1. \A u : Submitted(u)' <=> Submitted(u)
    BY <1>1, SameOrder
  <2> QED BY <1>0, <1>1, <2>1 DEF FuturesMatch
<1>9. TakenInOrder'
  <2>1. /\ \A u, v \in Txns : Before(u, v) /\ phase'[v] # "idle" => phase'[u] # "idle"
        /\ ~halted' => \A u \in Txns : Submitted(u) /\ phase'[u] = "idle" => Queued(u)'
        /\ \A i, j \in 1..Len(order) : order[i] = order[j] => i = j
    BY <1>0, <1>1 DEF TakenInOrder
  <2> QED BY <1>1, <2>1, TakenKept
<1> QED BY <1>2, <1>3, <1>4, <1>6, <1>7, <1>8, <1>9 DEF ParallelInv

\* An unchanged queue holds what it held, in the same order.
LEMMA QueueSame ==
  ASSUME ParallelInv, queue' = queue
  PROVE  /\ queue' \in Seq(Txns \union {SENTINEL})
         /\ \A u : Queued(u)' <=> Queued(u)
         /\ \A k, m \in 1..Len(queue') :
              k < m /\ {queue'[k], queue'[m]} \subseteq Txns => Before(queue'[k], queue'[m])
BY DEF Queued, ParallelInv, TypeOK, TakenInOrder

\* What the invariant says of the caller's side.
LEMMA CallerFacts ==
  ASSUME ParallelInv
  PROVE  /\ halted \in BOOLEAN /\ closing \in BOOLEAN /\ wcancel \in BOOLEAN
         /\ queue \in Seq(Txns \union {SENTINEL}) /\ fut \in Futures
         /\ SENTINEL \notin Txns
         /\ \A u \in Txns : Queued(u) => fut[u] \in {"pending", "cancelled"}
BY MarkersAssumption DEF ParallelInv, TypeOK, Futures, FuturesMatch

LEMMA SkipsInv ==
  ASSUME ParallelInv, WorkerSkips
  PROVE  ParallelInv'
<1> DEFINE t == Head(queue)
<1>0. /\ wpc = "get" /\ queue # <<>> /\ t # SENTINEL /\ halted
      /\ queue' = Tail(queue)
      /\ IF fut[t] = "cancelled"
         THEN wpc' = "crashed" /\ fut' = fut
         ELSE fut' = [fut EXCEPT ![t] = "skipped"] /\ wpc' = wpc
      /\ UNCHANGED <<order, wcur, permits, line, pool, tracked, tstate, attempted, tracker>>
      /\ halted' = halted /\ closing' = closing /\ wcancel' = wcancel
  BY DEF WorkerSkips, semaphore
<1>1. t \in Txns /\ Queued(t)
  BY <1>0, TakenFacts
<1> HIDE DEF t
<1>2. /\ queue' \in Seq(Txns \union {SENTINEL})
      /\ \A u \in Txns : Queued(u)' <=> Queued(u) /\ u # t
      /\ \A k, m \in 1..Len(queue') :
           k < m /\ {queue'[k], queue'[m]} \subseteq Txns => Before(queue'[k], queue'[m])
  BY <1>0, TailQueue DEF t
<1>3. /\ fut' \in Futures
      /\ \A u \in Txns : u # t => fut'[u] = fut[u]
      /\ fut'[t] \in {"cancelled", "skipped"} /\ fut[t] # "none"
  BY <1>0, <1>1, CallerFacts DEF Futures, Promise!FutureStates
<1>4. /\ \A u \in Txns : Queued(u)' => Queued(u) /\ fut'[u] \in {"pending", "cancelled"}
      /\ \A u \in Txns : fut'[u] = "none" <=> fut[u] = "none"
      /\ \A u \in Txns : fut'[u] = "skipped" => fut[u] = "skipped" \/ Queued(u)
  BY <1>1, <1>2, <1>3, CallerFacts
<1>5. wpc' = wpc \/ (wpc = "get" /\ wpc' \in {"done", "crashed"})
  BY <1>0
<1> QED BY <1>0, <1>2, <1>3, <1>4, <1>5, CallerFacts, QueueStepInv

LEMMA StopsInv ==
  ASSUME ParallelInv, WorkerStops
  PROVE  ParallelInv'
<1>0. /\ wpc = "get" /\ wpc' = "done" /\ queue # <<>> /\ Head(queue) = SENTINEL
      /\ queue' = Tail(queue)
      /\ UNCHANGED <<order, wcur, permits, line, pool, tracked, tstate, attempted, tracker>>
      /\ halted' = halted /\ closing' = closing /\ wcancel' = wcancel /\ fut' = fut
      /\ order' = order
  BY DEF WorkerStops, semaphore, promise
<1>1. /\ queue' \in Seq(Txns \union {SENTINEL})
      /\ \A u \in Txns : Queued(u)' <=> Queued(u)
      /\ \A k, m \in 1..Len(queue') :
           k < m /\ {queue'[k], queue'[m]} \subseteq Txns => Before(queue'[k], queue'[m])
  BY <1>0, TailQueue, CallerFacts
<1> QED BY <1>0, <1>1, CallerFacts, QueueStepInv

LEMMA CancelFutureInv ==
  ASSUME ParallelInv, NEW t \in Txns, CancelFuture(t)
  PROVE  ParallelInv'
<1>0. /\ fut[t] = "pending" /\ fut' = [fut EXCEPT ![t] = "cancelled"]
      /\ UNCHANGED <<order, wcur, permits, line, pool, tracked, tstate, attempted, tracker>>
      /\ halted' = halted /\ closing' = closing /\ wcancel' = wcancel
      /\ queue' = queue /\ wpc' = wpc
  BY DEF CancelFuture, semaphore, wstate
<1>1. /\ fut' \in Futures
      /\ \A u \in Txns : u # t => fut'[u] = fut[u]
      /\ fut'[t] = "cancelled"
  BY <1>0, CallerFacts DEF Futures, Promise!FutureStates
<1>2. /\ \A u \in Txns : Queued(u)' => Queued(u) /\ fut'[u] \in {"pending", "cancelled"}
      /\ \A u \in Txns : fut'[u] = "none" <=> fut[u] = "none"
      /\ \A u \in Txns : fut'[u] = "skipped" => fut[u] = "skipped" \/ Queued(u)
      /\ \A u \in Txns : Queued(u) => Queued(u)'
  BY <1>0, <1>1, CallerFacts, QueueSame
<1> QED BY <1>0, <1>1, <1>2, CallerFacts, QueueSame, QueueStepInv

\* Items put at the end of the queue.
LEMMA AppendQueue ==
  ASSUME ParallelInv, NEW x \in Txns \union {SENTINEL}, queue' = Append(queue, x)
  PROVE  /\ queue' \in Seq(Txns \union {SENTINEL})
         /\ \A u \in Txns : Queued(u)' <=> Queued(u) \/ u = x
         /\ Len(queue) \in Nat /\ Len(queue') = Len(queue) + 1
         /\ queue'[Len(queue) + 1] = x
         /\ \A i \in 1..Len(queue) : queue'[i] = queue[i]
<1>1. queue \in Seq(Txns \union {SENTINEL})
  BY CallerFacts
<1>2. /\ queue' \in Seq(Txns \union {SENTINEL})
      /\ Len(queue) \in Nat /\ Len(queue') = Len(queue) + 1
      /\ queue'[Len(queue) + 1] = x
      /\ \A i \in 1..Len(queue) : queue'[i] = queue[i]
  BY <1>1, Tracker!AppendFacts
<1>3. ASSUME NEW u \in Txns, Queued(u)' PROVE Queued(u) \/ u = x
  <2>1. PICK i \in 1..Len(queue') : queue'[i] = u
    BY <1>3 DEF Queued
  <2>2. i \in 1..Len(queue) \/ i = Len(queue) + 1
    BY <1>2
  <2> QED BY <1>2, <2>1, <2>2 DEF Queued
<1>4. ASSUME NEW u \in Txns, Queued(u) PROVE Queued(u)'
  <2>1. PICK i \in 1..Len(queue) : queue[i] = u
    BY <1>4 DEF Queued
  <2>2. i \in 1..Len(queue')
    BY <1>2
  <2> QED BY <1>2, <2>1, <2>2 DEF Queued
<1>5. Queued(x)'
  <2>1. Len(queue) + 1 \in 1..Len(queue')
    BY <1>2
  <2> QED BY <1>2, <2>1 DEF Queued
<1> QED BY <1>2, <1>3, <1>4, <1>5

LEMMA CloseInv ==
  ASSUME ParallelInv, Close
  PROVE  ParallelInv'
<1>0. /\ queue' = IF halted THEN queue ELSE Append(queue, SENTINEL)
      /\ UNCHANGED <<order, wcur, permits, line, pool, tracked, tstate, attempted, tracker>>
      /\ halted' = TRUE /\ closing' = TRUE /\ wcancel' = wcancel /\ fut' = fut
      /\ wpc' = wpc
  BY DEF Close, semaphore, wstate
<1>1. CASE halted
  <2>1. queue' = queue
    BY <1>0, <1>1
  <2> QED BY <1>0, <2>1, CallerFacts, QueueSame, QueueStepInv
<1>2. CASE ~halted
  <2>1. /\ queue' \in Seq(Txns \union {SENTINEL})
        /\ \A u \in Txns : Queued(u)' <=> Queued(u)
        /\ Len(queue) \in Nat /\ Len(queue') = Len(queue) + 1
        /\ queue'[Len(queue) + 1] = SENTINEL
        /\ \A i \in 1..Len(queue) : queue'[i] = queue[i]
    BY <1>0, <1>2, CallerFacts, AppendQueue
  <2>2. ASSUME NEW k \in 1..Len(queue'), NEW m \in 1..Len(queue'), k < m,
               {queue'[k], queue'[m]} \subseteq Txns
        PROVE  Before(queue'[k], queue'[m])
    <3>1. queue'[m] # SENTINEL
      BY <2>2, CallerFacts
    <3>2. k \in 1..Len(queue) /\ m \in 1..Len(queue)
      BY <2>1, <2>2, <3>1
    <3> QED BY <2>1, <2>2, <3>2 DEF ParallelInv, TakenInOrder
  <2>3. /\ \A u \in Txns : Queued(u)' => Queued(u) /\ fut'[u] \in {"pending", "cancelled"}
        /\ \A u \in Txns : fut'[u] = "none" <=> fut[u] = "none"
        /\ \A u \in Txns : fut'[u] = "skipped" => fut[u] = "skipped" \/ Queued(u)
    BY <1>0, <2>1, CallerFacts
  <2> QED BY <1>0, <2>1, <2>2, <2>3, CallerFacts, QueueStepInv
<1> QED BY <1>1, <1>2, CallerFacts

\* A worker cancelled while it prepares a transaction drops it.
LEMMA DropsInv ==
  ASSUME ParallelInv, WorkerCancelled, wpc # "get"
  PROVE  ParallelInv'
<1>0. /\ TypeOK /\ TakenInOrder /\ PhasesMatch /\ FuturesMatch /\ CT!TrackerInv
      /\ permits \in 0..MaxConcurrent /\ tpc \in [Txns -> Places \union {"none"}]
      /\ KeysExact /\ TasksReady /\ PermitsKept
      /\ phase \in [Txns -> CT!Phases] /\ line \in Seq(Txns)
  BY InvTypes DEF ParallelInv, TypeOK
<1>1. /\ wpc \in {"conflict", "semaphore", "checkout"} /\ wpc' = "cancelled"
      /\ IF wpc = "conflict" THEN CT!Cancel(wcur) ELSE UNCHANGED tracker
      /\ fut' = fut /\ order' = order /\ halted' = halted
      /\ closing' = closing /\ queue' = queue /\ wcur' = wcur /\ wcancel' = wcancel
      /\ permits' = permits /\ pool' = pool /\ tracked' = tracked /\ attempted' = attempted
      /\ tpc' = tpc /\ held' = held /\ retries' = retries /\ sending' = sending
  BY <1>0 DEF WorkerCancelled, promise, tstate, TypeOK, WorkerEnded
<1>2. wcur \in Txns
  BY <1>0, <1>1 DEF PhasesMatch
<1>3. line' \in Seq(Txns)
  BY <1>0, RemoveFirstIsSeq DEF WorkerCancelled
<1>4. /\ CT!TrackerInv' /\ ClaimsInOrder' /\ KeysExact'
      /\ \/ phase' = phase /\ wpc # "conflict"
         \/ /\ phase[wcur] = "waiting" /\ phase' = [phase EXCEPT ![wcur] = "cancelled"]
            /\ wpc = "conflict"
  <2>1. CASE wpc = "conflict"
    <3>1. /\ CT!TrackerInv' /\ phase[wcur] = "waiting"
          /\ phase' = [phase EXCEPT ![wcur] = "cancelled"]
          /\ waiters' = waiters /\ keys' = keys /\ claim' = claim
      BY <1>0, <1>1, <1>2, <2>1, CancelEffect
    <3>2. ClaimsInOrder'
      BY <1>1, <1>2, <3>1, ClaimsSame
    <3> QED BY <1>0, <2>1, <3>1, <3>2 DEF KeysExact
  <2>2. CASE wpc # "conflict"
    <3>1. UNCHANGED tracker /\ UNCHANGED <<waiters, keys, claim, phase>>
      BY <1>1, <2>2 DEF tracker
    <3> QED BY <1>0, <1>1, <2>2, <3>1, TrackerSame, ClaimsSame DEF KeysExact
  <2> QED BY <2>1, <2>2
<1>5. TasksReady' /\ DataTyped'
  BY <1>0, <1>1 DEF TasksReady, DataTyped, TypeOK
<1>6. TypeOK'
  <2>1. /\ wpc' \in WorkerPlaces /\ wcur' \in Txns \union {NoItem}
        /\ attempted' \in SUBSET Txns /\ order' \in Seq(Txns) /\ fut' \in Futures
        /\ queue' \in Seq(Txns \union {SENTINEL})
        /\ halted' \in BOOLEAN /\ closing' \in BOOLEAN /\ wcancel' \in BOOLEAN
    BY <1>0, <1>1 DEF TypeOK, WorkerPlaces, WorkerEnded, Futures
  <2> QED BY <1>0, <1>1, <1>3, <1>4, <1>5, <2>1, TypeKept
<1>7. PermitsKept'
  <2>1. InFlight' = InFlight
    BY <1>1 DEF InFlight, Running
  <2>2. IsFiniteSet(InFlight) /\ Cardinality(InFlight) \in Nat
    BY <1>0, FS_CardinalityType DEF PermitsKept
  <2>3. permits + Cardinality(InFlight) + 0 <= MaxConcurrent
    <3> DEFINE n == Cardinality(InFlight)
               c == IF wpc = "checkout" THEN 1 ELSE 0
    <3>1. permits + (n + c) <= MaxConcurrent
      BY <1>0 DEF PermitsKept
    <3>2. n \in Nat /\ c \in {0, 1} /\ permits \in Nat /\ MaxConcurrent \in Nat
      BY <2>2, InvTypes
    <3> HIDE DEF n, c
    <3>3. permits + n + 0 <= MaxConcurrent
      BY <3>1, <3>2
    <3> QED BY <3>3 DEF n
  <2> QED BY <1>1, <2>1, <2>2, <2>3, InvTypes DEF PermitsKept
<1>8. PhasesMatch'
  <2>1. wpc' \in {"conflict", "semaphore", "checkout"} => wcur' \in Txns
    BY <1>1
  <2>2. \A u : ~Preparing(u)'
    BY <1>1 DEF Preparing
  <2>3. ASSUME NEW u \in Txns
        PROVE  /\ phase'[u] = "idle" => tpc[u] = "none"
               /\ phase'[u] # "waiting"
               /\ phase'[u] = "cancelled" => tpc[u] = "none"
               /\ phase'[u] = "released" => tpc[u] = "ended"
               /\ phase'[u] = "holding" => Running(u) \/ tpc[u] = "none"
    BY <1>0, <1>1, <1>2, <1>4 DEF PhasesMatch, Preparing
  <2> QED BY <1>1, <2>1, <2>2, <2>3 DEF PhasesMatch, Running
<1>9. \A u \in Txns : phase'[u] = "idle" <=> phase[u] = "idle"
  BY <1>0, <1>2, <1>4
<1>10. FuturesMatch'
  <2>1. \A u : (Submitted(u)' <=> Submitted(u)) /\ (Queued(u)' <=> Queued(u))
    BY <1>1, SameOrder, QueueSame
  <2> QED BY <1>0, <1>1, <1>9, <2>1 DEF FuturesMatch
<1>11. TakenInOrder'
  <2>1. \A u : Queued(u)' <=> Queued(u)
    BY <1>1, QueueSame
  <2>2. /\ \A u, v \in Txns : Before(u, v) /\ phase'[v] # "idle" => phase'[u] # "idle"
        /\ ~halted' => \A u \in Txns : Submitted(u) /\ phase'[u] = "idle" => Queued(u)'
        /\ \A i, j \in 1..Len(order) : order[i] = order[j] => i = j
    BY <1>0, <1>1, <1>9, <2>1 DEF TakenInOrder
  <2> QED BY <1>1, <2>2, TakenKept, QueueSame
<1> QED BY <1>4, <1>5, <1>6, <1>7, <1>8, <1>10, <1>11 DEF ParallelInv

LEMMA CancelledInv ==
  ASSUME ParallelInv, WorkerCancelled
  PROVE  ParallelInv'
<1>1. CASE wpc = "get"
  <2>1. /\ UNCHANGED <<order, wcur, permits, line, pool, tracked, tstate, attempted, tracker>>
        /\ halted' = halted /\ closing' = closing /\ wcancel' = wcancel /\ fut' = fut
        /\ queue' = queue /\ wpc' = "done"
    BY <1>1 DEF WorkerCancelled, promise
  <2>2. wpc' = wpc \/ (wpc = "get" /\ wpc' \in {"done", "crashed"})
    BY <1>1, <2>1
  <2> QED BY <2>1, <2>2, CallerFacts, QueueSame, QueueStepInv
<1>2. CASE wpc # "get"
  BY <1>2, DropsInv
<1> QED BY <1>1, <1>2

\* The transaction submitted last comes after all others.
LEMMA AppendOrder ==
  ASSUME TypeOK, TakenInOrder, NEW t \in Txns, ~Submitted(t), order' = Append(order, t)
  PROVE  /\ order' \in Seq(Txns)
         /\ \A u : Submitted(u)' <=> Submitted(u) \/ u = t
         /\ \A u, v : Before(u, v)' <=> Before(u, v) \/ (v = t /\ Submitted(u))
         /\ \A i, j \in 1..Len(order') : order'[i] = order'[j] => i = j
<1> DEFINE n == Len(order)
<1>1. order \in Seq(Txns) /\ n \in Nat
  <2>1. order \in Seq(Txns)
    BY DEF TypeOK
  <2> QED BY <2>1
<1>2. /\ \A i, j \in 1..n : order[i] = order[j] => i = j
      /\ \A i \in 1..n : order[i] # t
  BY DEF TakenInOrder, Submitted
<1>3. /\ order' \in Seq(Txns) /\ Len(order') = n + 1 /\ order'[n + 1] = t
      /\ \A i \in 1..n : order'[i] = order[i]
  BY <1>1, Tracker!AppendFacts
<1>4. /\ \A u : Submitted(u)' <=> \E i \in 1..(n + 1) : order'[i] = u
      /\ \A u : Submitted(u) <=> \E i \in 1..n : order[i] = u
      /\ \A u, v : Before(u, v)' <=>
           \E i, j \in 1..(n + 1) : i < j /\ order'[i] = u /\ order'[j] = v
      /\ \A u, v : Before(u, v) <=>
           \E i, j \in 1..n : i < j /\ order[i] = u /\ order[j] = v
  BY <1>3 DEF Before, Submitted
<1>5. /\ \A i \in 1..(n + 1) : i \in 1..n \/ i = n + 1
      /\ \A i \in 1..n : i \in 1..(n + 1) /\ i < n + 1
      /\ n + 1 \in 1..(n + 1)
      /\ \A i, j \in 1..(n + 1) : i < j => i \in 1..n
  BY <1>1
<1> HIDE DEF n
<1>6. ASSUME NEW u PROVE Submitted(u)' <=> Submitted(u) \/ u = t
  <2>1. (\E i \in 1..(n + 1) : order'[i] = u) <=> (\E i \in 1..n : order[i] = u) \/ u = t
    BY <1>3, <1>5
  <2> QED BY <1>4, <2>1
<1>7. ASSUME NEW u, NEW v PROVE Before(u, v)' <=> Before(u, v) \/ (v = t /\ Submitted(u))
  <2>1. ASSUME NEW i \in 1..(n + 1), NEW j \in 1..(n + 1), i < j,
               order'[i] = u, order'[j] = v
        PROVE  Before(u, v) \/ (v = t /\ Submitted(u))
    <3>1. i \in 1..n /\ order[i] = u /\ Submitted(u)
      BY <1>3, <1>4, <1>5, <2>1
    <3>2. CASE j \in 1..n
      BY <1>3, <1>4, <2>1, <3>1, <3>2
    <3>3. CASE j = n + 1
      BY <1>3, <2>1, <3>1, <3>3
    <3> QED BY <1>5, <3>2, <3>3
  <2>2. ASSUME NEW i \in 1..n, NEW j \in 1..n, i < j, order[i] = u, order[j] = v
        PROVE  Before(u, v)'
    <3>1. i \in 1..(n + 1) /\ j \in 1..(n + 1) /\ order'[i] = u /\ order'[j] = v
      BY <1>3, <1>5, <2>2
    <3>2. \E k, m \in 1..(n + 1) : k < m /\ order'[k] = u /\ order'[m] = v
      BY <2>2, <3>1
    <3> QED BY <1>4, <3>2, Zenon
  <2>3. ASSUME NEW i \in 1..n, order[i] = u, v = t
        PROVE  Before(u, v)'
    <3>1. /\ i \in 1..(n + 1) /\ n + 1 \in 1..(n + 1) /\ i < n + 1
          /\ order'[i] = u /\ order'[n + 1] = v
      BY <1>3, <1>5, <2>3
    <3> QED BY <1>4, <3>1
  <2> QED BY <1>4, <2>1, <2>2, <2>3
<1>8. \A i, j \in 1..Len(order') : order'[i] = order'[j] => i = j
  BY <1>2, <1>3, <1>5
<1> QED BY <1>3, <1>6, <1>7, <1>8

LEMMA SubmitInv ==
  ASSUME ParallelInv, NEW t \in Txns, Submit(t)
  PROVE  ParallelInv'
<1>0. /\ TypeOK /\ TakenInOrder /\ PhasesMatch /\ FuturesMatch /\ CT!TrackerInv
      /\ permits \in 0..MaxConcurrent /\ tpc \in [Txns -> Places \union {"none"}]
      /\ KeysExact /\ TasksReady /\ PermitsKept /\ ClaimsInOrder
  BY InvTypes DEF ParallelInv, TypeOK
<1>1. /\ fut[t] = "none"
      /\ fut' = [fut EXCEPT ![t] = IF halted THEN "skipped" ELSE "pending"]
      /\ queue' = IF halted THEN queue ELSE Append(queue, t)
      /\ order' = Append(order, t)
      /\ halted' = halted /\ closing' = closing /\ wpc' = wpc /\ wcur' = wcur
      /\ wcancel' = wcancel /\ permits' = permits /\ line' = line /\ pool' = pool
      /\ tracked' = tracked /\ tpc' = tpc /\ held' = held /\ retries' = retries
      /\ sending' = sending /\ attempted' = attempted
      /\ UNCHANGED tracker /\ UNCHANGED <<waiters, keys, isSet, claim, phase>>
  BY DEF Submit, wstate, semaphore, tstate, tracker
<1>2. ~Submitted(t) /\ phase[t] = "idle" /\ ~Queued(t)
  BY <1>0, <1>1 DEF FuturesMatch
<1>3. /\ order' \in Seq(Txns)
      /\ \A u : Submitted(u)' <=> Submitted(u) \/ u = t
      /\ \A u, v : Before(u, v)' <=> Before(u, v) \/ (v = t /\ Submitted(u))
      /\ \A i, j \in 1..Len(order') : order'[i] = order'[j] => i = j
  BY <1>0, <1>1, <1>2, AppendOrder
<1>4. /\ fut' \in Futures /\ \A u \in Txns : u # t => fut'[u] = fut[u]
      /\ fut'[t] = IF halted THEN "skipped" ELSE "pending"
  BY <1>1, CallerFacts DEF Futures, Promise!FutureStates
<1>5. /\ queue' \in Seq(Txns \union {SENTINEL})
      /\ \A u \in Txns : Queued(u)' <=> Queued(u) \/ (u = t /\ ~halted)
  <2>1. CASE halted
    BY <1>1, <2>1, QueueSame
  <2>2. CASE ~halted
    BY <1>1, <2>2, AppendQueue
  <2> QED BY <2>1, <2>2
<1>6. ASSUME NEW u \in Txns, NEW v \in Txns, NEW k \in 1..Len(queue'),
             NEW m \in 1..Len(queue'), k < m, queue'[k] = u, queue'[m] = v
      PROVE  Before(u, v)'
  <2>1. CASE halted
    BY <1>0, <1>1, <1>3, <1>6, <2>1 DEF TakenInOrder
  <2>2. CASE ~halted
    <3>1. /\ Len(queue) \in Nat /\ Len(queue') = Len(queue) + 1
          /\ queue'[Len(queue) + 1] = t
          /\ \A i \in 1..Len(queue) : queue'[i] = queue[i]
      BY <1>1, <2>2, AppendQueue
    <3>2. k \in 1..Len(queue) /\ (m \in 1..Len(queue) \/ m = Len(queue) + 1)
      BY <1>6, <3>1
    <3>3. CASE m \in 1..Len(queue)
      <4>1. queue[k] = u /\ queue[m] = v
        BY <1>6, <3>1, <3>2, <3>3
      <4>2. Before(u, v)
        BY <1>0, <1>6, <3>2, <3>3, <4>1 DEF TakenInOrder
      <4> QED BY <1>3, <4>2
    <3>4. CASE m = Len(queue) + 1
      <4>1. Queued(u) /\ v = t
        BY <1>6, <3>1, <3>2, <3>4 DEF Queued
      <4>2. Submitted(u)
        BY <1>0, <4>1 DEF FuturesMatch
      <4> QED BY <1>3, <4>1, <4>2
    <3> QED BY <3>2, <3>3, <3>4
  <2> QED BY <2>1, <2>2
<1>7. TakenInOrder'
  <2>1. \A k, m \in 1..Len(queue') :
          k < m /\ {queue'[k], queue'[m]} \subseteq Txns => Before(queue[k], queue[m])'
    <3> SUFFICES ASSUME NEW k \in 1..Len(queue'), NEW m \in 1..Len(queue'), k < m,
                        {queue'[k], queue'[m]} \subseteq Txns
                 PROVE  Before(queue[k], queue[m])'
      OBVIOUS
    <3>1. queue'[k] \in Txns /\ queue'[m] \in Txns
      OBVIOUS
    <3> QED BY <1>6, <3>1 DEF Before
  <2>2. \A u, v \in Txns : Before(u, v)' /\ phase'[v] # "idle" => phase'[u] # "idle"
    BY <1>0, <1>1, <1>2, <1>3 DEF TakenInOrder
  <2>3. ~halted' => \A u \in Txns : Submitted(u)' /\ phase'[u] = "idle" => Queued(u)'
    BY <1>0, <1>1, <1>3, <1>5 DEF TakenInOrder
  <2> QED BY <1>3, <2>1, <2>2, <2>3 DEF TakenInOrder
<1>8. ClaimsInOrder'
  <2>1. \A u \in Txns : phase'[u] # "idle" => claim'[u] = Deferred[u]
    BY <1>0, <1>1 DEF ClaimsInOrder
  <2>2. ASSUME NEW o \in Objects, NEW k \in 1..Len(waiters'[o]),
               NEW m \in 1..Len(waiters'[o]), k < m
        PROVE  Before(waiters[o][k], waiters[o][m])'
    <3>1. Before(waiters[o][k], waiters[o][m])
      BY <1>0, <1>1, <2>2 DEF ClaimsInOrder
    <3>2. \A u, v : Before(u, v) => Before(u, v)'
      BY <1>3
    <3>3. \A u, v : u = waiters[o][k] /\ v = waiters[o][m] => Before(u, v)'
      BY <3>1, <3>2
    <3> QED BY <1>1, <3>3 DEF Before
  <2>3. \A u, v \in Txns :
          /\ Before(u, v)' /\ Deferred[u] \intersect Deferred[v] # {}
          /\ phase'[v] \in {"holding", "released"}
          => phase'[u] = "released"
    BY <1>0, <1>1, <1>2, <1>3 DEF ClaimsInOrder
  <2> QED BY <2>1, <2>2, <2>3 DEF ClaimsInOrder
<1>9. FuturesMatch'
  <2>1. ASSUME NEW u \in Txns
        PROVE  /\ fut'[u] = "none" <=> ~Submitted(u)'
               /\ fut'[u] \in {"none", "skipped"} => phase'[u] = "idle"
               /\ Queued(u)' => fut'[u] \in {"pending", "cancelled"} /\ phase'[u] = "idle"
               /\ u \in attempted' => tpc'[u] # "none"
    <3>1. CASE u = t
      BY <1>0, <1>1, <1>2, <1>3, <1>4, <1>5, <3>1 DEF FuturesMatch
    <3>2. CASE u # t
      BY <1>0, <1>1, <1>3, <1>4, <1>5, <3>2 DEF FuturesMatch
    <3> QED BY <3>1, <3>2
  <2> QED BY <2>1 DEF FuturesMatch
<1>10. CT!TrackerInv' /\ KeysExact'
  BY <1>0, <1>1, TrackerSame DEF KeysExact
<1>11. TasksReady' /\ DataTyped'
  BY <1>0, <1>1 DEF TasksReady, DataTyped, TypeOK
<1>12. TypeOK'
  <2>1. /\ wpc' \in WorkerPlaces /\ wcur' \in Txns \union {NoItem} /\ line' \in Seq(Txns)
        /\ attempted' \in SUBSET Txns
        /\ halted' \in BOOLEAN /\ closing' \in BOOLEAN /\ wcancel' \in BOOLEAN
    BY <1>0, <1>1 DEF TypeOK, WorkerPlaces, WorkerEnded
  <2> QED BY <1>0, <1>1, <1>3, <1>4, <1>5, <1>10, <1>11, <2>1, TypeKept
<1>13. PermitsKept'
  BY <1>0, <1>1 DEF PermitsKept, InFlight, Running
<1>14. PhasesMatch'
  BY <1>0, <1>1 DEF PhasesMatch, Preparing, Running
<1> QED BY <1>7, <1>8, <1>9, <1>10, <1>11, <1>12, <1>13, <1>14 DEF ParallelInv

LEMMA InitInv ==
  ASSUME Init
  PROVE  ParallelInv
<1>0. /\ MaxConcurrent \in Nat /\ MaxRetries \in Nat /\ CoinValue \in Nat
      /\ InitialCoins \in Seq(Coins) /\ InitialAmounts \subseteq Nat
  BY NumbersAssumption
<1>1. CT!TrackerInv
  <2>1. Tracker!Init
    BY DEF Init, CT!Init, Tracker!Init
  <2> QED BY <2>1, Tracker!InitInv, SameInvariant
<1>2. pool \in Seq(Coins) /\ tracked \in Nat
  <2>1. CASE Mode = "coins"
    <3>1. Len(InitialCoins) \in Nat
      BY <1>0
    <3>2. Len(InitialCoins) * CoinValue \in Nat
      BY <1>0, <3>1
    <3> QED BY <1>0, <2>1, <3>2 DEF Init
  <2>2. CASE Mode # "coins"
    <3>1. pool = <<>> /\ tracked \in InitialAmounts
      BY <2>2 DEF Init
    <3> QED BY <1>0, <3>1
  <2> QED BY <2>1, <2>2
<1>3. DataTyped
  <2>1. 0 \in 0..MaxRetries
    BY <1>0
  <2> QED BY <1>2, <2>1 DEF Init, DataTyped, TasksReady
<1>4. TypeOK
  <2>1. permits \in 0..MaxConcurrent
    BY <1>0 DEF Init
  <2>2. CT!TypeOK
    BY <1>1 DEF CT!TrackerInv
  <2>a. fut \in [Txns -> Promise!FutureStates]
    BY DEF Init, Promise!FutureStates
  <2>b. order = <<>> /\ queue = <<>> /\ line = <<>> /\ attempted = {}
    BY DEF Init
  <2>c. halted \in BOOLEAN /\ closing \in BOOLEAN /\ wcancel \in BOOLEAN
    BY DEF Init
  <2>3. /\ fut \in [Txns -> Promise!FutureStates] /\ order \in Seq(Txns)
        /\ queue \in Seq(Txns \union {SENTINEL}) /\ line \in Seq(Txns)
        /\ halted \in BOOLEAN /\ closing \in BOOLEAN /\ wcancel \in BOOLEAN
        /\ attempted \in SUBSET Txns
    BY <2>a, <2>b, <2>c
  <2>4. /\ wpc \in {"get", "conflict", "semaphore", "checkout"} \union WorkerEnded
        /\ wcur \in Txns \union {NoItem}
        /\ tpc \in [Txns -> {"none", "build", "execute", "callback", "fund",
                             "retry callback", "retry fund", "reacquire", "ended"}]
    BY DEF Init
  <2> QED BY <1>3, <2>1, <2>2, <2>3, <2>4 DEF TypeOK, DataTyped
<1>5. PermitsKept
  <2>1. InFlight = {}
    BY DEF Init, InFlight, Running
  <2>2. Cardinality(InFlight) = 0 /\ IsFiniteSet(InFlight)
    BY <2>1, FS_EmptySet
  <2> QED BY <1>0, <2>2 DEF Init, PermitsKept
<1>6. PhasesMatch /\ KeysExact /\ TasksReady
  BY DEF Init, CT!Init, PhasesMatch, KeysExact, Preparing, TasksReady
<1>7. ~\E i : i \in 1..Len(order)
  BY DEF Init
<1>8. FuturesMatch /\ TakenInOrder
  BY <1>7 DEF Init, CT!Init, FuturesMatch, TakenInOrder, Submitted, Queued, Before
<1>9. ClaimsInOrder
  BY <1>7 DEF Init, CT!Init, ClaimsInOrder, Before
<1> QED BY <1>1, <1>4, <1>5, <1>6, <1>8, <1>9 DEF ParallelInv

LEMMA NextInv ==
  ASSUME ParallelInv, [Next]_vars
  PROVE  ParallelInv'
<1>1. ASSUME NEW t \in Txns, Submit(t) PROVE ParallelInv'
  BY <1>1, SubmitInv
<1>2. ASSUME NEW t \in Txns, CancelFuture(t) PROVE ParallelInv'
  BY <1>2, CancelFutureInv
<1>3. ASSUME NEW t \in Txns, Task(t) PROVE ParallelInv'
  BY <1>3, TaskIsStep, TaskInv
<1>4. CASE Close
  BY <1>4, CloseInv
<1>5. CASE Worker
  <2>1. CASE WorkerTakes \/ WorkerClaims \/ WorkerPermitted \/ WorkerPaid
    BY <2>1, WorkerIsStep, PlaceInv
  <2>2. CASE WorkerSkips
    BY <2>2, SkipsInv
  <2>3. CASE WorkerStops
    BY <2>3, StopsInv
  <2>4. CASE WorkerCancelled
    BY <2>4, CancelledInv
  <2> QED BY <1>5, <2>1, <2>2, <2>3, <2>4 DEF Worker
<1>6. CASE UNCHANGED vars
  <2>1. /\ UNCHANGED <<order, wcur, permits, line, pool, tracked, tstate, attempted, tracker>>
        /\ halted' = halted /\ closing' = closing /\ wcancel' = wcancel /\ fut' = fut
        /\ queue' = queue /\ wpc' = wpc
    BY <1>6 DEF vars, tstate, tracker
  <2> QED BY <2>1, CallerFacts, QueueSame, QueueStepInv
<1> QED BY <1>1, <1>2, <1>3, <1>4, <1>5, <1>6 DEF Next

-----------------------------------------------------------------------------
(***************************************************************************)
(* Whatever the callers, the node and on_balance_low do, the semaphore,    *)
(* the queue, the tasks, the futures and the conflict tracker stay         *)
(* consistent with each other.                                             *)
(***************************************************************************)
THEOREM ParallelInvariance == Spec => []ParallelInv
<1>1. Init => ParallelInv
  BY InitInv
<1>2. ParallelInv /\ [Next]_vars => ParallelInv'
  BY NextInv
<1> QED BY <1>1, <1>2, PTL DEF Spec

\* The types of the executor's state, whatever happens around it.
THEOREM TypeCorrect == Spec => []TypeOK
<1>1. ParallelInv => TypeOK
  BY DEF ParallelInv
<1> QED BY <1>1, ParallelInvariance, PTL

(***************************************************************************)
(* At most max_concurrent tasks are between build and settlement: no       *)
(* retry, failure, hard stop or cancellation creates a permit.             *)
(***************************************************************************)
THEOREM FlightBounded == Spec => []InFlightBounded
<1>1. ASSUME ParallelInv PROVE InFlightBounded
  <2> DEFINE n == Cardinality(InFlight)
             c == IF wpc = "checkout" THEN 1 ELSE 0
  <2>1. permits + (n + c) <= MaxConcurrent /\ IsFiniteSet(InFlight)
    BY <1>1 DEF ParallelInv, PermitsKept
  <2>2. n \in Nat /\ c \in {0, 1} /\ permits \in Nat /\ MaxConcurrent \in Nat
    BY <1>1, <2>1, InvTypes, FS_CardinalityType
  <2>3. InFlightBounded <=> n <= MaxConcurrent
    BY DEF InFlightBounded, InFlight
  <2> HIDE DEF n, c
  <2>4. n <= MaxConcurrent
    BY <2>1, <2>2
  <2> QED BY <2>3, <2>4
<1> QED BY <1>1, ParallelInvariance, PTL

(***************************************************************************)
(* A transaction whose future reports ExecutionSkipped was never given to  *)
(* client.execute: the drain loop of a hard stop and the dead worker only  *)
(* reach what was not yet taken from the queue.                            *)
(***************************************************************************)
THEOREM SkippedWereNotTried == Spec => []SkippedNeverAttempted
<1>1. ASSUME ParallelInv PROVE SkippedNeverAttempted
  BY <1>1 DEF ParallelInv, FuturesMatch, PhasesMatch, SkippedNeverAttempted
<1> QED BY <1>1, ParallelInvariance, PTL

(***************************************************************************)
(* When every owned object of a transaction is given as an id, so that the *)
(* worker claims them all, transactions that share one run one after the   *)
(* end of the other in the order in which they were submitted.             *)
(***************************************************************************)
THEOREM ConflictsSerialised == Deferred = Uses => (Spec => []ConflictsInOrder)
<1> SUFFICES ASSUME Deferred = Uses PROVE Spec => []ConflictsInOrder
  OBVIOUS
<1>1. ASSUME ParallelInv PROVE ConflictsInOrder
  <2> SUFFICES ASSUME NEW i \in 1..Len(order), NEW j \in 1..Len(order), i < j,
                      Uses[order[i]] \intersect Uses[order[j]] # {},
                      tpc[order[j]] # "none"
               PROVE  tpc[order[i]] = "ended"
    BY DEF ConflictsInOrder
  <2> DEFINE t == order[i]
             u == order[j]
  <2>1. t \in Txns /\ u \in Txns
    BY <1>1, InvTypes
  <2>2. Before(t, u)
    BY DEF Before
  <2>3. phase[u] \in {"holding", "released"}
    BY <1>1, <2>1, InvTypes DEF ParallelInv, PhasesMatch, CT!Phases
  <2>4. phase[t] = "released"
    BY <1>1, <2>1, <2>2, <2>3 DEF ParallelInv, ClaimsInOrder
  <2> QED BY <1>1, <2>1, <2>4 DEF ParallelInv, PhasesMatch
<1> QED BY <1>1, ParallelInvariance, PTL

(***************************************************************************)
(* Nothing is leaked by any way a task can end: when the worker waits for  *)
(* an item and no task runs, all permits are back, and the defaultdict of  *)
(* the tracker, which keeps a key once it is read, holds none.             *)
(***************************************************************************)
THEOREM QuietLeaksNothing == Spec => []QuietIsClean
<1>1. ASSUME ParallelInv, wpc = "get", \A t \in Txns : ~Running(t)
      PROVE  permits = MaxConcurrent /\ CT!InFlightIds = {}
  <2>1. InFlight = {} /\ Cardinality(InFlight) = 0
    BY <1>1, FS_EmptySet DEF InFlight
  <2>2. permits = MaxConcurrent
    BY <1>1, <2>1, InvTypes DEF ParallelInv, PermitsKept
  <2>3. ASSUME NEW o \in Objects, waiters[o] # <<>> PROVE FALSE
    <3> DEFINE c == waiters[o][1]
    <3>1. waiters[o] \in Seq(Txns)
      BY <1>1, InvTypes
    <3>2. c \in Txns /\ 1 \in 1..Len(waiters[o])
      BY <2>3, <3>1
    <3>3. CT!Occurs(c, o)
      BY <3>2 DEF CT!Occurs
    <3>4. phase[c] \in {"waiting", "holding", "cancelled"}
      BY <1>1, <3>2, <3>3 DEF ParallelInv, CT!TrackerInv, CT!QueuedIffClaimed
    <3> QED BY <1>1, <3>2, <3>4 DEF ParallelInv, PhasesMatch, Preparing
  <2> QED BY <1>1, <2>2, <2>3 DEF ParallelInv, KeysExact, CT!InFlightIds
<1>2. ParallelInv => QuietIsClean
  BY <1>1 DEF QuietIsClean
<1> QED BY <1>2, ParallelInvariance, PTL

-----------------------------------------------------------------------------
(***************************************************************************)
(* The promise made with the futures.                                      *)
(***************************************************************************)

\* A step that settles at most one future with a result and stops or not.
LEMMA SettleStep ==
  ASSUME ParallelInv, order' = order, NEW t \in Txns, phase[t] # "idle", NEW f \in Futures,
         f = fut \/ \E r \in Promise!Results : f = Settled(t, r),
         NoStop(f) \/ HardStop(f)
  PROVE  Promise!PromiseNext
<1>0. /\ fut \in Futures /\ FuturesMatch /\ ~Queued(t)
      /\ halted \in BOOLEAN
  BY InvTypes DEF ParallelInv, FuturesMatch, TypeOK
<1>1. PICK r \in Promise!Results, done \in SUBSET {t} :
        /\ \A u \in done : fut[u] = "pending"
        /\ f = [u \in Txns |-> IF u \in done THEN r ELSE fut[u]]
  <2>1. CASE f = fut
    <3>1. f = [u \in Txns |-> IF u \in {} THEN "ok" ELSE fut[u]]
      BY <1>0, <2>1 DEF Futures
    <3>2. "ok" \in Promise!Results
      BY DEF Promise!Results
    <3> USE <3>2
    <3> WITNESS "ok" \in Promise!Results, {} \in SUBSET {t}
    <3> QED BY <3>1
  <2>2. ASSUME NEW r \in Promise!Results, f = Settled(t, r)
        PROVE  \E done \in SUBSET {t} :
                 /\ \A u \in done : fut[u] = "pending"
                 /\ f = [u \in Txns |-> IF u \in done THEN r ELSE fut[u]]
    <3>1. CASE fut[t] = "pending"
      <4>1. f = [u \in Txns |-> IF u \in {t} THEN r ELSE fut[u]]
        BY <1>0, <2>2, <3>1 DEF Settled, Futures
      <4> QED BY <3>1, <4>1
    <3>2. CASE fut[t] # "pending"
      <4>1. f = [u \in Txns |-> IF u \in {} THEN r ELSE fut[u]]
        BY <1>0, <2>2, <3>2 DEF Settled, Futures
      <4> WITNESS {} \in SUBSET {t}
      <4> QED BY <4>1
    <3> QED BY <3>1, <3>2
  <2> QED BY <2>1, <2>2
<1>2. CASE fut' = f /\ halted' \in {halted, TRUE}
  <2>1. fut' = [u \in Txns |-> IF u \in done THEN r ELSE IF u \in {} THEN "skipped"
                               ELSE fut[u]]
    BY <1>1, <1>2
  <2>2. Promise!Settle(done, r, {})
    BY <1>1, <1>2, <2>1 DEF Promise!Settle
  <2>3. done \in SUBSET Txns /\ {} \in SUBSET Txns
    BY <1>1
  <2> QED BY <1>1, <2>2, <2>3 DEF Promise!PromiseNext
<1>3. CASE HardStop(f) /\ ~halted
  <2>1. /\ halted' = TRUE
        /\ fut' = [u \in Txns |-> IF u \in Drained(f) THEN "skipped" ELSE f[u]]
    BY <1>3 DEF HardStop
  <2>2. ASSUME NEW u \in Txns, u \in Drained(f)
        PROVE  fut[u] = "pending" /\ u \notin done
    <3>1. PICK k \in 1..Len(queue) : queue[k] = u /\ \A j \in Refusing(f) : k < j
      BY <2>2 DEF Drained
    <3>2. ~(k < k)
      OBVIOUS
    <3>3. k \notin Refusing(f)
      BY <3>1, <3>2
    <3>4. Queued(u) /\ f[u] # "cancelled"
      BY <3>1, <3>3 DEF Refusing, Queued
    <3>5. u # t /\ u \notin done
      BY <1>0, <1>1, <3>4
    <3>6. f[u] = fut[u]
      BY <1>1, <3>5
    <3> QED BY <1>0, <3>4, <3>5, <3>6 DEF FuturesMatch
  <2> DEFINE skip == Drained(f) \intersect Txns
  <2>3. fut' = [u \in Txns |-> IF u \in done THEN r ELSE IF u \in skip THEN "skipped"
                               ELSE fut[u]]
    BY <1>1, <2>1, <2>2
  <2>4. \A u \in done \union skip : fut[u] = "pending"
    BY <1>1, <2>2
  <2>5. done \in SUBSET Txns /\ skip \in SUBSET Txns /\ \A u, v \in done : u = v
    BY <1>1
  <2>6. Promise!Settle(done, r, skip)
    BY <2>1, <2>3, <2>4, <2>5 DEF Promise!Settle
  <2> QED BY <1>1, <2>5, <2>6 DEF Promise!PromiseNext
<1> QED BY <1>2, <1>3 DEF NoStop, HardStop

LEMMA SkipStep ==
  ASSUME ParallelInv, WorkerSkips
  PROVE  Promise!PromiseNext \/ UNCHANGED promise
<1> DEFINE t == Head(queue)
<1>1. /\ queue # <<>> /\ t # SENTINEL /\ halted
      /\ fut' = fut \/ (fut[t] # "cancelled" /\ fut' = [fut EXCEPT ![t] = "skipped"])
      /\ order' = order /\ halted' = halted
  BY DEF WorkerSkips
<1>2. t \in Txns /\ Queued(t)
  BY <1>1, TakenFacts
<1>3. fut \in Futures /\ halted \in BOOLEAN /\ fut[t] \in {"pending", "cancelled"}
  BY <1>2, CallerFacts
<1> HIDE DEF t
<1>4. CASE fut' = fut
  BY <1>1, <1>4 DEF promise
<1>5. CASE fut[t] = "pending" /\ fut' = [fut EXCEPT ![t] = "skipped"]
  <2>1. fut' = [u \in Txns |-> IF u \in {} THEN "ok" ELSE IF u \in {t} THEN "skipped"
                               ELSE fut[u]]
    BY <1>2, <1>3, <1>5 DEF Futures
  <2>2. Promise!Settle({}, "ok", {t})
    BY <1>1, <1>3, <1>5, <2>1 DEF Promise!Settle
  <2>3. {} \in SUBSET Txns /\ {t} \in SUBSET Txns /\ "ok" \in Promise!Results
    BY <1>2 DEF Promise!Results
  <2> QED BY <2>2, <2>3 DEF Promise!PromiseNext
<1> QED BY <1>1, <1>3, <1>4, <1>5

LEMMA PromiseStep ==
  ASSUME ParallelInv, [Next]_vars
  PROVE  Promise!PromiseNext \/ UNCHANGED promise
<1>1. ASSUME NEW t \in Txns, Submit(t) PROVE Promise!PromiseNext
  BY <1>1 DEF Submit, Promise!PromiseNext, Promise!PromiseSubmit
<1>2. ASSUME NEW t \in Txns, CancelFuture(t) PROVE Promise!PromiseNext
  BY <1>2 DEF CancelFuture, Promise!PromiseNext, Promise!Withdraw
<1>3. ASSUME NEW t \in Txns, Task(t) PROVE Promise!PromiseNext
  <2>1. TaskStep(t)
    BY <1>3, TaskIsStep
  <2>2. Running(t) /\ order' = order
    BY <2>1 DEF TaskStep, TaskFrame
  <2>3. \E f \in Futures :
          /\ f = fut \/ \E r \in Promise!Results : f = Settled(t, r)
          /\ NoStop(f) \/ HardStop(f)
    BY <2>1 DEF TaskStep
  <2>4. phase[t] # "idle"
    BY <2>2 DEF ParallelInv, PhasesMatch, Running
  <2> QED BY <2>2, <2>3, <2>4, SettleStep
<1>4. CASE Close
  <2>1. fut' = fut /\ order' = order /\ halted' = TRUE
    BY <1>4 DEF Close
  <2>2. fut' = [u \in Txns |-> IF u \in {} THEN "ok" ELSE IF u \in {} THEN "skipped"
                               ELSE fut[u]]
    BY <2>1, InvTypes DEF Futures
  <2>3. Promise!Settle({}, "ok", {})
    BY <2>1, <2>2 DEF Promise!Settle
  <2>4. {} \in SUBSET Txns /\ "ok" \in Promise!Results
    BY DEF Promise!Results
  <2> QED BY <2>3, <2>4 DEF Promise!PromiseNext
<1>5. CASE Worker
  <2>1. CASE WorkerSkips
    BY <2>1, SkipStep
  <2>2. CASE WorkerTakes \/ WorkerClaims \/ WorkerPermitted \/ WorkerPaid
    BY <2>2 DEF WorkerTakes, WorkerClaims, WorkerPermitted, WorkerPaid
  <2>3. CASE WorkerStops \/ WorkerCancelled
    BY <2>3 DEF WorkerStops, WorkerCancelled
  <2> QED BY <1>5, <2>1, <2>2, <2>3 DEF Worker
<1>6. CASE UNCHANGED vars
  BY <1>6 DEF vars, promise
<1> QED BY <1>1, <1>2, <1>3, <1>4, <1>5, <1>6 DEF Next

(***************************************************************************)
(* The parallel executor implements ExecutorPromise: whatever its worker,  *)
(* its tasks, hard stops and close() do, a future is settled once, and     *)
(* only a halted executor skips.                                           *)
(***************************************************************************)
THEOREM ParallelKeepsPromise == Spec => KeepsPromise
<1>1. Init => Promise!PromiseInit
  BY DEF Init, Promise!PromiseInit
<1>2. ParallelInv /\ [Next]_vars => [Promise!PromiseNext]_(Promise!promiseVars)
  BY PromiseStep DEF promise, Promise!promiseVars
<1> QED BY <1>1, <1>2, ParallelInvariance, PTL DEF Spec, KeepsPromise, Promise!PromiseSpec

-----------------------------------------------------------------------------
(***************************************************************************)
(* Gas coins: a pool p and the coins h that the tasks hold.                *)
(***************************************************************************)
Exclusive(p, h) ==
  /\ \A i, j \in 1..Len(p) : p[i] = p[j] => i = j
  /\ \A t \in Txns : h[t] # NoCoin =>
       /\ \A i \in 1..Len(p) : p[i] # h[t]
       /\ \A u \in Txns : h[u] = h[t] => u = t

Holdings == [Txns -> Coins \union {NoCoin}]

LEMMA ExclusiveSame ==
  ASSUME pool \in Seq(Coins)
  PROVE  CoinsExclusive <=> Exclusive(pool, held)
BY DEF CoinsExclusive, Exclusive, IsInjective, ToSet

\* A task gives up its coin.
LEMMA CoinRetired ==
  ASSUME NEW p \in Seq(Coins), NEW h \in Holdings, Exclusive(p, h), NEW t \in Txns
  PROVE  Exclusive(p, [h EXCEPT ![t] = NoCoin])
BY DEF Exclusive, Holdings

\* It puts it back into the pool.
LEMMA CoinReturned ==
  ASSUME NEW p \in Seq(Coins), NEW h \in Holdings, Exclusive(p, h), NEW t \in Txns,
         h[t] \in Coins
  PROVE  Exclusive(Append(p, h[t]), [h EXCEPT ![t] = NoCoin])
<1> DEFINE n == Len(p)
           q == Append(p, h[t])
           g == [h EXCEPT ![t] = NoCoin]
<1>1. /\ Len(q) = n + 1 /\ n \in Nat /\ q[n + 1] = h[t]
      /\ \A i \in 1..n : q[i] = p[i]
  BY Tracker!AppendFacts
<1>2. h[t] # NoCoin
  BY MarkersAssumption
<1>3. /\ \A i, j \in 1..n : p[i] = p[j] => i = j
      /\ \A i \in 1..n : p[i] # h[t]
      /\ \A u \in Txns : h[u] # NoCoin => \A i \in 1..n : p[i] # h[u]
      /\ \A u, v \in Txns : h[u] # NoCoin /\ h[v] = h[u] => v = u
  BY <1>2 DEF Exclusive
<1>4. \A u \in Txns : /\ u # t => g[u] = h[u]
                      /\ g[t] = NoCoin
  BY DEF Holdings
<1>5. \A i \in 1..Len(q) : i \in 1..n \/ i = n + 1
  BY <1>1
<1> HIDE DEF n, q, g
<1>6. \A i, j \in 1..Len(q) : q[i] = q[j] => i = j
  BY <1>1, <1>3, <1>5
<1>7. \A u \in Txns : g[u] # NoCoin => u # t /\ g[u] = h[u] /\ h[u] # h[t]
  BY <1>2, <1>3, <1>4
<1>8. \A u \in Txns : g[u] # NoCoin => \A i \in 1..Len(q) : q[i] # g[u]
  BY <1>1, <1>3, <1>5, <1>7
<1>9. \A u, v \in Txns : g[u] # NoCoin /\ g[v] = g[u] => v = u
  BY <1>3, <1>7
<1>10. Exclusive(q, g)
  BY <1>6, <1>8, <1>9 DEF Exclusive
<1> QED BY <1>10 DEF q, g

\* It takes the one at the head of the pool.
LEMMA CoinTaken ==
  ASSUME NEW p \in Seq(Coins), p # <<>>, NEW h \in Holdings, Exclusive(p, h), NEW t \in Txns
  PROVE  Exclusive(Tail(p), [h EXCEPT ![t] = Head(p)])
<1> DEFINE n == Len(p)
           q == Tail(p)
           g == [h EXCEPT ![t] = Head(p)]
<1>1. /\ n \in Nat \ {0} /\ Len(q) = n - 1 /\ Head(p) = p[1]
      /\ \A i \in 1..Len(q) : q[i] = p[i + 1]
  BY Tracker!TailFacts
<1>2. \A i \in 1..Len(q) : i + 1 \in 1..n /\ i + 1 # 1
  BY <1>1
<1>3. /\ \A i, j \in 1..n : p[i] = p[j] => i = j
      /\ \A u \in Txns : h[u] # NoCoin => \A i \in 1..n : p[i] # h[u]
      /\ \A u, v \in Txns : h[u] # NoCoin /\ h[v] = h[u] => v = u
  BY DEF Exclusive
<1>4. 1 \in 1..n /\ p[1] # NoCoin
  <2>1. 1 \in 1..n
    BY <1>1
  <2> QED BY <2>1, MarkersAssumption
<1>5. \A u \in Txns : g[u] = IF u = t THEN p[1] ELSE h[u]
  BY <1>1 DEF Holdings
<1> HIDE DEF n, q, g
<1>6. ASSUME NEW i \in 1..Len(q), NEW j \in 1..Len(q), q[i] = q[j] PROVE i = j
  <2>1. i + 1 = j + 1
    BY <1>1, <1>2, <1>3, <1>6
  <2> QED BY <2>1
<1>7. ASSUME NEW u \in Txns, g[u] # NoCoin, NEW i \in 1..Len(q) PROVE q[i] # g[u]
  BY <1>1, <1>2, <1>3, <1>4, <1>5, <1>7
<1>8. ASSUME NEW u \in Txns, NEW v \in Txns, g[u] # NoCoin, g[v] = g[u] PROVE v = u
  BY <1>3, <1>4, <1>5, <1>8
<1>9. Exclusive(q, g)
  BY <1>6, <1>7, <1>8 DEF Exclusive
<1> QED BY <1>9 DEF q, g

\* Coins that nobody has are added.
LEMMA CoinsAdded ==
  ASSUME NEW p \in Seq(Coins), NEW h \in Holdings, Exclusive(p, h), NEW b \in Seq(Coins),
         \A i, j \in 1..Len(b) : b[i] = b[j] => i = j,
         \A i \in 1..Len(b) : /\ \A j \in 1..Len(p) : p[j] # b[i]
                              /\ \A t \in Txns : h[t] # b[i]
  PROVE  Exclusive(p \o b, h)
<1> DEFINE n == Len(p)
           q == p \o b
<1>1. /\ n \in Nat /\ Len(b) \in Nat /\ Len(q) = n + Len(b)
      /\ \A i \in 1..Len(q) : q[i] = IF i <= n THEN p[i] ELSE b[i - n]
  OBVIOUS
<1>2. \A i \in 1..Len(q) : IF i <= n THEN i \in 1..n ELSE i - n \in 1..Len(b)
  BY <1>1
<1>3. /\ \A i, j \in 1..n : p[i] = p[j] => i = j
      /\ \A u \in Txns : h[u] # NoCoin => \A i \in 1..n : p[i] # h[u]
      /\ \A u, v \in Txns : h[u] # NoCoin /\ h[v] = h[u] => v = u
  BY DEF Exclusive
<1> HIDE DEF n, q
<1>4. ASSUME NEW i \in 1..Len(q), NEW j \in 1..Len(q), q[i] = q[j] PROVE i = j
  <2>1. CASE i <= n /\ j <= n
    BY <1>1, <1>2, <1>3, <1>4, <2>1
  <2>2. CASE ~(i <= n) /\ ~(j <= n)
    <3>1. i - n = j - n
      BY <1>1, <1>2, <1>4, <2>2
    <3> QED BY <1>1, <3>1
  <2>3. CASE i <= n /\ ~(j <= n)
    BY <1>1, <1>2, <1>4, <2>3 DEF n
  <2>4. CASE ~(i <= n) /\ j <= n
    BY <1>1, <1>2, <1>4, <2>4 DEF n
  <2> QED BY <2>1, <2>2, <2>3, <2>4
<1>5. ASSUME NEW u \in Txns, h[u] # NoCoin, NEW i \in 1..Len(q) PROVE q[i] # h[u]
  BY <1>1, <1>2, <1>3, <1>5
<1>6. Exclusive(q, h)
  BY <1>3, <1>4, <1>5 DEF Exclusive
<1> QED BY <1>6 DEF q

LEMMA FundingExclusive ==
  ASSUME ParallelInv, Exclusive(pool, held), "owned_coins" \notin Events,
         NEW t \in Txns, NEW f \in Fundings(t)
  PROVE  /\ Exclusive(f.pool, held) /\ f.pool \in Seq(Coins)
         /\ Mode = "coins" => f.pool # <<>>
<1>0. TypeOK /\ pool \in Seq(Coins) /\ held \in Holdings
  BY DEF ParallelInv, TypeOK, Holdings
<1>1. f.pool \in Seq(Coins) /\ (Mode = "coins" => f.pool # <<>>)
  BY <1>0, FundingFacts
<1>2. CASE Mode = "coins"
  <2>1. PICK b \in Batches : f = [pool |-> pool \o b, tracked |-> tracked + Len(b) * CoinValue]
    BY <1>2 DEF Fundings
  <2>2. f.pool = pool \o b
    BY <2>1
  <2>3. b \in Seq(Coins)
    BY BatchFacts
  <2>4. Offers = Spare
    BY DEF Offers
  <2>5. PICK m \in 0..MaxBatch : b \in [1..m -> Spare]
    BY <2>4 DEF Batches, SeqOf
  <2>6. \A i \in 1..Len(b) : b[i] \in Spare
    BY <2>3, <2>5, NumbersAssumption
  <2>7. \A i \in 1..Len(b) : /\ \A j \in 1..Len(pool) : pool[j] # b[i]
                             /\ \A u \in Txns : held[u] # b[i]
    BY <1>0, <2>6 DEF Spare, ToSet
  <2>8. \A i, j \in 1..Len(b) : b[i] = b[j] => i = j
    BY <2>3 DEF Batches, IsInjective
  <2>9. Exclusive(pool \o b, held)
    BY <1>0, <2>3, <2>7, <2>8, CoinsAdded
  <2> QED BY <1>1, <2>2, <2>9
<1>3. CASE Mode # "coins"
  <2>1. f.pool = pool
    BY <1>3 DEF Fundings
  <2> QED BY <1>1, <2>1
<1> QED BY <1>2, <1>3

LEMMA CoinsStep ==
  ASSUME ParallelInv, Exclusive(pool, held), "owned_coins" \notin Events, Next
  PROVE  Exclusive(pool', held')
<1>0. pool \in Seq(Coins) /\ held \in Holdings
  BY DEF ParallelInv, TypeOK, Holdings
<1>1. ASSUME NEW t \in Txns, held' = held \/ held' = [held EXCEPT ![t] = NoCoin], pool' = pool
      PROVE  Exclusive(pool', held')
  BY <1>0, <1>1, CoinRetired
<1>2. ASSUME NEW t \in Txns, StartTask(t), Mode = "coins" => pool # <<>>
      PROVE  Exclusive(pool', held')
  <2>1. CASE Mode = "coins"
    BY <1>0, <1>2, <2>1, CoinTaken DEF StartTask
  <2>2. CASE Mode # "coins"
    BY <1>0, <1>2, <2>2, CoinRetired DEF StartTask
  <2> QED BY <2>1, <2>2
<1>3. ASSUME NEW t \in Txns, TakeCoin(t) PROVE Exclusive(pool', held')
  BY <1>2, <1>3 DEF TakeCoin
<1>4. ASSUME NEW t \in Txns, TakePermit(t) PROVE Exclusive(pool', held')
  BY <1>3, <1>4 DEF TakePermit
<1>5. CASE Worker
  <2>1. CASE WorkerTakes
    <3> DEFINE t == Head(queue)
    <3>1. t \in Txns
      BY <2>1, TakenFacts DEF WorkerTakes
    <3>2. TakePermit(t) \/ UNCHANGED <<held, pool>>
      BY <2>1 DEF WorkerTakes
    <3> HIDE DEF t
    <3> QED BY <1>4, <3>1, <3>2
  <2>2. CASE WorkerClaims \/ WorkerPermitted \/ WorkerPaid
    <3>1. wcur \in Txns
      BY <2>2 DEF ParallelInv, PhasesMatch, WorkerClaims, WorkerPermitted, WorkerPaid
    <3>2. \/ TakePermit(wcur) \/ TakeCoin(wcur)
          \/ StartTask(wcur) /\ pool # <<>>
      BY <2>2 DEF WorkerClaims, WorkerPermitted, WorkerPaid
    <3> QED BY <1>2, <1>3, <1>4, <3>1, <3>2
  <2>3. CASE WorkerSkips \/ WorkerStops \/ WorkerCancelled
    BY <2>3 DEF WorkerSkips, WorkerStops, WorkerCancelled, tstate
  <2> QED BY <1>5, <2>1, <2>2, <2>3 DEF Worker
<1>6. ASSUME NEW t \in Txns, Submit(t) \/ CancelFuture(t)
      PROVE  Exclusive(pool', held')
  BY <1>6 DEF Submit, CancelFuture, tstate
<1>8. CASE Close
  BY <1>8 DEF Close, tstate
<1>7. ASSUME NEW t \in Txns, Task(t) PROVE Exclusive(pool', held')
  <2>1. CASE ExecuteOk(t)
    <3>1. /\ pool' = IF Mode = "coins" THEN Append(pool, held[t]) ELSE pool
          /\ held' = [held EXCEPT ![t] = NoCoin]
          /\ tpc[t] = "execute"
      BY <2>1 DEF ExecuteOk, End
    <3>2. Mode = "coins" => held[t] \in Coins
      BY <3>1 DEF ParallelInv, TasksReady
    <3>3. CASE Mode = "coins"
      BY <1>0, <3>1, <3>2, <3>3, CoinReturned
    <3>4. CASE Mode # "coins"
      BY <1>1, <3>1, <3>4
    <3> QED BY <3>3, <3>4
  <2>2. CASE FundOk(t)
    <3>1. PICK f \in Fundings(t) : pool' = f.pool /\ held' = [held EXCEPT ![t] = NoCoin]
      BY <2>2 DEF FundOk, End
    <3>2. Exclusive(f.pool, held) /\ f.pool \in Seq(Coins)
      BY FundingExclusive
    <3> QED BY <1>0, <3>1, <3>2, CoinRetired
  <2>3. CASE RetryFunded(t)
    <3>1. PICK f \in Fundings(t) :
            IF Mode = "coins"
            THEN held' = [held EXCEPT ![t] = Head(f.pool)] /\ pool' = Tail(f.pool)
            ELSE UNCHANGED <<held, pool>>
      BY <2>3 DEF RetryFunded
    <3>2. /\ Exclusive(f.pool, held) /\ f.pool \in Seq(Coins)
          /\ Mode = "coins" => f.pool # <<>>
      BY FundingExclusive
    <3>3. CASE Mode = "coins"
      BY <1>0, <3>1, <3>2, <3>3, CoinTaken
    <3>4. CASE Mode # "coins"
      BY <3>1, <3>4
    <3> QED BY <3>3, <3>4
  <2>4. CASE Build(t) \/ BuildFails(t)
    <3>1. /\ held' = held \/ held' = [held EXCEPT ![t] = NoCoin]
          /\ pool' = pool
      BY <2>4 DEF Build, BuildFails, End
    <3> QED BY <1>1, <3>1
  <2>5. CASE OutOfGas(t) \/ ExecuteFails(t) \/ Refused(t)
    <3>1. held' = [held EXCEPT ![t] = NoCoin] /\ pool' = pool
      BY <2>5 DEF OutOfGas, ExecuteFails, Refused, End
    <3> QED BY <1>1, <3>1
  <2>6. CASE CallbackOk(t) \/ CallbackRaises(t) \/ Reacquire(t)
    <3>1. /\ held' = held \/ held' = [held EXCEPT ![t] = NoCoin]
          /\ pool' = pool
      BY <2>6 DEF CallbackOk, CallbackRaises, Reacquire, End
    <3> QED BY <1>1, <3>1
  <2> QED BY <1>7, <2>1, <2>2, <2>3, <2>4, <2>5, <2>6 DEF Task
<1> QED BY <1>5, <1>6, <1>7, <1>8 DEF Next

(***************************************************************************)
(* Each gas coin is in the pool once or with one task, when the coins      *)
(* found at the start are distinct, as those of a listing are, and         *)
(* on_balance_low returns coins that the executor does not manage: it      *)
(* does not look for them itself.                                          *)
(***************************************************************************)
THEOREM CoinsStayExclusive ==
  IsInjective(InitialCoins) /\ "owned_coins" \notin Events => (Spec => []CoinsExclusive)
<1> SUFFICES ASSUME IsInjective(InitialCoins), "owned_coins" \notin Events
             PROVE  Spec => []CoinsExclusive
  OBVIOUS
<1>1. Init => CoinsExclusive
  <2> SUFFICES ASSUME Init PROVE CoinsExclusive
    OBVIOUS
  <2>1. IsInjective(<<>>)
    BY DEF IsInjective
  <2>2. IsInjective(pool) /\ \A t \in Txns : held[t] = NoCoin
    BY <2>1 DEF Init
  <2> QED BY <2>2 DEF CoinsExclusive
<1>2. ASSUME ParallelInv, ParallelInv', CoinsExclusive, [Next]_vars
      PROVE  CoinsExclusive'
  <2>1. pool \in Seq(Coins) /\ pool' \in Seq(Coins)
    BY <1>2 DEF ParallelInv, TypeOK
  <2>2. CASE Next
    <3>1. Exclusive(pool, held)
      BY <1>2, <2>1, ExclusiveSame
    <3>2. Exclusive(pool', held')
      BY <1>2, <2>2, <3>1, CoinsStep
    <3> QED BY <2>1, <3>2 DEF CoinsExclusive, Exclusive, IsInjective, ToSet
  <2>3. CASE UNCHANGED vars
    BY <1>2, <2>3 DEF vars, CoinsExclusive
  <2> QED BY <1>2, <2>2, <2>3
<1> QED BY <1>1, <1>2, ParallelInvariance, PTL DEF Spec

=============================================================================
