------------------------ MODULE ConflictTrackerProofs ------------------------
(***************************************************************************)
(* Safety of the conflict tracker for every set of callers and objects:    *)
(* TrackerInv is inductive, and mutual exclusion, the absence of lost      *)
(* wake-ups and first-come first-served granting follow from it.  That the *)
(* claims cannot wait for each other in a circle is shown with a ranking   *)
(* of the callers that agrees with every deque.                            *)
(***************************************************************************)
EXTENDS ConflictTracker, WellFoundedInduction, TLAPS

\* Appending to a deque: what it contains afterwards and where.
LEMMA AppendFacts ==
  ASSUME NEW S, NEW q \in Seq(S), NEW e \in S
  PROVE  /\ Append(q, e) \in Seq(S)
         /\ Len(Append(q, e)) = Len(q) + 1
         /\ Append(q, e)[Len(q) + 1] = e
         /\ \A i \in 1..Len(q) : Append(q, e)[i] = q[i]
         /\ Append(q, e) # <<>>
         /\ Head(Append(q, e)) = IF q = <<>> THEN e ELSE Head(q)
  OBVIOUS

\* Popping the head of a deque: every other entry moves one place forward.
LEMMA TailFacts ==
  ASSUME NEW S, NEW q \in Seq(S), q # <<>>
  PROVE  /\ Tail(q) \in Seq(S)
         /\ Len(q) \in Nat \ {0}
         /\ Len(Tail(q)) = Len(q) - 1
         /\ \A i \in 1..Len(Tail(q)) : Tail(q)[i] = q[i + 1]
         /\ Head(q) = q[1]
         /\ Head(q) \in S
         /\ Tail(q) # <<>> => Len(q) > 1 /\ Head(Tail(q)) = q[2]
  OBVIOUS

\* Removing an event that is not in the deque leaves the deque alone.
LEMMA RemoveAbsent ==
  ASSUME NEW c, NEW o, ~Occurs(c, o)
  PROVE  RemoveFirst(waiters[o], c) = waiters[o]
  BY DEF RemoveFirst, Occurs

\* A deque's head is one of its entries.
LEMMA HeadOccurs ==
  ASSUME TypeOK, NEW c \in Callers, NEW o \in Objects, IsHead(c, o)
  PROVE  Occurs(c, o) /\ waiters[o][1] = c /\ Len(waiters[o]) > 0
  BY DEF TypeOK, IsHead, Occurs

-----------------------------------------------------------------------------
\* Nothing is queued, set or claimed at first.
LEMMA InitInv == Init => TrackerInv
  BY DEF Init, TrackerInv, TypeOK, QueuedOnce, QueuedIffClaimed, SetIffHead,
         HoldersAreHeads, Occurs, IsHead, Phases

\* Queueing a claim: the caller was in no deque, and becomes the head of
\* exactly those it found empty.
LEMMA AcquireInv ==
  ASSUME TrackerInv, NEW c \in Callers, NEW ids \in SUBSET Objects,
         Acquire(c, ids)
  PROVE  TrackerInv'
<1> USE DEF TrackerInv
<1>1. /\ waiters' \in [Objects -> Seq(Callers)]
      /\ \A o \in Objects : waiters'[o] = IF o \in ids THEN Append(waiters[o], c)
                                                     ELSE waiters[o]
  BY AppendFacts DEF Acquire, TypeOK
<1>2. TypeOK'
  BY <1>1 DEF Acquire, TypeOK, Phases, FreeIds
<1>3. /\ phase[c] \in {"idle", "released"}
      /\ \A o \in Objects : ~Occurs(c, o)
  BY DEF Acquire, QueuedIffClaimed
<1>4. \A o \in ids : /\ Len(waiters'[o]) = Len(waiters[o]) + 1
                     /\ Len(waiters[o]) \in Nat
                     /\ waiters'[o][Len(waiters[o]) + 1] = c
                     /\ \A i \in 1..Len(waiters[o]) : waiters'[o][i] = waiters[o][i]
                     /\ waiters'[o] # <<>>
                     /\ Head(waiters'[o]) = IF waiters[o] = <<>> THEN c
                                                              ELSE Head(waiters[o])
  <2> SUFFICES ASSUME NEW o \in ids
               PROVE  /\ Len(waiters'[o]) = Len(waiters[o]) + 1
                      /\ Len(waiters[o]) \in Nat
                      /\ waiters'[o][Len(waiters[o]) + 1] = c
                      /\ \A i \in 1..Len(waiters[o]) : waiters'[o][i] = waiters[o][i]
                      /\ waiters'[o] # <<>>
                      /\ Head(waiters'[o]) = IF waiters[o] = <<>> THEN c
                                                               ELSE Head(waiters[o])
    OBVIOUS
  <2>1. waiters[o] \in Seq(Callers) /\ waiters'[o] = Append(waiters[o], c)
    BY <1>1 DEF TypeOK
  <2>2. Len(waiters[o]) \in Nat
    BY <2>1
  <2> QED BY <2>1, <2>2, AppendFacts
<1>5. \A o \in Objects : o \notin ids => waiters'[o] = waiters[o]
  BY <1>1
<1>6. \A d \in Callers, o \in Objects :
        Occurs(d, o)' <=> Occurs(d, o) \/ (d = c /\ o \in ids)
  BY <1>4, <1>5 DEF Occurs
<1>7. \A d \in Callers, o \in Objects :
        IsHead(d, o)' <=> IF o \in FreeIds(ids) THEN d = c ELSE IsHead(d, o)
  BY <1>4, <1>5 DEF IsHead, FreeIds
<1>8. QueuedOnce'
  <2> SUFFICES ASSUME NEW o \in Objects,
                      NEW i \in 1..Len(waiters'[o]), NEW j \in 1..Len(waiters'[o]),
                      waiters'[o][i] = waiters'[o][j]
               PROVE  i = j
    BY DEF QueuedOnce
  <2>1. CASE o \in ids
    <3>1. /\ \A k \in 1..Len(waiters[o]) : waiters[o][k] # c
          /\ \A k, m \in 1..Len(waiters[o]) : waiters[o][k] = waiters[o][m] => k = m
      BY <1>3 DEF Occurs, QueuedOnce
    <3>2. \A k \in 1..Len(waiters'[o]) : k \in 1..Len(waiters[o]) \/ k = Len(waiters[o]) + 1
      BY <2>1, <1>4
    <3> QED BY <2>1, <1>4, <3>1, <3>2
  <2>2. CASE o \notin ids
    BY <2>2, <1>5 DEF QueuedOnce
  <2> QED BY <2>1, <2>2
<1>9. QueuedIffClaimed'
  BY <1>3, <1>6 DEF QueuedIffClaimed, Acquire, TypeOK
<1>10. SetIffHead'
  <2> SUFFICES ASSUME NEW d \in Callers, NEW o \in Objects, Occurs(d, o)'
               PROVE  <<d, o>> \in isSet' <=> IsHead(d, o)'
    BY DEF SetIffHead
  <2>1. CASE d = c
    <3>1. o \in ids /\ ~IsHead(c, o)
      BY <2>1, <1>3, <1>6, HeadOccurs
    <3>2. <<c, o>> \in isSet' <=> o \in FreeIds(ids)
      BY DEF Acquire
    <3> QED BY <2>1, <3>1, <3>2, <1>7
  <2>2. CASE d # c
    <3>1. Occurs(d, o) /\ o \notin FreeIds(ids)
      BY <2>2, <1>6 DEF Occurs, FreeIds, TypeOK
    <3>2. <<d, o>> \in isSet' <=> <<d, o>> \in isSet
      BY <2>2 DEF Acquire
    <3> QED BY <2>2, <3>1, <3>2, <1>7 DEF SetIffHead
  <2> QED BY <2>1, <2>2
<1>11. HoldersAreHeads'
  <2>1. ASSUME NEW d \in Callers, d # c, phase'[d] = "holding", NEW o \in claim'[d]
        PROVE  IsHead(d, o)'
    <3>1. /\ phase[d] = "holding"
          /\ o \in claim[d]
          /\ o \in Objects
          /\ IsHead(d, o)
      BY <2>1 DEF Acquire, TypeOK, HoldersAreHeads
    <3> QED BY <3>1, <1>7 DEF FreeIds, IsHead
  <2>2. ASSUME phase'[c] = "holding", NEW o \in claim'[c]
        PROVE  IsHead(c, o)'
    BY <2>2, <1>7 DEF Acquire, TypeOK, FreeIds
  <2> QED BY <2>1, <2>2 DEF HoldersAreHeads
<1> QED BY <1>2, <1>8, <1>9, <1>10, <1>11

\* A waiter is granted only when it is the head of all its deques.
LEMMA GrantedInv ==
  ASSUME TrackerInv, NEW c \in Callers, Granted(c)
  PROVE  TrackerInv'
<1> USE DEF TrackerInv
<1>1. TypeOK'
  BY DEF Granted, TypeOK, Phases
<1>2. QueuedOnce'
  BY DEF Granted, QueuedOnce
<1>3. QueuedIffClaimed'
  BY DEF Granted, QueuedIffClaimed, Occurs, TypeOK
<1>4. SetIffHead'
  BY DEF Granted, SetIffHead, Occurs, IsHead
<1>5. \A o \in claim[c] : IsHead(c, o)
  BY DEF Granted, SetIffHead, QueuedIffClaimed, TypeOK
<1>6. HoldersAreHeads'
  BY <1>5 DEF Granted, HoldersAreHeads, IsHead, TypeOK
<1> QED BY <1>1, <1>2, <1>3, <1>4, <1>6

\* A cancelled waiter keeps its place.
LEMMA CancelInv ==
  ASSUME TrackerInv, NEW c \in Callers, Cancel(c)
  PROVE  TrackerInv'
<1> USE DEF TrackerInv
<1>1. TypeOK'
  BY DEF Cancel, TypeOK, Phases
<1>2. QueuedOnce'
  BY DEF Cancel, QueuedOnce
<1>3. QueuedIffClaimed'
  BY DEF Cancel, QueuedIffClaimed, Occurs, TypeOK
<1>4. SetIffHead'
  BY DEF Cancel, SetIffHead, Occurs, IsHead
<1>5. HoldersAreHeads'
  BY DEF Cancel, HoldersAreHeads, IsHead, TypeOK
<1> QED BY <1>1, <1>2, <1>3, <1>4, <1>5

\* Releasing: a holder leaves the head of its deques and its successors
\* become heads with their events set; a second release changes no deque.
LEMMA ReleaseInv ==
  ASSUME TrackerInv, NEW c \in Callers, Release(c)
  PROVE  TrackerInv'
<1> USE DEF TrackerInv
<1>1. CASE phase[c] = "released"
  <2>1. \A o \in Objects : ~Occurs(c, o) /\ ~IsHead(c, o)
    BY <1>1, HeadOccurs DEF QueuedIffClaimed
  <2>2. \A o \in Objects : Remaining(c, o) = waiters[o]
    BY <2>1, RemoveAbsent DEF Remaining
  <2>3. waiters' = waiters
    BY <2>2 DEF Release, TypeOK
  <2>4. isSet' = isSet
    BY <2>1 DEF Release, Woken, TypeOK
  <2>5. phase' = phase /\ claim' = claim /\ keys' \in SUBSET Objects
    BY <1>1 DEF Release, TypeOK
  <2> QED BY <2>3, <2>4, <2>5 DEF TypeOK, QueuedOnce, QueuedIffClaimed, SetIffHead,
                                  HoldersAreHeads, Occurs, IsHead
<1>2. CASE phase[c] = "holding"
  <2>1. \A o \in claim[c] : IsHead(c, o) /\ o \in Objects
    BY <1>2 DEF HoldersAreHeads, TypeOK
  <2>2. /\ waiters' \in [Objects -> Seq(Callers)]
        /\ \A o \in Objects : waiters'[o] = IF o \in claim[c] THEN Tail(waiters[o])
                                                            ELSE waiters[o]
    BY <2>1, TailFacts DEF Release, Remaining, TypeOK, IsHead
  <2>3. TypeOK'
    <3>1. Woken(c) \in SUBSET (Callers \X Objects)
      BY <2>1, TailFacts DEF Woken, TypeOK
    <3> QED BY <2>2, <3>1 DEF Release, TypeOK, Phases
  <2>4. \A o \in claim[c] :
          /\ Len(waiters[o]) \in Nat \ {0}
          /\ Len(waiters'[o]) = Len(waiters[o]) - 1
          /\ \A i \in 1..Len(waiters'[o]) : waiters'[o][i] = waiters[o][i + 1]
          /\ waiters[o][1] = c
          /\ waiters[o] # <<>> /\ Head(waiters[o]) = c
          /\ waiters'[o] = Tail(waiters[o])
          /\ waiters'[o] # <<>> => Len(waiters[o]) > 1 /\ Head(waiters'[o]) = waiters[o][2]
    <3> SUFFICES ASSUME NEW o \in claim[c]
                 PROVE  /\ Len(waiters[o]) \in Nat \ {0}
                        /\ Len(waiters'[o]) = Len(waiters[o]) - 1
                        /\ \A i \in 1..Len(waiters'[o]) : waiters'[o][i] = waiters[o][i + 1]
                        /\ waiters[o][1] = c
                        /\ waiters[o] # <<>> /\ Head(waiters[o]) = c
                        /\ waiters'[o] = Tail(waiters[o])
                        /\ waiters'[o] # <<>> => /\ Len(waiters[o]) > 1
                                                /\ Head(waiters'[o]) = waiters[o][2]
      OBVIOUS
    <3>1. /\ waiters[o] \in Seq(Callers) /\ waiters[o] # <<>> /\ Head(waiters[o]) = c
          /\ waiters'[o] = Tail(waiters[o])
      BY <2>1, <2>2 DEF IsHead, TypeOK
    <3> QED BY <3>1, TailFacts
  <2>5. \A o \in Objects : o \notin claim[c] => waiters'[o] = waiters[o]
    BY <2>2
  <2>6. QueuedOnce'
    <3> SUFFICES ASSUME NEW o \in Objects,
                        NEW i \in 1..Len(waiters'[o]), NEW j \in 1..Len(waiters'[o]),
                        waiters'[o][i] = waiters'[o][j]
                 PROVE  i = j
      BY DEF QueuedOnce
    <3>1. CASE o \in claim[c]
      <4>1. /\ i + 1 \in 1..Len(waiters[o])
            /\ j + 1 \in 1..Len(waiters[o])
            /\ waiters[o][i + 1] = waiters[o][j + 1]
        BY <3>1, <2>4
      <4> QED BY <4>1 DEF QueuedOnce
    <3>2. CASE o \notin claim[c]
      BY <3>2, <2>5 DEF QueuedOnce
    <3> QED BY <3>1, <3>2
  <2>7. \A d \in Callers, o \in Objects :
          Occurs(d, o)' <=> Occurs(d, o) /\ ~(d = c /\ o \in claim[c])
    <3> SUFFICES ASSUME NEW d \in Callers, NEW o \in Objects
                 PROVE  Occurs(d, o)' <=> Occurs(d, o) /\ ~(d = c /\ o \in claim[c])
      OBVIOUS
    <3>1. CASE o \in claim[c]
      <4>1. ASSUME Occurs(d, o)' PROVE Occurs(d, o) /\ d # c
        <5>1. PICK i \in 1..Len(waiters'[o]) : waiters'[o][i] = d
          BY <4>1 DEF Occurs
        <5>2. i + 1 \in 1..Len(waiters[o]) /\ waiters[o][i + 1] = d /\ 1 \in 1..Len(waiters[o])
          BY <5>1, <3>1, <2>4
        <5>3. d # c
          BY <5>2, <3>1, <2>4 DEF QueuedOnce
        <5> QED BY <5>2, <5>3 DEF Occurs
      <4>2. ASSUME Occurs(d, o), d # c PROVE Occurs(d, o)'
        <5>1. PICK i \in 1..Len(waiters[o]) : waiters[o][i] = d
          BY <4>2 DEF Occurs
        <5>2. i - 1 \in 1..Len(waiters'[o]) /\ waiters'[o][i - 1] = d
          BY <5>1, <4>2, <3>1, <2>4
        <5> QED BY <5>2 DEF Occurs
      <4> QED BY <4>1, <4>2, <3>1
    <3>2. CASE o \notin claim[c]
      BY <3>2, <2>5 DEF Occurs
    <3> QED BY <3>1, <3>2
  <2>8. QueuedIffClaimed'
    BY <1>2, <2>7 DEF QueuedIffClaimed, Release, TypeOK
  <2>9. SetIffHead'
    <3> SUFFICES ASSUME NEW d \in Callers, NEW o \in Objects, Occurs(d, o)'
                 PROVE  <<d, o>> \in isSet' <=> IsHead(d, o)'
      BY DEF SetIffHead
    <3>1. Occurs(d, o) /\ ~(d = c /\ o \in claim[c])
      BY <2>7
    <3>2. CASE o \in claim[c]
      <4>1. d # c /\ ~IsHead(d, o) /\ <<d, o>> \notin isSet
        BY <3>1, <3>2, <2>4 DEF SetIffHead, IsHead
      <4>2. waiters'[o] # <<>>
        BY <2>2 DEF Occurs
      <4>3. <<d, o>> \in Woken(c) <=> Head(waiters'[o]) = d
        <5>1. waiters'[o] = Tail(waiters[o]) /\ IsHead(c, o)
          BY <3>2, <2>1, <2>4
        <5>2. Woken(c) = {<<Head(Tail(waiters[p])), p>> :
                           p \in {p \in claim[c] : IsHead(c, p) /\ Tail(waiters[p]) # <<>>}}
          BY DEF Woken
        <5> QED BY <5>1, <5>2, <3>2, <4>2
      <4> QED BY <4>1, <4>2, <4>3 DEF Release, IsHead
    <3>3. CASE o \notin claim[c]
      BY <3>1, <3>3, <2>5 DEF SetIffHead, Release, Woken, IsHead
    <3> QED BY <3>2, <3>3
  <2>10. HoldersAreHeads'
    <3> SUFFICES ASSUME NEW d \in Callers, phase'[d] = "holding", NEW o \in claim'[d]
                 PROVE  IsHead(d, o)'
      BY DEF HoldersAreHeads
    <3>1. d # c /\ phase[d] = "holding" /\ o \in claim[d] /\ IsHead(d, o) /\ o \in Objects
      BY DEF Release, TypeOK, HoldersAreHeads
    <3>2. o \notin claim[c]
      BY <3>1, <2>4 DEF IsHead
    <3> QED BY <3>1, <3>2, <2>5 DEF IsHead
  <2> QED BY <2>3, <2>6, <2>8, <2>9, <2>10
<1> QED BY <1>1, <1>2 DEF Release

-----------------------------------------------------------------------------
\* Every step of the tracker preserves the invariant.
LEMMA StepInv == TrackerInv /\ [Next]_vars => TrackerInv'
<1> SUFFICES ASSUME TrackerInv, [Next]_vars PROVE TrackerInv'
  OBVIOUS
<1>1. CASE Next
  BY <1>1, AcquireInv, GrantedInv, CancelInv, ReleaseInv DEF Next
<1>2. CASE UNCHANGED vars
  BY <1>2 DEF vars, TrackerInv, TypeOK, QueuedOnce, QueuedIffClaimed, SetIffHead,
              HoldersAreHeads, Occurs, IsHead
<1> QED BY <1>1, <1>2

\* TrackerInv, and the type invariant with it, holds in every reachable state.
THEOREM TrackerInvariance == Spec => []TrackerInv
  BY InitInv, StepInv, PTL DEF Spec

\* Type correctness of the conflict tracker.
THEOREM TypeCorrect == Spec => []TypeOK
<1>1. TrackerInv => TypeOK
  BY DEF TrackerInv
<1> QED BY <1>1, TrackerInvariance, PTL

(***************************************************************************)
(* Two reservations in use never share an object, whatever the number of   *)
(* callers, the claims, the cancellations and the repeated releases.       *)
(***************************************************************************)
THEOREM MutexCorrect == Spec => []MutualExclusion
<1>1. TrackerInv => MutualExclusion
  BY DEF TrackerInv, HoldersAreHeads, IsHead, MutualExclusion, TypeOK
<1> QED BY <1>1, TrackerInvariance, PTL

(***************************************************************************)
(* The first caller of every deque has its event set: release() never      *)
(* forgets to wake the next waiter.                                        *)
(***************************************************************************)
THEOREM WakeupCorrect == Spec => []NoLostWakeup
<1>1. TrackerInv => NoLostWakeup
  <2> SUFFICES ASSUME TrackerInv, NEW o \in Objects, waiters[o] # <<>>
               PROVE  <<Head(waiters[o]), o>> \in isSet
    BY DEF NoLostWakeup
  <2>1. Head(waiters[o]) \in Callers /\ IsHead(Head(waiters[o]), o)
    BY TailFacts DEF TrackerInv, TypeOK, IsHead
  <2>2. Occurs(Head(waiters[o]), o)
    BY <2>1, HeadOccurs DEF TrackerInv
  <2> QED BY <2>1, <2>2 DEF TrackerInv, SetIffHead
<1> QED BY <1>1, TrackerInvariance, PTL

(***************************************************************************)
(* First come, first served on every object: no caller is granted before   *)
(* one that queued on the same object earlier and still waits or holds.    *)
(***************************************************************************)
THEOREM FifoCorrect == Spec => NoOvertaking
<1> DEFINE Fifo == \A c, d \in Callers, o \in Objects :
                     /\ Ahead(o, c, d)
                     /\ phase[c] \in {"waiting", "holding"}
                     /\ phase'[c] \in {"waiting", "holding"}
                     => phase'[d] # "holding"
<1>1. TrackerInv /\ [Next]_vars => [Fifo]_vars
  <2> SUFFICES ASSUME TrackerInv, Next,
                      NEW c \in Callers, NEW d \in Callers, NEW o \in Objects,
                      Ahead(o, c, d),
                      phase[c] \in {"waiting", "holding"},
                      phase'[c] \in {"waiting", "holding"},
                      phase'[d] = "holding"
               PROVE  FALSE
    BY DEF Fifo
  <2>1. Occurs(c, o) /\ Occurs(d, o) /\ ~IsHead(d, o)
    BY DEF Ahead, Occurs, IsHead, TrackerInv, QueuedOnce, TypeOK
  <2>2. o \in claim[d] /\ phase[d] \in {"waiting", "holding", "cancelled"}
    BY <2>1 DEF TrackerInv, QueuedIffClaimed
  <2>3. phase[d] # "holding"
    BY <2>1, <2>2 DEF TrackerInv, HoldersAreHeads
  <2>4. <<d, o>> \notin isSet
    BY <2>1 DEF TrackerInv, SetIffHead
  <2> QED BY <2>2, <2>3, <2>4 DEF Next, Acquire, Granted, Cancel, Release,
                                  TrackerInv, TypeOK
<1>2. Spec => [][Fifo]_vars
  BY <1>1, TrackerInvariance, PTL DEF Spec
<1> QED BY <1>2 DEF NoOvertaking, Fifo
-----------------------------------------------------------------------------
(***************************************************************************)
(* A claim joins all its deques in one step, behind whatever is there.  So *)
(* the callers can be ranked by the time of their last claim, and every    *)
(* deque is in ascending order of rank.  The code keeps no such ranks; the *)
(* invariant only says that there are some.                                *)
(***************************************************************************)
Ascending(r, q) == \A i, j \in 1..Len(q) : i < j => r[q[i]] < r[q[j]]

Ranks(r, n) == r \in [Callers -> Nat] /\ n \in Nat /\ \A c \in Callers : r[c] < n

Ranked == \E r, n : Ranks(r, n) /\ \A o \in Objects : Ascending(r, waiters[o])

LEMMA InitRanked == Init => Ranked
<1> SUFFICES ASSUME Init PROVE Ranked
  OBVIOUS
<1> DEFINE r == [c \in Callers |-> 0]
<1>1. Ranks(r, 1)
  BY DEF Ranks
<1>2. \A o \in Objects : Ascending(r, waiters[o])
  BY DEF Init, Ascending
<1> QED BY <1>1, <1>2 DEF Ranked

\* A new claim gets a rank above all others.
LEMMA AcquireRanked ==
  ASSUME TrackerInv, Ranked, NEW c \in Callers, NEW ids \in SUBSET Objects,
         Acquire(c, ids)
  PROVE  Ranked'
<1>1. PICK r, n : Ranks(r, n) /\ \A o \in Objects : Ascending(r, waiters[o])
  BY DEF Ranked
<1> DEFINE s == [r EXCEPT ![c] = n]
<1>2. /\ s[c] = n /\ n \in Nat
      /\ \A d \in Callers : r[d] \in Nat /\ r[d] < n /\ (d # c => s[d] = r[d])
  BY <1>1 DEF Ranks
<1>3. Ranks(s, n + 1)
  <2>1. s \in [Callers -> Nat] /\ n + 1 \in Nat
    BY <1>1, <1>2 DEF Ranks
  <2>2. \A d \in Callers : s[d] < n + 1
    BY <1>2
  <2> QED BY <2>1, <2>2 DEF Ranks
<1>4. \A o \in Objects : waiters[o] \in Seq(Callers) /\ ~Occurs(c, o)
  BY DEF TrackerInv, TypeOK, Acquire, QueuedIffClaimed
<1> HIDE DEF s
<1>5. \A o \in Objects : Ascending(s, waiters[o])
  <2> SUFFICES ASSUME NEW o \in Objects, NEW i \in 1..Len(waiters[o]),
                      NEW j \in 1..Len(waiters[o]), i < j
               PROVE  s[waiters[o][i]] < s[waiters[o][j]]
    BY DEF Ascending
  <2>1. waiters[o][i] \in Callers \ {c} /\ waiters[o][j] \in Callers \ {c}
    BY <1>4 DEF Occurs
  <2>2. r[waiters[o][i]] < r[waiters[o][j]]
    BY <1>1 DEF Ascending
  <2> QED BY <1>2, <2>1, <2>2
<1>6. ASSUME NEW o \in Objects
      PROVE  Ascending(s, waiters'[o])
  <2>1. CASE o \notin ids
    BY <1>5, <2>1 DEF Acquire
  <2>2. CASE o \in ids
    <3>1. waiters'[o] = Append(waiters[o], c)
      BY <2>2 DEF Acquire
    <3>2. /\ Len(waiters[o]) \in Nat
          /\ Len(waiters'[o]) = Len(waiters[o]) + 1
          /\ waiters'[o][Len(waiters[o]) + 1] = c
          /\ \A i \in 1..Len(waiters[o]) : waiters'[o][i] = waiters[o][i]
      BY <1>4, <3>1, AppendFacts
    <3> SUFFICES ASSUME NEW i \in 1..Len(waiters'[o]), NEW j \in 1..Len(waiters'[o]), i < j
                 PROVE  s[waiters'[o][i]] < s[waiters'[o][j]]
      BY DEF Ascending
    <3>3. i \in 1..Len(waiters[o]) /\ waiters'[o][i] = waiters[o][i]
      BY <3>2
    <3>4. CASE j \in 1..Len(waiters[o])
      BY <1>5, <3>2, <3>3, <3>4 DEF Ascending
    <3>5. CASE j = Len(waiters[o]) + 1
      <4>1. waiters[o][i] \in Callers \ {c}
        BY <1>4, <3>3 DEF Occurs
      <4>2. s[waiters[o][i]] < n
        BY <1>2, <4>1
      <4> QED BY <1>2, <3>2, <3>3, <3>5, <4>2
    <3> QED BY <3>2, <3>4, <3>5
  <2> QED BY <2>1, <2>2
<1> QED BY <1>3, <1>6 DEF Ranked

\* A release takes the caller from the heads of its deques, or does nothing.
LEMMA ReleaseRanked ==
  ASSUME TrackerInv, Ranked, NEW c \in Callers, Release(c)
  PROVE  Ranked'
<1>1. PICK r, n : Ranks(r, n) /\ \A o \in Objects : Ascending(r, waiters[o])
  BY DEF Ranked
<1>2. ASSUME NEW o \in Objects
      PROVE  Ascending(r, waiters'[o])
  <2>1. waiters[o] \in Seq(Callers) /\ Ascending(r, waiters[o])
    BY <1>1 DEF TrackerInv, TypeOK
  <2>2. CASE waiters'[o] = waiters[o]
    BY <2>1, <2>2
  <2>3. CASE waiters'[o] # waiters[o]
    <3>1. o \in claim[c] /\ waiters'[o] = Remaining(c, o)
      BY <2>3 DEF Release, TrackerInv, TypeOK
    <3>2. Occurs(c, o)
      <4> SUFFICES ASSUME ~Occurs(c, o) PROVE FALSE
        OBVIOUS
      <4>1. ~IsHead(c, o)
        BY HeadOccurs DEF TrackerInv
      <4> QED BY <2>3, <3>1, <4>1, RemoveAbsent DEF Remaining
    <3>3. phase[c] = "holding"
      BY <3>2 DEF TrackerInv, QueuedIffClaimed, Release
    <3>4. IsHead(c, o)
      BY <3>1, <3>3 DEF TrackerInv, HoldersAreHeads
    <3>5. waiters[o] # <<>> /\ waiters'[o] = Tail(waiters[o])
      BY <3>1, <3>4 DEF Remaining, IsHead
    <3>6. /\ Len(waiters[o]) \in Nat \ {0}
          /\ Len(waiters'[o]) = Len(waiters[o]) - 1
          /\ \A i \in 1..Len(waiters'[o]) : waiters'[o][i] = waiters[o][i + 1]
      BY <2>1, <3>5, TailFacts
    <3> SUFFICES ASSUME NEW i \in 1..Len(waiters'[o]), NEW j \in 1..Len(waiters'[o]), i < j
                 PROVE  r[waiters'[o][i]] < r[waiters'[o][j]]
      BY DEF Ascending
    <3>7. i + 1 \in 1..Len(waiters[o]) /\ j + 1 \in 1..Len(waiters[o]) /\ i + 1 < j + 1
      BY <3>6
    <3> QED BY <2>1, <3>6, <3>7 DEF Ascending
  <2> QED BY <2>2, <2>3
<1> QED BY <1>1, <1>2 DEF Ranked

LEMMA StepRanked == TrackerInv /\ Ranked /\ [Next]_vars => Ranked'
<1> SUFFICES ASSUME TrackerInv, Ranked, [Next]_vars PROVE Ranked'
  OBVIOUS
<1>1. CASE \E c \in Callers : \E ids \in SUBSET Objects : Acquire(c, ids)
  BY <1>1, AcquireRanked
<1>2. CASE \E c \in Callers : Release(c)
  BY <1>2, ReleaseRanked
<1>3. CASE waiters' = waiters
  BY <1>3 DEF Ranked
<1> QED BY <1>1, <1>2, <1>3 DEF Next, Granted, Cancel, vars

\* Among callers there is one of least rank.
LEMMA LeastRank ==
  ASSUME NEW r \in [Callers -> Nat], NEW W \in SUBSET Callers, W # {}
  PROVE  \E c \in W : \A d \in W : r[c] <= r[d]
<1> DEFINE Less == {ss \in Nat \X Nat : ss[1] < ss[2]}
           T == {r[c] : c \in W}
<1>1. IsWellFoundedOn(Less, Nat)
  BY NatLessThanWellFounded, Zenon DEF OpToRel
<1>2. T \subseteq Nat /\ T # {}
  OBVIOUS
<1>3. \A x, y \in Nat : x < y => <<x, y>> \in Less
  OBVIOUS
<1> HIDE DEF Less
<1>4. PICK m \in T : \A k \in T : <<k, m>> \notin Less
  BY <1>1, <1>2, WFMin, Zenon
<1>5. \A k \in T : k \in Nat /\ m \in Nat /\ ~(k < m)
  BY <1>2, <1>3, <1>4
<1>6. PICK c \in W : r[c] = m
  BY <1>4
<1>7. \A d \in W : r[d] \in T
  OBVIOUS
<1> HIDE DEF T
<1>8. \A d \in W : m <= r[d]
  BY <1>5, <1>7
<1> QED BY <1>6, <1>8

(***************************************************************************)
(* The tracker never deadlocks: while callers wait and none holds or was   *)
(* cancelled, the one that queued first is first in all its deques, and    *)
(* all its events are set.                                                 *)
(***************************************************************************)
THEOREM NoCircularWait == Spec => []SomeoneCanRun
<1>1. Spec => []Ranked
  BY InitRanked, StepRanked, TrackerInvariance, PTL DEF Spec
<1>2. TrackerInv /\ Ranked => SomeoneCanRun
  <2> SUFFICES ASSUME TrackerInv, Ranked,
                      \E c \in Callers : phase[c] = "waiting",
                      \A c \in Callers : phase[c] \notin {"holding", "cancelled"}
               PROVE  \E c \in Callers :
                        phase[c] = "waiting" /\ \A o \in claim[c] : <<c, o>> \in isSet
    BY DEF SomeoneCanRun
  <2>1. PICK r, n : Ranks(r, n) /\ \A o \in Objects : Ascending(r, waiters[o])
    BY DEF Ranked
  <2> DEFINE W == {c \in Callers : phase[c] = "waiting"}
  <2>2. PICK c \in W : \A d \in W : r[c] <= r[d]
    <3>1. r \in [Callers -> Nat] /\ W \in SUBSET Callers /\ W # {}
      BY <2>1 DEF Ranks
    <3> HIDE DEF W
    <3> QED BY <3>1, LeastRank
  <2>3. ASSUME NEW o \in claim[c]
        PROVE  <<c, o>> \in isSet
    <3>1. o \in Objects /\ Occurs(c, o) /\ waiters[o] \in Seq(Callers)
      BY DEF TrackerInv, TypeOK, QueuedIffClaimed
    <3>2. PICK j \in 1..Len(waiters[o]) : waiters[o][j] = c
      BY <3>1 DEF Occurs
    <3>3. 1 \in 1..Len(waiters[o]) /\ waiters[o][1] \in Callers /\ j \in Nat /\ j >= 1
      BY <3>1, <3>2
    <3>4. waiters[o][1] \in W
      <4>1. Occurs(waiters[o][1], o)
        BY <3>3 DEF Occurs
      <4> QED BY <3>1, <3>3, <4>1 DEF TrackerInv, QueuedIffClaimed
    <3>5. r[c] <= r[waiters[o][1]] /\ r[c] \in Nat /\ r[waiters[o][1]] \in Nat
      BY <2>1, <2>2, <3>3, <3>4 DEF Ranks
    <3>6. 1 < j => r[waiters[o][1]] < r[c]
      BY <2>1, <3>1, <3>2, <3>3 DEF Ascending
    <3>7. waiters[o][1] = c
      BY <3>2, <3>3, <3>5, <3>6
    <3>8. IsHead(c, o)
      BY <3>1, <3>3, <3>7 DEF IsHead
    <3> QED BY <3>1, <3>8 DEF TrackerInv, SetIffHead
  <2> QED BY <2>3
<1> QED BY <1>1, <1>2, TrackerInvariance, PTL
==============================================================================
