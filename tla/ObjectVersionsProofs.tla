-------------------------- MODULE ObjectVersionsProofs --------------------------
(***************************************************************************)
(* Proofs about ObjectVersions, for any objects, transactions, executors   *)
(* and features: the invariant VersionsInv, and from it that what a cache  *)
(* answers is what the chain has (CacheExact) and that only references     *)
(* taken when a command named the object go stale (OnlyPinsGoStale).       *)
(*                                                                         *)
(* A step belongs to one transaction or to none.  What the others hold     *)
(* survives it (OthersHold), because transactions in flight share no       *)
(* guarded input; what remains to be shown for each action is what it does *)
(* to its own transaction and to the caches.                               *)
(*                                                                         *)
(* The second half is about the registry: RegistryInv, and from it that an *)
(* entry falls behind only across the width of a version                   *)
(* (BehindOnlyAcrossWidth) and that nothing deleted comes back             *)
(* (NothingRevived).  It rests on what upsert_many() leaves of an object   *)
(* (ManyRows), for any bound and any order of the entries.                 *)
(***************************************************************************)
EXTENDS ObjectVersions, CollectionLemmas, WellFoundedInduction, TLAPS

-----------------------------------------------------------------------------
(***************************************************************************)
(* The cache of objects.                                                   *)
(***************************************************************************)
Cache == [owned : [Objects -> Nat], shared : [Objects -> Nat]]

LEMMA EmptyAnswers ==
  EmptyCache \in Cache /\ \A o \in Objects : GetObject(EmptyCache, o) = NoRef
BY DEF EmptyCache, Cache, GetObject

LEMMA GetTyped ==
  ASSUME NEW c \in Cache, NEW o \in Objects
  PROVE  GetObject(c, o) \in RefOrNone
BY DEF Cache, GetObject, RefOrNone, Ref

LEMMA RefKinds ==
  ASSUME NEW r \in RefOrNone
  PROVE  /\ r = NoRef \/ (r \in Ref /\ r # NoRef)
         /\ r.kind \in {"owned", "shared", "none"}
         /\ r.kind = "none" <=> r = NoRef
         /\ r # NoRef => r.ver \in Nat \ {0}
BY DEF RefOrNone, Ref, NoRef

\* Storing references: an object keeps another answer only in its owned bucket.
LEMMA AddAnswers ==
  ASSUME NEW c \in Cache, NEW r, References(r), \A o \in DOMAIN r : r[o] # NoRef
  PROVE  /\ AddObjects(c, r) \in Cache
         /\ \A o \in Objects \ DOMAIN r : GetObject(AddObjects(c, r), o) = GetObject(c, o)
         /\ \A o \in DOMAIN r :
              \/ GetObject(AddObjects(c, r), o) = r[o]
              \/ /\ GetObject(AddObjects(c, r), o) = GetObject(c, o)
                 /\ GetObject(c, o).kind = "owned" /\ r[o].kind = "shared"
<1>1. \A o \in DOMAIN r : /\ o \in Objects
                          /\ r[o] \in [kind : {"owned", "shared"}, ver : Nat \ {0}]
  BY DEF References, RefOrNone, Ref
<1>2. AddObjects(c, r) \in Cache
  BY <1>1 DEF AddObjects, Written, Cache
<1>3. \A o \in Objects \ DOMAIN r : GetObject(AddObjects(c, r), o) = GetObject(c, o)
  BY DEF AddObjects, Written, GetObject
<1>4. ASSUME NEW o \in DOMAIN r, r[o].kind = "owned"
      PROVE  GetObject(AddObjects(c, r), o) = r[o]
  <2>1. /\ AddObjects(c, r).owned[o] = r[o].ver /\ r[o].ver \in Nat \ {0}
        /\ r[o] = [kind |-> "owned", ver |-> r[o].ver]
    BY <1>1, <1>4 DEF AddObjects, Written
  <2> QED BY <2>1 DEF GetObject
<1>5. ASSUME NEW o \in DOMAIN r, r[o].kind = "shared"
      PROVE  \/ GetObject(AddObjects(c, r), o) = r[o]
             \/ /\ GetObject(AddObjects(c, r), o) = GetObject(c, o)
                /\ GetObject(c, o).kind = "owned"
  <2>1. /\ AddObjects(c, r).owned[o] = c.owned[o]
        /\ AddObjects(c, r).shared[o] = r[o].ver /\ r[o].ver \in Nat \ {0}
        /\ r[o] = [kind |-> "shared", ver |-> r[o].ver]
    BY <1>1, <1>5 DEF AddObjects, Written
  <2>2. CASE c.owned[o] = 0
    BY <2>1, <2>2 DEF GetObject
  <2>3. CASE c.owned[o] # 0
    BY <2>1, <2>3 DEF GetObject
  <2> QED BY <2>2, <2>3
<1> QED BY <1>1, <1>2, <1>3, <1>4, <1>5

\* Effects: what is deleted is gone, what is written is stored.
LEMMA EffectAnswers ==
  ASSUME NEW c \in Cache, NEW eff, References(eff)
  PROVE  /\ ApplyEffects(c, eff) \in Cache
         /\ \A o \in Objects \ DOMAIN eff :
              GetObject(ApplyEffects(c, eff), o) = GetObject(c, o)
         /\ \A o \in DOMAIN eff :
              \/ GetObject(ApplyEffects(c, eff), o) = eff[o]
              \/ /\ GetObject(ApplyEffects(c, eff), o) = GetObject(c, o)
                 /\ GetObject(c, o).kind = "owned" /\ eff[o].kind = "shared"
<1> DEFINE d == DeleteObjects(c, Deleted(eff))
           r == Added(eff)
<1>1. d \in Cache
  BY DEF DeleteObjects, Cache
<1>2. \A o \in Objects : GetObject(d, o) = IF o \in Deleted(eff) THEN NoRef ELSE GetObject(c, o)
  BY DEF DeleteObjects, GetObject
<1>3. /\ References(r) /\ DOMAIN r = DOMAIN eff \ Deleted(eff)
      /\ \A o \in DOMAIN r : r[o] = eff[o] /\ r[o] # NoRef
  BY DEF References, Added, Deleted
<1>4. ApplyEffects(c, eff) = AddObjects(d, r)
  BY DEF ApplyEffects
<1>5. Deleted(eff) \subseteq DOMAIN eff /\ DOMAIN eff \subseteq Objects
      /\ \A o \in Deleted(eff) : eff[o] = NoRef
  BY DEF Deleted, References
<1> HIDE DEF d, r
<1>6. /\ AddObjects(d, r) \in Cache
      /\ \A o \in Objects \ DOMAIN r : GetObject(AddObjects(d, r), o) = GetObject(d, o)
      /\ \A o \in DOMAIN r :
              \/ GetObject(AddObjects(d, r), o) = r[o]
              \/ /\ GetObject(AddObjects(d, r), o) = GetObject(d, o)
                 /\ GetObject(d, o).kind = "owned" /\ r[o].kind = "shared"
  BY <1>1, <1>3, AddAnswers
<1> QED BY <1>2, <1>3, <1>4, <1>5, <1>6

-----------------------------------------------------------------------------
(***************************************************************************)
(* A bounded set of numbers has a largest one, so that the versions the    *)
(* chain gives are numbers.                                                *)
(***************************************************************************)
LEMMA LargestExists ==
  ASSUME NEW S \in SUBSET Nat, S # {}, NEW b \in Nat, \A n \in S : n <= b
  PROVE  \E m \in S : \A n \in S : n <= m
<1> DEFINE Less == {ss \in Nat \X Nat : ss[1] < ss[2]}
           T == {b - n : n \in S}
<1>1. IsWellFoundedOn(Less, Nat)
  BY NatLessThanWellFounded, Zenon DEF OpToRel
<1>0. \A n \in S : n \in Nat
  BY Zenon
<1>2. \A n \in S : b - n \in Nat
  BY <1>0
<1>7. T \subseteq Nat /\ T # {}
  BY <1>2, Zenon
<1>3. \A x, y \in Nat : x < y => <<x, y>> \in Less
  OBVIOUS
<1> HIDE DEF Less
<1>4. PICK k \in T : \A j \in T : <<j, k>> \notin Less
  BY <1>1, <1>7, WFMin, Zenon
<1>5. PICK m \in S : k = b - m
  BY <1>4
<1>6. ASSUME NEW n \in S PROVE n <= m
  <2>1. b - n \in T /\ b - n \in Nat /\ k \in Nat
    BY <1>2, <1>7
  <2>2. ~(b - n < k)
    BY <1>3, <1>4, <2>1
  <2>3. b \in Nat /\ n \in Nat /\ m \in Nat
    BY <1>0
  <2> QED BY <1>5, <2>2, <2>3
<1> QED BY <1>6

LEMMA NewestIsVersion ==
  ASSUME TypeOK, NEW os \in SUBSET Objects, os # {}
  PROVE  Newest(os) \in 1..MaxVer /\ \A o \in os : lamport[o] <= Newest(os)
<1> DEFINE S == {lamport[o] : o \in os}
<1>1. S \in SUBSET Nat /\ S # {} /\ \A n \in S : n <= MaxVer /\ n \in 1..MaxVer
  BY DEF TypeOK
<1>2. MaxVer \in Nat
  BY VersionsAssumption
<1>3. \A o \in os : lamport[o] \in S
  OBVIOUS
<1>4. PICK m \in S : \A n \in S : n <= m
  <2> HIDE DEF S
  <2> QED BY <1>1, <1>2, LargestExists
<1>5. \A o \in os : lamport[o] <= m
  BY <1>3, <1>4
<1>6. Newest(os) \in S /\ \A o \in os : lamport[o] <= Newest(os)
  BY <1>4, <1>5 DEF Newest
<1> QED BY <1>1, <1>6

-----------------------------------------------------------------------------
(***************************************************************************)
(* A step of transaction t: the others keep what they hold, and the chain  *)
(* changes unseen, or at an input of t while t is in flight.               *)
(***************************************************************************)
OthersAlone(t) ==
  /\ mode' = mode /\ pinned[t] \subseteq pinned'[t]
  /\ \A u \in Txns \ {t} :
       /\ refs'[u] = refs[u] /\ pinned'[u] = pinned[u] /\ phase'[u] = phase[u]
       /\ looked'[u] = looked[u] /\ answer'[u] = answer[u]

ChainStill(o) ==
  /\ o \in unseen => o \in unseen'
  /\ chain'[o] = chain[o] \/ o \in unseen'

\* Transactions that are in flight stay so and have the same inputs.
NoneTakesOff == \A t \in Txns : InFlight(t)' => InFlight(t) /\ Inputs(t)' \subseteq Inputs(t)

LEMMA UnguardedStays ==
  ASSUME mode' = mode, \A u \in Txns : pinned[u] \subseteq pinned'[u]
  PROVE  \A o \in Objects : Unguarded(o) => Unguarded(o)'
BY DEF Unguarded

LEMMA OthersHold ==
  ASSUME VersionsInv, NEW t \in Txns, OthersAlone(t),
         \A o \in Objects : ChainStill(o) \/ (InFlight(t) /\ o \in Inputs(t)),
         NEW u \in Txns \ {t}
  PROVE  Holds(u)' /\ HeldCurrent(u)'
<1>0. /\ refs'[u] = refs[u] /\ pinned'[u] = pinned[u] /\ phase'[u] = phase[u]
      /\ looked'[u] = looked[u] /\ answer'[u] = answer[u]
  BY DEF OthersAlone
<1>1. Holds(u)'
  BY <1>0 DEF VersionsInv, Holds, Inputs, Asked, Deferred, OthersAlone
<1>2. \A o \in Objects : Unguarded(o) => Unguarded(o)'
  BY UnguardedStays DEF OthersAlone
<1>3. HeldCurrent(u)'
  <2>1. CASE ~InFlight(u)
    BY <1>0, <2>1 DEF HeldCurrent, InFlight
  <2>2. CASE InFlight(u)
    <3> SUFFICES ASSUME NEW o \in Inputs(u), ~Doubtful(o)'
                 PROVE  /\ phase[u] = "resolving" =>
                             /\ o \in DOMAIN answer[u] => answer[u][o] = chain'[o]
                             /\ o \notin pinned[u] => looked[u][o] \in {NoRef, chain'[o]}
                        /\ phase[u] = "ready" /\ o \notin pinned[u] => refs[u][o] = chain'[o]
                        /\ phase[u] = "sent" => answer[u][o] = chain'[o]
      BY <1>0 DEF HeldCurrent, Inputs
    <3>0. o \in Objects
      BY DEF VersionsInv, TypeOK, References, Inputs
    <3>1. ~Unguarded(o) /\ o \notin unseen'
      BY <1>2, <3>0 DEF Doubtful
    <3>2. ~(InFlight(t) /\ o \in Inputs(t))
      BY <2>2, <3>1 DEF VersionsInv, InputsApart
    <3>3. o \notin unseen /\ chain'[o] = chain[o]
      BY <3>0, <3>1, <3>2 DEF ChainStill
    <3>4. ~Doubtful(o)
      BY <3>1, <3>3 DEF Doubtful
    <3> QED BY <3>3, <3>4 DEF VersionsInv, HeldCurrent
  <2> QED BY <2>1, <2>2
<1> QED BY <1>1, <1>3

LEMMA ApartKept ==
  ASSUME VersionsInv, mode' = mode, \A u \in Txns : pinned[u] \subseteq pinned'[u],
         NoneTakesOff
  PROVE  InputsApart'
<1> SUFFICES ASSUME NEW t \in Txns, NEW u \in Txns, t # u, InFlight(t)', InFlight(u)',
                    NEW o \in Inputs(t)' \intersect Inputs(u)'
             PROVE  Unguarded(o)'
  BY DEF InputsApart
<1>1. InFlight(t) /\ InFlight(u) /\ o \in Inputs(t) \intersect Inputs(u)
  BY DEF NoneTakesOff
<1>2. Unguarded(o) /\ o \in Objects
  BY <1>1 DEF VersionsInv, InputsApart, TypeOK, References, Inputs
<1> QED BY <1>2, UnguardedStays

\* An entry stays current when nothing is stored, or the entry goes.
LEMMA EntryKept ==
  ASSUME VersionsInv, NEW o \in Objects, ChainStill(o), Unguarded(o) => Unguarded(o)',
         \A u \in SentWith(o) : refs[u][o] # chain[o] => u \in SentWith(o)' /\ refs'[u] = refs[u],
         \A k \in Caches : GetObject(cache'[k], o) \in {NoRef, GetObject(cache[k], o)}
  PROVE  CacheCurrent(o)'
<1>1. CASE o \in unseen'
  BY <1>1 DEF CacheCurrent, Doubtful
<1>2. CASE o \notin unseen'
  <2>1. o \notin unseen /\ chain'[o] = chain[o]
    BY <1>2 DEF ChainStill
  <2>2. Unguarded(o) \/ Changing(o) \/ \A k \in Caches : GetObject(cache[k], o) \in {NoRef, chain[o]}
    BY <2>1 DEF VersionsInv, CacheCurrent, Doubtful
  <2>3. CASE Unguarded(o)
    BY <2>3 DEF CacheCurrent, Doubtful
  <2>4. CASE Changing(o)
    BY <2>1, <2>4 DEF Changing, CacheCurrent
  <2>5. CASE \A k \in Caches : GetObject(cache[k], o) \in {NoRef, chain[o]}
    BY <2>1, <2>5 DEF CacheCurrent
  <2> QED BY <2>2, <2>3, <2>4, <2>5
<1> QED BY <1>1, <1>2

LEMMA CachesKept ==
  ASSUME VersionsInv, mode' = mode,
         \A k \in Caches, o \in Objects : GetObject(cache'[k], o) \in {NoRef, GetObject(cache[k], o)},
         \A k \in Txns, o \in Objects :
           mode = "parallel" /\ phase[k] \in {"ready", "sent"} /\ o \in Inputs(k)
               /\ GetObject(cache'[k], o) # NoRef
             => phase'[k] \in {"ready", "sent"} /\ o \in Inputs(k)'
  PROVE  TaskCaches'
BY DEF VersionsInv, TaskCaches, TypeOK

\* The queue changes only at its ends, by transactions that wait there.
LEMMA QueueStays ==
  ASSUME VersionsInv, NEW t \in Txns, OthersAlone(t), queue' = queue,
         phase[t] # "queued" \/ phase'[t] = "queued"
  PROVE  QueuedOnce'
<1>1. ASSUME NEW i \in 1..Len(queue) PROVE phase'[queue[i]] = "queued"
  <2>1. queue[i] \in Txns /\ phase[queue[i]] = "queued"
    BY DEF VersionsInv, QueuedOnce, TypeOK
  <2> QED BY <2>1 DEF OthersAlone
<1> QED BY <1>1 DEF VersionsInv, QueuedOnce

(***************************************************************************)
(* A step of t that changes neither the chain nor an entry, and does not   *)
(* begin or end with t sent.                                               *)
(***************************************************************************)
LEMMA QuietStep ==
  ASSUME VersionsInv, NEW t \in Txns, OthersAlone(t), UNCHANGED <<chain, unseen>>,
         phase[t] # "sent",
         mode = "parallel" /\ phase[t] = "ready" =>
           phase'[t] = "ready" \/ \A o \in Objects : GetObject(cache'[t], o) = NoRef,
         \A k \in Caches, o \in Objects : GetObject(cache'[k], o) \in {NoRef, GetObject(cache[k], o)},
         phase[t] = "ready" => Inputs(t)' = Inputs(t),
         TypeOK', QueuedOnce', Holds(t)', HeldCurrent(t)', InputsApart'
  PROVE  VersionsInv'
<1>1. \A o \in Objects : ChainStill(o)
  BY DEF ChainStill
<1>2. \A u \in Txns : Holds(u)' /\ HeldCurrent(u)'
  BY <1>1, OthersHold
<1>3. \A o \in Objects : Unguarded(o) => Unguarded(o)'
  BY UnguardedStays DEF OthersAlone
<1>4. ASSUME NEW o \in Objects PROVE CacheCurrent(o)'
  <2>1. \A u \in SentWith(o) : u \in SentWith(o)' /\ refs'[u] = refs[u]
    BY DEF SentWith, OthersAlone, Inputs
  <2> QED BY <1>1, <1>3, <2>1, EntryKept
<1>5. TaskCaches'
  <2>1. ASSUME NEW k \in Txns, NEW o \in Objects, mode = "parallel",
               phase[k] \in {"ready", "sent"}, o \in Inputs(k), GetObject(cache'[k], o) # NoRef
        PROVE  phase'[k] \in {"ready", "sent"} /\ o \in Inputs(k)'
    BY <2>1 DEF OthersAlone, Inputs
  <2>2. mode' = mode
    BY DEF OthersAlone
  <2> QED BY <2>1, <2>2, CachesKept
<1> QED BY <1>2, <1>4, <1>5 DEF VersionsInv

-----------------------------------------------------------------------------
(***************************************************************************)
(* From the naming of an object to the lookup.                             *)
(***************************************************************************)
LEMMA CacheTyped ==
  ASSUME TypeOK, NEW t \in Txns
  PROVE  /\ CacheOf(t) \in Caches
         /\ \A k \in Caches : cache[k] \in Cache
         /\ \A k \in Caches, o \in Objects : GetObject(cache[k], o) \in RefOrNone
<1>1. CacheOf(t) \in Caches
  BY DEF CacheOf, Caches
<1>2. \A k \in Caches : cache[k] \in Cache
  BY DEF TypeOK, Cache
<1> QED BY <1>1, <1>2, GetTyped

\* A step that puts no transaction in flight keeps them apart.
LEMMA OneLands ==
  ASSUME VersionsInv, NEW t \in Txns, OthersAlone(t), InFlight(t)' => InFlight(t) /\ Inputs(t)' \subseteq Inputs(t)
  PROVE  InputsApart'
<1>1. NoneTakesOff
  BY DEF NoneTakesOff, OthersAlone, InFlight, Inputs
<1>2. mode' = mode /\ \A u \in Txns : pinned[u] \subseteq pinned'[u]
  BY DEF OthersAlone
<1> QED BY <1>1, <1>2, ApartKept

LEMMA NameStep ==
  ASSUME VersionsInv, NEW t \in Txns, NEW o \in Objects, NEW ref \in RefOrNone, Name(t, o, ref)
  PROVE  VersionsInv'
<1>0. /\ phase[t] = "open" /\ o \notin Inputs(t)
      /\ refs' = [refs EXCEPT ![t] = [p \in Inputs(t) \union {o} |->
                                        IF p = o THEN ref ELSE refs[t][p]]]
      /\ pinned' = IF ref = NoRef THEN pinned ELSE [pinned EXCEPT ![t] = @ \union {o}]
      /\ UNCHANGED <<mode, chain, lamport, phase, queue, looked, answer, cache,
                     registry, unseen>>
  BY DEF Name
<1>1. /\ DOMAIN refs = Txns /\ pinned \in [Txns -> SUBSET Objects] /\ References(refs[t])
  BY DEF VersionsInv, TypeOK
<1>2. /\ refs'[t] = [p \in Inputs(t) \union {o} |-> IF p = o THEN ref ELSE refs[t][p]]
      /\ pinned'[t] = IF ref = NoRef THEN pinned[t] ELSE pinned[t] \union {o}
      /\ DOMAIN refs' = Txns
      /\ \A u \in Txns \ {t} : refs'[u] = refs[u] /\ pinned'[u] = pinned[u]
  BY <1>0, <1>1
<1>3. References(refs'[t])
  BY <1>1, <1>2 DEF References, Inputs
<1>4. pinned' \in [Txns -> SUBSET Objects]
  BY <1>0, <1>1
<1>5. TypeOK'
  <2>1. \A u \in Txns : References(refs'[u])
    BY <1>2, <1>3 DEF VersionsInv, TypeOK
  <2> QED BY <1>0, <1>2, <1>4, <2>1 DEF VersionsInv, TypeOK
<1>6. OthersAlone(t)
  BY <1>0, <1>2 DEF OthersAlone
<1>7. Holds(t)'
  <2>1. /\ pinned[t] \subseteq Inputs(t) /\ \A p \in Inputs(t) \ pinned[t] : refs[t][p] = NoRef
        /\ answer[t] = Nothing
    BY <1>0 DEF VersionsInv, Holds
  <2>2. Inputs(t)' = Inputs(t) \union {o}
    BY <1>2 DEF Inputs
  <2>3. \A p \in Inputs(t)' \ pinned'[t] : refs'[t][p] = NoRef
    BY <1>2, <2>1, <2>2
  <2>4. phase'[t] = "open" /\ answer'[t] = Nothing
    BY <1>0, <2>1
  <2> QED BY <1>2, <2>1, <2>2, <2>3, <2>4 DEF Holds
<1>8. HeldCurrent(t)' /\ InputsApart' /\ QueuedOnce'
  <2>1. phase'[t] = "open"
    BY <1>0
  <2>2. HeldCurrent(t)' /\ ~InFlight(t)'
    BY <2>1 DEF HeldCurrent, InFlight
  <2> QED BY <1>0, <1>6, <2>2, OneLands, QueueStays
<1> QED BY <1>0, <1>5, <1>6, <1>7, <1>8, QuietStep

LEMMA NameByIdStep ==
  ASSUME VersionsInv, NEW t \in Txns, NEW o \in Objects, NameById(t, o)
  PROVE  VersionsInv'
<1>1. "executor" \in Caches
  BY DEF Caches
<1>2. AtNaming(t, o) \in RefOrNone
  BY <1>1, CacheTyped DEF AtNaming, VersionsInv, RefOrNone
<1> QED BY <1>2, NameStep DEF NameById

LEMMA NameByReferenceStep ==
  ASSUME VersionsInv, NEW t \in Txns, NEW o \in Objects, NameByReference(t, o)
  PROVE  VersionsInv'
<1>1. chain[o] \in RefOrNone
  BY DEF VersionsInv, TypeOK
<1> QED BY <1>1, NameStep DEF NameByReference

LEMMA SubmitStep ==
  ASSUME VersionsInv, NEW t \in Txns, Submit(t)
  PROVE  VersionsInv'
<1>0. /\ phase[t] = "open" /\ queue' = Append(queue, t)
      /\ phase' = [phase EXCEPT ![t] = "queued"]
      /\ UNCHANGED <<mode, chain, lamport, refs, pinned, looked, answer, cache,
                     registry, unseen>>
  BY DEF Submit, Move
<1>1. /\ phase \in [Txns -> Phases] /\ queue \in Seq(Txns) /\ "queued" \in Phases
  BY DEF VersionsInv, TypeOK, Phases
<1>2. phase' \in [Txns -> Phases] /\ queue' \in Seq(Txns) /\ phase'[t] = "queued"
      /\ \A u \in Txns \ {t} : phase'[u] = phase[u]
  BY <1>0, <1>1
<1>3. TypeOK'
  BY <1>0, <1>2 DEF VersionsInv, TypeOK
<1>4. OthersAlone(t)
  BY <1>0, <1>2 DEF OthersAlone
<1>5. QueuedOnce'
  <2>1. \A i \in 1..Len(queue) : queue[i] \in Txns \ {t}
    BY <1>0, <1>1 DEF VersionsInv, QueuedOnce
  <2>2. /\ Len(queue') = Len(queue) + 1 /\ queue'[Len(queue) + 1] = t /\ Len(queue) \in Nat
        /\ \A i \in 1..Len(queue) : queue'[i] = queue[i]
    BY <1>0, <1>1
  <2>3. \A i \in 1..Len(queue) : phase[queue[i]] = "queued"
    BY DEF VersionsInv, QueuedOnce
  <2>4. \A i \in 1..Len(queue') : i = Len(queue) + 1 \/ i \in 1..Len(queue)
    BY <2>2
  <2>5. \A i \in 1..Len(queue') : phase'[queue'[i]] = "queued"
    BY <1>2, <2>1, <2>2, <2>3, <2>4
  <2>6. \A i, j \in 1..Len(queue) : queue[i] = queue[j] => i = j
    BY DEF VersionsInv, QueuedOnce
  <2>7. \A i, j \in 1..Len(queue') : queue'[i] = queue'[j] => i = j
    BY <2>1, <2>2, <2>4, <2>6
  <2> QED BY <2>5, <2>7 DEF QueuedOnce
<1>6. Holds(t)' /\ HeldCurrent(t)' /\ ~InFlight(t)'
  BY <1>0, <1>2 DEF VersionsInv, Holds, HeldCurrent, Inputs, InFlight
<1>7. InputsApart'
  BY <1>4, <1>6, OneLands
<1> QED BY <1>0, <1>3, <1>4, <1>5, <1>6, <1>7, QuietStep

\* What a lookup finds is a reference, or is to be asked for.
LEMMA FromCacheTyped ==
  ASSUME TypeOK, NEW t \in Txns
  PROVE  /\ References(FromCache(t)) /\ DOMAIN FromCache(t) = Inputs(t)
         /\ \A o \in Inputs(t) :
              FromCache(t)[o] = IF refs[t][o] = NoRef THEN GetObject(cache[CacheOf(t)], o)
                                                      ELSE refs[t][o]
<1>1. Inputs(t) \subseteq Objects /\ refs[t] \in [Inputs(t) -> RefOrNone]
  BY DEF TypeOK, References, Inputs
<1>2. \A o \in Inputs(t) : GetObject(cache[CacheOf(t)], o) \in RefOrNone
  BY <1>1, CacheTyped
<1>3. /\ DOMAIN FromCache(t) = Inputs(t)
      /\ \A o \in Inputs(t) :
           FromCache(t)[o] = IF refs[t][o] = NoRef THEN GetObject(cache[CacheOf(t)], o)
                                                   ELSE refs[t][o]
  BY DEF FromCache
<1>4. \A o \in Inputs(t) : FromCache(t)[o] \in RefOrNone
  BY <1>1, <1>2, <1>3
<1>5. FromCache(t) = [o \in Inputs(t) |-> FromCache(t)[o]]
  BY DEF FromCache
<1> QED BY <1>1, <1>3, <1>4, <1>5 DEF References

LEMMA PeekStep ==
  ASSUME VersionsInv, NEW t \in Txns, Peek(t)
  PROVE  VersionsInv'
<1>0. /\ phase[t] = "open"
      /\ mode = "serial"
      /\ looked' = [looked EXCEPT ![t] = FromCache(t)]
      /\ phase' = [phase EXCEPT ![t] = "peeking"]
      /\ UNCHANGED <<mode, chain, lamport, refs, pinned, queue, answer, cache, registry, unseen>>
  BY DEF Peek, Move
<1>1. /\ phase \in [Txns -> Phases] /\ "peeking" \in Phases /\ DOMAIN looked = Txns
  BY DEF VersionsInv, TypeOK, Phases
<1>2. /\ phase' \in [Txns -> Phases] /\ phase'[t] = "peeking" /\ looked'[t] = FromCache(t)
      /\ DOMAIN looked' = Txns
      /\ \A u \in Txns \ {t} : phase'[u] = phase[u] /\ looked'[u] = looked[u]
  BY <1>0, <1>1
<1>3. TypeOK'
  <2>1. \A u \in Txns : References(looked'[u])
    BY <1>2, FromCacheTyped DEF VersionsInv, TypeOK
  <2> QED BY <1>0, <1>2, <2>1 DEF VersionsInv, TypeOK
<1>4. OthersAlone(t)
  BY <1>0, <1>2 DEF OthersAlone
<1>5. Holds(t)'
  <2>1. /\ pinned[t] \subseteq Inputs(t) /\ \A p \in Inputs(t) \ pinned[t] : refs[t][p] = NoRef
        /\ answer[t] = Nothing
    BY <1>0 DEF VersionsInv, Holds
  <2>2. DOMAIN Nothing = {}
    BY DEF Nothing
  <2>3. DOMAIN looked'[t] = Inputs(t)
    BY <1>2, FromCacheTyped DEF VersionsInv
  <2>4. /\ phase'[t] = "peeking" /\ Inputs(t)' = Inputs(t) /\ answer'[t] = Nothing
        /\ pinned'[t] = pinned[t] /\ refs'[t] = refs[t] /\ mode' = "serial"
    BY <1>0, <1>2, <2>1 DEF Inputs
  <2> QED BY <2>1, <2>2, <2>3, <2>4 DEF Holds
<1>6. HeldCurrent(t)' /\ ~InFlight(t)'
  BY <1>2 DEF HeldCurrent, InFlight
<1>7. InputsApart' /\ QueuedOnce'
  BY <1>0, <1>4, <1>6, OneLands, QueueStays
<1> QED BY <1>0, <1>3, <1>4, <1>5, <1>6, <1>7, QuietStep

\* The node answers with what it has now.
LEMMA AnswerStep ==
  ASSUME VersionsInv, NEW t \in Txns, Answer(t)
  PROVE  VersionsInv'
<1> DEFINE found == {p \in Asked(t) : chain[p] # NoRef}
           a == [o \in found |-> chain[o]]
<1>0. /\ phase[t] \in {"resolving", "peeking"}
      /\ answer' = [answer EXCEPT ![t] = a]
      /\ UNCHANGED <<mode, chain, lamport, refs, pinned, phase, queue, looked, cache,
                     registry, unseen>>
  BY DEF Answer
<1>1. Asked(t) \subseteq Inputs(t) /\ Inputs(t) \subseteq Objects
  BY <1>0 DEF VersionsInv, TypeOK, Holds, References, Inputs, Asked
<1>2. References(a)
  BY <1>1 DEF VersionsInv, TypeOK, References
<1>3. DOMAIN a \subseteq Asked(t) /\ \A o \in DOMAIN a : a[o] = chain[o] /\ a[o] # NoRef
  OBVIOUS
<1> HIDE DEF a
<1>4. /\ answer'[t] = a /\ DOMAIN answer' = Txns
      /\ \A u \in Txns \ {t} : answer'[u] = answer[u]
  BY <1>0 DEF VersionsInv, TypeOK
<1>5. TypeOK'
  <2>1. \A u \in Txns : References(answer'[u])
    BY <1>2, <1>4 DEF VersionsInv, TypeOK
  <2> QED BY <1>0, <1>4, <2>1 DEF VersionsInv, TypeOK
<1>6. OthersAlone(t)
  BY <1>0, <1>4 DEF OthersAlone
<1>7. Holds(t)'
  BY <1>0, <1>3, <1>4 DEF VersionsInv, Holds, Inputs, Asked
<1>8. HeldCurrent(t)'
  BY <1>0, <1>3, <1>4 DEF VersionsInv, HeldCurrent, Inputs, Doubtful, Unguarded
<1>9. InputsApart' /\ QueuedOnce'
  <2>1. InFlight(t)' => InFlight(t) /\ Inputs(t)' \subseteq Inputs(t)
    BY <1>0 DEF InFlight, Inputs
  <2> QED BY <1>0, <1>6, <2>1, OneLands, QueueStays
<1> QED BY <1>0, <1>5, <1>6, <1>7, <1>8, <1>9, QuietStep

LEMMA NotFoundStep ==
  ASSUME VersionsInv, NEW t \in Txns, NotFound(t)
  PROVE  VersionsInv'
<1> DEFINE p == IF phase[t] = "peeking" THEN "open" ELSE "failed"
<1>0. /\ phase[t] \in {"resolving", "peeking"} /\ answer[t] = Nothing
      /\ looked' = [looked EXCEPT ![t] = Nothing]
      /\ phase' = [phase EXCEPT ![t] = p]
      /\ UNCHANGED <<mode, chain, lamport, refs, pinned, queue, answer, cache, registry, unseen>>
  BY DEF NotFound, Move
<1>1. /\ phase \in [Txns -> Phases] /\ p \in Phases /\ DOMAIN looked = Txns
  BY DEF VersionsInv, TypeOK, Phases
<1>2. /\ phase' \in [Txns -> Phases] /\ phase'[t] = p /\ looked'[t] = Nothing
      /\ DOMAIN looked' = Txns
      /\ \A u \in Txns \ {t} : phase'[u] = phase[u] /\ looked'[u] = looked[u]
  BY <1>0, <1>1
<1>3. TypeOK'
  <2>1. References(Nothing)
    BY DEF References, Nothing
  <2>2. \A u \in Txns : References(looked'[u])
    BY <1>2, <2>1 DEF VersionsInv, TypeOK
  <2> QED BY <1>0, <1>2, <2>2 DEF VersionsInv, TypeOK
<1>4. OthersAlone(t)
  BY <1>0, <1>2 DEF OthersAlone
<1>5. Holds(t)'
  <2>1. /\ pinned[t] \subseteq Inputs(t) /\ \A o \in Inputs(t) \ pinned[t] : refs[t][o] = NoRef
    BY <1>0 DEF VersionsInv, Holds
  <2>4. /\ phase'[t] \in {"open", "failed"} /\ Inputs(t)' = Inputs(t) /\ answer'[t] = Nothing
        /\ pinned'[t] = pinned[t] /\ refs'[t] = refs[t]
    BY <1>0, <1>2 DEF Inputs
  <2> QED BY <2>1, <2>4 DEF Holds
<1>6. HeldCurrent(t)' /\ ~InFlight(t)'
  BY <1>2 DEF HeldCurrent, InFlight
<1>7. InputsApart' /\ QueuedOnce'
  BY <1>0, <1>4, <1>6, OneLands, QueueStays
<1> QED BY <1>0, <1>3, <1>4, <1>5, <1>6, <1>7, QuietStep

\* The cache that ends with a task holds nothing; the others stay.
LEMMA FinishedAnswers ==
  ASSUME TypeOK, NEW t \in Txns, cache' = Finished(t)
  PROVE  /\ cache' \in [Caches -> Cache]
         /\ \A k \in Caches, o \in Objects :
              GetObject(cache'[k], o) \in {NoRef, GetObject(cache[k], o)}
         /\ mode = "parallel" => \A o \in Objects : GetObject(cache'[t], o) = NoRef
<1>1. cache \in [Caches -> Cache] /\ t \in Caches
  BY DEF TypeOK, Cache, Caches
<1> QED BY <1>1, EmptyAnswers DEF Finished

LEMMA RefuseStep ==
  ASSUME VersionsInv, NEW t \in Txns, Refuse(t)
  PROVE  VersionsInv'
<1>0. /\ phase[t] = "ready" /\ cache' = Finished(t)
      /\ phase' = [phase EXCEPT ![t] = "stale"]
      /\ UNCHANGED <<mode, chain, lamport, refs, pinned, queue, looked, answer, registry, unseen>>
  BY DEF Refuse, Move
<1>1. /\ phase \in [Txns -> Phases] /\ "stale" \in Phases
  BY DEF VersionsInv, TypeOK, Phases
<1>2. /\ phase' \in [Txns -> Phases] /\ phase'[t] = "stale"
      /\ \A u \in Txns \ {t} : phase'[u] = phase[u]
  BY <1>0, <1>1
<1>3. /\ cache' \in [Caches -> Cache]
      /\ \A k \in Caches, o \in Objects :
           GetObject(cache'[k], o) \in {NoRef, GetObject(cache[k], o)}
      /\ mode = "parallel" => \A o \in Objects : GetObject(cache'[t], o) = NoRef
  BY <1>0, FinishedAnswers DEF VersionsInv
<1>4. TypeOK'
  BY <1>0, <1>2, <1>3 DEF VersionsInv, TypeOK, Cache
<1>5. OthersAlone(t)
  BY <1>0, <1>2 DEF OthersAlone
<1>6. Holds(t)'
  BY <1>0, <1>2 DEF VersionsInv, Holds, Inputs
<1>7. HeldCurrent(t)' /\ ~InFlight(t)'
  BY <1>2 DEF HeldCurrent, InFlight
<1>8. InputsApart' /\ QueuedOnce'
  BY <1>0, <1>5, <1>7, OneLands, QueueStays
<1>9. Inputs(t)' = Inputs(t) /\ UNCHANGED <<chain, unseen>>
  BY <1>0 DEF Inputs
<1> QED BY <1>0, <1>3, <1>4, <1>5, <1>6, <1>7, <1>8, <1>9, QuietStep

(***************************************************************************)
(* The oldest transaction is taken on: nobody in flight shares an input    *)
(* with it, so an entry that a change on its way makes out of date is not  *)
(* one that it finds.                                                      *)
(***************************************************************************)
LEMMA NobodyShares ==
  ASSUME VersionsInv, NEW t \in Txns, MayStart(t), NEW u \in Txns, InFlight(u),
         NEW o \in Inputs(t) \intersect Inputs(u)
  PROVE  Unguarded(o)
<1>1. mode = "parallel" /\ Claim(u) \intersect Claim(t) = {}
  BY DEF MayStart, Unclaimed, VersionsInv, TypeOK
<1>2. o \in pinned[t] \/ o \in pinned[u]
  BY <1>1 DEF Claim
<1> QED BY <1>1, <1>2 DEF Unguarded

LEMMA FoundCurrent ==
  ASSUME VersionsInv, NEW t \in Txns, MayStart(t), NEW o \in Inputs(t), ~Doubtful(o),
         refs[t][o] = NoRef
  PROVE  FromCache(t)[o] \in {NoRef, chain[o]}
<1>1. o \in Objects /\ CacheOf(t) \in Caches
  BY CacheTyped DEF VersionsInv, TypeOK, References, Inputs
<1>2. ~Changing(o)
  BY NobodyShares DEF Changing, SentWith, InFlight, Doubtful
<1>3. GetObject(cache[CacheOf(t)], o) \in {NoRef, chain[o]}
  BY <1>1, <1>2 DEF VersionsInv, CacheCurrent
<1>4. FromCache(t)[o] = GetObject(cache[CacheOf(t)], o)
  BY FromCacheTyped DEF VersionsInv
<1> QED BY <1>3, <1>4

LEMMA BeginStep ==
  ASSUME VersionsInv, NEW t \in Txns, Begin(t)
  PROVE  VersionsInv'
<1> DEFINE p == IF Missing(t) = {} THEN "ready" ELSE "resolving"
<1>0. /\ queue # <<>> /\ t = Head(queue) /\ MayStart(t) /\ queue' = Tail(queue)
      /\ phase' = [phase EXCEPT ![t] = p]
      /\ IF Missing(t) = {}
         THEN refs' = [refs EXCEPT ![t] = FromCache(t)] /\ looked' = looked
         ELSE looked' = [looked EXCEPT ![t] = FromCache(t)] /\ refs' = refs
      /\ UNCHANGED <<mode, chain, lamport, pinned, answer, cache, registry, unseen>>
  BY DEF Begin, Move
<1>1. /\ phase \in [Txns -> Phases] /\ p \in Phases /\ DOMAIN looked = Txns /\ DOMAIN refs = Txns
      /\ queue \in Seq(Txns)
  BY DEF VersionsInv, TypeOK, Phases
<1>2. /\ Len(queue) \in Nat /\ Len(queue) > 0 /\ queue[1] = t
      /\ queue' \in Seq(Txns) /\ Len(queue') = Len(queue) - 1
      /\ \A i \in 1..Len(queue') : queue'[i] = queue[i + 1]
  BY <1>0, <1>1
<1>3. phase[t] = "queued"
  BY <1>2 DEF VersionsInv, QueuedOnce
<1>4. /\ phase' \in [Txns -> Phases] /\ phase'[t] = p
      /\ \A u \in Txns \ {t} : phase'[u] = phase[u] /\ looked'[u] = looked[u] /\ refs'[u] = refs[u]
      /\ DOMAIN looked' = Txns /\ DOMAIN refs' = Txns
      /\ refs'[t] = IF p = "ready" THEN FromCache(t) ELSE refs[t]
      /\ looked'[t] = IF p = "ready" THEN looked[t] ELSE FromCache(t)
  BY <1>0, <1>1
<1>5. /\ References(FromCache(t)) /\ DOMAIN FromCache(t) = Inputs(t)
      /\ \A o \in Inputs(t) : FromCache(t)[o] = refs[t][o] \/ refs[t][o] = NoRef
  BY FromCacheTyped DEF VersionsInv
<1>6. TypeOK'
  <2>1. \A u \in Txns : References(looked'[u]) /\ References(refs'[u])
    BY <1>4, <1>5 DEF VersionsInv, TypeOK
  <2> QED BY <1>0, <1>2, <1>4, <2>1 DEF VersionsInv, TypeOK
<1>7. OthersAlone(t)
  BY <1>0, <1>4 DEF OthersAlone
<1>8. Inputs(t)' = Inputs(t)
  BY <1>4, <1>5 DEF Inputs
<1>9. QueuedOnce'
  <2>1. \A i \in 1..Len(queue') : i + 1 \in 1..Len(queue) /\ i + 1 # 1
    BY <1>2
  <2>2. \A i \in 1..Len(queue') : queue'[i] \in Txns \ {t} /\ phase[queue'[i]] = "queued"
    <3>1. 1 \in 1..Len(queue)
      BY <1>2
    <3> QED BY <1>1, <1>2, <2>1, <3>1 DEF VersionsInv, QueuedOnce
  <2>3. \A i \in 1..Len(queue') : phase'[queue'[i]] = "queued"
    BY <1>4, <2>2
  <2>4. \A i, j \in 1..Len(queue') : queue'[i] = queue'[j] => i = j
    <3> TAKE i, j \in 1..Len(queue')
    <3>1. queue[i + 1] = queue[j + 1] => i + 1 = j + 1
      BY <2>1 DEF VersionsInv, QueuedOnce
    <3> QED BY <1>2, <3>1
  <2> QED BY <2>3, <2>4 DEF QueuedOnce
<1>10. /\ pinned[t] \subseteq Inputs(t) /\ \A o \in Inputs(t) \ pinned[t] : refs[t][o] = NoRef
       /\ answer[t] = Nothing
  BY <1>3 DEF VersionsInv, Holds
<1>11. Holds(t)'
  <2>1. DOMAIN Nothing = {}
    BY DEF Nothing
  <2>2. /\ pinned'[t] = pinned[t] /\ answer'[t] = Nothing
    BY <1>0, <1>10
  <2>3. CASE p = "ready"
    <3>1. \A o \in Inputs(t) : FromCache(t)[o] # NoRef
      BY <2>3 DEF Missing
    <3>2. phase'[t] = "ready" /\ refs'[t] = FromCache(t)
      BY <1>4, <2>3
    <3>3. Deferred(t)' = {}
      BY <1>8, <3>1, <3>2 DEF Deferred
    <3> QED BY <1>8, <1>10, <2>2, <3>2, <3>3 DEF Holds
  <2>4. CASE p = "resolving"
    <3>1. phase'[t] = "resolving" /\ refs'[t] = refs[t] /\ looked'[t] = FromCache(t)
      BY <1>4, <2>4
    <3> QED BY <1>5, <1>8, <1>10, <2>1, <2>2, <3>1 DEF Holds
  <2> QED BY <2>3, <2>4
<1>12. InputsApart'
  <2> SUFFICES ASSUME NEW x \in Txns, NEW y \in Txns, x # y, InFlight(x)', InFlight(y)',
                      NEW o \in Inputs(x)' \intersect Inputs(y)'
               PROVE  Unguarded(o)
    BY <1>0 DEF InputsApart, Unguarded
  <2>1. \A u \in Txns \ {t} : (InFlight(u)' => InFlight(u)) /\ Inputs(u)' = Inputs(u)
    BY <1>4 DEF InFlight, Inputs
  <2>2. CASE x = t
    BY <1>0, <1>8, <2>1, <2>2, NobodyShares
  <2>3. CASE y = t
    BY <1>0, <1>8, <2>1, <2>3, NobodyShares
  <2>4. CASE x # t /\ y # t
    BY <2>1, <2>4 DEF VersionsInv, InputsApart
  <2> QED BY <2>2, <2>3, <2>4
<1>13. HeldCurrent(t)'
  <2> SUFFICES ASSUME NEW o \in Inputs(t), ~Doubtful(o), o \notin pinned[t]
               PROVE  /\ p = "resolving" => looked'[t][o] \in {NoRef, chain[o]}
                      /\ p = "ready" => refs'[t][o] = chain[o]
    <3>1. DOMAIN answer'[t] = {} /\ phase'[t] = p /\ \A o : Doubtful(o)' = Doubtful(o)
      BY <1>0, <1>4, <1>10 DEF Nothing, Doubtful, Unguarded
    <3> QED BY <1>0, <1>8, <3>1 DEF HeldCurrent
  <2>1. FromCache(t)[o] \in {NoRef, chain[o]}
    BY <1>0, <1>10, FoundCurrent
  <2>2. CASE p = "resolving"
    BY <1>4, <2>1, <2>2
  <2>3. CASE p = "ready"
    <3>1. FromCache(t)[o] # NoRef
      BY <2>3 DEF Missing
    <3> QED BY <1>4, <2>1, <2>3, <3>1
  <2> QED BY <2>2, <2>3
<1> QED BY <1>0, <1>3, <1>6, <1>7, <1>9, <1>11, <1>12, <1>13, QuietStep

-----------------------------------------------------------------------------
(***************************************************************************)
(* The answer is stored.  What the user's dry run stores late is unseen;   *)
(* what a resolution stores is what the chain has.                         *)
(***************************************************************************)
LEMMA StoreStep ==
  ASSUME VersionsInv, NEW t \in Txns, Store(t)
  PROVE  VersionsInv'
<1> DEFINE k == CacheOf(t)
           full == DOMAIN answer[t] = Asked(t)
           peek == phase[t] = "peeking"
           p == IF peek THEN "open" ELSE IF full THEN "ready" ELSE "failed"
           drop == mode = "parallel" /\ ~full
           late == {o \in DOMAIN answer[t] : answer[t][o] # chain[o]}
<1>0. /\ answer[t] # Nothing /\ phase[t] \in {"resolving", "peeking"}
      /\ cache' = IF drop THEN Finished(t)
                  ELSE [cache EXCEPT ![k] = AddObjects(@, answer[t])]
      /\ unseen' = IF peek THEN unseen \union late ELSE unseen
      /\ phase' = [phase EXCEPT ![t] = p]
      /\ refs' = IF p = "ready" THEN [refs EXCEPT ![t] = Resolved(t)] ELSE refs
      /\ answer' = [answer EXCEPT ![t] = Nothing]
      /\ looked' = [looked EXCEPT ![t] = Nothing]
      /\ UNCHANGED <<mode, chain, lamport, pinned, queue, registry>>
  BY DEF Store, Move
<1>1. /\ phase \in [Txns -> Phases] /\ p \in Phases
      /\ DOMAIN looked = Txns /\ DOMAIN refs = Txns /\ DOMAIN answer = Txns
      /\ cache \in [Caches -> Cache] /\ k \in Caches
      /\ References(answer[t]) /\ References(looked[t]) /\ References(refs[t])
  BY CacheTyped DEF VersionsInv, TypeOK, Phases, Cache
<1>2. /\ pinned[t] \subseteq Inputs(t) /\ \A o \in Inputs(t) \ pinned[t] : refs[t][o] = NoRef
      /\ DOMAIN looked[t] = Inputs(t) /\ DOMAIN answer[t] \subseteq Asked(t)
      /\ \A o \in DOMAIN answer[t] : answer[t][o] # NoRef
  BY <1>0 DEF VersionsInv, Holds
<1>3. /\ phase' \in [Txns -> Phases] /\ phase'[t] = p
      /\ DOMAIN looked' = Txns /\ DOMAIN refs' = Txns /\ DOMAIN answer' = Txns
      /\ looked'[t] = Nothing /\ answer'[t] = Nothing
      /\ refs'[t] = IF p = "ready" THEN Resolved(t) ELSE refs[t]
      /\ \A u \in Txns \ {t} : /\ phase'[u] = phase[u] /\ looked'[u] = looked[u]
                               /\ refs'[u] = refs[u] /\ answer'[u] = answer[u]
  BY <1>0, <1>1
<1>4. Asked(t) \subseteq Inputs(t) /\ DOMAIN answer[t] \subseteq Inputs(t) /\ Inputs(t) \subseteq Objects
  BY <1>1, <1>2 DEF Asked, Inputs, References
<1>5. /\ References(Resolved(t)) /\ DOMAIN Resolved(t) = Inputs(t)
      /\ \A o \in Inputs(t) :
           Resolved(t)[o] = IF o \in DOMAIN answer[t] THEN answer[t][o] ELSE looked[t][o]
  <2>1. \A o \in Inputs(t) :
          (IF o \in DOMAIN answer[t] THEN answer[t][o] ELSE looked[t][o]) \in RefOrNone
    BY <1>1, <1>2 DEF References
  <2> QED BY <1>4, <2>1 DEF Resolved, References
<1>6. /\ AddObjects(cache[k], answer[t]) \in Cache
      /\ \A o \in Objects \ DOMAIN answer[t] :
           GetObject(AddObjects(cache[k], answer[t]), o) = GetObject(cache[k], o)
      /\ \A o \in DOMAIN answer[t] :
           GetObject(AddObjects(cache[k], answer[t]), o) \in {answer[t][o], GetObject(cache[k], o)}
  <2>1. cache[k] \in Cache
    BY <1>1
  <2> QED BY <1>1, <1>2, <2>1, AddAnswers
<1>7. /\ cache' \in [Caches -> Cache]
      /\ \A j \in Caches, o \in Objects :
           \/ GetObject(cache'[j], o) \in {NoRef, GetObject(cache[j], o)}
           \/ /\ j = k /\ ~drop /\ o \in DOMAIN answer[t] /\ GetObject(cache'[j], o) = answer[t][o]
  <2>1. CASE drop
    BY <1>0, <2>1, FinishedAnswers DEF VersionsInv
  <2>2. CASE ~drop
    <3>1. cache' = [cache EXCEPT ![k] = AddObjects(@, answer[t])]
      BY <1>0, <2>2
    <3> HIDE DEF k, drop
    <3>2. /\ cache' \in [Caches -> Cache] /\ cache'[k] = AddObjects(cache[k], answer[t])
          /\ \A j \in Caches \ {k} : cache'[j] = cache[j]
      BY <1>1, <1>6, <3>1
    <3> QED BY <1>6, <2>2, <3>2
  <2> QED BY <2>1, <2>2
<1>8. unseen' \subseteq Objects /\ unseen \subseteq unseen'
  BY <1>0, <1>4 DEF VersionsInv, TypeOK
<1>9. TypeOK'
  <2>1. References(Nothing)
    BY DEF References, Nothing
  <2>2. \A u \in Txns : References(refs'[u]) /\ References(looked'[u]) /\ References(answer'[u])
    BY <1>3, <1>5, <2>1 DEF VersionsInv, TypeOK
  <2> QED BY <1>0, <1>3, <1>7, <1>8, <2>2 DEF VersionsInv, TypeOK, Cache
<1>10. OthersAlone(t)
  BY <1>0, <1>3 DEF OthersAlone
<1>11. Inputs(t)' = Inputs(t)
  BY <1>3, <1>5 DEF Inputs
<1>12. QueuedOnce' /\ InputsApart'
  <2>1. InFlight(t)' => InFlight(t) /\ Inputs(t)' \subseteq Inputs(t)
    BY <1>0, <1>3, <1>11 DEF InFlight
  <2> QED BY <1>0, <1>10, <2>1, OneLands, QueueStays
<1>13. \A o \in Objects : ChainStill(o)
  BY <1>0, <1>8 DEF ChainStill
<1>14. \A o \in Objects : Unguarded(o)' = Unguarded(o)
  BY <1>0 DEF Unguarded
<1>15. Holds(t)'
  <2>1. CASE p = "ready"
    <3>1. \A o \in Inputs(t) : Resolved(t)[o] # NoRef
      <4>1. full
        BY <2>1
      <4>2. ASSUME NEW o \in Inputs(t), o \notin DOMAIN answer[t] PROVE looked[t][o] # NoRef
        BY <1>2, <4>1, <4>2 DEF Asked
      <4> QED BY <1>2, <1>5, <4>2
    <3>2. phase'[t] = "ready" /\ refs'[t] = Resolved(t)
      BY <1>3, <2>1
    <3>3. Deferred(t)' = {}
      BY <1>11, <3>1, <3>2 DEF Deferred
    <3>4. pinned'[t] = pinned[t]
      BY <1>0
    <3> QED BY <1>2, <1>3, <1>11, <3>2, <3>3, <3>4 DEF Holds
  <2>2. CASE p # "ready"
    <3>1. phase'[t] \in {"open", "failed"} /\ refs'[t] = refs[t] /\ pinned'[t] = pinned[t]
      BY <1>0, <1>3, <2>2
    <3> QED BY <1>2, <1>3, <1>11, <3>1 DEF Holds
  <2> QED BY <2>1, <2>2
<1>16. ASSUME NEW o \in Inputs(t), ~Doubtful(o)', ~peek
       PROVE  /\ o \in DOMAIN answer[t] => answer[t][o] = chain[o]
              /\ o \notin pinned[t] => looked[t][o] \in {NoRef, chain[o]}
  <2>1. ~Doubtful(o)
    BY <1>4, <1>8, <1>14, <1>16 DEF Doubtful
  <2> QED BY <1>0, <1>16, <2>1 DEF VersionsInv, HeldCurrent
<1>17. HeldCurrent(t)'
  <2>1. CASE p = "ready"
    <3> SUFFICES ASSUME NEW o \in Inputs(t), ~Doubtful(o)', o \notin pinned[t]
                 PROVE  refs'[t][o] = chain'[o]
      BY <1>0, <1>3, <1>11, <2>1 DEF HeldCurrent
    <3>1. refs'[t] = Resolved(t) /\ full /\ ~peek
      BY <1>3, <2>1
    <3>2. o \notin DOMAIN answer[t] => looked[t][o] # NoRef
      BY <1>2, <3>1 DEF Asked
    <3>3. Resolved(t)[o] = chain[o]
      BY <1>5, <1>16, <3>1, <3>2
    <3> QED BY <1>0, <3>1, <3>3
  <2>2. CASE p # "ready"
    <3>1. phase'[t] \in {"open", "failed"}
      BY <1>3, <2>2
    <3> QED BY <3>1 DEF HeldCurrent
  <2> QED BY <2>1, <2>2
<1>18. \A u \in Txns : Holds(u)' /\ HeldCurrent(u)'
  BY <1>10, <1>13, <1>15, <1>17, OthersHold
<1>19. ASSUME NEW o \in Objects PROVE CacheCurrent(o)'
  <2>0. \A u \in SentWith(o) : u \in SentWith(o)' /\ refs'[u] = refs[u]
    BY <1>0, <1>3 DEF SentWith, Inputs
  <2>1. CASE \A j \in Caches : GetObject(cache'[j], o) \in {NoRef, GetObject(cache[j], o)}
    BY <1>13, <1>14, <2>0, <2>1, EntryKept
  <2>2. CASE o \in DOMAIN answer[t]
    <3> SUFFICES ASSUME ~Doubtful(o)', ~Changing(o)', NEW j \in Caches
                 PROVE  GetObject(cache'[j], o) \in {NoRef, chain[o]}
      BY <1>0 DEF CacheCurrent
    <3>1. ~Doubtful(o)
      BY <1>8, <1>14 DEF Doubtful
    <3>2. ~Changing(o)
      BY <1>0, <2>0 DEF Changing
    <3>3. GetObject(cache[j], o) \in {NoRef, chain[o]}
      BY <3>1, <3>2 DEF VersionsInv, CacheCurrent
    <3>4. answer[t][o] = chain[o]
      <4>1. CASE peek
        <5>1. o \notin late
          BY <1>0, <4>1 DEF Doubtful
        <5> QED BY <2>2, <5>1
      <4>2. CASE ~peek
        BY <1>4, <1>16, <2>2, <4>2
      <4> QED BY <4>1, <4>2
    <3> QED BY <1>7, <3>3, <3>4
  <2> QED BY <1>7, <2>1, <2>2
<1>20. TaskCaches'
  <2> SUFFICES ASSUME NEW j \in Caches, NEW o \in Objects, GetObject(cache'[j], o) # NoRef
               PROVE  IF mode = "serial" THEN j = "executor"
                      ELSE j \in Txns /\ phase'[j] \in {"ready", "sent"} /\ o \in Inputs(j)'
    BY <1>0 DEF TaskCaches
  <2>0. CASE mode = "serial"
    <3>1. k = "executor"
      BY <2>0 DEF CacheOf
    <3> QED BY <1>7, <2>0, <3>1 DEF VersionsInv, TaskCaches
  <2> SUFFICES ASSUME mode # "serial"
               PROVE  j \in Txns /\ phase'[j] \in {"ready", "sent"} /\ o \in Inputs(j)'
    BY <2>0
  <2>1. CASE GetObject(cache'[j], o) = GetObject(cache[j], o)
    <3>1. j \in Txns /\ phase[j] \in {"ready", "sent"} /\ o \in Inputs(j)
      BY <2>1 DEF VersionsInv, TaskCaches
    <3>2. j # t
      BY <1>0, <3>1
    <3> QED BY <1>3, <3>1, <3>2 DEF Inputs
  <2>2. CASE j = k /\ ~drop /\ o \in DOMAIN answer[t]
    <3>1. k = t
      BY DEF CacheOf
    <3>2. p = "ready"
      BY <2>2 DEF VersionsInv, Holds, TypeOK
    <3> QED BY <1>3, <1>4, <1>11, <2>2, <3>1, <3>2
  <2> QED BY <1>7, <2>1, <2>2
<1> QED BY <1>9, <1>12, <1>18, <1>19, <1>20 DEF VersionsInv

-----------------------------------------------------------------------------
(***************************************************************************)
(* The node executes t: its inputs change, and t knows what they become.   *)
(***************************************************************************)
LEMMA OutcomeKinds ==
  ASSUME TypeOK, NEW o \in Objects, NEW v \in Nat \ {0}, NEW r \in Outcomes(o, v)
  PROVE  /\ r \in RefOrNone
         /\ r.kind = "shared" => chain[o].kind = "owned" \/ r = chain[o]
BY DEF TypeOK, Outcomes, RefOrNone, Ref, NoRef

LEMMA ExecuteStep ==
  ASSUME VersionsInv, NEW t \in Txns, Execute(t)
  PROVE  VersionsInv'
<1> DEFINE v == NextVer(t)
<1>0. /\ phase[t] = "ready" /\ IsCurrent(t) /\ v <= MaxVer
      /\ lamport' = [o \in Objects |-> IF o \in Inputs(t) THEN v ELSE lamport[o]]
      /\ phase' = [phase EXCEPT ![t] = "sent"]
      /\ UNCHANGED <<mode, refs, pinned, queue, looked, cache, registry, unseen>>
  BY DEF Execute, Move
<1>1. PICK eff \in [Inputs(t) -> UNION {Outcomes(o, v) : o \in Inputs(t)}] :
        /\ \A o \in Inputs(t) : eff[o] \in Outcomes(o, v)
        /\ chain' = [o \in Objects |-> IF o \in Inputs(t) THEN eff[o] ELSE chain[o]]
        /\ answer' = [answer EXCEPT ![t] = eff]
  BY DEF Execute
<1>2. /\ phase \in [Txns -> Phases] /\ "sent" \in Phases /\ DOMAIN answer = Txns
      /\ Inputs(t) \subseteq Objects /\ chain \in [Objects -> RefOrNone]
      /\ lamport \in [Objects -> 1..MaxVer]
  BY DEF VersionsInv, TypeOK, Phases, Inputs, References
<1>3. Inputs(t) # {} => v \in 1..MaxVer
  <2>1. MaxVer \in Nat
    BY VersionsAssumption
  <2> SUFFICES ASSUME Inputs(t) # {} PROVE v \in 1..MaxVer
    OBVIOUS
  <2>2. Newest(Inputs(t)) \in 1..MaxVer
    BY <1>2, NewestIsVersion DEF VersionsInv
  <2> QED BY <1>0, <2>1, <2>2 DEF NextVer
<1>4. \A o \in Inputs(t) :
        /\ eff[o] \in RefOrNone
        /\ eff[o].kind = "shared" => chain[o].kind = "owned" \/ eff[o] = chain[o]
  <2> SUFFICES ASSUME NEW o \in Inputs(t)
               PROVE  /\ eff[o] \in RefOrNone
                      /\ eff[o].kind = "shared" => chain[o].kind = "owned" \/ eff[o] = chain[o]
    OBVIOUS
  <2>1. v \in Nat \ {0}
    BY <1>3, VersionsAssumption
  <2> HIDE DEF v
  <2> QED BY <1>1, <1>2, <2>1, OutcomeKinds DEF VersionsInv
<1>5. DOMAIN eff = Inputs(t) /\ References(eff)
  BY <1>1, <1>2, <1>4 DEF References
<1> HIDE DEF v
<1>6. /\ chain' \in [Objects -> RefOrNone]
      /\ \A o \in Inputs(t) : chain'[o] = eff[o]
      /\ \A o \in Objects \ Inputs(t) : chain'[o] = chain[o]
  BY <1>1, <1>2, <1>4
<1>7. lamport' \in [Objects -> 1..MaxVer]
  BY <1>0, <1>2, <1>3
<1>8. /\ phase' \in [Txns -> Phases] /\ phase'[t] = "sent"
      /\ DOMAIN answer' = Txns /\ answer'[t] = eff
      /\ \A u \in Txns \ {t} : phase'[u] = phase[u] /\ answer'[u] = answer[u]
  BY <1>0, <1>1, <1>2
<1>9. TypeOK'
  <2>1. \A u \in Txns : References(answer'[u])
    BY <1>5, <1>8 DEF VersionsInv, TypeOK
  <2> QED BY <1>0, <1>6, <1>7, <1>8, <2>1 DEF VersionsInv, TypeOK
<1>10. OthersAlone(t)
  BY <1>0, <1>8 DEF OthersAlone
<1>11. Inputs(t)' = Inputs(t) /\ \A o \in Inputs(t) : refs[t][o] = chain[o]
  BY <1>0 DEF Inputs, IsCurrent
<1>12. QueuedOnce' /\ InputsApart'
  <2>1. InFlight(t)' => InFlight(t) /\ Inputs(t)' \subseteq Inputs(t)
    BY <1>0, <1>11 DEF InFlight
  <2> QED BY <1>0, <1>10, <2>1, OneLands, QueueStays
<1>13. InFlight(t) /\ \A o \in Objects : ChainStill(o) \/ o \in Inputs(t)
  BY <1>0, <1>6 DEF ChainStill, InFlight
<1>14. Holds(t)'
  <2>1. pinned[t] \subseteq Inputs(t) /\ Deferred(t) = {}
    BY <1>0 DEF VersionsInv, Holds
  <2>2. Deferred(t)' = {} /\ refs'[t] = refs[t] /\ pinned'[t] = pinned[t]
    BY <1>0, <1>11, <2>1 DEF Deferred
  <2>3. \A o \in Inputs(t) : eff[o].kind = "shared" =>
          refs[t][o].kind = "owned" \/ eff[o] = refs[t][o]
    BY <1>4, <1>11
  <2> QED BY <1>5, <1>8, <1>11, <2>1, <2>2, <2>3 DEF Holds
<1>15. HeldCurrent(t)'
  BY <1>6, <1>8, <1>11 DEF HeldCurrent
<1>16. \A u \in Txns : Holds(u)' /\ HeldCurrent(u)'
  BY <1>10, <1>13, <1>14, <1>15, OthersHold
<1>17. ASSUME NEW o \in Objects PROVE CacheCurrent(o)'
  <2>0. /\ \A u \in SentWith(o) : u \in SentWith(o)' /\ refs'[u] = refs[u]
        /\ Unguarded(o) => Unguarded(o)'
    BY <1>0, <1>8 DEF SentWith, Inputs, Unguarded
  <2>1. CASE ChainStill(o)
    BY <1>0, <2>0, <2>1, EntryKept
  <2>2. CASE o \in Inputs(t) /\ chain'[o] # chain[o]
    <3>1. t \in SentWith(o)' /\ refs'[t][o] # chain'[o]
      BY <1>0, <1>8, <1>11, <2>2 DEF SentWith
    <3> QED BY <3>1 DEF CacheCurrent, Changing
  <2>3. CASE chain'[o] = chain[o]
    BY <1>0, <2>1, <2>3 DEF ChainStill
  <2> QED BY <1>13, <2>1, <2>2, <2>3
<1>18. TaskCaches'
  BY <1>0, <1>8 DEF VersionsInv, TaskCaches, Inputs
<1> QED BY <1>9, <1>12, <1>16, <1>17, <1>18 DEF VersionsInv

-----------------------------------------------------------------------------
(***************************************************************************)
(* The reply arrives, or is lost.                                          *)
(***************************************************************************)
LEMMA DroppedTyped ==
  ASSUME TypeOK, NEW r, NEW added, NEW ts
  PROVE  DroppedInFlight(r, added, ts) \subseteq Objects
BY DEF DroppedInFlight, SentWith, TypeOK, References, Inputs

LEMMA ReplyStep ==
  ASSUME VersionsInv, NEW t \in Txns, Reply(t)
  PROVE  VersionsInv'
<1> DEFINE k == CacheOf(t)
           eff == answer[t]
           c == ApplyEffects(cache[k], eff)
           told == {o \in Inputs(t) : Tells(eff, o)}
           synced == IF mode = "parallel" THEN {e.id : e \in SyncEntries(c)} ELSE {}
           more == DroppedInFlight(registry', synced, {t}) \union Crowded(synced)
<1>0. /\ phase[t] = "sent"
      /\ cache' = [cache EXCEPT ![k] = IF mode = "serial" THEN c ELSE EmptyCache]
      /\ unseen' = ((unseen \ told) \union NewlyShared(t)) \union more
      /\ answer' = [answer EXCEPT ![t] = Nothing]
      /\ phase' = [phase EXCEPT ![t] = "done"]
      /\ UNCHANGED <<mode, chain, lamport, refs, pinned, queue, looked>>
  BY DEF Reply, Move
<1>1. more \subseteq Objects
  <2>1. synced \subseteq Objects
    BY DEF SyncEntries, Entry
  <2> HIDE DEF synced
  <2>2. Crowded(synced) \subseteq Objects
    BY <2>1 DEF Crowded
  <2> QED BY <2>2, DroppedTyped DEF VersionsInv
<1> HIDE DEF more, synced
<1>2. /\ phase \in [Txns -> Phases] /\ "done" \in Phases /\ DOMAIN answer = Txns
      /\ cache \in [Caches -> Cache] /\ k \in Caches /\ cache[k] \in Cache /\ References(eff)
      /\ Inputs(t) \subseteq Objects
  BY CacheTyped DEF VersionsInv, TypeOK, Phases, Cache, Inputs, References
<1>3. /\ pinned[t] \subseteq Inputs(t) /\ DOMAIN eff = Inputs(t)
      /\ \A o \in Inputs(t) : eff[o].kind = "shared" => refs[t][o].kind = "owned" \/ eff[o] = refs[t][o]
  BY <1>0 DEF VersionsInv, Holds
<1>4. /\ phase' \in [Txns -> Phases] /\ phase'[t] = "done"
      /\ DOMAIN answer' = Txns /\ answer'[t] = Nothing
      /\ \A u \in Txns \ {t} : phase'[u] = phase[u] /\ answer'[u] = answer[u]
  BY <1>0, <1>2
<1>5. /\ c \in Cache
      /\ \A o \in Objects \ Inputs(t) : GetObject(c, o) = GetObject(cache[k], o)
      /\ \A o \in Inputs(t) :
           \/ GetObject(c, o) = eff[o]
           \/ GetObject(c, o) = GetObject(cache[k], o) /\ eff[o].kind = "shared"
  BY <1>2, <1>3, EffectAnswers
<1> HIDE DEF c, k
<1>6. /\ cache'[k] = IF mode = "serial" THEN c ELSE EmptyCache
      /\ \A j \in Caches \ {k} : cache'[j] = cache[j]
      /\ cache' \in [Caches -> Cache]
  BY <1>0, <1>2, <1>5, EmptyAnswers
<1>7. \A o \in Objects : GetObject(cache'[k], o) = IF mode = "serial" THEN GetObject(c, o) ELSE NoRef
  BY <1>6, EmptyAnswers
<1>8. TypeOK'
  <2>1. References(Nothing)
    BY DEF References, Nothing
  <2>2. \A u \in Txns : References(answer'[u])
    BY <1>4, <2>1 DEF VersionsInv, TypeOK
  <2>3. unseen' \subseteq Objects
    BY <1>0, <1>1, <1>2 DEF VersionsInv, TypeOK, NewlyShared
  <2> QED BY <1>0, <1>4, <1>6, <2>2, <2>3 DEF VersionsInv, TypeOK, Cache
<1>9. OthersAlone(t)
  BY <1>0, <1>4 DEF OthersAlone
<1>10. Inputs(t)' = Inputs(t) /\ InFlight(t)
  BY <1>0 DEF Inputs, InFlight
<1>11. QueuedOnce' /\ InputsApart'
  BY <1>0, <1>9, <1>10, OneLands, QueueStays
<1>12. \A o \in Objects : ChainStill(o) \/ o \in Inputs(t)
  BY <1>0 DEF ChainStill
<1>13. Holds(t)' /\ HeldCurrent(t)'
  <2>1. pinned'[t] = pinned[t]
    BY <1>0
  <2> QED BY <1>3, <1>4, <1>10, <2>1 DEF Holds, HeldCurrent
<1>14. \A u \in Txns : Holds(u)' /\ HeldCurrent(u)'
  BY <1>9, <1>10, <1>12, <1>13, OthersHold
<1>15. \A o \in Objects : Unguarded(o)' = Unguarded(o)
  BY <1>0 DEF Unguarded
<1>16. ASSUME NEW o \in Inputs(t), ~Unguarded(o), NEW u \in Txns \ {t}, InFlight(u)
       PROVE  o \notin Inputs(u)
  BY <1>10, <1>16 DEF VersionsInv, InputsApart
<1>17. ASSUME NEW o \in Inputs(t), ~Doubtful(o)', NEW j \in Caches
       PROVE  GetObject(cache'[j], o) \in {NoRef, chain[o]}
  <2>0. o \in Objects /\ ~Unguarded(o) /\ o \notin unseen'
    BY <1>2, <1>15, <1>17 DEF Doubtful
  <2>1. eff[o] = chain[o]
    <3> SUFFICES ASSUME eff[o] # chain[o] PROVE FALSE
      OBVIOUS
    <3>1. o \notin told
      BY DEF Tells
    <3>2. ~Doubtful(o)
      BY <1>0, <2>0, <3>1 DEF Doubtful
    <3> QED BY <1>0, <3>2 DEF VersionsInv, HeldCurrent
  <2>2. CASE eff[o].kind # "shared"
    <3>1. GetObject(cache'[k], o) \in {NoRef, chain[o]}
      BY <1>5, <1>7, <2>0, <2>1, <2>2
    <3>2. CASE j # k
      <4>1. GetObject(cache'[j], o) = GetObject(cache[j], o)
        BY <1>6, <3>2
      <4>2. GetObject(cache[j], o) = NoRef
        <5>1. CASE mode = "serial"
          BY <2>0, <3>2, <5>1 DEF VersionsInv, TaskCaches, k, CacheOf
        <5>2. CASE mode # "serial"
          <6> SUFFICES ASSUME GetObject(cache[j], o) # NoRef PROVE FALSE
            OBVIOUS
          <6>1. j \in Txns /\ phase[j] \in {"ready", "sent"} /\ o \in Inputs(j)
            BY <2>0, <5>2 DEF VersionsInv, TaskCaches
          <6>2. j # t
            BY <3>2, <5>2 DEF k, CacheOf
          <6> QED BY <1>16, <2>0, <6>1, <6>2 DEF InFlight
        <5> QED BY <5>1, <5>2
      <4> QED BY <4>1, <4>2
    <3> QED BY <3>1, <3>2
  <2>3. CASE eff[o].kind = "shared"
    <3>1. o \notin told
      BY <2>3 DEF Tells, NoRef
    <3>2. refs[t][o] = chain[o]
      <4>1. refs[t][o].kind # "owned"
        BY <1>0, <2>0, <2>3 DEF NewlyShared
      <4> QED BY <1>3, <2>1, <2>3, <4>1
    <3>3. ~Doubtful(o)
      BY <1>0, <2>0, <3>1 DEF Doubtful
    <3>4. ~Changing(o)
      BY <1>16, <2>0, <3>2 DEF Changing, SentWith, InFlight
    <3>5. \A i \in Caches : GetObject(cache[i], o) \in {NoRef, chain[o]}
      BY <2>0, <3>3, <3>4 DEF VersionsInv, CacheCurrent
    <3>6. CASE j = k
      BY <1>2, <1>5, <1>7, <2>0, <2>1, <3>5, <3>6
    <3>7. CASE j # k
      BY <1>6, <3>5, <3>7
    <3> QED BY <3>6, <3>7
  <2> QED BY <2>2, <2>3
<1>18. ASSUME NEW o \in Objects PROVE CacheCurrent(o)'
  <2>1. CASE o \in Inputs(t)
    BY <1>0, <1>17, <2>1 DEF CacheCurrent
  <2>2. CASE o \notin Inputs(t)
    <3>1. \A u \in SentWith(o) : u \in SentWith(o)' /\ refs'[u] = refs[u]
      BY <1>0, <1>4, <2>2 DEF SentWith, Inputs
    <3>2. \A j \in Caches : GetObject(cache'[j], o) \in {NoRef, GetObject(cache[j], o)}
      BY <1>5, <1>6, <1>7, <2>2
    <3>3. ChainStill(o)
      BY <1>12, <2>2
    <3> QED BY <1>15, <3>1, <3>2, <3>3, EntryKept
  <2> QED BY <2>1, <2>2
<1>19. TaskCaches'
  <2> SUFFICES ASSUME NEW j \in Caches, NEW o \in Objects, GetObject(cache'[j], o) # NoRef
               PROVE  IF mode = "serial" THEN j = "executor"
                      ELSE j \in Txns /\ phase'[j] \in {"ready", "sent"} /\ o \in Inputs(j)'
    BY <1>0 DEF TaskCaches
  <2>1. CASE j = k
    BY <1>7, <2>1 DEF k, CacheOf
  <2>2. CASE j # k
    <3>1. GetObject(cache[j], o) # NoRef
      BY <1>6, <2>2
    <3>2. CASE mode = "serial"
      BY <3>1, <3>2 DEF VersionsInv, TaskCaches
    <3>3. CASE mode # "serial"
      <4>1. j \in Txns /\ phase[j] \in {"ready", "sent"} /\ o \in Inputs(j)
        BY <3>1, <3>3 DEF VersionsInv, TaskCaches
      <4>2. j # t
        BY <2>2, <3>3 DEF k, CacheOf
      <4> QED BY <1>0, <1>4, <3>3, <4>1, <4>2 DEF Inputs
    <3> QED BY <3>2, <3>3
  <2> QED BY <2>1, <2>2
<1> QED BY <1>8, <1>11, <1>14, <1>18, <1>19 DEF VersionsInv

LEMMA LoseReplyStep ==
  ASSUME VersionsInv, NEW t \in Txns, LoseReply(t)
  PROVE  VersionsInv'
<1>0. /\ phase[t] = "sent" /\ unseen' = unseen \union Inputs(t) /\ cache' = Finished(t)
      /\ answer' = [answer EXCEPT ![t] = Nothing]
      /\ phase' = [phase EXCEPT ![t] = "failed"]
      /\ UNCHANGED <<mode, chain, lamport, refs, pinned, queue, looked, registry>>
  BY DEF LoseReply, Move
<1>1. /\ phase \in [Txns -> Phases] /\ "failed" \in Phases /\ DOMAIN answer = Txns
      /\ Inputs(t) \subseteq Objects
  BY DEF VersionsInv, TypeOK, Phases, Inputs, References
<1>2. /\ phase' \in [Txns -> Phases] /\ phase'[t] = "failed"
      /\ DOMAIN answer' = Txns /\ answer'[t] = Nothing
      /\ \A u \in Txns \ {t} : phase'[u] = phase[u] /\ answer'[u] = answer[u]
  BY <1>0, <1>1
<1>3. /\ cache' \in [Caches -> Cache]
      /\ \A k \in Caches, o \in Objects :
           GetObject(cache'[k], o) \in {NoRef, GetObject(cache[k], o)}
      /\ mode = "parallel" => \A o \in Objects : GetObject(cache'[t], o) = NoRef
  BY <1>0, FinishedAnswers DEF VersionsInv
<1>4. TypeOK'
  <2>1. References(Nothing)
    BY DEF References, Nothing
  <2>2. \A u \in Txns : References(answer'[u])
    BY <1>2, <2>1 DEF VersionsInv, TypeOK
  <2> QED BY <1>0, <1>1, <1>2, <1>3, <2>2 DEF VersionsInv, TypeOK, Cache
<1>5. OthersAlone(t) /\ \A o \in Objects : ChainStill(o)
  BY <1>0, <1>2 DEF OthersAlone, ChainStill
<1>6. QueuedOnce' /\ InputsApart'
  <2>1. ~InFlight(t)'
    BY <1>2 DEF InFlight
  <2> QED BY <1>0, <1>5, <2>1, OneLands, QueueStays
<1>7. Holds(t)' /\ HeldCurrent(t)'
  <2>1. pinned'[t] = pinned[t] /\ Inputs(t)' = Inputs(t) /\ pinned[t] \subseteq Inputs(t)
    BY <1>0 DEF Inputs, VersionsInv, Holds
  <2> QED BY <1>2, <2>1 DEF Holds, HeldCurrent
<1>8. \A u \in Txns : Holds(u)' /\ HeldCurrent(u)'
  BY <1>5, <1>7, OthersHold
<1>9. ASSUME NEW o \in Objects PROVE CacheCurrent(o)'
  <2>1. CASE o \in Inputs(t)
    BY <1>0, <2>1 DEF CacheCurrent, Doubtful
  <2>2. CASE o \notin Inputs(t)
    <3>1. \A u \in SentWith(o) : u \in SentWith(o)' /\ refs'[u] = refs[u]
      BY <1>0, <1>2, <2>2 DEF SentWith, Inputs
    <3>2. Unguarded(o) => Unguarded(o)'
      BY <1>0 DEF Unguarded
    <3> QED BY <1>3, <1>5, <3>1, <3>2, EntryKept
  <2> QED BY <2>1, <2>2
<1>10. TaskCaches'
  <2>1. ASSUME NEW j \in Txns, NEW o \in Objects, mode = "parallel",
               phase[j] \in {"ready", "sent"}, o \in Inputs(j), GetObject(cache'[j], o) # NoRef
        PROVE  phase'[j] \in {"ready", "sent"} /\ o \in Inputs(j)'
    <3>1. j # t
      BY <1>3, <2>1
    <3> QED BY <1>0, <1>2, <2>1, <3>1 DEF Inputs
  <2> QED BY <1>0, <1>3, <2>1, CachesKept
<1> QED BY <1>4, <1>6, <1>8, <1>9, <1>10 DEF VersionsInv

-----------------------------------------------------------------------------
(***************************************************************************)
(* Steps of others than the transactions of the executor.                  *)
(***************************************************************************)
LEMMA OutsideStep ==
  ASSUME VersionsInv, TypeOK', \A o \in Objects : ChainStill(o),
         UNCHANGED <<mode, refs, pinned, phase, queue, looked, answer, cache>>
  PROVE  VersionsInv'
<1>1. \A o \in Objects : /\ Unguarded(o)' = Unguarded(o)
                         /\ \A u \in SentWith(o) : u \in SentWith(o)' /\ refs'[u] = refs[u]
  BY DEF Unguarded, SentWith, Inputs
<1>2. \A o \in Objects : ~Doubtful(o)' => ~Doubtful(o) /\ chain'[o] = chain[o]
  BY <1>1 DEF ChainStill, Doubtful
<1>3. ASSUME NEW t \in Txns PROVE Holds(t)' /\ HeldCurrent(t)'
  <2>1. Holds(t)'
    BY DEF VersionsInv, Holds, Inputs, Asked, Deferred
  <2>2. Inputs(t)' = Inputs(t) /\ Inputs(t) \subseteq Objects
    BY DEF VersionsInv, TypeOK, References, Inputs
  <2>3. HeldCurrent(t)'
    BY <1>2, <2>2 DEF VersionsInv, HeldCurrent
  <2> QED BY <2>1, <2>3
<1>4. InputsApart'
  <2>1. NoneTakesOff
    BY DEF NoneTakesOff, InFlight, Inputs
  <2> QED BY <2>1, ApartKept
<1>5. QueuedOnce' /\ TaskCaches'
  BY DEF VersionsInv, QueuedOnce, TaskCaches, Inputs
<1>6. \A o \in Objects : CacheCurrent(o)'
  BY <1>1, EntryKept
<1> QED BY <1>3, <1>4, <1>5, <1>6 DEF VersionsInv

LEMMA ForeignStep ==
  ASSUME VersionsInv, NEW o \in Objects, Foreign(o)
  PROVE  VersionsInv'
<1>0. /\ chain[o].kind = "owned" /\ lamport[o] < MaxVer
      /\ lamport' = [lamport EXCEPT ![o] = lamport[o] + 1]
      /\ chain' = [chain EXCEPT ![o].ver = lamport[o] + 1]
      /\ unseen' = unseen \union {o}
      /\ UNCHANGED <<mode, refs, pinned, phase, queue, looked, answer, cache, registry>>
  BY DEF Foreign
<1>1. /\ chain \in [Objects -> RefOrNone] /\ lamport \in [Objects -> 1..MaxVer] /\ MaxVer \in Nat
  BY VersionsAssumption DEF VersionsInv, TypeOK
<1>2. lamport[o] + 1 \in 1..MaxVer
  BY <1>0, <1>1
<1>3. lamport' \in [Objects -> 1..MaxVer]
  BY <1>0, <1>1, <1>2
<1>4. chain[o] \in [kind : {"owned", "shared"}, ver : Nat \ {0}]
  BY <1>0, <1>1 DEF RefOrNone, Ref, NoRef
<1>5. [chain[o] EXCEPT !.ver = lamport[o] + 1] \in RefOrNone
  <2>1. lamport[o] + 1 \in Nat \ {0}
    BY <1>1, <1>2
  <2> QED BY <1>4, <2>1 DEF RefOrNone, Ref
<1>6. chain' = [chain EXCEPT ![o] = [chain[o] EXCEPT !.ver = lamport[o] + 1]]
  BY <1>0
<1>7. chain' \in [Objects -> RefOrNone] /\ \A p \in Objects \ {o} : chain'[p] = chain[p]
  BY <1>1, <1>5, <1>6
<1>8. TypeOK'
  BY <1>0, <1>3, <1>7 DEF VersionsInv, TypeOK
<1>9. \A p \in Objects : ChainStill(p)
  BY <1>0, <1>7 DEF ChainStill
<1> QED BY <1>0, <1>8, <1>9, OutsideStep

LEMMA RegistryStays ==
  ASSUME VersionsInv, NEW r, RegistryStep(r)
  PROVE  VersionsInv'
<1>0. /\ unseen' = unseen \union DroppedInFlight(r, {}, {})
      /\ UNCHANGED <<mode, chain, lamport, refs, pinned, phase, queue, looked, answer, cache>>
  BY DEF RegistryStep
<1>1. TypeOK'
  BY <1>0, DroppedTyped DEF VersionsInv, TypeOK
<1>2. \A o \in Objects : ChainStill(o)
  BY <1>0 DEF ChainStill
<1> QED BY <1>0, <1>1, <1>2, OutsideStep

-----------------------------------------------------------------------------
LEMMA InitVersions ==
  Init => VersionsInv
<1> SUFFICES ASSUME Init PROVE VersionsInv
  OBVIOUS
<1>1. /\ mode \in Modes
      /\ chain = [o \in Objects |-> [kind |-> "owned", ver |-> FirstVer]]
      /\ lamport = [o \in Objects |-> FirstVer]
      /\ refs = [t \in Txns |-> Nothing] /\ pinned = [t \in Txns |-> {}]
      /\ phase = [t \in Txns |-> "open"] /\ queue = <<>>
      /\ looked = [t \in Txns |-> Nothing] /\ answer = [t \in Txns |-> Nothing]
      /\ cache = [k \in Caches |-> EmptyCache] /\ unseen = {}
  BY DEF Init
<1>2. References(Nothing) /\ DOMAIN Nothing = {}
  BY DEF References, Nothing
<1>3. FirstVer \in 1..MaxVer /\ FirstVer \in Nat \ {0} /\ mode \in {"serial", "parallel"}
  BY <1>1, VersionsAssumption
<1>4. TypeOK
  <2>1. chain \in [Objects -> RefOrNone] /\ lamport \in [Objects -> 1..MaxVer]
    BY <1>1, <1>3 DEF RefOrNone, Ref
  <2>2. cache \in [Caches -> [owned : [Objects -> Nat], shared : [Objects -> Nat]]]
    BY <1>1, EmptyAnswers DEF Cache
  <2>3. phase \in [Txns -> Phases] /\ queue \in Seq(Txns) /\ pinned \in [Txns -> SUBSET Objects]
    BY <1>1 DEF Phases
  <2>4. /\ DOMAIN refs = Txns /\ DOMAIN looked = Txns /\ DOMAIN answer = Txns
        /\ \A t \in Txns : References(refs[t]) /\ References(looked[t]) /\ References(answer[t])
    BY <1>1, <1>2
  <2> QED BY <1>1, <1>3, <2>1, <2>2, <2>3, <2>4 DEF TypeOK
<1>5. QueuedOnce
  <2>1. Len(queue) = 0
    BY <1>1
  <2> QED BY <2>1 DEF QueuedOnce
<1>6. \A t \in Txns : Holds(t) /\ HeldCurrent(t) /\ ~InFlight(t)
  BY <1>1, <1>2 DEF Holds, HeldCurrent, InFlight, Inputs
<1>7. InputsApart
  BY <1>6 DEF InputsApart
<1>8. \A k \in Caches, o \in Objects : GetObject(cache[k], o) = NoRef
  BY <1>1, EmptyAnswers
<1>9. TaskCaches /\ \A o \in Objects : CacheCurrent(o)
  BY <1>8 DEF TaskCaches, CacheCurrent
<1> QED BY <1>4, <1>5, <1>6, <1>7, <1>9 DEF VersionsInv

LEMMA NextVersions ==
  VersionsInv /\ [Next]_vars => VersionsInv'
<1> SUFFICES ASSUME VersionsInv, [Next]_vars PROVE VersionsInv'
  OBVIOUS
<1>1. CASE UNCHANGED vars
  <2>1. TypeOK' /\ UNCHANGED <<mode, refs, pinned, phase, queue, looked, answer, cache>>
    BY <1>1 DEF VersionsInv, TypeOK, vars
  <2>2. \A o \in Objects : ChainStill(o)
    BY <1>1 DEF vars, ChainStill
  <2> QED BY <2>1, <2>2, OutsideStep
<1>2. CASE \E t \in Txns :
             \/ \E o \in Objects : NameById(t, o) \/ NameByReference(t, o)
             \/ Submit(t) \/ Begin(t) \/ Peek(t) \/ Answer(t) \/ NotFound(t) \/ Store(t)
             \/ Execute(t) \/ Refuse(t) \/ Reply(t) \/ LoseReply(t)
  BY <1>2, NameByIdStep, NameByReferenceStep, SubmitStep, BeginStep, PeekStep, AnswerStep,
     NotFoundStep, StoreStep, ExecuteStep, RefuseStep, ReplyStep, LoseReplyStep
<1>3. CASE \E o \in Objects : Foreign(o) \/ Tombstone(o) \/ Lookup(o) \/ Expiry(o) \/ Evict(o)
  BY <1>3, ForeignStep, RegistryStays DEF Tombstone, Lookup, Expiry, Evict
<1> QED BY <1>1, <1>2, <1>3 DEF Next

\* VersionsInv holds in every reachable state, whichever executor is in use.
THEOREM VersionsInvariance == Spec => []VersionsInv
BY InitVersions, NextVersions, PTL DEF Spec

\* The variables keep their types; versions stay within the bound.
THEOREM VersionsTypeCorrect == Spec => []TypeOK
<1>1. VersionsInv => TypeOK
  BY DEF VersionsInv
<1> QED BY <1>1, VersionsInvariance, PTL

\* What get_object() finds in a cache is what the chain has, up to the listed exceptions.
THEOREM CacheIsExact == Spec => []CacheExact
<1>1. VersionsInv => CacheExact
  <2> SUFFICES ASSUME VersionsInv, NEW k \in Caches, NEW o \in Objects,
                      o \notin unseen, SentWith(o) = {}, ~Unguarded(o)
               PROVE  GetObject(cache[k], o) \in {NoRef, chain[o]}
    BY DEF CacheExact
  <2>1. ~Doubtful(o) /\ ~Changing(o)
    BY DEF Doubtful, Changing
  <2> QED BY <2>1 DEF VersionsInv, CacheCurrent
<1> QED BY <1>1, VersionsInvariance, PTL

\* A reference that the build resolved is current when the transaction is executed.
THEOREM OnlyPinsAreStale == Spec => []OnlyPinsGoStale
<1>1. VersionsInv => OnlyPinsGoStale
  BY DEF VersionsInv, HeldCurrent, Doubtful, OnlyPinsGoStale
<1> QED BY <1>1, VersionsInvariance, PTL
-----------------------------------------------------------------------------
(***************************************************************************)
(* The registry: an entry for each object, found by its id.                *)
(***************************************************************************)
LEMMA RowFound ==
  ASSUME NEW r, OneEach(r)
  PROVE  /\ \A i \in DOMAIN r : /\ r[i].id \in Ids(r) /\ Place(r, r[i].id) = i
                                /\ At(r, r[i].id) = r[i]
         /\ \A o \in Ids(r) : /\ Place(r, o) \in DOMAIN r /\ r[Place(r, o)].id = o
                              /\ At(r, o) \in Entries /\ At(r, o).id = o
         /\ Ids(r) \subseteq Objects
<1>1. \A o \in Ids(r) : Place(r, o) \in DOMAIN r /\ r[Place(r, o)].id = o
  BY DEF Ids, Place
<1>2. \A i \in DOMAIN r : r[i].id \in Ids(r)
  BY DEF Ids
<1>3. \A i \in DOMAIN r : r[i] \in Entries
  BY DEF OneEach
<1>4. \A i \in DOMAIN r : Place(r, r[i].id) = i
  BY <1>1, <1>2 DEF OneEach
<1>5. \A i \in DOMAIN r : r[i].id \in Objects
  BY <1>3 DEF Entries
<1> QED BY <1>1, <1>2, <1>3, <1>4, <1>5 DEF At, Ids

\* s holds entries of r, and nothing else.
Within(s, r) ==
  OneEach(s) /\ \A o \in Ids(s) : o \in Ids(r) /\ At(s, o) = At(r, o)

\* s is a selection of the rows of r: the i-th of n is row f[i].
Selects(s, r, n, f) ==
  /\ n \in Nat /\ s \in Seq(Entries) /\ Len(s) = n
  /\ \A i \in 1..n : f[i] \in DOMAIN r /\ s[i] = r[f[i]]
  /\ \A i, j \in 1..n : f[i] = f[j] => i = j

LEMMA Selected ==
  ASSUME NEW r, OneEach(r), NEW n, NEW s, NEW f, Selects(s, r, n, f)
  PROVE  /\ Within(s, r)
         /\ \A o \in Ids(r) : (\E i \in 1..n : f[i] = Place(r, o)) => o \in Ids(s)
<1>0. /\ n \in Nat /\ s \in Seq(Entries) /\ Len(s) = n
      /\ \A i \in 1..n : f[i] \in DOMAIN r /\ s[i] = r[f[i]]
      /\ \A i, j \in 1..n : f[i] = f[j] => i = j
  BY DEF Selects
<1>1. DOMAIN s = 1..n
  BY <1>0
<1>2. OneEach(s)
  <2> SUFFICES ASSUME NEW i \in 1..n, NEW j \in 1..n, s[i].id = s[j].id
               PROVE  i = j
    BY <1>0, <1>1 DEF OneEach
  <2>1. f[i] = f[j]
    BY <1>0 DEF OneEach
  <2> QED BY <1>0, <2>1
<1>3. ASSUME NEW o \in Ids(s)
      PROVE  o \in Ids(r) /\ At(s, o) = At(r, o)
  <2>1. PICK i \in 1..n : s[i].id = o
    BY <1>1 DEF Ids
  <2>2. At(s, o) = s[i]
    BY <1>1, <1>2, <2>1, RowFound
  <2>3. r[f[i]].id \in Ids(r) /\ At(r, r[f[i]].id) = r[f[i]] /\ s[i] = r[f[i]]
    BY <1>0, RowFound
  <2> QED BY <2>1, <2>2, <2>3
<1>4. ASSUME NEW o \in Ids(r), NEW i \in 1..n, f[i] = Place(r, o)
      PROVE  o \in Ids(s)
  <2>1. s[i].id = o
    BY <1>0, <1>4, RowFound
  <2> QED BY <1>1, <2>1 DEF Ids
<1> QED BY <1>2, <1>3, <1>4 DEF Within

LEMMA WithoutRow ==
  ASSUME NEW r, OneEach(r), NEW o
  PROVE  /\ Within(Without(r, o), r) /\ o \notin Ids(Without(r, o))
         /\ \A p \in Ids(r) : p # o => p \in Ids(Without(r, o))
<1>1. CASE o \notin Ids(r)
  BY <1>1 DEF Without, Within
<1>2. CASE o \in Ids(r)
  <2> DEFINE k == Place(r, o)
             s == RemoveAt(r, k)
             L == Len(r)
             n == L - 1
             f == [i \in 1..n |-> IF i < k THEN i ELSE i + 1]
  <2>1. k \in DOMAIN r /\ r[k].id = o /\ r \in Seq(Entries) /\ DOMAIN r = 1..L /\ L \in Nat
    BY <1>2, RowFound DEF OneEach
  <2> HIDE DEF k, L
  <2>2. /\ s \in Seq(Entries) /\ Len(s) = n
        /\ \A i \in 1..n : s[i] = r[IF i < k THEN i ELSE i + 1]
    BY <2>1, RemovedAt DEF L
  <2> HIDE DEF s
  <2>3. /\ n \in Nat /\ \A i \in 1..n : f[i] \in 1..L /\ f[i] # k /\ s[i] = r[f[i]]
        /\ \A i, j \in 1..n : f[i] = f[j] => i = j
    BY <2>1, <2>2
  <2>4. \A j \in 1..L : j # k => \E i \in 1..n : f[i] = j
    <3> TAKE j \in 1..L
    <3>1. CASE j < k
      <4>1. j \in 1..n
        BY <2>1, <3>1
      <4> QED BY <3>1, <4>1
    <3>2. CASE j > k
      <4>1. j - 1 \in 1..n /\ ~(j - 1 < k) /\ j - 1 + 1 = j
        BY <2>1, <3>2
      <4> QED BY <4>1
    <3> QED BY <2>1, <3>1, <3>2
  <2> HIDE DEF f, n
  <2>5. /\ Within(s, r)
        /\ \A p \in Ids(r) : (\E i \in 1..n : f[i] = Place(r, p)) => p \in Ids(s)
    <3>1. Selects(s, r, n, f)
      BY <2>1, <2>2, <2>3 DEF Selects
    <3> QED BY <3>1, Selected
  <2>6. ASSUME NEW p \in Ids(r), p # o
        PROVE  p \in Ids(s)
    <3>1. Place(r, p) \in 1..L /\ Place(r, p) # k
      BY <2>1, <2>6, RowFound
    <3> QED BY <2>4, <2>5, <3>1
  <2>7. o \notin Ids(s)
    <3> SUFFICES ASSUME NEW i \in DOMAIN s, s[i].id = o PROVE FALSE
      BY DEF Ids
    <3>1. i \in 1..n
      BY <2>2
    <3>2. f[i] \in DOMAIN r /\ f[i] # k /\ r[f[i]].id = o
      BY <2>1, <2>3, <3>1
    <3> QED BY <2>1, <3>2 DEF OneEach
  <2> QED BY <1>2, <2>5, <2>6, <2>7 DEF Without, s, k
<1> QED BY <1>1, <1>2

LEMMA AppendRow ==
  ASSUME NEW r, OneEach(r), NEW e \in Entries, e.id \notin Ids(r)
  PROVE  /\ OneEach(Append(r, e)) /\ Ids(Append(r, e)) = Ids(r) \union {e.id}
         /\ At(Append(r, e), e.id) = e
         /\ \A o \in Ids(r) : At(Append(r, e), o) = At(r, o)
<1> DEFINE s == Append(r, e)
           n == Len(r)
<1>1. /\ s \in Seq(Entries) /\ DOMAIN r = 1..n /\ DOMAIN s = 1..(n + 1) /\ n \in Nat
      /\ \A i \in 1..n : s[i] = r[i]
      /\ s[n + 1] = e
  BY DEF OneEach
<1> HIDE DEF s, n
<1>2. /\ n + 1 \in 1..(n + 1) /\ \A i \in 1..n : i \in 1..(n + 1)
      /\ \A i \in 1..(n + 1) : i \in 1..n \/ i = n + 1
  BY <1>1
<1>3. Ids(s) = Ids(r) \union {e.id}
  BY <1>1, <1>2 DEF Ids
<1>4. \A i \in 1..n : r[i].id # e.id
  BY <1>1 DEF Ids
<1>5. OneEach(s)
  BY <1>1, <1>2, <1>4 DEF OneEach
<1>6. At(s, e.id) = e
  BY <1>1, <1>2, <1>5, RowFound
<1>7. ASSUME NEW o \in Ids(r)
      PROVE  At(s, o) = At(r, o)
  <2>1. PICK i \in 1..n : r[i].id = o
    BY <1>1 DEF Ids
  <2>2. At(r, o) = r[i]
    BY <1>1, <2>1, RowFound
  <2>3. i \in DOMAIN s /\ s[i] = r[i]
    BY <1>1, <1>2
  <2> QED BY <1>5, <2>1, <2>2, <2>3, RowFound
<1> QED BY <1>3, <1>5, <1>6, <1>7 DEF s

\* The bound drops the oldest entries, and the newest stays.
LEMMA BoundedRow ==
  ASSUME NEW r, OneEach(r)
  PROVE  /\ Within(Bounded(r), r)
         /\ Len(r) <= MaxEntries => Bounded(r) = r
         /\ r # <<>> => r[Len(r)].id \in Ids(Bounded(r))
<1> DEFINE L == Len(r)
           d == L - MaxEntries
<1>0. r \in Seq(Entries) /\ L \in Nat /\ DOMAIN r = 1..L /\ MaxEntries \in Nat /\ MaxEntries >= 1
  BY RegistryAssumption DEF OneEach
<1>1. CASE L <= MaxEntries
  <2>1. Bounded(r) = r
    BY <1>1 DEF Bounded
  <2>2. r # <<>> => r[L].id \in Ids(r)
    <3>1. r # <<>> => L \in 1..L
      BY <1>0
    <3> QED BY <1>0, <3>1 DEF Ids
  <2> QED BY <2>1, <2>2 DEF Within
<1>2. CASE ~(L <= MaxEntries)
  <2> DEFINE s == SubSeq(r, d + 1, L)
             f == [i \in 1..MaxEntries |-> d + i]
  <2>1. Bounded(r) = s
    BY <1>2 DEF Bounded
  <2>2. /\ s \in Seq(Entries) /\ Len(s) = MaxEntries
        /\ \A i \in 1..MaxEntries : s[i] = r[d + i]
    <3>1. s = [i \in 1..(1 + L - (d + 1)) |-> r[d + 1 + i - 1]]
      BY <1>0, Z3
    <3>2. /\ 1 + L - (d + 1) = MaxEntries
          /\ \A i \in 1..MaxEntries : d + 1 + i - 1 = d + i /\ d + i \in 1..L
      BY <1>0, <1>2
    <3>3. s = [i \in 1..MaxEntries |-> r[d + i]]
      BY <3>1, <3>2
    <3> DEFINE g == [i \in 1..MaxEntries |-> r[d + i]]
    <3>4. g \in [1..MaxEntries -> Entries] /\ \A i \in 1..MaxEntries : g[i] = r[d + i]
      BY <1>0, <3>2
    <3> HIDE DEF g, d, L, s
    <3>5. g \in Seq(Entries) /\ Len(g) = MaxEntries
      BY <1>0, <3>4, AsSequence
    <3> QED BY <3>3, <3>4, <3>5 DEF g
  <2>3. /\ \A i \in 1..MaxEntries : f[i] \in DOMAIN r /\ s[i] = r[f[i]]
        /\ \A i, j \in 1..MaxEntries : f[i] = f[j] => i = j
        /\ MaxEntries \in 1..MaxEntries /\ f[MaxEntries] = L
    <3> HIDE DEF s
    <3> QED BY <1>0, <1>2, <2>2
  <2> HIDE DEF f, s
  <2>4. /\ Within(s, r)
        /\ \A o \in Ids(r) : (\E i \in 1..MaxEntries : f[i] = Place(r, o)) => o \in Ids(s)
    <3>1. Selects(s, r, MaxEntries, f)
      BY <1>0, <2>2, <2>3 DEF Selects
    <3> QED BY <3>1, Selected
  <2>5. r[L].id \in Ids(s)
    <3>1. L \in DOMAIN r
      BY <1>0, <1>2
    <3>2. r[L].id \in Ids(r) /\ Place(r, r[L].id) = L
      BY <3>1, RowFound
    <3> QED BY <2>3, <2>4, <3>2
  <2> QED BY <1>2, <2>1, <2>4, <2>5
<1> QED BY <1>1, <1>2

LEMMA AsManyAsIds ==
  ASSUME NEW r, OneEach(r), NEW U, IsFiniteSet(U), Ids(r) \subseteq U
  PROVE  Len(r) <= Cardinality(U) /\ Len(r) \in Nat
<1> DEFINE f == [i \in 1..Len(r) |-> r[i].id]
<1>1. r \in Seq(Entries) /\ DOMAIN r = 1..Len(r) /\ Len(r) \in Nat
  BY DEF OneEach
<1>2. f \in Injection(1..Len(r), U)
  <2>1. \A i \in 1..Len(r) : f[i] \in U
    BY <1>1 DEF Ids
  <2>2. \A i, j \in 1..Len(r) : f[i] = f[j] => i = j
    BY <1>1 DEF OneEach
  <2> QED BY <2>1, <2>2 DEF Injection, IsInjective
<1> HIDE DEF f
<1>3. Cardinality(1..Len(r)) <= Cardinality(U)
  BY <1>2, FS_Injection
<1>4. Cardinality(1..Len(r)) = Len(r)
  <2>1. 1 \in Int /\ Len(r) \in Int
    BY <1>1
  <2>2. Cardinality(1..Len(r)) = IF 1 > Len(r) THEN 0 ELSE Len(r) - 1 + 1
    BY <2>1, FS_Interval
  <2> QED BY <1>1, <2>2
<1> QED BY <1>1, <1>3, <1>4

\* What _upsert_unlocked() leaves: the entry, unless a later one was there.
LEMMA UpsertRow ==
  ASSUME NEW r, OneEach(r), NEW e \in Entries
  PROVE  /\ OneEach(Upsert(r, e))
         /\ \A o \in Ids(Upsert(r, e)) : o # e.id => o \in Ids(r) /\ At(Upsert(r, e), o) = At(r, o)
         /\ e.id \in Ids(Upsert(r, e))
         /\ At(Upsert(r, e), e.id) = IF Stale(r, e) THEN At(r, e.id) ELSE e
         /\ \A U : IsFiniteSet(U) /\ Ids(r) \union {e.id} \subseteq U /\ Cardinality(U) <= MaxEntries
                     => Ids(Upsert(r, e)) = Ids(r) \union {e.id}
<1>1. CASE Stale(r, e)
  BY <1>1 DEF Upsert, Stale
<1>2. CASE ~Stale(r, e)
  <2> DEFINE w == Without(r, e.id)
             a == Append(w, e)
             s == Bounded(a)
  <2>0. Upsert(r, e) = s
    BY <1>2 DEF Upsert
  <2>1. /\ OneEach(w) /\ e.id \notin Ids(w)
        /\ \A o \in Ids(w) : o \in Ids(r) /\ At(w, o) = At(r, o)
        /\ \A o \in Ids(r) : o # e.id => o \in Ids(w)
    BY WithoutRow DEF Within
  <2> HIDE DEF w
  <2>2. /\ OneEach(a) /\ Ids(a) = Ids(w) \union {e.id} /\ At(a, e.id) = e
        /\ \A o \in Ids(w) : At(a, o) = At(w, o)
    BY <2>1, AppendRow
  <2>3. a # <<>> /\ a[Len(a)] = e
    <3>1. w \in Seq(Entries)
      BY <2>1 DEF OneEach
    <3> QED BY <3>1
  <2> HIDE DEF a
  <2>4. /\ OneEach(s) /\ \A o \in Ids(s) : o \in Ids(a) /\ At(s, o) = At(a, o)
        /\ Len(a) <= MaxEntries => s = a
        /\ e.id \in Ids(s)
    BY <2>2, <2>3, BoundedRow DEF Within
  <2> HIDE DEF s
  <2>5. ASSUME NEW U, IsFiniteSet(U), Ids(r) \union {e.id} \subseteq U, Cardinality(U) <= MaxEntries
        PROVE  Ids(s) = Ids(r) \union {e.id}
    <3>1. Ids(a) = Ids(r) \union {e.id}
      BY <2>1, <2>2
    <3>2. Len(a) <= Cardinality(U) /\ Len(a) \in Nat
      BY <2>2, <2>5, <3>1, AsManyAsIds
    <3>3. Cardinality(U) \in Nat /\ MaxEntries \in Nat
      BY <2>5, FS_CardinalityType, RegistryAssumption
    <3>4. Len(a) <= MaxEntries
      BY <2>5, <3>2, <3>3
    <3> QED BY <2>4, <3>1, <3>4
  <2> QED BY <1>2, <2>0, <2>1, <2>2, <2>4, <2>5
<1> QED BY <1>1, <1>2

(***************************************************************************)
(* upsert_many() puts one entry after the other.                           *)
(***************************************************************************)
LEMMA ManyUnfolds ==
  ASSUME NEW r, NEW L \in Nat, NEW es, DOMAIN es = 1..L
  PROVE  \E g : /\ UpsertMany(r, es) = g[L] /\ g[0] = r
                /\ \A n \in 1..L : g[n] = Upsert(g[n - 1], es[n])
<1> DEFINE S == 1..L
           D(n) == {s \in SUBSET S : Cardinality(s) <= n}
           Unfolds(g, n) ==
             g = [s \in D(n) |-> IF s = {} THEN r ELSE Upsert(g[s \ {Max(s)}], es[Max(s)])]
           bad == {n \in Nat : ~ \E g : Unfolds(g, n)}
<1>0. IsFiniteSet(S)
  BY FS_Interval
<1>1. \A s \in SUBSET S : IsFiniteSet(s) /\ Cardinality(s) \in Nat
  BY <1>0, FS_Subset, FS_CardinalityType
<1>2. ASSUME NEW s \in SUBSET S, s # {}
      PROVE  /\ s \ {Max(s)} \in SUBSET S /\ Cardinality(s) # 0
             /\ Cardinality(s \ {Max(s)}) = Cardinality(s) - 1
  <2>1. PICK m \in s : \A n \in s : n <= m
    <3>1. s \in SUBSET Nat /\ \A n \in s : n <= L
      BY <1>2
    <3> HIDE DEF S
    <3> QED BY <1>2, <3>1, LargestExists
  <2>2. \A n \in s : m >= n
    BY <1>2, <2>1
  <2>3. Max(s) \in s
    <3> HIDE DEF S
    <3> QED BY <2>2 DEF Max
  <2> HIDE DEF S
  <2> QED BY <1>1, <1>2, <2>3, FS_RemoveElement, FS_EmptySet
<1> HIDE DEF S
<1>3. bad = {}
  <2> SUFFICES ASSUME bad # {} PROVE FALSE
    OBVIOUS
  <2>1. PICK m \in bad : \A j \in bad : m <= j
    <3>1. bad \in SUBSET Nat
      OBVIOUS
    <3> HIDE DEF bad
    <3> QED BY <3>1, LeastExists
  <2>2. CASE m = 0
    <3> DEFINE g == [s \in D(0) |-> r]
    <3>1. \A s \in D(0) : s = {}
      BY <1>1, FS_EmptySet
    <3>2. Unfolds(g, 0)
      BY <3>1
    <3> QED BY <2>1, <2>2, <3>2
  <2>3. CASE m # 0
    <3>0. m \in Nat /\ \A j \in bad : j \in Nat /\ m <= j
      BY <2>1
    <3>1. m - 1 \in Nat /\ m \in Nat /\ m - 1 \notin bad
      <4> HIDE DEF bad
      <4> QED BY <2>3, <3>0
    <3>2. PICK g : Unfolds(g, m - 1)
      BY <3>1
    <3> DEFINE f == [s \in D(m) |-> IF s = {} THEN r ELSE Upsert(g[s \ {Max(s)}], es[Max(s)])]
    <3>3. \A s \in D(m - 1) : s \in D(m) /\ f[s] = g[s]
      <4> TAKE s \in D(m - 1)
      <4>1. s \in D(m)
        BY <1>1, <3>1
      <4>2. g[s] = IF s = {} THEN r ELSE Upsert(g[s \ {Max(s)}], es[Max(s)])
        BY <3>2
      <4> QED BY <4>1, <4>2
    <3>4. \A s \in D(m) : s # {} => s \ {Max(s)} \in D(m - 1)
      BY <1>1, <1>2, <3>1
    <3>5. \A s \in D(m) : f[s] = IF s = {} THEN r ELSE Upsert(f[s \ {Max(s)}], es[Max(s)])
      BY <3>3, <3>4
    <3>6. Unfolds(f, m)
      BY <3>5
    <3> QED BY <2>1, <3>6
  <2> QED BY <2>2, <2>3
<1>4. PICK g : Unfolds(g, Cardinality(S))
  BY <1>1, <1>3
<1>5. D(Cardinality(S)) = SUBSET S
  BY <1>0, FS_Subset
<1>6. g = [s \in SUBSET S |-> IF s = {} THEN r ELSE Upsert(g[s \ {Max(s)}], es[Max(s)])]
  BY <1>4, <1>5
<1> DEFINE h == CHOOSE h : h = [s \in SUBSET S |->
                                  IF s = {} THEN r ELSE Upsert(h[s \ {Max(s)}], es[Max(s)])]
<1>7. h = [s \in SUBSET S |-> IF s = {} THEN r ELSE Upsert(h[s \ {Max(s)}], es[Max(s)])]
  <2> DEFINE Q(x) == x = [s \in SUBSET S |->
                            IF s = {} THEN r ELSE Upsert(x[s \ {Max(s)}], es[Max(s)])]
  <2>1. \E x : Q(x)
    BY <1>6
  <2> HIDE DEF Q
  <2>2. Q(CHOOSE x : Q(x))
    BY <2>1
  <2> QED BY <2>2 DEF Q
<1>8. UpsertMany(r, es) = h[S]
  BY DEF UpsertMany, FoldLeft, MapThenFoldSet, S
<1> HIDE DEF h
<1> DEFINE k == [n \in 0..L |-> h[1..n]]
<1>9. \A n \in 0..L : 1..n \in SUBSET S
  BY DEF S
<1>10. k[L] = h[S] /\ k[0] = r
  <2>1. 0 \in 0..L /\ L \in 0..L /\ 1..0 = {} /\ {} \in SUBSET S
    OBVIOUS
  <2>2. h[{}] = r
    BY <1>7, <2>1
  <2> QED BY <2>1, <2>2 DEF S
<1>11. ASSUME NEW n \in 1..L
       PROVE  k[n] = Upsert(k[n - 1], es[n])
  <2>1. n \in 0..L /\ n - 1 \in 0..L /\ n \in 1..n /\ (1..n) \ {n} = 1..(n - 1)
    OBVIOUS
  <2>2. Max(1..n) = n
    <3>1. \A x \in 1..n : (\A y \in 1..n : x >= y) <=> x = n
      OBVIOUS
    <3> QED BY <2>1, <3>1 DEF Max
  <2>3. h[1..n] = Upsert(h[(1..n) \ {n}], es[n])
    BY <1>7, <1>9, <2>1, <2>2
  <2> QED BY <2>1, <2>3
<1> QED BY <1>8, <1>10, <1>11

\* Entries of different objects do not get in each other's way, unless the bound does.
Roomy(r, es) == IsFiniteSet(Ids(r) \union Ids(es)) /\ Cardinality(Ids(r) \union Ids(es)) <= MaxEntries

Different(es, L) ==
  /\ L \in Nat /\ DOMAIN es = 1..L /\ \A i \in 1..L : es[i] \in Entries
  /\ \A i, j \in 1..L : es[i].id = es[j].id => i = j

LEMMA ManyRows ==
  ASSUME NEW r, OneEach(r), NEW L, NEW es, Different(es, L), NEW s, s = UpsertMany(r, es)
  PROVE  /\ OneEach(s)
         /\ \A o \in Ids(s) : o \notin Ids(es) => o \in Ids(r) /\ At(s, o) = At(r, o)
         /\ \A i \in 1..L : es[i].id \in Ids(s) =>
              \/ At(s, es[i].id) = es[i]
              \/ Stale(r, es[i]) /\ At(s, es[i].id) = At(r, es[i].id)
         /\ Roomy(r, es) =>
              /\ Ids(s) = Ids(r) \union Ids(es)
              /\ \A i \in 1..L : At(s, es[i].id) = IF Stale(r, es[i]) THEN At(r, es[i].id) ELSE es[i]
<1>0. /\ L \in Nat /\ DOMAIN es = 1..L /\ \A i \in 1..L : es[i] \in Entries
      /\ \A i, j \in 1..L : es[i].id = es[j].id => i = j
  BY DEF Different
<1>1. PICK g : /\ s = g[L] /\ g[0] = r
               /\ \A n \in 1..L : g[n] = Upsert(g[n - 1], es[n])
  BY <1>0, ManyUnfolds
<1> DEFINE Seen(n) == {es[i].id : i \in 1..n}
           J(n) == /\ OneEach(g[n])
                   /\ \A o \in Ids(g[n]) : o \notin Seen(n) => o \in Ids(r) /\ At(g[n], o) = At(r, o)
                   /\ \A i \in 1..n : es[i].id \in Ids(g[n]) =>
                        \/ At(g[n], es[i].id) = es[i]
                        \/ Stale(r, es[i]) /\ At(g[n], es[i].id) = At(r, es[i].id)
                   /\ Roomy(r, es) =>
                        /\ Ids(g[n]) = Ids(r) \union Seen(n)
                        /\ \A i \in 1..n : At(g[n], es[i].id) =
                                             IF Stale(r, es[i]) THEN At(r, es[i].id) ELSE es[i]
           T == {n \in Nat : n <= L => J(n)}
<1>2. 0 \in T
  <2>1. 1..0 = {} /\ Seen(0) = {}
    OBVIOUS
  <2> QED BY <1>1, <2>1
<1>3. ASSUME NEW n \in T
      PROVE  n + 1 \in T
  <2> SUFFICES ASSUME n + 1 <= L PROVE J(n + 1)
    OBVIOUS
  <2> DEFINE e == es[n + 1]
             d == e.id
             p == g[n]
             q == g[n + 1]
  <2>0. /\ n \in Nat /\ n + 1 \in 1..L /\ n + 1 - 1 = n /\ n <= L
        /\ \A i \in 1..n : i \in 1..L /\ i # n + 1
        /\ \A i \in 1..(n + 1) : i \in 1..n \/ i = n + 1
        /\ n + 1 \in 1..(n + 1) /\ \A i \in 1..n : i \in 1..(n + 1)
    BY <1>0
  <2>1. J(n)
    BY <2>0
  <2>2. q = Upsert(p, e) /\ e \in Entries
    BY <1>0, <1>1, <2>0
  <2>3. /\ OneEach(q)
        /\ \A o \in Ids(q) : o # d => o \in Ids(p) /\ At(q, o) = At(p, o)
        /\ d \in Ids(q)
        /\ At(q, d) = IF Stale(p, e) THEN At(p, d) ELSE e
        /\ \A U : IsFiniteSet(U) /\ Ids(p) \union {d} \subseteq U /\ Cardinality(U) <= MaxEntries
                    => Ids(q) = Ids(p) \union {d}
    BY <2>1, <2>2, UpsertRow
  <2>4. Seen(n + 1) = Seen(n) \union {d} /\ d \notin Seen(n)
    <3>1. \A i \in 1..n : es[i].id # d
      BY <1>0, <2>0
    <3>2. d \notin Seen(n)
      BY <3>1
    <3>3. Seen(n + 1) \subseteq Seen(n) \union {d}
      BY <2>0
    <3>4. Seen(n) \union {d} \subseteq Seen(n + 1)
      BY <2>0
    <3> QED BY <3>2, <3>3, <3>4
  <2>5. d \in Ids(p) => d \in Ids(r) /\ At(p, d) = At(r, d)
    BY <2>1, <2>4
  <2>6. Stale(p, e) => Stale(r, e) /\ At(p, d) = At(r, d)
    BY <2>5 DEF Stale
  <2>7. \A i \in 1..n : es[i].id # d
    BY <2>4
  <2>8. \A o \in Ids(q) : o \notin Seen(n + 1) => o \in Ids(r) /\ At(q, o) = At(r, o)
    BY <2>1, <2>3, <2>4
  <2>9. ASSUME NEW i \in 1..(n + 1), es[i].id \in Ids(q)
        PROVE  \/ At(q, es[i].id) = es[i]
               \/ Stale(r, es[i]) /\ At(q, es[i].id) = At(r, es[i].id)
    <3>1. CASE i \in 1..n
      BY <2>1, <2>3, <2>7, <2>9, <3>1
    <3>2. CASE i = n + 1
      BY <2>3, <2>6, <3>2
    <3> QED BY <2>0, <3>1, <3>2
  <2>10. ASSUME Roomy(r, es)
         PROVE  /\ Ids(q) = Ids(r) \union Seen(n + 1)
                /\ \A i \in 1..(n + 1) : At(q, es[i].id) =
                                           IF Stale(r, es[i]) THEN At(r, es[i].id) ELSE es[i]
    <3>1. Ids(p) = Ids(r) \union Seen(n)
      BY <2>1, <2>10
    <3>2. d \in Ids(es) /\ Seen(n) \subseteq Ids(es)
      BY <1>0, <2>0 DEF Ids
    <3>3. Ids(q) = Ids(p) \union {d}
      BY <2>3, <2>10, <3>1, <3>2 DEF Roomy
    <3>4. Stale(p, e) <=> Stale(r, e)
      BY <2>5, <3>1 DEF Stale
    <3>5. At(q, d) = IF Stale(r, e) THEN At(r, d) ELSE e
      BY <2>3, <2>6, <3>4
    <3>6. ASSUME NEW i \in 1..n
          PROVE  At(q, es[i].id) = IF Stale(r, es[i]) THEN At(r, es[i].id) ELSE es[i]
      <4>1. es[i].id \in Ids(q) /\ es[i].id # d
        BY <2>7, <3>1, <3>3
      <4>2. At(q, es[i].id) = At(p, es[i].id)
        BY <2>3, <4>1
      <4> QED BY <2>1, <2>10, <4>2
    <3>7. Ids(q) = Ids(r) \union Seen(n + 1)
      BY <2>4, <3>1, <3>3
    <3> QED BY <2>0, <3>5, <3>6, <3>7
  <2> QED BY <2>3, <2>8, <2>9, <2>10
<1>4. \A n \in Nat : n \in T
  <2>1. T \in SUBSET Nat
    OBVIOUS
  <2> HIDE DEF T
  <2> QED BY <1>2, <1>3, <2>1, ByInduction
<1>5. J(L)
  BY <1>0, <1>4
<1>6. Seen(L) = Ids(es)
  BY <1>0 DEF Ids
<1> QED BY <1>1, <1>5, <1>6

\* A sequence of n different elements of a set of n elements has them all.
LEMMA AllInSequence ==
  ASSUME NEW S, IsFiniteSet(S), NEW f \in SetToSeqs(S)
  PROVE  \E L \in Nat : /\ DOMAIN f = 1..L /\ \A i \in 1..L : f[i] \in S
                        /\ \A i, j \in 1..L : f[i] = f[j] => i = j
                        /\ \A x \in S : \E i \in 1..L : f[i] = x
<1> DEFINE L == Cardinality(S)
<1>1. /\ L \in Nat /\ f \in [1..L -> S]
      /\ \A i, j \in 1..L : i # j => f[i] # f[j]
  BY FS_CardinalityType DEF SetToSeqs
<1> HIDE DEF L
<1>2. f \in Injection(1..L, S)
  BY <1>1 DEF Injection, IsInjective
<1>3. IsFiniteSet(1..L) /\ Cardinality(1..L) = L
  <2>1. /\ IsFiniteSet(1..L)
        /\ Cardinality(1..L) = IF 1 > L THEN 0 ELSE L - 1 + 1
    BY <1>1, FS_Interval
  <2> QED BY <1>1, <2>1
<1>4. f \in Surjection(1..L, S)
  BY <1>2, <1>3, FS_Injection DEF L
<1>5. \A x \in S : \E i \in 1..L : f[i] = x
  BY <1>4 DEF Surjection
<1> QED BY <1>1, <1>5

-----------------------------------------------------------------------------
(***************************************************************************)
(* Versions as strings.  Among numbers up to a bound of two digits the     *)
(* order of strings is total; the exception it makes is a shorter one.     *)
(***************************************************************************)
LEMMA LeadTyped ==
  ASSUME NEW v \in Nat
  PROVE  Lead(v) \in Nat
BY DEF Lead, Base

LEMMA OrderTotal ==
  ASSUME NEW a \in Nat, NEW b \in Nat, NEW c \in Nat, ~StrGeq(a, b), StrGeq(a, c)
  PROVE  StrGeq(b, c)
<1>1. Lead(a) \in Nat /\ Lead(b) \in Nat /\ Lead(c) \in Nat
  BY LeadTyped
<1> QED BY <1>1 DEF StrGeq

LEMMA OrderAcross ==
  ASSUME NEW v \in Nat, NEW w \in Nat, v <= w, w < Base * Base, StrGeq(v, w)
  PROVE  v = w \/ (v < Base /\ Base <= w)
<1>1. CASE v < Base /\ w < Base
  BY <1>1 DEF StrGeq, Lead, Base
<1>2. CASE ~(v < Base) /\ ~(w < Base)
  <2>1. Lead(v) = v \div 10 /\ Lead(w) = w \div 10
    BY <1>2 DEF Lead, Base
  <2>2. v \div 10 <= w \div 10 /\ v \div 10 \in Nat /\ w \div 10 \in Nat
    OBVIOUS
  <2>3. v >= w
    BY <2>1, <2>2 DEF StrGeq
  <2> QED BY <2>3
<1>3. CASE ~(v < Base) /\ w < Base
  BY <1>3 DEF Base
<1> QED BY <1>1, <1>2, <1>3 DEF Base

-----------------------------------------------------------------------------
(***************************************************************************)
(* What a parallel task reports to the registry when its reply arrives:    *)
(* the owned entries of a cache that has nothing but its inputs.           *)
(***************************************************************************)
LEMMA OwnedEntries ==
  ASSUME VersionsInv, NEW t \in Txns, mode = "parallel", phase[t] = "sent",
         NEW c, c = ApplyEffects(cache[CacheOf(t)], answer[t]), NEW o \in Objects
  PROVE  /\ c.owned[o] \in Nat
         /\ c.owned[o] # 0 => o \in Inputs(t) /\ answer[t][o] # NoRef
         /\ o \in Inputs(t) /\ answer[t][o].kind = "owned" =>
              c.owned[o] # 0 /\ c.owned[o] = answer[t][o].ver
<1>1. /\ References(answer[t]) /\ DOMAIN answer[t] = Inputs(t) /\ CacheOf(t) \in Caches
      /\ cache[CacheOf(t)] \in Cache /\ CacheOf(t) = t
  BY CacheTyped DEF VersionsInv, TypeOK, Holds, CacheOf
<1>2. /\ c \in Cache
      /\ o \notin Inputs(t) => GetObject(c, o) = GetObject(cache[t], o)
      /\ o \in Inputs(t) =>
           \/ GetObject(c, o) = answer[t][o]
           \/ GetObject(c, o) = GetObject(cache[t], o) /\ answer[t][o].kind = "shared"
  BY <1>1, EffectAnswers
<1>3. o \notin Inputs(t) => GetObject(cache[t], o) = NoRef
  BY <1>1 DEF VersionsInv, TaskCaches
<1>4. c.owned[o] \in Nat /\ (c.owned[o] # 0 => GetObject(c, o) = [kind |-> "owned", ver |-> c.owned[o]])
  BY <1>2 DEF Cache, GetObject
<1>5. c.owned[o] # 0 => GetObject(c, o) # NoRef
  BY <1>4 DEF NoRef
<1>6. NoRef.kind # "shared" /\ NoRef.kind # "owned"
  BY DEF NoRef
<1>7. GetObject(c, o).kind = "owned" => c.owned[o] # 0
  BY <1>2 DEF GetObject, NoRef
<1>8. ASSUME o \in Inputs(t), answer[t][o].kind = "owned"
      PROVE  c.owned[o] # 0 /\ c.owned[o] = answer[t][o].ver
  <2>1. GetObject(c, o) = answer[t][o]
    BY <1>2, <1>8
  <2>2. c.owned[o] # 0
    BY <1>7, <1>8, <2>1
  <2> QED BY <1>4, <2>1, <2>2
<1> QED BY <1>2, <1>3, <1>4, <1>5, <1>6, <1>8

LEMMA IdsFinite ==
  ASSUME NEW r, OneEach(r)
  PROVE  IsFiniteSet(Ids(r)) /\ Ids(r) \subseteq Objects
BY RowFound, FS_Subset, VersionsAssumption

SyncedIds(c) == {e.id : e \in SyncEntries(c)}

LEMMA SyncedRows ==
  ASSUME OneEach(registry), NEW c, \A o \in Objects : c.owned[o] \in Nat,
         NEW es \in SetToSeqs(SyncEntries(c)), NEW s, s = UpsertMany(registry, es),
         NEW ids, ids = SyncedIds(c)
  PROVE  /\ OneEach(s) /\ IsFiniteSet(Ids(registry) \union ids)
         /\ \A o \in Objects : o \in ids <=> c.owned[o] # 0
         /\ \A o \in Ids(s) : o \notin ids => o \in Ids(registry) /\ At(s, o) = At(registry, o)
         /\ \A o \in ids : o \in Ids(s) =>
              \/ At(s, o) = Entry(o, c.owned[o])
              \/ Stale(registry, Entry(o, c.owned[o])) /\ At(s, o) = At(registry, o)
         /\ Cardinality(Ids(registry) \union ids) <= MaxEntries =>
              /\ Ids(s) = Ids(registry) \union ids
              /\ \A o \in ids : At(s, o) = IF Stale(registry, Entry(o, c.owned[o]))
                                           THEN At(registry, o) ELSE Entry(o, c.owned[o])
<1> DEFINE W == {p \in Objects : c.owned[p] # 0}
           E == SyncEntries(c)
<1>1. \A e \in E : e.id \in W /\ e = Entry(e.id, c.owned[e.id])
  BY DEF SyncEntries, Entry
<1>2. \A o \in W : Entry(o, c.owned[o]) \in E /\ Entry(o, c.owned[o]).id = o
  BY DEF SyncEntries, Entry
<1>3. ids = W
  BY <1>1, <1>2 DEF SyncedIds
<1>4. \A o \in W : Entry(o, c.owned[o]) \in Entries
  BY DEF Entry, Entries
<1>5. IsFiniteSet(W)
  BY FS_Subset, VersionsAssumption
<1>6. IsFiniteSet(E)
  <2>1. E = {Entry(o, c.owned[o]) : o \in W}
    BY DEF SyncEntries
  <2> DEFINE f == [o \in W |-> Entry(o, c.owned[o])]
  <2>2. f \in Surjection(W, E)
    BY <2>1 DEF Surjection
  <2> HIDE DEF f
  <2> QED BY <1>5, <2>2, FS_Surjection
<1> HIDE DEF W, E
<1>7. PICK L \in Nat : /\ DOMAIN es = 1..L /\ \A i \in 1..L : es[i] \in E
                       /\ \A i, j \in 1..L : es[i] = es[j] => i = j
                       /\ \A e \in E : \E i \in 1..L : es[i] = e
  <2>1. es \in SetToSeqs(E)
    BY DEF E
  <2> QED BY <1>6, <2>1, AllInSequence
<1>8. /\ \A i \in 1..L : es[i] \in Entries /\ es[i].id \in W /\ es[i] = Entry(es[i].id, c.owned[es[i].id])
      /\ \A i, j \in 1..L : es[i].id = es[j].id => i = j
  BY <1>1, <1>4, <1>7
<1>9. Ids(es) = W
  <2>1. ASSUME NEW o \in W PROVE \E i \in 1..L : es[i].id = o
    <3>1. Entry(o, c.owned[o]) \in E /\ Entry(o, c.owned[o]).id = o
      BY <1>2
    <3>2. PICK i \in 1..L : es[i] = Entry(o, c.owned[o])
      BY <1>7, <3>1
    <3> QED BY <3>1, <3>2
  <2> QED BY <1>7, <1>8, <2>1 DEF Ids
<1>10. /\ OneEach(s)
       /\ \A o \in Ids(s) : o \notin Ids(es) => o \in Ids(registry) /\ At(s, o) = At(registry, o)
       /\ \A i \in 1..L : es[i].id \in Ids(s) =>
            \/ At(s, es[i].id) = es[i]
            \/ Stale(registry, es[i]) /\ At(s, es[i].id) = At(registry, es[i].id)
       /\ Roomy(registry, es) =>
            /\ Ids(s) = Ids(registry) \union Ids(es)
            /\ \A i \in 1..L : At(s, es[i].id) =
                                 IF Stale(registry, es[i]) THEN At(registry, es[i].id) ELSE es[i]
  <2>1. Different(es, L)
    BY <1>7, <1>8 DEF Different
  <2> QED BY <2>1, ManyRows
<1>11. ASSUME NEW o \in ids
       PROVE  \E i \in 1..L : es[i].id = o /\ es[i] = Entry(o, c.owned[o])
  <2>1. Entry(o, c.owned[o]) \in E /\ Entry(o, c.owned[o]).id = o
    BY <1>2, <1>3
  <2>2. PICK i \in 1..L : es[i] = Entry(o, c.owned[o])
    BY <1>7, <2>1
  <2> QED BY <2>1, <2>2
<1>12. /\ IsFiniteSet(Ids(registry) \union ids)
       /\ Cardinality(Ids(registry) \union ids) <= MaxEntries => Roomy(registry, es)
  <2>1. IsFiniteSet(Ids(registry) \union W)
    BY <1>5, IdsFinite, FS_Union
  <2> QED BY <1>3, <1>9, <2>1 DEF Roomy
<1>13. \A o \in Objects : o \in ids <=> c.owned[o] # 0
  BY <1>3 DEF W
<1>14. ASSUME NEW o \in ids, o \in Ids(s)
       PROVE  \/ At(s, o) = Entry(o, c.owned[o])
              \/ Stale(registry, Entry(o, c.owned[o])) /\ At(s, o) = At(registry, o)
  <2>1. PICK i \in 1..L : es[i].id = o /\ es[i] = Entry(o, c.owned[o])
    BY <1>11
  <2>2. es[i].id \in Ids(s) => \/ At(s, es[i].id) = es[i]
                               \/ Stale(registry, es[i]) /\ At(s, es[i].id) = At(registry, es[i].id)
    BY <1>10
  <2> QED BY <1>14, <2>1, <2>2
<1>15. ASSUME NEW o \in ids, Roomy(registry, es)
       PROVE  At(s, o) = IF Stale(registry, Entry(o, c.owned[o]))
                         THEN At(registry, o) ELSE Entry(o, c.owned[o])
  <2>1. PICK i \in 1..L : es[i].id = o /\ es[i] = Entry(o, c.owned[o])
    BY <1>11
  <2>2. At(s, es[i].id) = IF Stale(registry, es[i]) THEN At(registry, es[i].id) ELSE es[i]
    BY <1>10, <1>15
  <2> QED BY <2>1, <2>2
<1> QED BY <1>3, <1>9, <1>10, <1>12, <1>13, <1>14, <1>15

-----------------------------------------------------------------------------
(***************************************************************************)
(* Steps that leave an object alone: its entry stays, or goes while no     *)
(* effects on it are on their way, or is known to go.                      *)
(***************************************************************************)
LEMMA EntryTyped ==
  ASSUME OneEach(registry), NEW o \in Ids(registry)
  PROVE  At(registry, o).ver \in Nat /\ At(registry, o).tomb \in BOOLEAN
<1>1. At(registry, o) \in Entries
  BY RowFound
<1> QED BY <1>1 DEF Entries

LEMMA ObjectLeftAlone ==
  ASSUME RegistryInv, NEW o \in Objects, mode' = mode, \A u \in Txns : pinned[u] \subseteq pinned'[u],
         chain'[o] = chain[o], lamport'[o] = lamport[o],
         SentWith(o)' = SentWith(o), \A u \in SentWith(o) : answer'[u] = answer[u],
         o \in unseen => o \in unseen',
         o \in Ids(registry') /\ chain[o].kind = "owned" =>
           o \in Ids(registry) /\ At(registry', o) = At(registry, o),
         o \in Ids(registry) => o \in Ids(registry') \/ SentWith(o) = {} \/ o \in unseen'
  PROVE  (chain'[o].kind = "owned" => OwnedKnown(o)') /\ GoneKnown(o)'
<1>1. ASSUME chain'[o].kind = "owned"
      PROVE  OwnedKnown(o)'
  <2>1. OwnedKnown(o)
    BY <1>1 DEF RegistryInv
  <2>2. Reported(o)' => Reported(o)
    BY DEF Reported
  <2> QED BY <1>1, <2>1, <2>2 DEF OwnedKnown, Reported
<1>2. GoneKnown(o)'
  BY UnguardedStays DEF RegistryInv, GoneKnown
<1> QED BY <1>1, <1>2

LEMMA RegistryUnmoved ==
  ASSUME RegistryInv, NEW t \in Txns, OthersAlone(t), UNCHANGED <<chain, lamport, registry>>,
         unseen \subseteq unseen', phase[t] # "sent", phase'[t] # "sent"
  PROVE  RegistryInv'
<1>1. mode' = mode /\ \A u \in Txns : pinned[u] \subseteq pinned'[u]
  BY DEF OthersAlone
<1>2. ASSUME NEW o \in Objects
      PROVE  (chain'[o].kind = "owned" => OwnedKnown(o)') /\ GoneKnown(o)'
  <2>1. SentWith(o)' = SentWith(o) /\ \A u \in SentWith(o) : answer'[u] = answer[u]
    BY DEF SentWith, Inputs, OthersAlone
  <2> QED BY <1>1, <2>1, ObjectLeftAlone
<1> QED BY <1>1, <1>2 DEF RegistryInv

\* Everything that happens to a transaction before it is sent, or refused.
LEMMA BeforeSent ==
  ASSUME VersionsInv, RegistryInv, NEW t \in Txns,
         \/ \E o \in Objects : NameById(t, o) \/ NameByReference(t, o)
         \/ Submit(t) \/ Begin(t) \/ Peek(t) \/ Answer(t) \/ NotFound(t) \/ Store(t) \/ Refuse(t)
  PROVE  RegistryInv'
<1> DEFINE OK == /\ OthersAlone(t) /\ UNCHANGED <<chain, lamport, registry>>
                 /\ unseen \subseteq unseen' /\ phase[t] # "sent" /\ phase'[t] # "sent"
<1>0. /\ DOMAIN refs = Txns /\ DOMAIN looked = Txns /\ DOMAIN answer = Txns
      /\ pinned \in [Txns -> SUBSET Objects] /\ phase \in [Txns -> Phases]
  BY DEF VersionsInv, TypeOK
<1>1. ASSUME NEW o \in Objects, NEW ref, Name(t, o, ref)
      PROVE  OK
  <2>1. pinned[t] \subseteq pinned'[t] /\ \A u \in Txns \ {t} : pinned'[u] = pinned[u]
    BY <1>0, <1>1 DEF Name
  <2> QED BY <1>0, <1>1, <2>1 DEF Name, OthersAlone
<1>2. Submit(t) => OK
  BY <1>0 DEF Submit, Move, OthersAlone
<1>3. Begin(t) => OK
  <2> SUFFICES ASSUME Begin(t) PROVE OK
    OBVIOUS
  <2>1. phase[t] = "queued"
    <3>1. queue \in Seq(Txns) /\ queue # <<>> /\ t = queue[1]
      BY DEF VersionsInv, TypeOK, Begin
    <3>2. 1 \in 1..Len(queue)
      BY <3>1
    <3> QED BY <3>1, <3>2 DEF VersionsInv, QueuedOnce
  <2>2. CASE Missing(t) = {}
    BY <1>0, <2>1, <2>2 DEF Begin, Move, OthersAlone
  <2>3. CASE Missing(t) # {}
    BY <1>0, <2>1, <2>3 DEF Begin, Move, OthersAlone
  <2> QED BY <2>2, <2>3
<1>4. Peek(t) => OK
  BY <1>0 DEF Peek, Move, OthersAlone
<1>5. Answer(t) => OK
  BY <1>0 DEF Answer, OthersAlone
<1>6. NotFound(t) => OK
  BY <1>0 DEF NotFound, Move, OthersAlone
<1>7. Store(t) => OK
  <2> SUFFICES ASSUME Store(t) PROVE OK
    OBVIOUS
  <2>0. /\ answer' = [answer EXCEPT ![t] = Nothing] /\ looked' = [looked EXCEPT ![t] = Nothing]
        /\ UNCHANGED <<mode, chain, lamport, pinned, queue, registry>>
        /\ phase[t] \in {"resolving", "peeking"} /\ unseen \subseteq unseen'
    BY DEF Store
  <2>1. /\ phase'[t] \in {"open", "ready", "failed"}
        /\ \A u \in Txns \ {t} : phase'[u] = phase[u]
    BY <1>0 DEF Store, Move
  <2>2. \A u \in Txns \ {t} : refs'[u] = refs[u]
    BY <1>0 DEF Store, Move
  <2> QED BY <1>0, <2>0, <2>1, <2>2 DEF OthersAlone
<1>8. Refuse(t) => OK
  BY <1>0 DEF Refuse, Move, OthersAlone
<1>9. OK
  <2> HIDE DEF OK
  <2> QED BY <1>1, <1>2, <1>3, <1>4, <1>5, <1>6, <1>7, <1>8 DEF NameById, NameByReference
<1> QED BY <1>9, RegistryUnmoved

-----------------------------------------------------------------------------
(***************************************************************************)
(* Changes of the chain.                                                   *)
(***************************************************************************)
LEMMA SentIn ==
  ASSUME VersionsInv, NEW t \in Txns, phase[t] = "sent" \/ phase[t] = "ready",
         NEW o \in Inputs(t), NEW u \in SentWith(o), u # t
  PROVE  Unguarded(o)
BY DEF VersionsInv, InputsApart, SentWith, InFlight

LEMMA ExecuteReported ==
  ASSUME VersionsInv, RegistryInv, NEW t \in Txns, Execute(t)
  PROVE  RegistryInv'
<1> DEFINE v == NextVer(t)
<1>0. PICK eff \in [Inputs(t) -> UNION {Outcomes(o, v) : o \in Inputs(t)}] :
        /\ \A o \in Inputs(t) : eff[o] \in Outcomes(o, v)
        /\ chain' = [o \in Objects |-> IF o \in Inputs(t) THEN eff[o] ELSE chain[o]]
        /\ answer' = [answer EXCEPT ![t] = eff]
  BY DEF Execute
<1>1. /\ phase[t] = "ready" /\ Inputs(t) \subseteq Objects
      /\ lamport' = [o \in Objects |-> IF o \in Inputs(t) THEN v ELSE lamport[o]]
      /\ phase' = [phase EXCEPT ![t] = "sent"]
      /\ UNCHANGED <<mode, refs, pinned, queue, looked, cache, registry, unseen>>
      /\ DOMAIN answer = Txns /\ phase \in [Txns -> Phases]
  BY DEF Execute, Move, VersionsInv, TypeOK, References, Inputs
<1>2. /\ phase'[t] = "sent" /\ answer'[t] = eff
      /\ \A u \in Txns \ {t} : phase'[u] = phase[u] /\ answer'[u] = answer[u]
  BY <1>0, <1>1
<1>3. \A o \in Objects : SentWith(o)' = SentWith(o) \union (IF o \in Inputs(t) THEN {t} ELSE {})
  BY <1>1, <1>2 DEF SentWith, Inputs
<1>4. \A o \in Objects : t \notin SentWith(o)
  BY <1>1 DEF SentWith
<1>5. mode' = mode /\ \A u \in Txns : pinned[u] \subseteq pinned'[u]
  BY <1>1
<1>6. ASSUME NEW o \in Objects, o \notin Inputs(t)
      PROVE  (chain'[o].kind = "owned" => OwnedKnown(o)') /\ GoneKnown(o)'
  <2>1. /\ chain'[o] = chain[o] /\ lamport'[o] = lamport[o] /\ SentWith(o)' = SentWith(o)
        /\ \A u \in SentWith(o) : answer'[u] = answer[u]
    BY <1>0, <1>1, <1>2, <1>3, <1>4, <1>6 DEF SentWith
  <2> QED BY <1>1, <1>5, <2>1, ObjectLeftAlone
<1>7. ASSUME NEW o \in Inputs(t), chain'[o].kind = "owned"
      PROVE  OwnedKnown(o)'
  <2>0. o \in Objects /\ chain'[o] = eff[o] /\ eff[o] \in Outcomes(o, v) /\ lamport'[o] = v
    BY <1>0, <1>1
  <2>1. chain[o].kind = "owned" /\ chain'[o] = [kind |-> "owned", ver |-> v]
    BY <1>7, <2>0 DEF Outcomes, NoRef
  <2>2. OwnedKnown(o)
    BY <2>0, <2>1 DEF RegistryInv
  <2>3. lamport[o] \in Nat /\ v \in Nat /\ lamport[o] <= v
    <3>1. TypeOK /\ Inputs(t) \in SUBSET Objects /\ Inputs(t) # {}
      BY <1>1 DEF VersionsInv
    <3>2. Newest(Inputs(t)) \in 1..MaxVer /\ lamport[o] <= Newest(Inputs(t))
      BY <3>1, NewestIsVersion
    <3>3. lamport[o] \in 1..MaxVer /\ MaxVer \in Nat
      BY <2>0, <3>1, VersionsAssumption DEF TypeOK
    <3> QED BY <3>2, <3>3 DEF NextVer
  <2>4. \A u \in SentWith(o)' : answer'[u][o].kind = "owned" /\ answer'[u][o].ver <= v
    <3> TAKE u \in SentWith(o)'
    <3>1. CASE u = t
      <4>1. answer'[u][o] = [kind |-> "owned", ver |-> v]
        BY <1>2, <2>0, <2>1, <3>1
      <4>2. v <= v
        BY <2>3
      <4> QED BY <4>1, <4>2
    <3>2. CASE u # t
      <4>1. u \in SentWith(o) /\ u \in Txns
        BY <1>3, <2>0, <3>2 DEF SentWith
      <4>2. /\ answer'[u] = answer[u] /\ answer[u][o].kind = "owned" /\ answer[u][o].ver <= lamport[o]
        BY <1>2, <2>2, <3>2, <4>1 DEF OwnedKnown
      <4>3. answer[u][o].ver \in Nat
        <5>1. References(answer[u]) /\ o \in DOMAIN answer[u]
          BY <4>1 DEF VersionsInv, TypeOK, Holds, SentWith
        <5>2. answer[u][o] \in RefOrNone
          BY <5>1 DEF References
        <5> QED BY <5>2 DEF RefOrNone, Ref, NoRef
      <4> QED BY <2>3, <4>2, <4>3
    <3> QED BY <3>1, <3>2
  <2>5. o \in Ids(registry) => ~At(registry, o).tomb /\ At(registry, o).ver <= v
    <3> SUFFICES ASSUME o \in Ids(registry)
                 PROVE  ~At(registry, o).tomb /\ At(registry, o).ver <= v
      OBVIOUS
    <3>1. At(registry, o).ver \in Nat
      BY EntryTyped DEF RegistryInv
    <3>2. ~At(registry, o).tomb /\ At(registry, o).ver <= lamport[o]
      BY <2>2 DEF OwnedKnown
    <3> QED BY <2>3, <3>1, <3>2
  <2>6. ~Reported(o)'
    <3>1. t \in SentWith(o)' /\ answer'[t][o] = chain'[o]
      BY <1>2, <1>3, <2>0
    <3> QED BY <3>1 DEF Reported
  <2>7. chain'[o].ver = lamport'[o] /\ lamport'[o] = v /\ registry' = registry
    BY <1>1, <2>0, <2>1
  <2> QED BY <2>4, <2>5, <2>6, <2>7 DEF OwnedKnown
<1>8. ASSUME NEW o \in Inputs(t)
      PROVE  GoneKnown(o)'
  <2> SUFFICES ASSUME chain'[o] = NoRef, ~Unguarded(o)', NEW u \in SentWith(o)'
               PROVE  answer'[u][o] = NoRef
    BY DEF GoneKnown
  <2>1. o \in Objects /\ chain'[o] = eff[o]
    BY <1>0, <1>1
  <2>2. CASE u = t
    BY <1>2, <2>1, <2>2
  <2>3. CASE u # t
    <3>1. u \in SentWith(o)
      BY <1>3, <2>1, <2>3
    <3>2. Unguarded(o)
      BY <1>1, <2>3, <3>1, SentIn
    <3> QED BY <1>5, <2>1, <3>2, UnguardedStays
  <2> QED BY <2>2, <2>3
<1> QED BY <1>1, <1>6, <1>7, <1>8 DEF RegistryInv

LEMMA ForeignUnseen ==
  ASSUME VersionsInv, RegistryInv, NEW p \in Objects, Foreign(p)
  PROVE  RegistryInv'
<1>0. /\ chain[p].kind = "owned"
      /\ lamport' = [lamport EXCEPT ![p] = lamport[p] + 1]
      /\ chain' = [chain EXCEPT ![p] = [chain[p] EXCEPT !.ver = lamport[p] + 1]]
      /\ unseen' = unseen \union {p}
      /\ UNCHANGED <<mode, refs, pinned, phase, queue, looked, answer, cache, registry>>
  BY DEF Foreign
<1>1. /\ chain \in [Objects -> RefOrNone] /\ lamport \in [Objects -> 1..MaxVer] /\ MaxVer \in Nat
  BY VersionsAssumption DEF VersionsInv, TypeOK
<1>2. \A o \in Objects : SentWith(o)' = SentWith(o)
  BY <1>0 DEF SentWith, Inputs
<1>3. ASSUME NEW o \in Objects, o # p
      PROVE  (chain'[o].kind = "owned" => OwnedKnown(o)') /\ GoneKnown(o)'
  <2>1. chain'[o] = chain[o] /\ lamport'[o] = lamport[o]
    BY <1>0, <1>1, <1>3
  <2> QED BY <1>0, <1>2, <2>1, ObjectLeftAlone
<1>4. OwnedKnown(p)'
  <2>0. chain[p] \in Ref
    BY <1>0, <1>1 DEF RefOrNone, NoRef
  <2>1. /\ chain'[p].ver = lamport[p] + 1 /\ lamport'[p] = lamport[p] + 1 /\ p \in unseen'
        /\ lamport[p] \in Nat
    BY <1>0, <1>1, <2>0 DEF Ref
  <2>2. OwnedKnown(p)
    BY <1>0 DEF RegistryInv
  <2>3. ASSUME NEW u \in SentWith(p)'
        PROVE  answer'[u][p].kind = "owned" /\ answer'[u][p].ver <= lamport[p] + 1
    <3>1. u \in SentWith(p) /\ u \in Txns
      BY <1>2 DEF SentWith
    <3>2. answer[u][p].kind = "owned" /\ answer[u][p].ver <= lamport[p] /\ answer' = answer
      BY <1>0, <2>2, <3>1 DEF OwnedKnown
    <3>3. answer[u][p].ver \in Nat
      <4>1. References(answer[u]) /\ p \in DOMAIN answer[u]
        BY <3>1 DEF VersionsInv, TypeOK, Holds, SentWith
      <4>2. answer[u][p] \in RefOrNone
        BY <4>1 DEF References
      <4> QED BY <4>2 DEF RefOrNone, Ref, NoRef
    <3> QED BY <2>1, <3>2, <3>3
  <2>4. p \in Ids(registry) => ~At(registry, p).tomb /\ At(registry, p).ver <= lamport[p] + 1
    <3> SUFFICES ASSUME p \in Ids(registry)
                 PROVE  ~At(registry, p).tomb /\ At(registry, p).ver <= lamport[p] + 1
      OBVIOUS
    <3>1. At(registry, p).ver \in Nat
      BY EntryTyped DEF RegistryInv
    <3>2. ~At(registry, p).tomb /\ At(registry, p).ver <= lamport[p]
      BY <2>2 DEF OwnedKnown
    <3> QED BY <2>1, <3>1, <3>2
  <2>5. ~Reported(p)'
    BY <2>1 DEF Reported
  <2>6. registry' = registry
    BY <1>0
  <2> QED BY <2>1, <2>3, <2>4, <2>5, <2>6 DEF OwnedKnown
<1>5. GoneKnown(p)'
  <2>1. chain[p] # NoRef /\ chain'[p].kind = "owned"
    <3>1. chain[p] \in Ref
      BY <1>0, <1>1 DEF RefOrNone, NoRef
    <3> QED BY <1>0, <1>1, <3>1 DEF Ref, NoRef
  <2> QED BY <2>1 DEF GoneKnown, NoRef
<1> QED BY <1>0, <1>3, <1>4, <1>5 DEF RegistryInv

LEMMA LostUnseen ==
  ASSUME VersionsInv, RegistryInv, NEW t \in Txns, LoseReply(t)
  PROVE  RegistryInv'
<1>0. /\ phase[t] = "sent" /\ unseen' = unseen \union Inputs(t)
      /\ answer' = [answer EXCEPT ![t] = Nothing] /\ phase' = [phase EXCEPT ![t] = "failed"]
      /\ UNCHANGED <<mode, chain, lamport, refs, pinned, queue, looked, registry>>
      /\ DOMAIN answer = Txns /\ phase \in [Txns -> Phases]
  BY DEF LoseReply, Move, VersionsInv, TypeOK
<1>1. \A o \in Objects : SentWith(o)' = SentWith(o) \ {t}
  BY <1>0 DEF SentWith, Inputs
<1>2. ASSUME NEW o \in Objects, o \notin Inputs(t)
      PROVE  (chain'[o].kind = "owned" => OwnedKnown(o)') /\ GoneKnown(o)'
  <2>1. t \notin SentWith(o)
    BY <1>2 DEF SentWith
  <2>2. SentWith(o)' = SentWith(o) /\ \A u \in SentWith(o) : answer'[u] = answer[u]
    BY <1>0, <1>1, <2>1 DEF SentWith
  <2> QED BY <1>0, <2>2, ObjectLeftAlone
<1>3. ASSUME NEW o \in Objects, o \in Inputs(t)
      PROVE  (chain'[o].kind = "owned" => OwnedKnown(o)') /\ GoneKnown(o)'
  <2>1. o \in unseen' /\ \A u \in SentWith(o)' : u \in SentWith(o) /\ answer'[u] = answer[u]
    BY <1>0, <1>1, <1>3 DEF SentWith
  <2>2. ~Reported(o)'
    BY <2>1 DEF Reported
  <2>3. chain'[o].kind = "owned" => OwnedKnown(o)'
    BY <1>0, <2>1, <2>2 DEF RegistryInv, OwnedKnown
  <2>4. GoneKnown(o)'
    BY <1>0, <2>1 DEF RegistryInv, GoneKnown, Unguarded
  <2> QED BY <2>3, <2>4
<1> QED BY <1>0, <1>2, <1>3 DEF RegistryInv

-----------------------------------------------------------------------------
(***************************************************************************)
(* Other users of the registry.                                            *)
(***************************************************************************)
LEMMA OtherUse ==
  ASSUME VersionsInv, RegistryInv, NEW r, RegistryStep(r), OneEach(r),
         \A o \in Ids(r) : chain[o].kind = "owned" => o \in Ids(registry) /\ At(r, o) = At(registry, o)
  PROVE  RegistryInv'
<1>0. /\ mode = "parallel" /\ registry' = r
      /\ unseen' = unseen \union DroppedInFlight(r, {}, {})
      /\ UNCHANGED <<mode, chain, lamport, refs, pinned, phase, queue, looked, answer, cache>>
  BY DEF RegistryStep
<1>1. ASSUME NEW o \in Objects
      PROVE  (chain'[o].kind = "owned" => OwnedKnown(o)') /\ GoneKnown(o)'
  <2>1. SentWith(o)' = SentWith(o)
    BY <1>0 DEF SentWith, Inputs
  <2>2. o \in Ids(registry) => o \in Ids(r) \/ SentWith(o) = {} \/ o \in unseen'
    BY <1>0 DEF DroppedInFlight
  <2> QED BY <1>0, <2>1, <2>2, ObjectLeftAlone
<1> QED BY <1>0, <1>1 DEF RegistryInv

LEMMA TouchRow ==
  ASSUME NEW r, OneEach(r), NEW o \in Ids(r)
  PROVE  /\ OneEach(Touch(r, o))
         /\ \A p \in Ids(Touch(r, o)) : p \in Ids(r) /\ At(Touch(r, o), p) = At(r, p)
<1> DEFINE w == Without(r, o)
<1>1. /\ OneEach(w) /\ o \notin Ids(w)
      /\ \A p \in Ids(w) : p \in Ids(r) /\ At(w, p) = At(r, p)
  BY WithoutRow DEF Within
<1>2. At(r, o) \in Entries /\ At(r, o).id = o
  BY RowFound
<1> HIDE DEF w
<1>3. /\ OneEach(Append(w, At(r, o))) /\ Ids(Append(w, At(r, o))) = Ids(w) \union {o}
      /\ At(Append(w, At(r, o)), o) = At(r, o)
      /\ \A p \in Ids(w) : At(Append(w, At(r, o)), p) = At(w, p)
  BY <1>1, <1>2, AppendRow
<1>4. Touch(r, o) = w \/ Touch(r, o) = Append(w, At(r, o))
  BY DEF Touch, w
<1> QED BY <1>1, <1>3, <1>4

LEMMA ExpireRow ==
  ASSUME NEW r, OneEach(r), NEW o
  PROVE  /\ OneEach(Expire(r, o)) /\ Ids(Expire(r, o)) = Ids(r)
         /\ \A p \in Ids(r) : /\ At(Expire(r, o), p).tomb = At(r, p).tomb
                              /\ ~At(r, p).tomb => At(Expire(r, o), p) = At(r, p)
<1> DEFINE s == Expire(r, o)
<1>1. r \in Seq(Entries) /\ \A i \in DOMAIN r : r[i] \in Entries
  BY DEF OneEach
<1>2. /\ DOMAIN s = DOMAIN r
      /\ \A i \in DOMAIN r : s[i] = IF r[i].id = o /\ r[i].tomb
                                    THEN [r[i] EXCEPT !.expired = TRUE] ELSE r[i]
  BY DEF Expire
<1> HIDE DEF s
<1>3. ASSUME NEW i \in DOMAIN r
      PROVE  /\ s[i] \in Entries /\ s[i].id = r[i].id /\ s[i].tomb = r[i].tomb
             /\ ~r[i].tomb => s[i] = r[i]
  <2> DEFINE e == r[i]
  <2>1. e \in Entries /\ (s[i] = e \/ (e.tomb /\ s[i] = [e EXCEPT !.expired = TRUE]))
    BY <1>1, <1>2
  <2> HIDE DEF e
  <2>2. /\ [e EXCEPT !.expired = TRUE] \in Entries
        /\ [e EXCEPT !.expired = TRUE].id = e.id /\ [e EXCEPT !.expired = TRUE].tomb = e.tomb
    BY <2>1 DEF Entries
  <2>3. s[i] \in Entries /\ s[i].id = e.id /\ s[i].tomb = e.tomb /\ (~e.tomb => s[i] = e)
    BY <2>1, <2>2
  <2> QED BY <2>3 DEF e
<1>4. s \in Seq(Entries)
  <2>1. DOMAIN r = 1..Len(r) /\ Len(r) \in Nat
    BY <1>1
  <2>2. s = [i \in 1..Len(r) |-> s[i]]
    BY <1>2, <2>1 DEF Expire, s
  <2>3. s \in [1..Len(r) -> Entries]
    BY <1>3, <2>1, <2>2
  <2> QED BY <2>1, <2>3, AsSequence
<1>5. OneEach(s) /\ Ids(s) = Ids(r)
  BY <1>2, <1>3, <1>4 DEF OneEach, Ids
<1>6. ASSUME NEW p \in Ids(r)
      PROVE  At(s, p).tomb = At(r, p).tomb /\ (~At(r, p).tomb => At(s, p) = At(r, p))
  <2>1. PICK i \in DOMAIN r : r[i].id = p
    BY DEF Ids
  <2>2. At(r, p) = r[i]
    BY <2>1, RowFound
  <2>3. At(s, p) = s[i]
    BY <1>2, <1>3, <1>5, <2>1, RowFound
  <2> QED BY <1>3, <2>2, <2>3
<1> QED BY <1>5, <1>6 DEF s

LEMMA TombRow ==
  ASSUME NEW r, OneEach(r), NEW o \in Objects
  PROVE  /\ OneEach(Upsert(r, Tomb(o)))
         /\ \A p \in Ids(Upsert(r, Tomb(o))) :
              p # o => p \in Ids(r) /\ At(Upsert(r, Tomb(o)), p) = At(r, p)
         /\ At(Upsert(r, Tomb(o)), o).tomb
<1>1. Tomb(o) \in Entries /\ Tomb(o).id = o /\ Tomb(o).tomb
  BY DEF Tomb, Entries
<1>2. ~Stale(r, Tomb(o))
  BY <1>1 DEF Stale
<1> HIDE DEF Tomb
<1> QED BY <1>1, <1>2, UpsertRow

\* Of what other users leave, live entries were there before.
LEMMA UsersRows ==
  ASSUME VersionsInv, RegistryInv, NEW o \in Objects,
         Tombstone(o) \/ Lookup(o) \/ Expiry(o) \/ Evict(o)
  PROVE  /\ RegistryInv'
         /\ \A p \in Objects : Live(registry', p) => Live(registry, p)
<1>0. OneEach(registry)
  BY DEF RegistryInv
<1>1. CASE Tombstone(o)
  <2> DEFINE r == Upsert(registry, Tomb(o))
  <2>1. RegistryStep(r) /\ chain[o] = NoRef /\ registry' = r
    BY <1>1 DEF Tombstone, RegistryStep
  <2>2. /\ OneEach(r) /\ At(r, o).tomb
        /\ \A p \in Ids(r) : p # o => p \in Ids(registry) /\ At(r, p) = At(registry, p)
    BY <1>0, TombRow
  <2> HIDE DEF r
  <2>3. NoRef.kind # "owned"
    BY DEF NoRef
  <2>4. RegistryInv'
    BY <2>1, <2>2, <2>3, OtherUse
  <2> QED BY <2>1, <2>2, <2>4 DEF Live
<1>2. CASE Lookup(o)
  <2> DEFINE r == Touch(registry, o)
  <2>1. RegistryStep(r) /\ o \in Ids(registry) /\ registry' = r
    BY <1>2 DEF Lookup, RegistryStep
  <2>2. OneEach(r) /\ \A p \in Ids(r) : p \in Ids(registry) /\ At(r, p) = At(registry, p)
    BY <1>0, <2>1, TouchRow
  <2> HIDE DEF r
  <2> QED BY <2>1, <2>2, OtherUse DEF Live
<1>3. CASE Expiry(o)
  <2> DEFINE r == Expire(registry, o)
  <2>1. RegistryStep(r) /\ registry' = r
    BY <1>3 DEF Expiry, RegistryStep
  <2>2. /\ OneEach(r) /\ Ids(r) = Ids(registry)
        /\ \A p \in Ids(registry) : /\ At(r, p).tomb = At(registry, p).tomb
                                    /\ ~At(registry, p).tomb => At(r, p) = At(registry, p)
    BY <1>0, ExpireRow
  <2> HIDE DEF r
  <2>3. ASSUME NEW p \in Ids(r), chain[p].kind = "owned"
        PROVE  p \in Ids(registry) /\ At(r, p) = At(registry, p)
    <3>1. p \in Objects /\ p \in Ids(registry)
      BY <1>0, <2>2, IdsFinite
    <3>2. ~At(registry, p).tomb
      BY <2>3, <3>1 DEF RegistryInv, OwnedKnown
    <3> QED BY <2>2, <3>1, <3>2
  <2> QED BY <2>1, <2>2, <2>3, OtherUse DEF Live
<1>4. CASE Evict(o)
  <2> DEFINE r == Without(registry, o)
  <2>1. RegistryStep(r) /\ registry' = r
    BY <1>4 DEF Evict, RegistryStep
  <2>2. OneEach(r) /\ \A p \in Ids(r) : p \in Ids(registry) /\ At(r, p) = At(registry, p)
    BY <1>0, WithoutRow DEF Within
  <2> HIDE DEF r
  <2> QED BY <2>1, <2>2, OtherUse DEF Live
<1> QED BY <1>1, <1>2, <1>3, <1>4

-----------------------------------------------------------------------------
(***************************************************************************)
(* The reply.  A task that tells of the last change of an object leaves    *)
(* its version, or one that is as good as a string.  One that comes late   *)
(* does not replace what was told before.                                  *)
(***************************************************************************)
LEMMA ReplyParts ==
  ASSUME VersionsInv, NEW t \in Txns, Reply(t), mode = "parallel"
  PROVE  \E c, es, ids :
           /\ c = ApplyEffects(cache[CacheOf(t)], answer[t])
           /\ es \in SetToSeqs(SyncEntries(c)) /\ registry' = UpsertMany(registry, es)
           /\ ids = SyncedIds(c)
           /\ unseen' = ((unseen \ {o \in Inputs(t) : Tells(answer[t], o)}) \union NewlyShared(t))
                          \union DroppedInFlight(registry', ids, {t}) \union Crowded(ids)
<1> DEFINE c == ApplyEffects(cache[CacheOf(t)], answer[t])
           ids == SyncedIds(c)
<1>1. mode # "serial"
  OBVIOUS
<1>2. PICK es \in SetToSeqs(SyncEntries(c)) : registry' = UpsertMany(registry, es)
  BY <1>1 DEF Reply
<1>3. unseen' = ((unseen \ {o \in Inputs(t) : Tells(answer[t], o)}) \union NewlyShared(t))
                  \union DroppedInFlight(registry', ids, {t}) \union Crowded(ids)
  BY <1>1 DEF Reply, SyncedIds
<1> HIDE DEF c
<1>4. c = ApplyEffects(cache[CacheOf(t)], answer[t])
  BY DEF c
<1> QED BY <1>2, <1>3, <1>4

LEMMA ReplyRows ==
  ASSUME VersionsInv, RegistryInv, NEW t \in Txns, Reply(t), mode = "parallel"
  PROVE  \E ids, w :
           /\ OneEach(registry') /\ IsFiniteSet(Ids(registry) \union ids)
           /\ unseen' = ((unseen \ {o \in Inputs(t) : Tells(answer[t], o)}) \union NewlyShared(t))
                          \union DroppedInFlight(registry', ids, {t}) \union Crowded(ids)
           /\ \A o \in Objects :
                /\ w[o] \in Nat
                /\ o \in ids => o \in Inputs(t) /\ answer[t][o] # NoRef
                /\ o \in Inputs(t) /\ answer[t][o].kind = "owned" =>
                     o \in ids /\ w[o] = answer[t][o].ver
           /\ \A o \in Ids(registry') : o \notin ids =>
                o \in Ids(registry) /\ At(registry', o) = At(registry, o)
           /\ \A o \in ids : o \in Ids(registry') =>
                \/ At(registry', o) = Entry(o, w[o])
                \/ Stale(registry, Entry(o, w[o])) /\ At(registry', o) = At(registry, o)
           /\ Cardinality(Ids(registry) \union ids) <= MaxEntries =>
                /\ Ids(registry') = Ids(registry) \union ids
                /\ \A o \in ids : At(registry', o) = IF Stale(registry, Entry(o, w[o]))
                                                     THEN At(registry, o) ELSE Entry(o, w[o])
<1>1. PICK c, es, ids :
           /\ c = ApplyEffects(cache[CacheOf(t)], answer[t])
           /\ es \in SetToSeqs(SyncEntries(c)) /\ registry' = UpsertMany(registry, es)
           /\ ids = SyncedIds(c)
           /\ unseen' = ((unseen \ {o \in Inputs(t) : Tells(answer[t], o)}) \union NewlyShared(t))
                          \union DroppedInFlight(registry', ids, {t}) \union Crowded(ids)
  BY ReplyParts
<1>2. phase[t] = "sent"
  BY DEF Reply
<1>3. \A o \in Objects :
        /\ c.owned[o] \in Nat
        /\ c.owned[o] # 0 => o \in Inputs(t) /\ answer[t][o] # NoRef
        /\ o \in Inputs(t) /\ answer[t][o].kind = "owned" =>
             c.owned[o] # 0 /\ c.owned[o] = answer[t][o].ver
  BY <1>1, <1>2, OwnedEntries
<1>4. OneEach(registry) /\ \A o \in Objects : c.owned[o] \in Nat
  BY <1>3 DEF RegistryInv
<1> DEFINE s == registry'
<1>5. s = UpsertMany(registry, es) /\ es \in SetToSeqs(SyncEntries(c)) /\ ids = SyncedIds(c)
  BY <1>1
<1> HIDE DEF s
<1>6. /\ OneEach(s) /\ IsFiniteSet(Ids(registry) \union ids)
      /\ \A o \in Objects : o \in ids <=> c.owned[o] # 0
      /\ \A o \in Ids(s) : o \notin ids => o \in Ids(registry) /\ At(s, o) = At(registry, o)
      /\ \A o \in ids : o \in Ids(s) =>
           \/ At(s, o) = Entry(o, c.owned[o])
           \/ Stale(registry, Entry(o, c.owned[o])) /\ At(s, o) = At(registry, o)
      /\ Cardinality(Ids(registry) \union ids) <= MaxEntries =>
           /\ Ids(s) = Ids(registry) \union ids
           /\ \A o \in ids : At(s, o) = IF Stale(registry, Entry(o, c.owned[o]))
                                        THEN At(registry, o) ELSE Entry(o, c.owned[o])
  BY <1>4, <1>5, SyncedRows
<1> WITNESS ids, c.owned
<1> QED BY <1>1, <1>3, <1>6 DEF s

LEMMA SerialReply ==
  ASSUME VersionsInv, RegistryInv, NEW t \in Txns, Reply(t), mode = "serial"
  PROVE  RegistryInv'
<1>0. /\ phase[t] = "sent" /\ registry' = registry /\ registry = <<>>
      /\ answer' = [answer EXCEPT ![t] = Nothing] /\ phase' = [phase EXCEPT ![t] = "done"]
      /\ UNCHANGED <<mode, chain, lamport, refs, pinned>>
      /\ DOMAIN answer = Txns /\ phase \in [Txns -> Phases]
      /\ unseen \ Inputs(t) \subseteq unseen'
  BY DEF Reply, Move, VersionsInv, TypeOK, RegistryInv
<1>1. \A o \in Objects : SentWith(o)' = SentWith(o) \ {t}
  BY <1>0 DEF SentWith, Inputs
<1>2. Ids(registry) = {}
  BY <1>0 DEF Ids
<1>3. ASSUME NEW o \in Objects, o \notin Inputs(t)
      PROVE  (chain'[o].kind = "owned" => OwnedKnown(o)') /\ GoneKnown(o)'
  <2>1. t \notin SentWith(o)
    BY <1>3 DEF SentWith
  <2>2. SentWith(o)' = SentWith(o) /\ \A u \in SentWith(o) : answer'[u] = answer[u]
    BY <1>0, <1>1, <2>1 DEF SentWith
  <2> QED BY <1>0, <1>2, <1>3, <2>2, ObjectLeftAlone
<1>4. ASSUME NEW o \in Objects, o \in Inputs(t)
      PROVE  (chain'[o].kind = "owned" => OwnedKnown(o)') /\ GoneKnown(o)'
  <2>1. ~Unguarded(o)
    BY DEF Unguarded
  <2>2. SentWith(o)' = {}
    <3> SUFFICES ASSUME NEW u \in SentWith(o), u # t PROVE FALSE
      BY <1>1
    <3> QED BY <1>0, <1>4, <2>1, SentIn
  <2>3. chain'[o].kind = "owned" => OwnedKnown(o)'
    BY <1>0, <1>2, <2>2 DEF RegistryInv, OwnedKnown
  <2> QED BY <2>2, <2>3 DEF GoneKnown
<1> QED BY <1>0, <1>3, <1>4 DEF RegistryInv

LEMMA ParallelReply ==
  ASSUME VersionsInv, RegistryInv, NEW t \in Txns, Reply(t), mode = "parallel"
  PROVE  /\ RegistryInv'
         /\ \A o \in Objects :
              chain[o] = NoRef /\ ~Unguarded(o) /\ ~Live(registry, o) => ~Live(registry', o)
<1> DEFINE R == registry'
<1>0. /\ phase[t] = "sent" /\ DOMAIN answer[t] = Inputs(t) /\ Inputs(t) \subseteq Objects
      /\ answer' = [answer EXCEPT ![t] = Nothing] /\ phase' = [phase EXCEPT ![t] = "done"]
      /\ UNCHANGED <<mode, chain, lamport, refs, pinned>>
      /\ DOMAIN answer = Txns /\ phase \in [Txns -> Phases]
  BY DEF Reply, Move, VersionsInv, TypeOK, Holds, References, Inputs
<1>1. \A o \in Objects : SentWith(o)' = SentWith(o) \ {t}
  BY <1>0 DEF SentWith, Inputs
<1>2. PICK ids, w :
           /\ OneEach(R) /\ IsFiniteSet(Ids(registry) \union ids)
           /\ unseen' = ((unseen \ {o \in Inputs(t) : Tells(answer[t], o)}) \union NewlyShared(t))
                          \union DroppedInFlight(registry', ids, {t}) \union Crowded(ids)
           /\ \A o \in Objects :
                /\ w[o] \in Nat
                /\ o \in ids => o \in Inputs(t) /\ answer[t][o] # NoRef
                /\ o \in Inputs(t) /\ answer[t][o].kind = "owned" =>
                     o \in ids /\ w[o] = answer[t][o].ver
           /\ \A o \in Ids(R) : o \notin ids =>
                o \in Ids(registry) /\ At(R, o) = At(registry, o)
           /\ \A o \in ids : o \in Ids(R) =>
                \/ At(R, o) = Entry(o, w[o])
                \/ Stale(registry, Entry(o, w[o])) /\ At(R, o) = At(registry, o)
           /\ Cardinality(Ids(registry) \union ids) <= MaxEntries =>
                /\ Ids(R) = Ids(registry) \union ids
                /\ \A o \in ids : At(R, o) = IF Stale(registry, Entry(o, w[o]))
                                             THEN At(registry, o) ELSE Entry(o, w[o])
  BY ReplyRows
<1>3. /\ \A o \in unseen : o \in unseen' \/ (o \in Inputs(t) /\ Tells(answer[t], o))
      /\ \A o \in Ids(registry) \union ids : o \in Ids(R) \/ SentWith(o) \ {t} = {} \/ o \in unseen'
      /\ \A o \in ids \intersect Ids(registry) :
           o \in unseen' \/ Cardinality(Ids(registry) \union ids) <= MaxEntries
  <2>1. DroppedInFlight(registry', ids, {t}) =
          {o \in (Ids(registry) \union ids) \ Ids(R) : SentWith(o) \ {t} # {}}
    BY DEF DroppedInFlight
  <2>2. Cardinality(Ids(registry) \union ids) <= MaxEntries \/ Crowded(ids) = ids \intersect Ids(registry)
    <3>1. Cardinality(Ids(registry) \union ids) \in Nat /\ MaxEntries \in Nat
      BY <1>2, FS_CardinalityType, RegistryAssumption
    <3> QED BY <3>1 DEF Crowded
  <2> QED BY <1>2, <2>1, <2>2
<1>4. ASSUME NEW o \in Objects, chain[o].kind = "owned"
      PROVE  OwnedKnown(o)'
  <2>1. OwnedKnown(o) /\ chain'[o] = chain[o] /\ lamport'[o] = lamport[o]
    BY <1>0, <1>4 DEF RegistryInv
  <2>2. \A u \in SentWith(o)' : /\ u \in SentWith(o) \ {t} /\ answer'[u] = answer[u]
    BY <1>0, <1>1 DEF SentWith
  <2>3. o \in Inputs(t) => /\ t \in SentWith(o) /\ answer[t][o].kind = "owned"
                            /\ answer[t][o].ver <= lamport[o] /\ o \in ids /\ w[o] = answer[t][o].ver
    BY <1>0, <1>2, <2>1 DEF SentWith, OwnedKnown
  <2>4. o \notin Inputs(t) => o \notin ids /\ t \notin SentWith(o)
    BY <1>2 DEF SentWith
  <2>5. Entry(o, w[o]).ver = w[o] /\ ~Entry(o, w[o]).tomb /\ Entry(o, w[o]).id = o
    BY DEF Entry
  <2>6. o \in Ids(R) => ~At(R, o).tomb /\ At(R, o).ver <= lamport[o]
    <3>1. CASE o \in ids
      <4>1. At(R, o) = Entry(o, w[o]) \/ (o \in Ids(registry) /\ At(R, o) = At(registry, o)) \/ o \notin Ids(R)
        BY <1>2, <2>5, <3>1 DEF Stale
      <4> QED BY <2>1, <2>3, <2>4, <2>5, <3>1, <4>1 DEF OwnedKnown
    <3>2. CASE o \notin ids
      BY <1>2, <2>1, <3>2 DEF OwnedKnown
    <3> QED BY <3>1, <3>2
  <2>7. ASSUME Reported(o)'
        PROVE  /\ o \in Ids(R) => StrGeq(At(R, o).ver, chain[o].ver)
               /\ SentWith(o)' # {} => o \in Ids(R)
    <3>0. o \notin unseen' /\ \A u \in SentWith(o) \ {t} : answer[u][o] # chain[o]
      BY <1>0, <1>1, <2>2, <2>7 DEF Reported
    <3>1. CASE o \notin Inputs(t)
      <4>1. Reported(o)
        BY <1>3, <2>4, <3>0, <3>1 DEF Reported
      <4>2. /\ o \in Ids(registry) => StrGeq(At(registry, o).ver, chain[o].ver)
            /\ SentWith(o) # {} => o \in Ids(registry)
        BY <2>1, <4>1 DEF OwnedKnown
      <4> QED BY <1>1, <1>2, <1>3, <2>4, <3>0, <3>1, <4>2
    <3>2. CASE o \in Inputs(t) /\ answer[t][o] = chain[o]
      <4>1. o \in ids /\ w[o] = chain[o].ver /\ w[o] \in Nat
        BY <1>2, <2>3, <3>2
      <4>2. StrGeq(w[o], w[o])
        BY <4>1, LeadTyped DEF StrGeq
      <4>3. CASE o \in Ids(registry)
        <5>1. /\ Ids(R) = Ids(registry) \union ids
              /\ At(R, o) = IF Stale(registry, Entry(o, w[o])) THEN At(registry, o) ELSE Entry(o, w[o])
          BY <1>2, <1>3, <3>0, <4>1, <4>3
        <5>2. Stale(registry, Entry(o, w[o])) => StrGeq(At(registry, o).ver, w[o])
          BY <2>5 DEF Stale
        <5> QED BY <2>5, <4>1, <4>2, <5>1, <5>2
      <4>4. CASE o \notin Ids(registry)
        <5>1. o \in Ids(R) => At(R, o) = Entry(o, w[o])
          BY <1>2, <2>5, <4>1, <4>4 DEF Stale
        <5>2. o \in Ids(R) \/ SentWith(o)' = {}
          BY <1>1, <1>3, <3>0, <4>1
        <5> QED BY <2>5, <4>1, <4>2, <5>1, <5>2
      <4> QED BY <4>3, <4>4
    <3>3. CASE o \in Inputs(t) /\ answer[t][o] # chain[o]
      <4>1. Reported(o) /\ SentWith(o) # {}
        <5>1. o \notin unseen
          BY <1>3, <3>0, <3>3 DEF Tells
        <5>2. \A u \in SentWith(o) : answer[u][o] # chain[o]
          BY <3>0, <3>3
        <5> QED BY <2>3, <3>3, <5>1, <5>2 DEF Reported
      <4>2. /\ o \in Ids(registry) /\ StrGeq(At(registry, o).ver, chain[o].ver)
            /\ ~At(registry, o).tomb
        BY <2>1, <4>1 DEF OwnedKnown
      <4>3. o \in ids /\ w[o] \in Nat
        BY <1>2, <2>3, <3>3
      <4>4. /\ Ids(R) = Ids(registry) \union ids
            /\ At(R, o) = IF Stale(registry, Entry(o, w[o])) THEN At(registry, o) ELSE Entry(o, w[o])
        BY <1>2, <1>3, <3>0, <4>2, <4>3
      <4>5. CASE Stale(registry, Entry(o, w[o]))
        BY <4>2, <4>4, <4>5
      <4>6. CASE ~Stale(registry, Entry(o, w[o]))
        <5>1. ~StrGeq(At(registry, o).ver, w[o])
          BY <2>5, <4>2, <4>6 DEF Stale
        <5>2. At(registry, o).ver \in Nat /\ chain[o].ver \in Nat
          <6>1. chain[o] \in RefOrNone /\ OneEach(registry)
            BY DEF VersionsInv, TypeOK, RegistryInv
          <6>2. chain[o].ver \in Nat
            BY <6>1 DEF RefOrNone, Ref, NoRef
          <6> QED BY <4>2, <6>1, <6>2, EntryTyped
        <5>3. StrGeq(w[o], chain[o].ver)
          BY <4>2, <4>3, <5>1, <5>2, OrderTotal
        <5>4. o \in Ids(R) /\ At(R, o).ver = w[o]
          BY <2>5, <4>3, <4>4, <4>6
        <5> QED BY <5>3, <5>4
      <4> QED BY <4>2, <4>4, <4>5, <4>6
    <3> QED BY <3>1, <3>2, <3>3
  <2>8. \A u \in SentWith(o)' : answer'[u][o].kind = "owned" /\ answer'[u][o].ver <= lamport'[o]
    BY <2>1, <2>2 DEF OwnedKnown
  <2>9. chain'[o].ver = lamport'[o]
    BY <2>1 DEF OwnedKnown
  <2> QED BY <2>1, <2>6, <2>7, <2>8, <2>9 DEF OwnedKnown
<1>5. ASSUME NEW o \in Objects
      PROVE  GoneKnown(o)'
  <2>1. \A u \in SentWith(o)' : u \in SentWith(o) /\ answer'[u] = answer[u]
    BY <1>0, <1>1 DEF SentWith
  <2> QED BY <1>0, <2>1 DEF RegistryInv, GoneKnown, Unguarded
<1>6. RegistryInv'
  BY <1>0, <1>2, <1>4, <1>5 DEF RegistryInv
<1>7. ASSUME NEW o \in Objects, chain[o] = NoRef, ~Unguarded(o), ~Live(registry, o), Live(R, o)
      PROVE  FALSE
  <2>1. o \in ids
    BY <1>2, <1>7 DEF Live
  <2>2. t \in SentWith(o) /\ answer[t][o] # NoRef
    BY <1>0, <1>2, <2>1 DEF SentWith
  <2> QED BY <1>7, <2>2 DEF RegistryInv, GoneKnown
<1> QED BY <1>6, <1>7

-----------------------------------------------------------------------------
LEMMA InitRegistry ==
  Init => RegistryInv
<1> SUFFICES ASSUME Init PROVE RegistryInv
  OBVIOUS
<1>1. /\ chain = [o \in Objects |-> [kind |-> "owned", ver |-> FirstVer]]
      /\ lamport = [o \in Objects |-> FirstVer] /\ phase = [t \in Txns |-> "open"]
      /\ registry = <<>>
  BY DEF Init
<1>2. OneEach(registry) /\ Ids(registry) = {}
  BY <1>1 DEF OneEach, Ids
<1>3. \A o \in Objects : SentWith(o) = {}
  BY <1>1 DEF SentWith
<1> QED BY <1>1, <1>2, <1>3 DEF RegistryInv, OwnedKnown, GoneKnown

\* A step keeps the invariant and brings nothing back that is gone.
LEMMA NextRegistry ==
  ASSUME VersionsInv, RegistryInv, [Next]_vars
  PROVE  /\ RegistryInv'
         /\ \A o \in Objects :
              chain[o] = NoRef /\ ~Unguarded(o) /\ ~Live(registry, o) => ~Live(registry', o)
<1> DEFINE Stays == \A o \in Objects :
                      chain[o] = NoRef /\ ~Unguarded(o) /\ ~Live(registry, o) => ~Live(registry', o)
<1>0. registry' = registry => Stays
  BY DEF Live
<1>1. CASE UNCHANGED vars
  <2>1. RegistryInv'
    BY <1>1 DEF vars, RegistryInv, OwnedKnown, GoneKnown, Reported, SentWith, Inputs, Unguarded
  <2> QED BY <1>0, <1>1, <2>1 DEF vars
<1>2. ASSUME NEW t \in Txns,
             \/ \E o \in Objects : NameById(t, o) \/ NameByReference(t, o)
             \/ Submit(t) \/ Begin(t) \/ Peek(t) \/ Answer(t) \/ NotFound(t) \/ Store(t) \/ Refuse(t)
      PROVE  RegistryInv' /\ Stays
  <2>1. registry' = registry
    BY <1>2 DEF NameById, NameByReference, Name, Submit, Begin, Peek, Answer, NotFound, Store, Refuse
  <2>2. RegistryInv'
    BY <1>2, BeforeSent
  <2> QED BY <1>0, <2>1, <2>2
<1>3. ASSUME NEW t \in Txns, Execute(t) \/ LoseReply(t)
      PROVE  RegistryInv' /\ Stays
  BY <1>0, <1>3, ExecuteReported, LostUnseen DEF Execute, LoseReply
<1>4. ASSUME NEW t \in Txns, Reply(t)
      PROVE  RegistryInv' /\ Stays
  <2>1. CASE mode = "serial"
    BY <1>0, <1>4, <2>1, SerialReply DEF Reply
  <2>2. CASE mode = "parallel"
    BY <1>4, <2>2, ParallelReply
  <2> QED BY <2>1, <2>2 DEF VersionsInv, TypeOK
<1>5. ASSUME NEW o \in Objects, Foreign(o)
      PROVE  RegistryInv' /\ Stays
  BY <1>0, <1>5, ForeignUnseen DEF Foreign
<1>6. ASSUME NEW o \in Objects, Tombstone(o) \/ Lookup(o) \/ Expiry(o) \/ Evict(o)
      PROVE  RegistryInv' /\ Stays
  BY <1>6, UsersRows
<1> QED BY <1>1, <1>2, <1>3, <1>4, <1>5, <1>6 DEF Next

\* RegistryInv holds in every reachable state, whatever bound the registry has.
THEOREM RegistryInvariance == Spec => []RegistryInv
<1>1. VersionsInv /\ RegistryInv /\ [Next]_vars => RegistryInv'
  BY NextRegistry
<1> QED BY <1>1, InitRegistry, VersionsInvariance, PTL DEF Spec

\* An entry that _upsert_unlocked() left is behind the chain only if it is a digit shorter.
THEOREM OnlyShorterBehind == Spec => []BehindOnlyAcrossWidth
<1>1. VersionsInv /\ RegistryInv => BehindOnlyAcrossWidth
  <2> SUFFICES ASSUME VersionsInv, RegistryInv, NEW o \in Ids(registry),
                      o \notin unseen, SentWith(o) = {}, chain[o].kind = "owned"
               PROVE  \/ At(registry, o).ver = chain[o].ver
                      \/ At(registry, o).ver < Base /\ Base <= chain[o].ver
    BY DEF BehindOnlyAcrossWidth
  <2>1. o \in Objects /\ At(registry, o).ver \in Nat
    BY IdsFinite, EntryTyped DEF RegistryInv
  <2>2. OwnedKnown(o) /\ Reported(o)
    BY <2>1 DEF RegistryInv, Reported
  <2>3. StrGeq(At(registry, o).ver, chain[o].ver) /\ At(registry, o).ver <= lamport[o] /\ chain[o].ver = lamport[o]
    BY <2>2 DEF OwnedKnown
  <2>4. lamport[o] \in Nat /\ lamport[o] < Base * Base
    <3>1. lamport[o] \in 1..MaxVer
      BY <2>1 DEF VersionsInv, TypeOK
    <3> QED BY <3>1, VersionsAssumption DEF Base
  <2> QED BY <2>1, <2>3, <2>4, OrderAcross
<1> QED BY <1>1, VersionsInvariance, RegistryInvariance, PTL

\* sync_to_registry() brings no deleted object back, nor does any other use of the registry.
THEOREM NothingIsRevived == Spec => NothingRevived
<1>1. VersionsInv /\ RegistryInv /\ [Next]_vars =>
        [\A o \in Objects :
           chain[o] = NoRef /\ ~Unguarded(o) /\ ~Live(registry, o) => ~Live(registry', o)]_vars
  BY NextRegistry
<1> QED BY <1>1, VersionsInvariance, RegistryInvariance, PTL DEF Spec, NothingRevived
=============================================================================
