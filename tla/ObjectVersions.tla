--------------------------- MODULE ObjectVersions ---------------------------
(***************************************************************************)
(* Which object versions the executors sign transactions with: from the    *)
(* command that names an object, through the executor's cache and the      *)
(* resolution of deferred inputs, to the effects and the registry.         *)
(*                                                                         *)
(* A transaction of the serial executor is created with the executor's     *)
(* cache, which answers as soon as a command names an object: an object    *)
(* found there is pinned to the version it has then.  Whatever is not      *)
(* found stays deferred and is resolved when the transaction is built,     *)
(* from the cache or by one request to the node.  A transaction of the     *)
(* parallel executor has no cache before it is built and then one of its   *)
(* own; the worker reserves its deferred inputs, not those that the caller *)
(* gave as references.                                                     *)
(*                                                                         *)
(* Queueing, gas, retries and hard stops are in SerialExecutor and         *)
(* ParallelExecutor.  A retry is built again from the inputs the first     *)
(* build resolved, so it stays in phase "ready".                           *)
(***************************************************************************)
EXTENDS ObjectCache, ObjectRegistry, FiniteSets

CONSTANTS
  Txns,      \* transactions
  Modes,     \* the executors the process may use: "serial", "parallel"
  Features,  \* what else may happen: "references", "lost", "share", "delete", "peek", "foreign", "registry"
  FirstVer,  \* the version every object starts with
  MaxVer     \* bound on the versions

ASSUME VersionsAssumption ==
  /\ IsFiniteSet(Objects)
  /\ Modes \subseteq {"serial", "parallel"}
  /\ MaxVer \in Nat /\ MaxVer < Base * Base
  /\ FirstVer \in 1..MaxVer

VARIABLES
  mode,      \* the executor in use
  chain,     \* the current reference of each object; NoRef once deleted
  lamport,   \* the version the last change gave each object, shared or not
  refs,      \* inputs of a transaction: the reference of each, NoRef while deferred
  pinned,    \* the inputs that were resolved when the command named them
  phase,     \* where the transaction is
  queue,     \* submitted transactions, oldest first
  looked,    \* what the lookup of a transaction's inputs found; NoRef is asked for
  answer,    \* what the node answered
  cache,     \* the cache of the serial executor and of each parallel task
  registry,  \* the process-wide registry
  unseen     \* history: objects with a change that no effects told the executor

vars == <<mode, chain, lamport, refs, pinned, phase, queue, looked, answer, cache,
          registry, unseen>>

Phases == {"open", "peeking", "queued", "resolving", "ready", "sent", "done",
           "failed", "stale"}

Caches == Txns \union {"executor"}
CacheOf(t) == IF mode = "serial" THEN "executor" ELSE t

\* The cache of a parallel task ends with the task.
Finished(t) == IF mode = "serial" THEN cache ELSE [cache EXCEPT ![t] = EmptyCache]

\* No answer yet, or no reply yet.
Nothing == [o \in {} |-> NoRef]

Init ==
  /\ mode \in Modes
  /\ chain = [o \in Objects |-> [kind |-> "owned", ver |-> FirstVer]]
  /\ lamport = [o \in Objects |-> FirstVer]
  /\ refs = [t \in Txns |-> Nothing]
  /\ pinned = [t \in Txns |-> {}]
  /\ phase = [t \in Txns |-> "open"]
  /\ queue = <<>>
  /\ looked = [t \in Txns |-> Nothing]
  /\ answer = [t \in Txns |-> Nothing]
  /\ cache = [k \in Caches |-> EmptyCache]
  /\ registry = <<>>
  /\ unseen = {}
------------------------------------------------------------------------------
Inputs(t) == DOMAIN refs[t]
Deferred(t) == {o \in Inputs(t) : refs[t][o] = NoRef}
InFlight(t) == phase[t] \in {"resolving", "ready", "sent"}
SentWith(o) == {t \in Txns : phase[t] = "sent" /\ o \in Inputs(t)}

Move(t, p) == phase' = [phase EXCEPT ![t] = p]

(***************************************************************************)
(* A command of an open transaction names object o: _deferred() asks the   *)
(* transaction's cache.  Further uses share the input (compress_inputs).   *)
(***************************************************************************)
AtNaming(t, o) ==
  IF mode = "serial" THEN GetObject(cache["executor"], o) ELSE NoRef

Name(t, o, ref) ==
  /\ phase[t] = "open"
  /\ o \notin Inputs(t)
  /\ refs' = [refs EXCEPT ![t] = [p \in Inputs(t) \union {o} |->
                                    IF p = o THEN ref ELSE refs[t][p]]]
  /\ pinned' = IF ref = NoRef THEN pinned
                              ELSE [pinned EXCEPT ![t] = @ \union {o}]
  /\ UNCHANGED <<mode, chain, lamport, phase, queue, looked, answer, cache,
                 registry, unseen>>

NameById(t, o) == Name(t, o, AtNaming(t, o))

\* The caller passes a reference it has read itself.
NameByReference(t, o) ==
  /\ "references" \in Features
  /\ chain[o] # NoRef
  /\ Name(t, o, chain[o])

Submit(t) ==
  /\ phase[t] = "open"
  /\ Inputs(t) # {}
  /\ queue' = Append(queue, t)
  /\ Move(t, "queued")
  /\ UNCHANGED <<mode, chain, lamport, refs, pinned, looked, answer, cache,
                 registry, unseen>>
------------------------------------------------------------------------------
(***************************************************************************)
(* _resolve_deferred_inputs(): look up, ask for what is missing, store.    *)
(***************************************************************************)
FromCache(t) ==
  [o \in Inputs(t) |-> IF refs[t][o] = NoRef THEN GetObject(cache[CacheOf(t)], o)
                                             ELSE refs[t][o]]
Missing(t) == {o \in Inputs(t) : FromCache(t)[o] = NoRef}
Asked(t) == {o \in DOMAIN looked[t] : looked[t][o] = NoRef}

\* The parallel worker reserves the deferred inputs of the oldest transaction.
Claim(t) == Inputs(t) \ pinned[t]

\* Mutant: nothing is reserved.
UnclaimedNever(t) == TRUE

Unclaimed(t) == \A u \in Txns : InFlight(u) => Claim(u) \intersect Claim(t) = {}

MayStart(t) ==
  IF mode = "serial" THEN \A u \in Txns : ~InFlight(u) ELSE Unclaimed(t)

Begin(t) ==
  /\ queue # <<>> /\ t = Head(queue)
  /\ MayStart(t)
  /\ queue' = Tail(queue)
  /\ IF Missing(t) = {}
     THEN /\ refs' = [refs EXCEPT ![t] = FromCache(t)]
          /\ Move(t, "ready") /\ UNCHANGED looked
     ELSE /\ looked' = [looked EXCEPT ![t] = FromCache(t)]
          /\ Move(t, "resolving") /\ UNCHANGED refs
  /\ UNCHANGED <<mode, chain, lamport, pinned, answer, cache, registry, unseen>>

(***************************************************************************)
(* raw_kind(), dry runs: the user resolves a clone of an open transaction. *)
(* What the clone fetches goes to the executor's cache all the same.       *)
(***************************************************************************)
Peek(t) ==
  /\ "peek" \in Features /\ mode = "serial"
  /\ phase[t] = "open"
  /\ Missing(t) # {}
  /\ looked' = [looked EXCEPT ![t] = FromCache(t)]
  /\ Move(t, "peeking")
  /\ UNCHANGED <<mode, chain, lamport, refs, pinned, queue, answer, cache, registry,
                 unseen>>

\* The node reads the objects; ids that no longer exist are not in the answer.
Answer(t) ==
  /\ phase[t] \in {"resolving", "peeking"}
  /\ answer[t] = Nothing
  /\ \E o \in Asked(t) : chain[o] # NoRef
  /\ answer' = [answer EXCEPT ![t] =
                  [o \in {p \in Asked(t) : chain[p] # NoRef} |-> chain[o]]]
  /\ UNCHANGED <<mode, chain, lamport, refs, pinned, phase, queue, looked, cache,
                 registry, unseen>>

NotFound(t) ==
  /\ phase[t] \in {"resolving", "peeking"}
  /\ answer[t] = Nothing
  /\ \A o \in Asked(t) : chain[o] = NoRef
  /\ looked' = [looked EXCEPT ![t] = Nothing]
  /\ Move(t, IF phase[t] = "peeking" THEN "open" ELSE "failed")
  /\ UNCHANGED <<mode, chain, lamport, refs, pinned, queue, answer, cache, registry,
                 unseen>>

\* The refs after the answer; an input that was not found fails the build.
Resolved(t) ==
  [o \in Inputs(t) |-> IF o \in DOMAIN answer[t] THEN answer[t][o] ELSE looked[t][o]]

Store(t) ==
  /\ answer[t] # Nothing
  /\ phase[t] \in {"resolving", "peeking"}
  /\ cache' = IF mode = "parallel" /\ DOMAIN answer[t] # Asked(t) THEN Finished(t)
              ELSE [cache EXCEPT ![CacheOf(t)] = AddObjects(@, answer[t])]
  /\ unseen' = IF phase[t] = "peeking"
               THEN unseen \union {o \in DOMAIN answer[t] : answer[t][o] # chain[o]}
               ELSE unseen
  /\ IF phase[t] = "peeking"
     THEN Move(t, "open") /\ UNCHANGED refs
     ELSE IF DOMAIN answer[t] = Asked(t)
     THEN Move(t, "ready") /\ refs' = [refs EXCEPT ![t] = Resolved(t)]
     ELSE Move(t, "failed") /\ UNCHANGED refs
  /\ answer' = [answer EXCEPT ![t] = Nothing]
  /\ looked' = [looked EXCEPT ![t] = Nothing]
  /\ UNCHANGED <<mode, chain, lamport, pinned, queue, registry>>
------------------------------------------------------------------------------
(***************************************************************************)
(* The node: a transaction whose references are all current is executed    *)
(* and changes each of its inputs; any other is refused.                   *)
(***************************************************************************)
Newest(os) == CHOOSE v \in {lamport[o] : o \in os} : \A o \in os : lamport[o] <= v
NextVer(t) == 1 + Newest(Inputs(t))

IsCurrent(t) == \A o \in Inputs(t) : refs[t][o] = chain[o]

\* What may become of an input in a transaction with lamport version v.
Outcomes(o, v) ==
  {IF chain[o].kind = "owned" THEN [kind |-> "owned", ver |-> v] ELSE chain[o]}
    \union (IF "share" \in Features /\ chain[o].kind = "owned"
            THEN {[kind |-> "shared", ver |-> v]} ELSE {})
    \union (IF "delete" \in Features THEN {NoRef} ELSE {})

\* answer[t] holds the effects until the reply arrives.
Execute(t) ==
  /\ phase[t] = "ready" /\ IsCurrent(t)
  /\ NextVer(t) <= MaxVer
  /\ \E eff \in [Inputs(t) -> UNION {Outcomes(o, NextVer(t)) : o \in Inputs(t)}] :
       /\ \A o \in Inputs(t) : eff[o] \in Outcomes(o, NextVer(t))
       /\ chain' = [o \in Objects |-> IF o \in Inputs(t) THEN eff[o] ELSE chain[o]]
       /\ answer' = [answer EXCEPT ![t] = eff]
  /\ lamport' = [o \in Objects |-> IF o \in Inputs(t) THEN NextVer(t) ELSE lamport[o]]
  /\ Move(t, "sent")
  /\ UNCHANGED <<mode, refs, pinned, queue, looked, cache, registry, unseen>>

Refuse(t) ==
  /\ phase[t] = "ready" /\ ~IsCurrent(t)
  /\ Move(t, "stale")
  /\ cache' = Finished(t)
  /\ UNCHANGED <<mode, chain, lamport, refs, pinned, queue, looked, answer, registry,
                 unseen>>

\* The last change of o is the one eff tells of.
Tells(eff, o) ==
  eff[o] = chain[o] /\ (eff[o].kind = "owned" \/ eff[o] = NoRef)

\* An owned object has become shared.
NewlyShared(t) == {o \in Inputs(t) : answer[t][o].kind = "shared" /\ refs[t][o].kind = "owned"}

\* sync_to_registry(): every owned entry of the task's cache, in any order.
SyncEntries(c) == {Entry(o, c.owned[o]) : o \in {p \in Objects : c.owned[p] # 0}}

\* Objects whose entry goes while effects on them are on their way to others than ts.
DroppedInFlight(r, added, ts) ==
  {o \in (Ids(registry) \union added) \ Ids(r) : SentWith(o) \ ts # {}}

\* More entries than fit: one that was newer may go before an older one comes.
Crowded(ids) ==
  IF Cardinality(Ids(registry) \union ids) > MaxEntries
  THEN ids \intersect Ids(registry) ELSE {}

(***************************************************************************)
(* The reply: apply_effects(), and in the parallel executor                *)
(* sync_to_registry() before the reservation is released.  The task's      *)
(* cache ends with the task.                                               *)
(***************************************************************************)
Reply(t) ==
  /\ phase[t] = "sent"
  /\ LET c == ApplyEffects(cache[CacheOf(t)], answer[t])
         told == {o \in Inputs(t) : Tells(answer[t], o)}
         synced == IF mode = "parallel" THEN {e.id : e \in SyncEntries(c)} ELSE {}
     IN /\ cache' = [cache EXCEPT ![CacheOf(t)] =
                       IF mode = "serial" THEN c ELSE EmptyCache]
        /\ IF mode = "serial"
           THEN UNCHANGED registry
           ELSE \E es \in SetToSeqs(SyncEntries(c)) : registry' = UpsertMany(registry, es)
        /\ unseen' = ((unseen \ told) \union NewlyShared(t))
                       \union DroppedInFlight(registry', synced, {t}) \union Crowded(synced)
  /\ answer' = [answer EXCEPT ![t] = Nothing]
  /\ Move(t, "done")
  /\ UNCHANGED <<mode, chain, lamport, refs, pinned, queue, looked>>

\* The transaction was executed and the reply is lost: a failure to the executor.
LoseReply(t) ==
  /\ "lost" \in Features
  /\ phase[t] = "sent"
  /\ unseen' = unseen \union Inputs(t)
  /\ cache' = Finished(t)
  /\ answer' = [answer EXCEPT ![t] = Nothing]
  /\ Move(t, "failed")
  /\ UNCHANGED <<mode, chain, lamport, refs, pinned, queue, looked, registry>>

\* Somebody else changes an owned object.
Foreign(o) ==
  /\ "foreign" \in Features
  /\ chain[o].kind = "owned" /\ lamport[o] < MaxVer
  /\ lamport' = [lamport EXCEPT ![o] = @ + 1]
  /\ chain' = [chain EXCEPT ![o].ver = lamport[o] + 1]
  /\ unseen' = unseen \union {o}
  /\ UNCHANGED <<mode, refs, pinned, phase, queue, looked, answer, cache, registry>>
------------------------------------------------------------------------------
(***************************************************************************)
(* Other users of the registry.  A tombstone is for an object that is      *)
(* known to be gone.                                                       *)
(***************************************************************************)
RegistryStep(r) ==
  /\ "registry" \in Features /\ mode = "parallel"
  /\ registry' = r
  /\ unseen' = unseen \union DroppedInFlight(r, {}, {})
  /\ UNCHANGED <<mode, chain, lamport, refs, pinned, phase, queue, looked, answer, cache>>

Tombstone(o) == chain[o] = NoRef /\ RegistryStep(Upsert(registry, Tomb(o)))
Lookup(o) == o \in Ids(registry) /\ RegistryStep(Touch(registry, o))
Expiry(o) == o \in Ids(registry) /\ RegistryStep(Expire(registry, o))
Evict(o) == o \in Ids(registry) /\ RegistryStep(Without(registry, o))

Next ==
  \/ \E t \in Txns :
       \/ \E o \in Objects : NameById(t, o) \/ NameByReference(t, o)
       \/ Submit(t)
       \/ Begin(t)
       \/ Peek(t)
       \/ Answer(t)
       \/ NotFound(t)
       \/ Store(t)
       \/ Execute(t)
       \/ Refuse(t)
       \/ Reply(t)
       \/ LoseReply(t)
  \/ \E o \in Objects :
       \/ Foreign(o)
       \/ Tombstone(o) \/ Lookup(o) \/ Expiry(o) \/ Evict(o)

Spec == Init /\ [][Next]_vars
------------------------------------------------------------------------------
\* Objects that some transaction names by reference, past the reservations.
Unguarded(o) == mode = "parallel" /\ \E t \in Txns : o \in pinned[t]

RefOrNone == Ref \union {NoRef}

\* Inputs, lookups and answers map some objects to references.
References(r) == DOMAIN r \subseteq Objects /\ r \in [DOMAIN r -> RefOrNone]

TypeOK ==
  /\ mode \in {"serial", "parallel"}
  /\ chain \in [Objects -> RefOrNone] /\ lamport \in [Objects -> 1..MaxVer]
  /\ DOMAIN refs = Txns /\ DOMAIN looked = Txns /\ DOMAIN answer = Txns
  /\ \A t \in Txns : References(refs[t]) /\ References(looked[t]) /\ References(answer[t])
  /\ pinned \in [Txns -> SUBSET Objects]
  /\ phase \in [Txns -> Phases] /\ queue \in Seq(Txns)
  /\ cache \in [Caches -> [owned : [Objects -> Nat], shared : [Objects -> Nat]]]
  /\ unseen \subseteq Objects

(***************************************************************************)
(* What a cache answers is what the chain has: whatever the order of       *)
(* fetches, effects and users' dry runs, an entry can be out of date only  *)
(* while effects on the object are on their way, after a change of it that *)
(* no effects reported (a lost reply, another party, an answer that was    *)
(* stored late), after it has become shared, or when parallel transactions *)
(* name it by reference.  Later effects on the object repair its entry.    *)
(***************************************************************************)
CacheExact ==
  \A k \in Caches, o \in Objects :
    o \in unseen \/ SentWith(o) # {} \/ Unguarded(o)
      \/ GetObject(cache[k], o) \in {NoRef, chain[o]}

(***************************************************************************)
(* Only references taken when a command named the object can be out of     *)
(* date when a transaction is executed: what the build resolved is         *)
(* current, for the serial executor because it does one transaction at a   *)
(* time, for the parallel one because the worker reserved the object.      *)
(***************************************************************************)
OnlyPinsGoStale ==
  \A t \in Txns : phase[t] = "ready" =>
    \A o \in Inputs(t) \ pinned[t] :
      o \in unseen \/ Unguarded(o) \/ refs[t][o] = chain[o]

(***************************************************************************)
(* The registry keeps the newest version it was told of, in whatever order *)
(* parallel tasks report, with one exception of the code: versions are     *)
(* compared as strings, so an entry with fewer digits is kept.  What the   *)
(* bound of the LRU dropped can come back older than it was.               *)
(***************************************************************************)
BehindOnlyAcrossWidth ==
  \A o \in Ids(registry) :
    \/ o \in unseen \/ SentWith(o) # {} \/ chain[o].kind # "owned"
    \/ At(registry, o).tomb
    \/ At(registry, o).ver = chain[o].ver
    \/ At(registry, o).ver < Base /\ Base <= chain[o].ver

(***************************************************************************)
(* Once an object is deleted and no older effects on it are on their way,  *)
(* no task brings it back into the registry, be its tombstone there,       *)
(* expired or evicted.                                                     *)
(***************************************************************************)
Live(r, o) == o \in Ids(r) /\ ~At(r, o).tomb

NothingRevived ==
  [][\A o \in Objects :
       chain[o] = NoRef /\ ~Unguarded(o) /\ ~Live(registry, o) => ~Live(registry', o)]_vars

(***************************************************************************)
(* The invariant behind CacheExact and OnlyPinsGoStale.  What a            *)
(* transaction holds of its inputs depends on its phase.                   *)
(***************************************************************************)
Holds(t) ==
  /\ pinned[t] \subseteq Inputs(t)
  /\ phase[t] \in {"open", "peeking", "queued", "resolving"} =>
       \A o \in Inputs(t) \ pinned[t] : refs[t][o] = NoRef
  /\ phase[t] \in {"resolving", "peeking"} =>
       /\ DOMAIN looked[t] = Inputs(t) /\ DOMAIN answer[t] \subseteq Asked(t)
       /\ \A o \in DOMAIN answer[t] : answer[t][o] # NoRef
  /\ phase[t] = "peeking" => mode = "serial"
  /\ phase[t] \notin {"resolving", "peeking", "sent"} => answer[t] = Nothing
  /\ phase[t] \in {"ready", "sent"} => Deferred(t) = {}
  /\ phase[t] = "sent" =>
       /\ DOMAIN answer[t] = Inputs(t)
       /\ \A o \in Inputs(t) : answer[t][o].kind = "shared" =>
            refs[t][o].kind = "owned" \/ answer[t][o] = refs[t][o]

\* Nobody told the executor of the last change, or reservations are not kept to.
Doubtful(o) == o \in unseen \/ Unguarded(o)

\* In flight, what was looked up, answered, resolved or written is what the chain has.
HeldCurrent(t) ==
  \A o \in Inputs(t) : ~Doubtful(o) =>
    /\ phase[t] = "resolving" =>
         /\ o \in DOMAIN answer[t] => answer[t][o] = chain[o]
         /\ o \notin pinned[t] => looked[t][o] \in {NoRef, chain[o]}
    /\ phase[t] = "ready" /\ o \notin pinned[t] => refs[t][o] = chain[o]
    /\ phase[t] = "sent" => answer[t][o] = chain[o]

\* Transactions in flight share no input that is guarded.
InputsApart ==
  \A t, u \in Txns : t # u /\ InFlight(t) /\ InFlight(u) =>
    \A o \in Inputs(t) \intersect Inputs(u) : Unguarded(o)

\* The cache of a parallel task holds what the task resolved, while it runs.
TaskCaches ==
  \A k \in Caches, o \in Objects : GetObject(cache[k], o) # NoRef =>
    IF mode = "serial" THEN k = "executor"
    ELSE k \in Txns /\ phase[k] \in {"ready", "sent"} /\ o \in Inputs(k)

\* Only a change whose effects are on their way makes an entry out of date.
Changing(o) == \E t \in SentWith(o) : refs[t][o] # chain[o]

CacheCurrent(o) ==
  Doubtful(o) \/ Changing(o) \/ \A k \in Caches : GetObject(cache[k], o) \in {NoRef, chain[o]}

\* What is queued waits there, once.
QueuedOnce ==
  /\ \A i \in 1..Len(queue) : phase[queue[i]] = "queued"
  /\ \A i, j \in 1..Len(queue) : queue[i] = queue[j] => i = j

VersionsInv ==
  /\ TypeOK
  /\ QueuedOnce
  /\ \A t \in Txns : Holds(t) /\ HeldCurrent(t)
  /\ InputsApart
  /\ TaskCaches
  /\ \A o \in Objects : CacheCurrent(o)

(***************************************************************************)
(* The invariant behind BehindOnlyAcrossWidth and NothingRevived: of an    *)
(* object that is owned on the chain the registry holds no tombstone and   *)
(* nothing from the future.  Once the effects of its last change have been *)
(* reported, its entry is as good as the chain's version in the order of   *)
(* strings, so that effects which come late do not replace it.             *)
(***************************************************************************)
Entries == [id : Objects, ver : Nat, tomb : BOOLEAN, expired : BOOLEAN]

OneEach(r) == r \in Seq(Entries) /\ \A i, j \in DOMAIN r : r[i].id = r[j].id => i = j

Reported(o) == o \notin unseen /\ \A t \in SentWith(o) : answer[t][o] # chain[o]

OwnedKnown(o) ==
  /\ chain[o].ver = lamport[o]
  /\ \A t \in SentWith(o) : answer[t][o].kind = "owned" /\ answer[t][o].ver <= lamport[o]
  /\ o \in Ids(registry) => ~At(registry, o).tomb /\ At(registry, o).ver <= lamport[o]
  /\ Reported(o) =>
       /\ o \in Ids(registry) => StrGeq(At(registry, o).ver, chain[o].ver)
       /\ SentWith(o) # {} => o \in Ids(registry)

GoneKnown(o) ==
  chain[o] = NoRef /\ ~Unguarded(o) => \A t \in SentWith(o) : answer[t][o] = NoRef

RegistryInv ==
  /\ OneEach(registry)
  /\ mode = "serial" => registry = <<>>
  /\ \A o \in Objects : (chain[o].kind = "owned" => OwnedKnown(o)) /\ GoneKnown(o)
=============================================================================
