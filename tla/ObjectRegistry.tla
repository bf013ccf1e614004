---------------------------- MODULE ObjectRegistry ----------------------------
(***************************************************************************)
(* The process-wide object registry (executors/object_registry.py) as a    *)
(* value and the operations on it: the OrderedDict of entries, least       *)
(* recently used first.  No method suspends while it holds the lock, so    *)
(* each is one step.                                                       *)
(*                                                                         *)
(* Versions are strings of decimal digits and are compared as strings.     *)
(* The comparison below is right for numbers of one or two digits.         *)
(***************************************************************************)
EXTENDS Naturals, Sequences, SequencesExt

CONSTANT MaxEntries  \* _max, the LRU bound

ASSUME RegistryAssumption == MaxEntries \in Nat \ {0}

Base == 10

Entry(o, v) == [id |-> o, ver |-> v, tomb |-> FALSE, expired |-> FALSE]
Tomb(o) == [id |-> o, ver |-> 0, tomb |-> TRUE, expired |-> FALSE]

Ids(r) == {r[i].id : i \in DOMAIN r}
Place(r, o) == CHOOSE i \in DOMAIN r : r[i].id = o
At(r, o) == r[Place(r, o)]

\* pop(object_id, None)
Without(r, o) == IF o \in Ids(r) THEN RemoveAt(r, Place(r, o)) ELSE r

\* str(v) >= str(w)
Lead(v) == IF v < Base THEN v ELSE v \div Base
StrGeq(v, w) == Lead(v) > Lead(w) \/ (Lead(v) = Lead(w) /\ v >= w)

\* while len(_entries) > _max: popitem(last=False)
Bounded(r) ==
  IF Len(r) <= MaxEntries THEN r ELSE SubSeq(r, Len(r) - MaxEntries + 1, Len(r))

\* _upsert_unlocked() returns early: both entries have a version and the old one wins.
Stale(r, e) ==
  /\ e.id \in Ids(r)
  /\ ~e.tomb /\ ~At(r, e.id).tomb
  /\ StrGeq(At(r, e.id).ver, e.ver)

\* Mutants: the last writer wins; the bound is forgotten.
UpsertLast(r, e) == Bounded(Append(Without(r, e.id), e))
UpsertUnbounded(r, e) == IF Stale(r, e) THEN r ELSE Append(Without(r, e.id), e)

Upsert(r, e) == IF Stale(r, e) THEN r ELSE Bounded(Append(Without(r, e.id), e))

\* upsert_many()
UpsertMany(r, es) == FoldLeft(Upsert, r, es)

\* _get_unlocked(): an expired tombstone goes, what is found becomes the most recent.
Touch(r, o) ==
  IF o \notin Ids(r) THEN r
  ELSE IF At(r, o).tomb /\ At(r, o).expired THEN Without(r, o)
  ELSE Append(Without(r, o), At(r, o))

\* Time passes the deadline of the tombstone of o.
Expire(r, o) ==
  [i \in DOMAIN r |-> IF r[i].id = o /\ r[i].tomb
                      THEN [r[i] EXCEPT !.expired = TRUE] ELSE r[i]]
=============================================================================
