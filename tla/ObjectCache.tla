----------------------------- MODULE ObjectCache -----------------------------
(***************************************************************************)
(* The object cache of an executor (executors/cache.py) as a value and the *)
(* operations on it.  None of its methods suspends, so each is one step of *)
(* whoever calls it.                                                       *)
(*                                                                         *)
(* Of an ObjectSummary the model keeps what a reference is made of: the    *)
(* version of an owned object, the initial version of a shared one.        *)
(* Version 0 stands for an absent entry.  The function and custom buckets  *)
(* hold data that no other operation reads.                                *)
(***************************************************************************)
EXTENDS Naturals

CONSTANT Objects  \* object ids

\* What a transaction needs to name an object: its kind and a version.
Ref == [kind : {"owned", "shared"}, ver : Nat \ {0}]
NoRef == [kind |-> "none", ver |-> 0]

EmptyCache == [owned |-> [o \in Objects |-> 0], shared |-> [o \in Objects |-> 0]]

\* get_object(): the owned bucket is asked first.
GetObject(c, o) ==
  IF c.owned[o] # 0 THEN [kind |-> "owned", ver |-> c.owned[o]]
  ELSE IF c.shared[o] # 0 THEN [kind |-> "shared", ver |-> c.shared[o]]
  ELSE NoRef

(***************************************************************************)
(* add_objects(): each summary goes to the bucket of its kind; the other   *)
(* bucket is left as it is.  refs maps the ids of the summaries to them.   *)
(***************************************************************************)
Written(bucket, refs, k) ==
  [o \in Objects |-> IF o \in DOMAIN refs /\ refs[o].kind = k
                     THEN refs[o].ver ELSE bucket[o]]

AddObjects(c, refs) ==
  [owned |-> Written(c.owned, refs, "owned"),
   shared |-> Written(c.shared, refs, "shared")]

\* delete_objects(): from both buckets.
DeleteObjects(c, ids) ==
  [owned |-> [o \in Objects |-> IF o \in ids THEN 0 ELSE c.owned[o]],
   shared |-> [o \in Objects |-> IF o \in ids THEN 0 ELSE c.shared[o]]]

(***************************************************************************)
(* applyEffects(): effects say of each object the transaction changed what *)
(* has become of it; NoRef means that it no longer exists.                 *)
(***************************************************************************)
Deleted(eff) == {o \in DOMAIN eff : eff[o] = NoRef}
Added(eff) == [o \in DOMAIN eff \ Deleted(eff) |-> eff[o]]

\* Mutants: what no longer exists is kept; what was written is not taken over.
KeepDeleted(c, eff) == AddObjects(c, Added(eff))
ForgetWritten(c, eff) == DeleteObjects(c, Deleted(eff))

ApplyEffects(c, eff) == AddObjects(DeleteObjects(c, Deleted(eff)), Added(eff))
=============================================================================
