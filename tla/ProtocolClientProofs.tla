------------------------ MODULE ProtocolClientProofs ------------------------
(***************************************************************************)
(* Proofs about ProtocolClient, for any callers, objects, modules, pages   *)
(* and timeouts: its invariant ClientInv, and from it that a call that     *)
(* ends well has a complete result.                                        *)
(***************************************************************************)
EXTENDS ProtocolClient, CollectionLemmas

-----------------------------------------------------------------------------
(***************************************************************************)
(* Numbers in order.                                                       *)
(***************************************************************************)

\* In a finite set every rank is taken: as many elements as are left have at least n below them.
LEMMA RanksTaken ==
  ASSUME NEW S \in SUBSET Nat, IsFiniteSet(S)
  PROVE  \A n \in Nat : n < Cardinality(S) => \E i \in S : Cardinality(Below(S, i)) = n
<1> DEFINE taken == {n \in Nat : n < Cardinality(S) =>
                                   \E i \in S : Cardinality(Below(S, i)) = n}
<1>0. /\ Cardinality(S) \in Nat
      /\ \A T \in SUBSET S : /\ IsFiniteSet(T) /\ Cardinality(T) \in Nat
  BY FS_CardinalityType, FS_Subset
<1>1. 0 \in taken
  <2> SUFFICES ASSUME 0 < Cardinality(S) PROVE \E i \in S : Cardinality(Below(S, i)) = 0
    OBVIOUS
  <2>1. S # {}
    BY <1>0, FS_EmptySet
  <2>2. PICK i \in S : \A j \in S : i <= j
    BY <2>1, LeastExists
  <2>3. Below(S, i) = {}
    <3>1. \A j \in S : ~(j < i)
      BY <2>2
    <3> QED BY <3>1 DEF Below
  <2> QED BY <2>3, FS_EmptySet
<1>2. ASSUME NEW n \in taken PROVE n + 1 \in taken
  <2> SUFFICES ASSUME n + 1 < Cardinality(S)
               PROVE  \E i \in S : Cardinality(Below(S, i)) = n + 1
    OBVIOUS
  <2>1. n \in Nat /\ n < Cardinality(S)
    BY <1>0
  <2>2. PICK i \in S : Cardinality(Below(S, i)) = n
    BY <2>1
  <2> DEFINE upTo == Below(S, i) \union {i}
             rest == S \ upTo
  <2>3. i \notin Below(S, i) /\ Below(S, i) \in SUBSET S
    BY DEF Below
  <2>4. Cardinality(upTo) = n + 1
    BY <1>0, <2>2, <2>3, FS_AddElement
  <2>5. rest # {}
    <3>1. upTo # S
      BY <2>1, <2>4
    <3> QED BY <2>3, <3>1
  <2>6. PICK j \in rest : \A m \in rest : j <= m
    <3>1. rest \in SUBSET Nat
      OBVIOUS
    <3> HIDE DEF rest
    <3> QED BY <2>5, <3>1, LeastExists
  <2>7. Below(S, j) = upTo
    <3>1. i < j
      BY <2>6 DEF Below
    <3>2. \A m \in S : m < j => m \in upTo
      BY <2>6
    <3>3. \A m \in upTo : m \in S /\ m < j
      BY <3>1 DEF Below
    <3> QED BY <3>2, <3>3 DEF Below
  <2> QED BY <2>4, <2>6, <2>7
<1>3. \A n \in Nat : n \in taken
  <2>1. taken \in SUBSET Nat
    OBVIOUS
  <2> HIDE DEF taken
  <2> QED BY <1>1, <1>2, <2>1, ByInduction
<1> QED BY <1>3

\* A larger element has more elements below it.
LEMMA RanksGrow ==
  ASSUME NEW S \in SUBSET Nat, IsFiniteSet(S), NEW i \in S, NEW j \in S, i < j
  PROVE  /\ Cardinality(Below(S, i)) \in Nat /\ Cardinality(Below(S, j)) \in Nat
         /\ Cardinality(Below(S, i)) < Cardinality(Below(S, j))
<1>1. /\ Below(S, i) \in SUBSET Below(S, j) /\ i \in Below(S, j) /\ i \notin Below(S, i)
      /\ Below(S, j) \in SUBSET S
  <2>1. \A m \in S : /\ m \in Nat
                     /\ m < i => m < j
    OBVIOUS
  <2>2. ~(i < i)
    BY <2>1
  <2> QED BY <2>1, <2>2 DEF Below
<1>2. IsFiniteSet(Below(S, j))
  BY <1>1, FS_Subset
<1>3. IsFiniteSet(Below(S, i))
  BY <1>1, <1>2, FS_Subset
<1>4. Cardinality(Below(S, i) \union {i}) = Cardinality(Below(S, i)) + 1
  BY <1>1, <1>3, FS_AddElement
<1>5. Below(S, i) \union {i} \in SUBSET Below(S, j)
  BY <1>1
<1>6. Cardinality(Below(S, i) \union {i}) <= Cardinality(Below(S, j))
  BY <1>2, <1>5, FS_Subset
<1>7. Cardinality(Below(S, i)) \in Nat /\ Cardinality(Below(S, j)) \in Nat
  BY <1>2, <1>3, FS_CardinalityType
<1> QED BY <1>4, <1>6, <1>7

\* InOrder lists the elements of a finite set, the smallest first.
LEMMA InOrderLists ==
  ASSUME NEW S \in SUBSET Nat, IsFiniteSet(S)
  PROVE  /\ InOrder(S) \in Seq(S) /\ Sorted(InOrder(S)) /\ ToSet(InOrder(S)) = S
<1> DEFINE s == InOrder(S)
           N == Cardinality(S)
           Rank(i) == Cardinality(Below(S, i))
<1>1. N \in Nat
  BY FS_CardinalityType
<1>2. ASSUME NEW n \in 1..N PROVE s[n] \in S /\ Rank(s[n]) = n - 1
  <2>1. n - 1 \in Nat /\ n - 1 < N
    BY <1>1
  <2>2. \E i \in S : Rank(i) = n - 1
    BY <2>1, RanksTaken
  <2>3. s[n] = CHOOSE i \in S : Rank(i) = n - 1
    BY DEF InOrder
  <2> HIDE DEF s, Rank
  <2> QED BY <2>2, <2>3
<1>3. s \in Seq(S) /\ DOMAIN s = 1..N
  <2>1. s \in [1..N -> S]
    BY <1>2 DEF InOrder
  <2> HIDE DEF s, N
  <2> QED BY <1>1, <2>1, AsSequence
<1>4. \A i, j \in S : i < j => Rank(i) \in Nat /\ Rank(j) \in Nat /\ Rank(i) < Rank(j)
  BY RanksGrow
<1>5. \A i \in S : Rank(i) \in Nat /\ Rank(i) < N
  <2> SUFFICES ASSUME NEW i \in S PROVE Rank(i) \in Nat /\ Rank(i) < N
    OBVIOUS
  <2>1. Below(S, i) \in SUBSET S /\ Below(S, i) # S
    BY DEF Below
  <2>2. Rank(i) <= N /\ IsFiniteSet(Below(S, i)) /\ Rank(i) # N
    BY <2>1, FS_Subset
  <2>3. Rank(i) \in Nat
    BY <2>2, FS_CardinalityType
  <2> QED BY <1>1, <2>2, <2>3
<1> HIDE DEF s, N, Rank
<1>6. ASSUME NEW n \in 1..N, NEW m \in 1..N, n < m PROVE s[n] < s[m]
  <2>1. s[n] \in Nat /\ s[m] \in Nat /\ s[n] \in S /\ s[m] \in S
    BY <1>2
  <2>2. Rank(s[n]) = n - 1 /\ Rank(s[m]) = m - 1
    BY <1>2
  <2>3. s[n] # s[m]
    BY <1>6, <2>2
  <2>4. ~(s[m] < s[n])
    BY <1>1, <1>4, <1>6, <2>1, <2>2
  <2> QED BY <2>1, <2>3, <2>4
<1>7. ASSUME NEW i \in S PROVE \E n \in 1..N : s[n] = i
  <2> DEFINE n == Rank(i) + 1
  <2>1. n \in 1..N /\ Rank(i) = n - 1
    BY <1>1, <1>5
  <2>2. s[n] \in S /\ Rank(s[n]) = Rank(i)
    BY <1>2, <2>1
  <2>3. ~(s[n] < i) /\ ~(i < s[n])
    <3> HIDE DEF n
    <3>1. \A j \in S : Rank(j) = Rank(i) => ~(j < i) /\ ~(i < j)
      BY <1>4
    <3> QED BY <2>2, <3>1
  <2>4. s[n] \in Nat /\ i \in Nat
    BY <2>2
  <2> QED BY <2>1, <2>3, <2>4
<1>8. Sorted(s)
  BY <1>3, <1>6 DEF Sorted
<1>9. ToSet(s) = S
  BY <1>2, <1>3, <1>7 DEF ToSet
<1> QED BY <1>3, <1>8, <1>9 DEF s

LEMMA SeqOfMore ==
  ASSUME NEW S, NEW T, S \subseteq T, NEW s \in Seq(S)
  PROVE  s \in Seq(T)
<1>1. s \in [1..Len(s) -> T] /\ Len(s) \in Nat
  OBVIOUS
<1> QED BY <1>1, AsSequence

\* An item of two lists is in one of them.
EachFrom(q, r, s) ==
  \A i \in DOMAIN q : (\E n \in DOMAIN r : q[i] = r[n]) \/ (\E n \in DOMAIN s : q[i] = s[n])

LEMMA EitherList ==
  ASSUME NEW S, NEW r \in Seq(S), NEW s \in Seq(S)
  PROVE  r \o s \in Seq(S) /\ EachFrom(r \o s, r, s)
<1>1. /\ Len(r) \in Nat /\ Len(s) \in Nat /\ r \o s \in Seq(S)
      /\ DOMAIN r = 1..Len(r) /\ DOMAIN s = 1..Len(s) /\ DOMAIN (r \o s) = 1..(Len(r) + Len(s))
      /\ \A i \in 1..(Len(r) + Len(s)) :
           (r \o s)[i] = IF i <= Len(r) THEN r[i] ELSE s[i - Len(r)]
  OBVIOUS
<1>2. ASSUME NEW i \in 1..(Len(r) + Len(s))
      PROVE  i \in DOMAIN r \/ (~(i <= Len(r)) /\ i - Len(r) \in DOMAIN s)
  BY <1>1
<1>3. \A i \in DOMAIN r : i <= Len(r)
  BY <1>1
<1> QED BY <1>1, <1>2, <1>3 DEF EachFrom

\* What comes after a cursor continues what is there up to it.
LEMMA Continued ==
  ASSUME NEW r \in Seq(Nat), NEW s \in Seq(Nat), Sorted(r), Sorted(s),
         NEW t \in Nat, \A i \in ToSet(r) : i <= t, \A i \in ToSet(s) : i > t
  PROVE  Sorted(r \o s) /\ ToSet(r \o s) = ToSet(r) \union ToSet(s)
<1> DEFINE n == Len(r)
           m == Len(s)
           q == r \o s
<1>1. /\ n \in Nat /\ m \in Nat /\ DOMAIN r = 1..n /\ DOMAIN s = 1..m /\ DOMAIN q = 1..(n + m)
      /\ \A i \in 1..n : q[i] = r[i] /\ r[i] \in Nat
      /\ \A i \in 1..m : q[n + i] = s[i] /\ s[i] \in Nat
  OBVIOUS
<1>2. /\ \A i \in 1..n : r[i] <= t
      /\ \A i \in 1..m : s[i] > t
  BY <1>1 DEF ToSet
<1>3. /\ \A i, j \in 1..n : i < j => r[i] < r[j]
      /\ \A i, j \in 1..m : i < j => s[i] < s[j]
  BY <1>1 DEF Sorted
<1> HIDE DEF n, m, q
<1>4. \A i \in 1..(n + m) : i \in 1..n \/ (i - n \in 1..m /\ i = n + (i - n))
  BY <1>1
<1>5. ASSUME NEW i \in 1..(n + m), NEW j \in 1..(n + m), i < j PROVE q[i] < q[j]
  <2>1. CASE i \in 1..n /\ j \in 1..n
    BY <1>1, <1>3, <1>5, <2>1
  <2>2. CASE i \in 1..n /\ j \notin 1..n
    <3>1. j - n \in 1..m /\ q[j] = s[j - n]
      BY <1>1, <1>4, <2>2
    <3>2. r[i] <= t /\ s[j - n] > t /\ r[i] \in Nat /\ s[j - n] \in Nat
      BY <1>1, <1>2, <2>2, <3>1
    <3> QED BY <1>1, <2>2, <3>1, <3>2
  <2>3. CASE i \notin 1..n
    <3>1. i - n \in 1..m /\ j - n \in 1..m /\ i - n < j - n
      BY <1>1, <1>4, <1>5, <2>3
    <3>2. q[i] = s[i - n] /\ q[j] = s[j - n]
      BY <1>1, <1>4, <1>5, <2>3
    <3> QED BY <1>3, <3>1, <3>2
  <2> QED BY <2>1, <2>2, <2>3
<1>6. Sorted(q)
  BY <1>1, <1>5 DEF Sorted
<1>7. ToSet(q) = ToSet(r) \union ToSet(s)
  <2>1. ASSUME NEW x \in ToSet(q) PROVE x \in ToSet(r) \/ x \in ToSet(s)
    <3>1. PICK i \in 1..(n + m) : q[i] = x
      BY <1>1 DEF ToSet
    <3>2. CASE i \in 1..n
      BY <1>1, <3>1, <3>2 DEF ToSet
    <3>3. CASE i \notin 1..n
      <4>1. i - n \in 1..m /\ x = s[i - n]
        BY <1>1, <1>4, <3>1, <3>3
      <4> QED BY <1>1, <4>1 DEF ToSet
    <3> QED BY <3>2, <3>3
  <2>2. \A i \in 1..n : i \in 1..(n + m)
    BY <1>1
  <2>3. \A i \in 1..m : n + i \in 1..(n + m)
    BY <1>1
  <2>4. \A x \in ToSet(r) : x \in ToSet(q)
    BY <1>1, <2>2 DEF ToSet
  <2>5. \A x \in ToSet(s) : x \in ToSet(q)
    BY <1>1, <2>3 DEF ToSet
  <2> QED BY <2>1, <2>4, <2>5
<1> QED BY <1>6, <1>7 DEF q

\* The first elements of a list in order are those up to the last of them.
LEMMA Prefix ==
  ASSUME NEW s \in Seq(Nat), Sorted(s), NEW n \in Nat, 0 < n, n < Len(s)
  PROVE  LET r == SubSeq(s, 1, n) IN
         /\ r \in Seq(Nat) /\ Sorted(r) /\ Last(r) \in ToSet(s)
         /\ ToSet(r) = {i \in ToSet(s) : i <= Last(r)}
<1> DEFINE r == SubSeq(s, 1, n)
           m == Len(s)
<1>1. /\ m \in Nat /\ DOMAIN s = 1..m /\ r \in Seq(Nat) /\ DOMAIN r = 1..n /\ Len(r) = n
      /\ \A i \in 1..n : i \in 1..m /\ r[i] = s[i]
      /\ \A i \in 1..m : s[i] \in Nat
  OBVIOUS
<1>2. \A i, j \in 1..m : i < j => s[i] < s[j]
  BY <1>1 DEF Sorted
<1>3. Last(r) = s[n] /\ n \in 1..n /\ n \in 1..m
  BY <1>1 DEF Last
<1> HIDE DEF r, m
<1>4. Sorted(r)
  BY <1>1, <1>2 DEF Sorted
<1>5. \A i \in 1..m : s[i] <= s[n] <=> i \in 1..n
  <2> SUFFICES ASSUME NEW i \in 1..m PROVE s[i] <= s[n] <=> i \in 1..n
    OBVIOUS
  <2>1. s[i] \in Nat /\ s[n] \in Nat /\ i \in Nat
    BY <1>1, <1>3
  <2>2. CASE i < n
    <3>1. s[i] < s[n]
      BY <1>2, <1>3, <2>2
    <3> QED BY <2>1, <2>2, <3>1
  <2>3. CASE i = n
    BY <2>1, <2>3
  <2>4. CASE n < i
    <3>1. s[n] < s[i]
      BY <1>2, <1>3, <2>4
    <3> QED BY <2>1, <2>4, <3>1
  <2> QED BY <2>1, <2>2, <2>3, <2>4
<1>6. ToSet(r) = {i \in ToSet(s) : i <= s[n]}
  <2>1. ToSet(r) = {s[i] : i \in 1..n}
    BY <1>1 DEF ToSet
  <2>2. ToSet(s) = {s[i] : i \in 1..m}
    BY <1>1 DEF ToSet
  <2> QED BY <1>1, <1>5, <2>1, <2>2
<1>7. Last(r) \in ToSet(s)
  BY <1>1, <1>3 DEF ToSet
<1> QED BY <1>1, <1>3, <1>4, <1>6, <1>7 DEF r

(***************************************************************************)
(* A page has the elements after the cursor: all of them if it is the      *)
(* last, otherwise those up to the next cursor.                            *)
(***************************************************************************)
LEMMA PageHolds ==
  ASSUME ClientAssumption, NEW S \in SUBSET (Nat \ {0}), IsFiniteSet(S), NEW token \in Nat
  PROVE  LET page == Page(S, token) IN
         /\ page.items \in Seq(Nat) /\ Sorted(page.items)
         /\ page.next \in Nat
         /\ page.next = 0 => ToSet(page.items) = {i \in S : i > token}
         /\ page.next # 0 => /\ page.next > token
                             /\ ToSet(page.items) = {i \in S : i > token /\ i <= page.next}
<1> DEFINE left == {i \in S : i > token}
           rest == InOrder(left)
           size == Min({PageSize, Len(rest)})
           items == SubSeq(rest, 1, size)
<1>1. left \in SUBSET Nat /\ IsFiniteSet(left)
  BY FS_Subset
<1>2. rest \in Seq(left) /\ Sorted(rest) /\ ToSet(rest) = left
  <2> HIDE DEF left
  <2> QED BY <1>1, InOrderLists
<1>3. rest \in Seq(Nat) /\ Len(rest) \in Nat /\ PageSize \in Nat /\ 0 < PageSize
  <2>1. rest \in Seq(Nat)
    <3> HIDE DEF rest, left
    <3> QED BY <1>1, <1>2, SeqOfMore
  <2>2. PageSize \in Nat \ {0}
    BY DEF ClientAssumption
  <2> QED BY <2>1, <2>2
<1>4. Page(S, token) = [items |-> items, next |-> IF Len(rest) > PageSize THEN Last(items) ELSE 0]
  BY DEF Page
<1> HIDE DEF left, rest
<1>5. CASE Len(rest) > PageSize
  <2>1. size = PageSize
    <3>1. {PageSize, Len(rest)} \in SUBSET Nat /\ {PageSize, Len(rest)} # {}
      BY <1>3
    <3>2. size \in {PageSize, Len(rest)} /\ size <= PageSize
      BY <3>1, MinIsLeast
    <3> HIDE DEF size
    <3> QED BY <1>3, <1>5, <3>2
  <2>2. /\ items \in Seq(Nat) /\ Sorted(items) /\ Last(items) \in left
        /\ ToSet(items) = {i \in left : i <= Last(items)}
    BY <1>2, <1>3, <1>5, <2>1, Prefix
  <2> HIDE DEF items
  <2>3. Page(S, token).items = items /\ Page(S, token).next = Last(items)
    BY <1>4, <1>5
  <2>4. Last(items) \in Nat /\ Last(items) # 0 /\ Last(items) > token
    BY <2>2 DEF left
  <2>5. ToSet(items) = {i \in S : i > token /\ i <= Last(items)}
    BY <2>2 DEF left
  <2> QED BY <2>2, <2>3, <2>4, <2>5
<1>6. CASE ~(Len(rest) > PageSize)
  <2>1. size = Len(rest)
    <3>1. {PageSize, Len(rest)} \in SUBSET Nat /\ {PageSize, Len(rest)} # {}
      BY <1>3
    <3>2. size \in {PageSize, Len(rest)} /\ size <= Len(rest)
      BY <3>1, MinIsLeast
    <3> HIDE DEF size
    <3> QED BY <1>3, <1>6, <3>2
  <2>2. items = rest
    <3>1. SubSeq(rest, 1, Len(rest)) = rest
      BY <1>3
    <3> QED BY <2>1, <3>1
  <2>3. Page(S, token).items = rest /\ Page(S, token).next = 0
    BY <1>4, <1>6, <2>2
  <2> QED BY <1>2, <1>3, <2>3 DEF left
<1> QED BY <1>5, <1>6

-----------------------------------------------------------------------------
(***************************************************************************)
(* The record of a call as it changes.                                     *)
(***************************************************************************)
Call(k) == DOMAIN k = DOMAIN NoCall

LEMMA Fields ==
  DOMAIN NoCall = {"pc", "kind", "ask", "token", "result", "at", "part", "waited",
                   "kept", "seen", "cut"}
BY DEF NoCall

\* What its progress depends on: not on the place of its request.
Same(j, k) ==
  /\ Call(j) /\ j.kind = k.kind /\ j.ask = k.ask /\ j.token = k.token /\ j.result = k.result
  /\ j.at = k.at /\ j.part = k.part /\ j.kept = k.kept /\ j.seen = k.seen /\ j.cut = k.cut

LEMMA Placed ==
  ASSUME NEW k, Call(k), NEW place
  PROVE  LET j == [k EXCEPT !.pc = place] IN Same(j, k) /\ j.pc = place
BY Fields DEF Call, Same

LEMMA SameUnderway ==
  ASSUME NEW j, NEW k, Same(j, k), Underway(k)
  PROVE  Underway(j)
<1>1. ObjectsSoFar(k) => ObjectsSoFar(j)
  BY DEF Same, ObjectsSoFar
<1>2. ModulesSoFar(k) => ModulesSoFar(j)
  BY DEF Same, ModulesSoFar
<1>3. Completing(k) => Completing(j)
  BY DEF Same, Completing, Listed, Done
<1>4. PartSoFar(k) => PartSoFar(j)
  BY DEF Same, PartSoFar
<1> QED BY <1>1, <1>2, <1>3, <1>4 DEF Same, Underway

LEMMA EndsOK ==
  ASSUME NEW k, NEW how \in {"failed", "raised"}
  PROVE  CallOK(Ends(k, how))
<1> DEFINE j == Ends(k, how)
<1>1. Call(j) /\ j.pc = how /\ j.ask = "none"
  BY DEF Ends, NoCall, Call
<1> HIDE DEF j
<1>2. CallOK(j)
  BY <1>1 DEF CallOK, Call
<1> QED BY <1>2 DEF j

LEMMA EndedOK ==
  ASSUME NEW k, k.kind \in {"objects", "package", "module", "transaction"}, Complete(k)
  PROVE  CallOK(Ended(k))
<1> DEFINE j == Ended(k)
<1>1. /\ Call(j) /\ j.pc = "ok" /\ j.ask = "none" /\ j.kind = k.kind /\ j.result = k.result
      /\ j.kept = k.kept /\ j.seen = k.seen /\ j.cut = k.cut
  BY DEF Ended, NoCall, Call
<1> HIDE DEF j
<1>2. Complete(j)
  BY <1>1 DEF Complete, ObjectsComplete, ModulesComplete
<1>3. CallOK(j)
  BY <1>1, <1>2 DEF CallOK, Call
<1> QED BY <1>3 DEF j

-----------------------------------------------------------------------------
(***************************************************************************)
(* A listing of objects.                                                   *)
(***************************************************************************)
LEMMA ObjectPageHolds ==
  ASSUME ClientAssumption, owned \subseteq Objects, NEW token \in Nat
  PROVE  LET page == ObjectPage(token)
             real == owned \ Reservations IN
         /\ page.items \in Seq(Objects) /\ Sorted(page.items)
         /\ page.next \in Nat
         /\ page.next = 0 => ToSet(page.items) = {i \in real : i > token}
         /\ page.next # 0 => /\ page.next > token
                             /\ ToSet(page.items) = {i \in real : i > token /\ i <= page.next}
<1> DEFINE cut == Page(owned, token)
           kept == ToSet(cut.items) \ Reservations
           page == ObjectPage(token)
<1>1. owned \in SUBSET (Nat \ {0}) /\ IsFiniteSet(owned)
  <2>1. Objects \subseteq Nat \ {0} /\ IsFiniteSet(Objects)
    BY DEF ClientAssumption
  <2> QED BY <2>1, FS_Subset
<1>2. /\ cut.items \in Seq(Nat) /\ cut.next \in Nat
      /\ cut.next = 0 => ToSet(cut.items) = {i \in owned : i > token}
      /\ cut.next # 0 => /\ cut.next > token
                         /\ ToSet(cut.items) = {i \in owned : i > token /\ i <= cut.next}
  BY <1>1, PageHolds
<1>3. page.items = InOrder(kept) /\ page.next = cut.next
  BY DEF ObjectPage, Page
<1> HIDE DEF cut, page
<1>4. kept \subseteq owned
  BY <1>2
<1>5. kept \in SUBSET Nat /\ IsFiniteSet(kept) /\ kept \subseteq Objects
  BY <1>1, <1>4, FS_Subset
<1>6. InOrder(kept) \in Seq(kept) /\ Sorted(InOrder(kept)) /\ ToSet(InOrder(kept)) = kept
  <2> HIDE DEF kept
  <2> QED BY <1>5, InOrderLists
<1>7. page.items \in Seq(Objects)
  <2> HIDE DEF kept
  <2> QED BY <1>3, <1>5, <1>6, SeqOfMore
<1>8. cut.next = 0 => kept = {i \in owned \ Reservations : i > token}
  BY <1>2
<1>9. cut.next # 0 => kept = {i \in owned \ Reservations : i > token /\ i <= cut.next}
  BY <1>2
<1> HIDE DEF kept
<1> QED BY <1>2, <1>3, <1>6, <1>7, <1>8, <1>9 DEF page

LEMMA ObjectsAnsweredOK ==
  ASSUME ClientAssumption, owned \subseteq Objects,
         NEW k, Call(k), k.pc = "requested", k.kind = "objects", ObjectsSoFar(k)
  PROVE  CallOK(ObjectsAnswered(k))
<1> DEFINE page == ObjectPage(k.token)
           grown == [k EXCEPT !.result = k.result \o page.items, !.token = page.next]
<1>1. /\ Call(grown) /\ grown.result = k.result \o page.items /\ grown.token = page.next
      /\ grown.pc = "requested" /\ grown.kind = "objects" /\ grown.ask = k.ask
      /\ grown.kept = k.kept /\ grown.seen = k.seen
  BY Fields DEF Call
<1>2. ObjectsAnswered(k) = IF page.next = 0 THEN Ended(grown) ELSE grown
  BY DEF ObjectsAnswered
<1>3. /\ k.ask = "objects" /\ k.token \in Nat
      /\ k.kept \subseteq owned /\ owned \subseteq k.seen
      /\ k.result \in Seq(Objects) /\ Sorted(k.result)
      /\ ToSet(k.result) \subseteq {i \in k.seen \ Reservations : i <= k.token}
      /\ {i \in k.kept \ Reservations : i <= k.token} \subseteq ToSet(k.result)
  BY DEF ObjectsSoFar
<1>4. /\ page.items \in Seq(Objects) /\ Sorted(page.items)
      /\ page.next \in Nat
      /\ page.next = 0 => ToSet(page.items) = {i \in owned \ Reservations : i > k.token}
      /\ page.next # 0 => /\ page.next > k.token
                          /\ ToSet(page.items) =
                               {i \in owned \ Reservations : i > k.token /\ i <= page.next}
  BY <1>3, ObjectPageHolds
<1> HIDE DEF page, grown
<1>5. Objects \subseteq Nat
  BY DEF ClientAssumption
<1>6. /\ \A i \in ToSet(k.result) : i <= k.token
      /\ \A i \in ToSet(page.items) : i > k.token
  BY <1>3, <1>4
<1>7. /\ Sorted(grown.result)
      /\ ToSet(grown.result) = ToSet(k.result) \union ToSet(page.items)
  <2>1. k.result \in Seq(Nat) /\ page.items \in Seq(Nat)
    BY <1>3, <1>4, <1>5, SeqOfMore
  <2> QED BY <1>1, <1>3, <1>4, <1>6, <2>1, Continued
<1>8. \A i \in owned : i \in Nat /\ (i <= k.token \/ i > k.token)
  BY <1>3, <1>5
<1>9. CASE page.next = 0
  <2>1. k.kept \ Reservations \subseteq ToSet(grown.result)
    BY <1>3, <1>4, <1>7, <1>8, <1>9
  <2>2. ToSet(grown.result) \subseteq k.seen \ Reservations
    BY <1>3, <1>4, <1>7, <1>9
  <2>3. Complete(grown)
    BY <1>1, <1>7, <2>1, <2>2 DEF Complete, ObjectsComplete
  <2> QED BY <1>1, <1>2, <1>9, <2>3, EndedOK
<1>10. CASE page.next # 0
  <2>1. grown.result \in Seq(Objects)
    BY <1>1, <1>3, <1>4
  <2>2. \A i \in Nat : i <= k.token => i <= page.next
    BY <1>3, <1>4, <1>10
  <2>3. ToSet(k.result) \subseteq Nat
    <3>1. \A i \in DOMAIN k.result : k.result[i] \in Objects
      BY <1>3, ElementOf
    <3> QED BY <1>5, <3>1 DEF ToSet
  <2>4. ToSet(grown.result) \subseteq {i \in k.seen \ Reservations : i <= page.next}
    BY <1>3, <1>4, <1>7, <1>10, <2>2, <2>3
  <2>5. {i \in k.kept \ Reservations : i <= page.next} \subseteq ToSet(grown.result)
    BY <1>3, <1>4, <1>7, <1>8, <1>10
  <2>6. ObjectsSoFar(grown)
    BY <1>1, <1>3, <1>4, <1>7, <2>1, <2>4, <2>5 DEF ObjectsSoFar
  <2>7. CallOK(grown)
    BY <1>1, <2>6 DEF CallOK, Call, Underway
  <2> QED BY <1>2, <1>10, <2>7
<1> QED BY <1>9, <1>10

-----------------------------------------------------------------------------
(***************************************************************************)
(* Modules.                                                                *)
(***************************************************************************)
Protocols == protocol \in {"gql", "grpc"}

LEMMA ModuleHolds ==
  ASSUME ClientAssumption, NEW m \in Modules
  PROVE  /\ Module(m) \in ModuleRecords /\ Module(m).name = m /\ AsItCame(Module(m))
         /\ Pages[m]["functions"] \in Nat \ {0} /\ Pages[m]["datatypes"] \in Nat \ {0}
         /\ "functions" \notin Module(m).more => Module(m).functions = Pages[m]["functions"]
         /\ "datatypes" \notin Module(m).more => Module(m).datatypes = Pages[m]["datatypes"]
<1>1. Pages[m]["functions"] \in Nat \ {0} /\ Pages[m]["datatypes"] \in Nat \ {0}
  BY DEF ClientAssumption
<1>2. Module(m) \in ModuleRecords /\ Module(m).name = m
  BY <1>1 DEF Module, ModuleRecords, Parts
<1>3. "functions" \notin Module(m).more => Module(m).functions = Pages[m]["functions"]
  <2>1. "functions" \in Module(m).more <=> protocol = "gql" /\ Pages[m]["functions"] > 1
    BY DEF Module
  <2>2. Module(m).functions = IF protocol = "gql" THEN 1 ELSE Pages[m]["functions"]
    BY DEF Module
  <2> QED BY <1>1, <2>1, <2>2
<1>4. "datatypes" \notin Module(m).more => Module(m).datatypes = Pages[m]["datatypes"]
  <2>1. "datatypes" \in Module(m).more <=> protocol = "gql" /\ Pages[m]["datatypes"] > 1
    BY DEF Module
  <2>2. Module(m).datatypes = IF protocol = "gql" THEN 1 ELSE Pages[m]["datatypes"]
    BY DEF Module
  <2> QED BY <1>1, <2>1, <2>2
<1> QED BY <1>1, <1>2, <1>3, <1>4 DEF AsItCame

\* The names of a list of modules.
LEMMA NamesHold ==
  ASSUME ClientAssumption, NEW r \in Seq(ModuleRecords)
  PROVE  /\ NamesOf(r) \in Seq(Modules) /\ NamesOf(r) \in Seq(Nat) /\ DOMAIN NamesOf(r) = DOMAIN r
         /\ \A i \in DOMAIN r : NamesOf(r)[i] = r[i].name /\ r[i] \in ModuleRecords
<1>1. Len(r) \in Nat /\ DOMAIN r = 1..Len(r) /\ \A i \in DOMAIN r : r[i] \in ModuleRecords
  OBVIOUS
<1>2. \A i \in DOMAIN r : r[i].name \in Modules
  BY <1>1 DEF ModuleRecords
<1>3. NamesOf(r) \in [1..Len(r) -> Modules]
  BY <1>1, <1>2 DEF NamesOf
<1>4. NamesOf(r) \in Seq(Modules)
  BY <1>1, <1>3, AsSequence
<1>5. Modules \subseteq Nat
  BY DEF ClientAssumption
<1>6. NamesOf(r) \in Seq(Nat)
  BY <1>4, <1>5, SeqOfMore
<1> QED BY <1>1, <1>4, <1>6 DEF NamesOf

LEMMA NamesJoin ==
  ASSUME ClientAssumption, NEW r \in Seq(ModuleRecords), NEW s \in Seq(ModuleRecords)
  PROVE  NamesOf(r \o s) = NamesOf(r) \o NamesOf(s)
<1> DEFINE q == r \o s
           a == NamesOf(r)
           b == NamesOf(s)
<1>1. /\ Len(r) \in Nat /\ Len(s) \in Nat /\ q \in Seq(ModuleRecords)
      /\ DOMAIN r = 1..Len(r) /\ DOMAIN s = 1..Len(s) /\ DOMAIN q = 1..(Len(r) + Len(s))
      /\ \A i \in DOMAIN q : q[i] = IF i <= Len(r) THEN r[i] ELSE s[i - Len(r)]
  OBVIOUS
<1>2. /\ a \in Seq(Nat) /\ DOMAIN a = DOMAIN r /\ \A i \in DOMAIN r : a[i] = r[i].name
      /\ b \in Seq(Nat) /\ DOMAIN b = DOMAIN s /\ \A i \in DOMAIN s : b[i] = s[i].name
  BY NamesHold
<1>3. /\ NamesOf(q) \in Seq(Nat) /\ DOMAIN NamesOf(q) = DOMAIN q
      /\ \A i \in DOMAIN q : NamesOf(q)[i] = q[i].name
  BY <1>1, NamesHold
<1> HIDE DEF q, a, b
<1>4. Len(a) = Len(r) /\ Len(b) = Len(s)
  BY <1>1, <1>2
<1>5. /\ a \o b \in Seq(Nat) /\ DOMAIN (a \o b) = 1..(Len(a) + Len(b))
      /\ \A i \in 1..(Len(a) + Len(b)) : (a \o b)[i] = IF i <= Len(a) THEN a[i] ELSE b[i - Len(a)]
  BY <1>2
<1>6. ASSUME NEW i \in DOMAIN q PROVE NamesOf(q)[i] = (a \o b)[i]
  <2>1. i \in Nat /\ i >= 1 /\ i <= Len(r) + Len(s)
    BY <1>1
  <2>2. CASE i <= Len(r)
    <3>1. i \in DOMAIN r
      BY <1>1, <2>1, <2>2
    <3> QED BY <1>1, <1>2, <1>3, <1>4, <1>5, <2>2, <3>1
  <2>3. CASE ~(i <= Len(r))
    <3>1. i - Len(r) \in DOMAIN s
      BY <1>1, <2>1, <2>3
    <3>2. q[i] = s[i - Len(r)] /\ NamesOf(q)[i] = q[i].name
      BY <1>1, <1>3, <2>3
    <3>3. i \in 1..(Len(a) + Len(b))
      BY <1>1, <1>4
    <3>4. (a \o b)[i] = b[i - Len(r)]
      BY <1>4, <1>5, <2>3, <3>3
    <3> QED BY <1>2, <3>1, <3>2, <3>4
  <2> QED BY <2>2, <2>3
<1>7. DOMAIN NamesOf(q) = DOMAIN (a \o b)
  BY <1>1, <1>3, <1>4, <1>5
<1> HIDE DEF q
<1>8. NamesOf(q) = a \o b
  <2>1. \A f, g \in Seq(Nat) : DOMAIN f = DOMAIN g /\ (\A i \in DOMAIN f : f[i] = g[i]) => f = g
    OBVIOUS
  <2> QED BY <1>3, <1>5, <1>6, <1>7, <2>1
<1> QED BY <1>8 DEF q, a, b

\* A page of a package, as a page of the names of its modules.
LEMMA PackagePageHolds ==
  ASSUME ClientAssumption, NEW token \in Nat, protocol # "gql" => token = 0
  PROVE  LET page == PackagePage(token) IN
         /\ page.items \in Seq(ModuleRecords)
         /\ \A i \in DOMAIN page.items : AsItCame(page.items[i])
         /\ Sorted(NamesOf(page.items)) /\ page.next \in Nat
         /\ page.next = 0 => ToSet(NamesOf(page.items)) = {m \in Modules : m > token}
         /\ page.next # 0 => /\ page.next > token /\ protocol = "gql"
                             /\ ToSet(NamesOf(page.items)) =
                                  {m \in Modules : m > token /\ m <= page.next}
<1> DEFINE cut == IF protocol = "gql" THEN Page(Modules, token)
                  ELSE [items |-> InOrder(Modules), next |-> 0]
           page == PackagePage(token)
<1>1. Modules \in SUBSET (Nat \ {0}) /\ IsFiniteSet(Modules)
  BY DEF ClientAssumption
<1>2. /\ cut.items \in Seq(Nat) /\ Sorted(cut.items) /\ cut.next \in Nat
      /\ cut.next = 0 => ToSet(cut.items) = {m \in Modules : m > token}
      /\ cut.next # 0 => /\ cut.next > token /\ protocol = "gql"
                         /\ ToSet(cut.items) = {m \in Modules : m > token /\ m <= cut.next}
  <2>1. CASE protocol = "gql"
    BY <1>1, <2>1, PageHolds
  <2>2. CASE protocol # "gql"
    <3>1. /\ InOrder(Modules) \in Seq(Modules) /\ Sorted(InOrder(Modules))
          /\ ToSet(InOrder(Modules)) = Modules
      BY <1>1, InOrderLists
    <3>2. cut.items = InOrder(Modules) /\ cut.next = 0
      BY <2>2
    <3>3. InOrder(Modules) \in Seq(Nat)
      BY <1>1, <3>1, SeqOfMore
    <3>4. {m \in Modules : m > token} = Modules
      <4>1. token = 0 /\ \A m \in Modules : m > 0
        BY <1>1, <2>2
      <4> QED BY <4>1
    <3> HIDE DEF cut
    <3> QED BY <3>1, <3>2, <3>3, <3>4
  <2> QED BY <2>1, <2>2
<1>3. page = [items |-> [i \in DOMAIN cut.items |-> Module(cut.items[i])], next |-> cut.next]
  BY DEF PackagePage
<1>4. page.items = [i \in DOMAIN cut.items |-> Module(cut.items[i])] /\ page.next = cut.next
  <2> HIDE DEF cut, page
  <2> QED BY <1>3
<1> HIDE DEF cut, page
<1>5. \A i \in DOMAIN cut.items : cut.items[i] \in Modules
  <2>1. ToSet(cut.items) \subseteq Modules
    BY <1>2
  <2> QED BY <2>1 DEF ToSet
<1>6. \A i \in DOMAIN cut.items : /\ Module(cut.items[i]) \in ModuleRecords
                                  /\ Module(cut.items[i]).name = cut.items[i]
                                  /\ AsItCame(Module(cut.items[i]))
  BY <1>5, ModuleHolds
<1>7. page.items \in Seq(ModuleRecords) /\ DOMAIN page.items = DOMAIN cut.items
  <2>1. Len(cut.items) \in Nat /\ DOMAIN cut.items = 1..Len(cut.items)
    BY <1>2
  <2>2. page.items \in [1..Len(cut.items) -> ModuleRecords]
    BY <1>4, <1>6, <2>1
  <2> QED BY <2>1, <2>2, AsSequence
<1>8. NamesOf(page.items) = cut.items
  <2>1. NamesOf(page.items) = [i \in DOMAIN cut.items |-> cut.items[i]]
    BY <1>4, <1>6, <1>7 DEF NamesOf
  <2> QED BY <1>2, <2>1
<1> QED BY <1>2, <1>4, <1>6, <1>7, <1>8 DEF page

-----------------------------------------------------------------------------
(***************************************************************************)
(* A listing of the modules of a package, and a module by itself.          *)
(***************************************************************************)

\* The modules up to the one at hand are done.
Ready(k) ==
  /\ Call(k) /\ k.kind = "package" /\ k.pc = "requested"
  /\ Listed(k) /\ k.at \in Nat
  /\ \A i \in DOMAIN k.result :
       IF i <= k.at THEN Done(k.result[i], k) ELSE AsItCame(k.result[i])

\* A module that came with nothing more to fetch is whole.
LEMMA NothingMore ==
  ASSUME ClientAssumption, NEW x \in ModuleRecords, AsItCame(x), x.more = {}
  PROVE  Whole(x)
<1>1. x.name \in Modules
  BY DEF ModuleRecords
<1>2. x = Module(x.name)
  BY DEF AsItCame
<1>3. /\ "functions" \notin Module(x.name).more => Module(x.name).functions = Pages[x.name]["functions"]
      /\ "datatypes" \notin Module(x.name).more => Module(x.name).datatypes = Pages[x.name]["datatypes"]
  BY <1>1, ModuleHolds
<1>4. x.functions = Pages[x.name]["functions"] /\ x.datatypes = Pages[x.name]["datatypes"]
  BY <1>2, <1>3
<1> QED BY <1>4 DEF Whole

LEMMA NextModuleOK ==
  ASSUME ClientAssumption, NEW k, Ready(k)
  PROVE  CallOK(NextModule(k))
<1> DEFINE rest == {i \in DOMAIN k.result : i > k.at /\ k.result[i].more # {}}
           j == [k EXCEPT !.ask = "module", !.at = Min(rest),
                          !.part = [name |-> k.result[Min(rest)].name]]
<1>1. /\ k.result \in Seq(ModuleRecords) /\ k.at \in Nat /\ Call(k)
      /\ Sorted(NamesOf(k.result)) /\ ToSet(NamesOf(k.result)) = Modules
      /\ k.kind = "package" /\ k.pc = "requested"
      /\ \A i \in DOMAIN k.result :
           IF i <= k.at THEN Done(k.result[i], k) ELSE AsItCame(k.result[i])
  BY DEF Ready, Listed
<1>2. /\ Len(k.result) \in Nat /\ DOMAIN k.result = 1..Len(k.result)
      /\ \A i \in DOMAIN k.result : k.result[i] \in ModuleRecords
  BY <1>1
<1>3. NextModule(k) = IF rest = {} THEN Ended(k) ELSE j
  BY DEF NextModule
<1>4. ASSUME NEW i \in DOMAIN k.result, i \notin rest PROVE Done(k.result[i], k)
  <2>1. CASE i <= k.at
    BY <1>1, <2>1
  <2>2. CASE ~(i <= k.at)
    <3>1. i > k.at
      BY <1>1, <1>2, <2>2
    <3>2. k.result[i].more = {} /\ AsItCame(k.result[i])
      BY <1>1, <1>4, <2>2, <3>1
    <3> QED BY <1>2, <3>2, NothingMore DEF Done
  <2> QED BY <2>1, <2>2
<1>5. CASE rest = {}
  <2>1. \A i \in DOMAIN k.result : Done(k.result[i], k)
    <3> HIDE DEF rest
    <3> QED BY <1>4, <1>5
  <2>2. ModulesComplete(k)
    BY <1>1, <2>1 DEF ModulesComplete, Done
  <2>3. Complete(k)
    BY <1>1, <2>2 DEF Complete
  <2> QED BY <1>1, <1>3, <1>5, <2>3, EndedOK
<1>6. CASE rest # {}
  <2> DEFINE n == Min(rest)
  <2>1. n \in rest /\ \A i \in rest : n <= i
    <3>1. rest \in SUBSET Nat
      BY <1>2
    <3> HIDE DEF rest
    <3> QED BY <1>6, <3>1, MinIsLeast
  <2>2. n \in DOMAIN k.result /\ n > k.at
    BY <2>1
  <2> HIDE DEF n, rest
  <2>3. /\ Call(j) /\ j.ask = "module" /\ j.at = n /\ j.part = [name |-> k.result[n].name]
        /\ j.kind = k.kind /\ j.pc = k.pc /\ j.result = k.result /\ j.cut = k.cut
    BY <1>1, Fields DEF Call, n
  <2> HIDE DEF j
  <2>4. ASSUME NEW i \in DOMAIN k.result
        PROVE  /\ i < n => Done(k.result[i], k)
               /\ i > n => AsItCame(k.result[i])
    <3>1. i \in Nat /\ n \in Nat
      BY <1>2, <2>2
    <3>2. i < n => i \notin rest
      BY <2>1, <3>1
    <3>3. i > n => ~(i <= k.at)
      BY <1>1, <2>2, <3>1
    <3> QED BY <1>1, <1>4, <3>2, <3>3
  <2>5. Completing(j)
    <3>1. Listed(j)
      BY <1>1, <2>3 DEF Listed
    <3>2. j.at \in DOMAIN j.result /\ j.part.name = j.result[j.at].name
      BY <2>2, <2>3
    <3>3. \A i \in DOMAIN j.result : /\ i < j.at => Done(j.result[i], j)
                                     /\ i > j.at => AsItCame(j.result[i])
      BY <2>3, <2>4 DEF Done
    <3> QED BY <3>1, <3>2, <3>3 DEF Completing
  <2>6. PartSoFar(j)
    <3>1. k.result[n] \in ModuleRecords
      BY <1>2, <2>2
    <3>2. j.part.name \in Modules
      BY <2>3, <3>1 DEF ModuleRecords
    <3> QED BY <2>3, <3>2 DEF PartSoFar
  <2>7. Underway(j)
    BY <1>1, <2>3, <2>5, <2>6 DEF Underway
  <2>8. CallOK(j)
    BY <1>1, <2>3, <2>7 DEF CallOK, Call
  <2> QED BY <1>3, <1>6, <2>8
<1> QED BY <1>5, <1>6

LEMMA PackageAnsweredOK ==
  ASSUME ClientAssumption, Protocols,
         NEW k, Call(k), k.pc = "requested", k.kind = "package", ModulesSoFar(k)
  PROVE  CallOK(PackageAnswered(k))
<1> DEFINE page == PackagePage(k.token)
           grown == [k EXCEPT !.result = k.result \o page.items, !.token = page.next]
<1>1. /\ Call(grown) /\ grown.result = k.result \o page.items /\ grown.token = page.next
      /\ grown.pc = "requested" /\ grown.kind = "package" /\ grown.ask = k.ask
      /\ grown.at = k.at
  BY Fields DEF Call
<1>2. PackageAnswered(k) = IF page.next = 0 THEN NextModule(grown) ELSE grown
  BY DEF PackageAnswered
<1>3. /\ k.ask = "package" /\ k.token \in Nat /\ k.at = 0
      /\ protocol # "gql" => k.token = 0
      /\ k.result \in Seq(ModuleRecords) /\ \A i \in DOMAIN k.result : AsItCame(k.result[i])
      /\ Sorted(NamesOf(k.result)) /\ ToSet(NamesOf(k.result)) = {m \in Modules : m <= k.token}
  BY DEF ModulesSoFar, Protocols
<1>4. /\ page.items \in Seq(ModuleRecords)
      /\ \A i \in DOMAIN page.items : AsItCame(page.items[i])
      /\ Sorted(NamesOf(page.items)) /\ page.next \in Nat
      /\ page.next = 0 => ToSet(NamesOf(page.items)) = {m \in Modules : m > k.token}
      /\ page.next # 0 => /\ page.next > k.token /\ protocol = "gql"
                          /\ ToSet(NamesOf(page.items)) =
                               {m \in Modules : m > k.token /\ m <= page.next}
  BY <1>3, PackagePageHolds
<1> HIDE DEF page, grown
<1>5. /\ grown.result \in Seq(ModuleRecords)
      /\ \A i \in DOMAIN grown.result : AsItCame(grown.result[i])
  <2>1. k.result \in Seq(ModuleRecords) /\ page.items \in Seq(ModuleRecords)
    BY <1>3, <1>4
  <2>2. /\ k.result \o page.items \in Seq(ModuleRecords)
        /\ EachFrom(k.result \o page.items, k.result, page.items)
    BY <2>1, EitherList
  <2>3. grown.result \in Seq(ModuleRecords) /\ EachFrom(grown.result, k.result, page.items)
    <3>1. grown.result = k.result \o page.items
      BY <1>1
    <3> QED BY <2>2, <3>1
  <2>4. /\ \A i \in DOMAIN k.result : AsItCame(k.result[i])
        /\ \A i \in DOMAIN page.items : AsItCame(page.items[i])
    BY <1>3, <1>4
  <2>5. \A i \in DOMAIN grown.result : AsItCame(grown.result[i])
    BY <2>3, <2>4 DEF EachFrom
  <2> QED BY <2>3, <2>5
<1>6. /\ Sorted(NamesOf(grown.result))
      /\ ToSet(NamesOf(grown.result)) = ToSet(NamesOf(k.result)) \union ToSet(NamesOf(page.items))
  <2>1. NamesOf(grown.result) = NamesOf(k.result) \o NamesOf(page.items)
    BY <1>1, <1>3, <1>4, NamesJoin
  <2>2. NamesOf(k.result) \in Seq(Nat) /\ NamesOf(page.items) \in Seq(Nat)
    BY <1>3, <1>4, NamesHold
  <2>3. /\ \A i \in ToSet(NamesOf(k.result)) : i <= k.token
        /\ \A i \in ToSet(NamesOf(page.items)) : i > k.token
    BY <1>3, <1>4
  <2>4. Sorted(NamesOf(k.result)) /\ Sorted(NamesOf(page.items)) /\ k.token \in Nat
    BY <1>3, <1>4
  <2> QED BY <2>1, <2>2, <2>3, <2>4, Continued
<1>7. \A m \in Modules : m \in Nat
  BY DEF ClientAssumption
<1>8. CASE page.next = 0
  <2>1. ToSet(NamesOf(grown.result)) = Modules
    <3>1. \A m \in Modules : m <= k.token \/ m > k.token
      BY <1>3, <1>7
    <3> QED BY <1>3, <1>4, <1>6, <1>8, <3>1
  <2>2. Listed(grown)
    BY <1>5, <1>6, <2>1 DEF Listed
  <2>3. \A i \in DOMAIN grown.result : ~(i <= grown.at)
    BY <1>1, <1>3, <1>5
  <2>4. Ready(grown)
    <3>1. \A i \in DOMAIN grown.result :
            IF i <= grown.at THEN Done(grown.result[i], grown) ELSE AsItCame(grown.result[i])
      BY <1>5, <2>3
    <3>2. grown.at \in Nat
      BY <1>1, <1>3
    <3> QED BY <1>1, <2>2, <3>1, <3>2 DEF Ready
  <2> QED BY <1>2, <1>8, <2>4, NextModuleOK
<1>9. CASE page.next # 0
  <2>1. ToSet(NamesOf(grown.result)) = {m \in Modules : m <= page.next}
    <3>1. \A m \in Modules : /\ m <= k.token => m <= page.next
                             /\ m <= k.token \/ m > k.token
      BY <1>3, <1>4, <1>7, <1>9
    <3> QED BY <1>3, <1>4, <1>6, <1>9, <3>1
  <2>2. protocol # "grpc"
    BY <1>4, <1>9
  <2>3. ModulesSoFar(grown)
    BY <1>1, <1>3, <1>4, <1>5, <1>6, <2>1, <2>2 DEF ModulesSoFar
  <2>4. CallOK(grown)
    BY <1>1, <2>3 DEF CallOK, Call, Underway
  <2> QED BY <1>2, <1>9, <2>4
<1> QED BY <1>8, <1>9

\* A call with a module at hand.
AtHand(k) ==
  /\ Call(k) /\ k.pc = "requested" /\ k.part.name \in Modules
  /\ k.kind = "module" \/ (k.kind = "package" /\ Completing(k))

\* Only the rest of the module at hand may change.
LEMMA HandKept ==
  ASSUME NEW k, AtHand(k), NEW j, Call(j), j.pc = k.pc, j.kind = k.kind, j.result = k.result,
         j.at = k.at, j.cut = k.cut, j.part.name = k.part.name
  PROVE  AtHand(j)
<1>1. Completing(k) => Completing(j)
  BY DEF Completing, Listed, Done
<1> QED BY <1>1 DEF AtHand

LEMMA HandOK ==
  ASSUME NEW k, AtHand(k), PartSoFar(k)
  PROVE  CallOK(k)
BY DEF AtHand, Underway, CallOK, Call

LEMMA ModuleDoneOK ==
  ASSUME ClientAssumption, NEW k, AtHand(k), k.part \in ModuleRecords, Whole(k.part)
  PROVE  CallOK(ModuleDone(k))
<1>1. CASE k.kind = "module"
  <2> DEFINE j == [k EXCEPT !.result = <<k.part>>]
  <2>1. j.result = <<k.part>> /\ j.kind = "module"
    BY <1>1, Fields DEF AtHand, Call
  <2> HIDE DEF j
  <2>2. j.result[1] = k.part
    BY <2>1
  <2>3. Complete(j)
    BY <2>1, <2>2 DEF Complete
  <2>4. CallOK(Ended(j))
    BY <2>1, <2>3, EndedOK
  <2> QED BY <1>1, <2>4 DEF ModuleDone, j
<1>2. CASE k.kind # "module"
  <2> DEFINE r == [k.result EXCEPT ![k.at] = k.part]
             j == [k EXCEPT !.result = r]
  <2>1. /\ k.kind = "package" /\ Call(k) /\ k.pc = "requested"
        /\ Listed(k) /\ k.at \in DOMAIN k.result /\ k.part.name = k.result[k.at].name
        /\ \A i \in DOMAIN k.result : /\ i < k.at => Done(k.result[i], k)
                                      /\ i > k.at => AsItCame(k.result[i])
    BY <1>2 DEF AtHand, Completing
  <2>2. k.result \in Seq(ModuleRecords)
    BY <2>1 DEF Listed
  <2>3. /\ r \in Seq(ModuleRecords) /\ DOMAIN r = DOMAIN k.result
        /\ \A i \in DOMAIN k.result : r[i] = IF i = k.at THEN k.part ELSE k.result[i]
    BY <2>1, <2>2
  <2>4. /\ Call(j) /\ j.result = r /\ j.kind = "package" /\ j.pc = "requested" /\ j.at = k.at
        /\ j.cut = k.cut
    BY <2>1, Fields DEF Call
  <2>5. ModuleDone(k) = NextModule(j)
    BY <1>2 DEF ModuleDone
  <2>6. NamesOf(r) = NamesOf(k.result)
    <3> HIDE DEF r
    <3> QED BY <2>1, <2>3 DEF NamesOf
  <2> HIDE DEF r, j
  <2>7. Listed(j)
    BY <2>1, <2>3, <2>4, <2>6 DEF Listed
  <2>8. k.at \in Nat /\ \A i \in DOMAIN k.result : i \in Nat
    BY <2>1, <2>2
  <2>9. ASSUME NEW i \in DOMAIN j.result
        PROVE  IF i <= j.at THEN Done(j.result[i], j) ELSE AsItCame(j.result[i])
    <3>1. i \in DOMAIN k.result /\ i \in Nat
      BY <2>3, <2>4, <2>8, <2>9
    <3>2. CASE i = k.at
      <4>1. j.result[i] = k.part /\ i <= j.at
        BY <2>3, <2>4, <2>8, <3>1, <3>2
      <4> QED BY <4>1 DEF Done
    <3>3. CASE i < k.at
      <4>1. j.result[i] = k.result[i] /\ i <= j.at
        BY <2>3, <2>4, <2>8, <3>1, <3>3
      <4> QED BY <2>1, <2>4, <3>1, <3>3, <4>1 DEF Done
    <3>4. CASE i > k.at
      <4>1. j.result[i] = k.result[i] /\ ~(i <= j.at)
        BY <2>3, <2>4, <2>8, <3>1, <3>4
      <4> QED BY <2>1, <3>1, <3>4, <4>1
    <3> QED BY <2>8, <3>1, <3>2, <3>3, <3>4
  <2>10. Ready(j)
    BY <2>4, <2>7, <2>8, <2>9 DEF Ready
  <2> QED BY <2>5, <2>10, NextModuleOK
<1> QED BY <1>1, <1>2

LEMMA DatatypesOK ==
  ASSUME ClientAssumption, NEW k, AtHand(k), NEW m \in Modules,
         k.part = [Module(m) EXCEPT !.functions = Pages[m]["functions"]]
  PROVE  CallOK(Datatypes(k))
<1>1. /\ k.part \in ModuleRecords /\ k.part.name = m
      /\ k.part.more = Module(m).more /\ k.part.functions = Pages[m]["functions"]
      /\ k.part.datatypes = Module(m).datatypes
  BY ModuleHolds DEF ModuleRecords
<1>2. CASE "datatypes" \in k.part.more
  <2> DEFINE j == [k EXCEPT !.ask = "datatypes", !.token = 0]
  <2>1. /\ Call(j) /\ j.ask = "datatypes" /\ j.token = 0 /\ j.part = k.part /\ j.pc = k.pc
        /\ j.kind = k.kind /\ j.result = k.result /\ j.at = k.at /\ j.cut = k.cut
    BY Fields DEF AtHand, Call
  <2>2. Datatypes(k) = j
    BY <1>2 DEF Datatypes
  <2> HIDE DEF j
  <2>3. AtHand(j)
    BY <2>1, HandKept
  <2>4. j.token \in Nat /\ j.token < Pages[m]["datatypes"]
    BY <2>1, ModuleHolds
  <2>5. PartSoFar(j)
    BY <1>1, <2>1, <2>4 DEF PartSoFar
  <2> QED BY <2>2, <2>3, <2>5, HandOK
<1>3. CASE "datatypes" \notin k.part.more
  <2>1. Module(m).datatypes = Pages[m]["datatypes"]
    BY <1>1, <1>3, ModuleHolds
  <2>2. Whole(k.part)
    BY <1>1, <2>1 DEF Whole
  <2> QED BY <1>1, <1>3, <2>2, ModuleDoneOK DEF Datatypes
<1> QED BY <1>2, <1>3

LEMMA FunctionsOK ==
  ASSUME ClientAssumption, NEW k, AtHand(k), NEW m \in Modules, k.part = Module(m)
  PROVE  CallOK(Functions(k))
<1>1. Module(m) \in ModuleRecords /\ Module(m).name = m
  BY ModuleHolds
<1>2. CASE "functions" \in k.part.more
  <2> DEFINE j == [k EXCEPT !.ask = "functions", !.token = 0]
  <2>1. /\ Call(j) /\ j.ask = "functions" /\ j.token = 0 /\ j.part = k.part /\ j.pc = k.pc
        /\ j.kind = k.kind /\ j.result = k.result /\ j.at = k.at /\ j.cut = k.cut
    BY Fields DEF AtHand, Call
  <2>2. Functions(k) = j
    BY <1>2 DEF Functions
  <2> HIDE DEF j
  <2>3. AtHand(j)
    BY <2>1, HandKept
  <2>4. j.token \in Nat /\ j.token < Pages[m]["functions"]
    BY <2>1, ModuleHolds
  <2>5. PartSoFar(j)
    BY <1>1, <2>1, <2>4 DEF PartSoFar
  <2> QED BY <2>2, <2>3, <2>5, HandOK
<1>3. CASE "functions" \notin k.part.more
  <2>1. Module(m).functions = Pages[m]["functions"]
    BY <1>3, ModuleHolds
  <2>2. k.part = [Module(m) EXCEPT !.functions = Pages[m]["functions"]]
    BY <1>1, <2>1 DEF ModuleRecords
  <2>3. Functions(k) = Datatypes(k)
    BY <1>3 DEF Functions
  <2> QED BY <2>2, <2>3, DatatypesOK
<1> QED BY <1>2, <1>3

LEMMA ModuleAnsweredOK ==
  ASSUME ClientAssumption, NEW k, AtHand(k)
  PROVE  CallOK(ModuleAnswered(k))
<1> DEFINE m == k.part.name
           j == [k EXCEPT !.part = Module(m)]
<1>1. /\ Call(j) /\ j.part = Module(m) /\ j.pc = k.pc
      /\ j.kind = k.kind /\ j.result = k.result /\ j.at = k.at /\ j.cut = k.cut
  BY Fields DEF AtHand, Call
<1>2. m \in Modules /\ Module(m).name = m
  BY ModuleHolds DEF AtHand
<1> HIDE DEF j, m
<1>3. AtHand(j)
  BY <1>1, <1>2, HandKept DEF m
<1>4. CallOK(Functions(j))
  BY <1>1, <1>2, <1>3, FunctionsOK
<1> QED BY <1>4 DEF ModuleAnswered, j, m

LEMMA PartAnsweredOK ==
  ASSUME ClientAssumption, NEW k, AtHand(k), PartSoFar(k), k.ask \in {"functions", "datatypes"}
  PROVE  CallOK(PartAnswered(k))
<1> DEFINE m == k.part.name
           fetched == k.token + 1
           further == [k EXCEPT !.token = fetched]
           filled == [k EXCEPT !.part = [k.part EXCEPT ![k.ask] = fetched]]
<1>1. PartAnswered(k) =
        IF fetched < Pages[m][k.ask] THEN further
        ELSE IF k.ask = "functions" THEN Datatypes(filled) ELSE ModuleDone(filled)
  BY DEF PartAnswered
<1>2. /\ m \in Modules /\ k.token \in Nat /\ k.token < Pages[m][k.ask]
      /\ Pages[m]["functions"] \in Nat /\ Pages[m]["datatypes"] \in Nat
      /\ Module(m) \in ModuleRecords /\ Module(m).name = m
  BY ModuleHolds DEF PartSoFar
<1>3. /\ k.ask = "functions" => k.part = Module(m)
      /\ k.ask = "datatypes" => k.part = [Module(m) EXCEPT !.functions = Pages[m]["functions"]]
  BY DEF PartSoFar
<1> HIDE DEF m
<1>4. CASE fetched < Pages[m][k.ask]
  <2>1. /\ Call(further) /\ further.token = fetched /\ further.ask = k.ask
        /\ further.part = k.part /\ further.pc = k.pc /\ further.kind = k.kind
        /\ further.result = k.result /\ further.at = k.at /\ further.cut = k.cut
    BY Fields DEF AtHand, Call
  <2>2. fetched \in Nat
    BY <1>2
  <2> HIDE DEF further, fetched
  <2>3. AtHand(further)
    BY <2>1, HandKept
  <2>4. PartSoFar(further)
    BY <1>2, <1>3, <1>4, <2>1, <2>2 DEF PartSoFar, m
  <2> QED BY <1>1, <1>4, <2>3, <2>4, HandOK
<1>5. CASE ~(fetched < Pages[m][k.ask])
  <2>1. fetched = Pages[m][k.ask]
    <3>1. Pages[m][k.ask] \in Nat
      BY <1>2
    <3> QED BY <1>2, <1>5, <3>1
  <2>2. /\ Call(filled) /\ filled.part = [k.part EXCEPT ![k.ask] = fetched] /\ filled.pc = k.pc
        /\ filled.kind = k.kind /\ filled.result = k.result /\ filled.at = k.at
        /\ filled.cut = k.cut
    BY Fields DEF AtHand, Call
  <2> HIDE DEF filled, fetched
  <2>3. CASE k.ask = "functions"
    <3>1. filled.part = [Module(m) EXCEPT !.functions = Pages[m]["functions"]]
      BY <1>3, <2>1, <2>2, <2>3
    <3>2. filled.part.name = m
      BY <1>2, <3>1 DEF ModuleRecords
    <3>3. AtHand(filled)
      BY <2>2, <3>2, HandKept DEF m
    <3>4. CallOK(Datatypes(filled))
      BY <1>2, <3>1, <3>3, DatatypesOK
    <3> QED BY <1>1, <1>5, <2>3, <3>4
  <2>4. CASE k.ask = "datatypes"
    <3>1. /\ k.part \in ModuleRecords /\ k.part.name = m
          /\ k.part.functions = Pages[m]["functions"]
      BY <1>2, <1>3, <2>4 DEF ModuleRecords
    <3>2. /\ filled.part \in ModuleRecords /\ filled.part.name = m
          /\ filled.part.functions = Pages[m]["functions"]
          /\ filled.part.datatypes = Pages[m]["datatypes"]
      BY <1>2, <2>1, <2>2, <2>4, <3>1 DEF ModuleRecords
    <3>3. AtHand(filled)
      BY <2>2, <3>2, HandKept DEF m
    <3>4. Whole(filled.part)
      BY <3>2 DEF Whole
    <3>5. CallOK(ModuleDone(filled))
      BY <3>2, <3>3, <3>4, ModuleDoneOK
    <3> QED BY <1>1, <1>5, <2>4, <3>5
  <2> QED BY <2>3, <2>4
<1> QED BY <1>4, <1>5

-----------------------------------------------------------------------------
(***************************************************************************)
(* An answer, and an error.                                                *)
(***************************************************************************)
LEMMA NotYetOK ==
  ASSUME NEW k, Call(k), k.pc = "requested", k.kind = "transaction", k.ask = "transaction"
  PROVE  CallOK(NotYet(k))
<1> DEFINE j == [k EXCEPT !.waited = k.waited + PollInterval, !.pc = "asleep"]
<1>1. Call(j) /\ j.pc = "asleep" /\ j.kind = "transaction" /\ j.ask = "transaction"
  BY Fields DEF Call
<1>2. NotYet(k) = IF k.waited + PollInterval < Timeout THEN j ELSE Ends(k, "raised")
  BY DEF NotYet
<1> HIDE DEF j
<1>3. CallOK(j)
  BY <1>1 DEF CallOK, Call, Underway
<1>4. CallOK(Ends(k, "raised"))
  BY EndsOK
<1> QED BY <1>2, <1>3, <1>4

\* What a call that waits for an answer is about.
LEMMA Requested ==
  ASSUME NEW k, CallOK(k), k.pc = "requested"
  PROVE  /\ Call(k)
         /\ \/ k.ask = "objects" /\ k.kind = "objects" /\ ObjectsSoFar(k)
            \/ k.ask = "package" /\ k.kind = "package" /\ ModulesSoFar(k)
            \/ k.ask \in {"module", "functions", "datatypes"} /\ AtHand(k) /\ PartSoFar(k)
            \/ k.ask = "transaction" /\ k.kind = "transaction"
<1>1. Call(k) /\ Underway(k)
  BY DEF CallOK, Call
<1>2. ObjectsSoFar(k) => k.ask = "objects"
  BY DEF ObjectsSoFar
<1>3. ModulesSoFar(k) => k.ask = "package"
  BY DEF ModulesSoFar
<1>4. PartSoFar(k) => k.part.name \in Modules /\ k.ask \in {"module", "functions", "datatypes"}
  BY DEF PartSoFar
<1> QED BY <1>1, <1>2, <1>3, <1>4 DEF Underway, AtHand

LEMMA AnsweredOK ==
  ASSUME ClientAssumption, Protocols, owned \subseteq Objects,
         NEW k, CallOK(k), k.pc = "requested"
  PROVE  CallOK(Answered(k))
<1>1. CASE k.ask = "objects"
  <2>1. Answered(k) = ObjectsAnswered(k)
    BY <1>1 DEF Answered
  <2> QED BY <1>1, <2>1, Requested, ObjectsAnsweredOK
<1>2. CASE k.ask = "package"
  <2>1. Answered(k) = PackageAnswered(k)
    BY <1>2 DEF Answered
  <2> QED BY <1>2, <2>1, Requested, PackageAnsweredOK
<1>3. CASE k.ask = "module"
  <2>1. Answered(k) = ModuleAnswered(k)
    BY <1>3 DEF Answered
  <2> QED BY <1>3, <2>1, Requested, ModuleAnsweredOK
<1>4. CASE k.ask \in {"functions", "datatypes"}
  <2>1. Answered(k) = PartAnswered(k)
    BY <1>4 DEF Answered
  <2> QED BY <1>4, <2>1, Requested, PartAnsweredOK
<1>5. CASE k.ask = "transaction"
  <2>1. Answered(k) = IF indexed THEN Ended(k) ELSE NotYet(k)
    BY <1>5 DEF Answered
  <2>2. Call(k) /\ k.kind = "transaction"
    BY <1>5, Requested
  <2>3. indexed => Complete(k)
    BY <2>2 DEF Complete
  <2>4. indexed => CallOK(Ended(k))
    BY <2>2, <2>3, EndedOK
  <2>5. CallOK(NotYet(k))
    BY <1>5, <2>2, NotYetOK
  <2> QED BY <2>1, <2>4, <2>5
<1> QED BY <1>1, <1>2, <1>3, <1>4, <1>5, Requested

LEMMA FailedOK ==
  ASSUME ClientAssumption, NEW k, CallOK(k), k.pc = "requested"
  PROVE  CallOK(Failed(k))
<1>1. CASE k.ask = "transaction"
  <2>1. Call(k) /\ k.kind = "transaction"
    BY <1>1, Requested
  <2>2. Failed(k) = NotYet(k)
    BY <1>1, <2>1 DEF Failed
  <2> QED BY <1>1, <2>1, <2>2, NotYetOK
<1>2. CASE k.kind = "package" /\ k.ask \in {"module", "functions", "datatypes"}
  <2> DEFINE j == [k EXCEPT !.cut = k.cut \union {k.part.name}]
  <2>1. Call(k) /\ Completing(k)
    BY <1>2, Requested DEF AtHand
  <2>2. /\ Call(j) /\ j.pc = k.pc /\ j.kind = k.kind /\ j.result = k.result /\ j.at = k.at
        /\ j.cut = k.cut \union {k.part.name}
    BY <2>1, Fields DEF Call
  <2>3. Failed(k) = NextModule(j)
    BY <1>2 DEF Failed
  <2> HIDE DEF j
  <2>4. /\ Listed(k) /\ k.at \in DOMAIN k.result /\ k.part.name = k.result[k.at].name
        /\ \A i \in DOMAIN k.result : /\ i < k.at => Done(k.result[i], k)
                                      /\ i > k.at => AsItCame(k.result[i])
    BY <2>1 DEF Completing
  <2>5. k.at \in Nat /\ \A i \in DOMAIN k.result : i \in Nat
    BY <2>4 DEF Listed
  <2>6. ASSUME NEW i \in DOMAIN k.result
        PROVE  IF i <= k.at THEN Done(k.result[i], j) ELSE AsItCame(k.result[i])
    <3>1. CASE i = k.at
      BY <2>2, <2>4, <2>5, <3>1 DEF Done
    <3>2. CASE i < k.at
      <4>1. Done(k.result[i], k) /\ i <= k.at
        BY <2>4, <2>5, <3>2
      <4> QED BY <2>2, <4>1 DEF Done
    <3>3. CASE i > k.at
      <4>1. AsItCame(k.result[i]) /\ ~(i <= k.at)
        BY <2>4, <2>5, <3>3
      <4> QED BY <4>1
    <3> QED BY <2>5, <3>1, <3>2, <3>3
  <2>7. Listed(j)
    BY <2>2, <2>4 DEF Listed
  <2>8. Ready(j)
    BY <1>2, <2>2, <2>5, <2>6, <2>7 DEF Ready
  <2> QED BY <2>3, <2>8, NextModuleOK
<1>3. CASE /\ k.ask # "transaction"
           /\ ~(k.kind = "package" /\ k.ask \in {"module", "functions", "datatypes"})
  <2>1. Failed(k) = Ends(k, "failed")
    BY <1>3, Requested DEF Failed
  <2> QED BY <2>1, EndsOK
<1> QED BY <1>1, <1>2, <1>3

-----------------------------------------------------------------------------
(***************************************************************************)
(* Steps.                                                                  *)
(***************************************************************************)
Busies == {"begun", "waiting", "requested", "asleep"}

\* A call whose record is k is as good after a step that leaves alone the objects it lists.
LEMMA RecordStays ==
  ASSUME NEW d \in Callers, NEW k, CallOK(k), call'[d] = k,
         protocol' = protocol, indexed => indexed',
         k.pc \in Busies /\ k.kind = "objects" => owned' = owned
  PROVE  CallOK(call[d])'
<1>1. Call(k) /\ Call(call'[d])
  BY DEF CallOK, Call
<1>2. CASE k.pc \in Busies
  <2>1. Underway(k)
    BY <1>2 DEF CallOK, Busies
  <2>2. k.kind = "objects" /\ ObjectsSoFar(k) => ObjectsSoFar(call[d])'
    BY <1>2 DEF ObjectsSoFar
  <2>3. ASSUME ModulesSoFar(k) PROVE ModulesSoFar(call[d])'
    <3>1. \A x : Module(x)' = Module(x)
      BY DEF Module
    <3>2. \A i \in DOMAIN k.result : k.result[i] = Module(k.result[i].name)
      BY <2>3 DEF ModulesSoFar, AsItCame
    <3>3. (\A i \in DOMAIN call[d].result : AsItCame(call[d].result[i]))'
      BY <3>1, <3>2 DEF AsItCame
    <3> QED BY <2>3, <3>3 DEF ModulesSoFar
  <2>4. ASSUME Completing(k) PROVE Completing(call[d])'
    <3>1. Listed(call[d])'
      BY <2>4 DEF Completing, Listed
    <3>2. /\ k.at \in DOMAIN k.result /\ k.part.name = k.result[k.at].name
          /\ \A i \in DOMAIN k.result : i < k.at => Done(k.result[i], k)
      BY <2>4 DEF Completing
    <3>3. \A i \in DOMAIN k.result : i > k.at => k.result[i] = Module(k.result[i].name)
      BY <2>4 DEF Completing, AsItCame
    <3>4. \A x : Module(x)' = Module(x)
      BY DEF Module
    <3> QED BY <3>1, <3>2, <3>3, <3>4 DEF Completing, Done, AsItCame
  <2>5. PartSoFar(k) => PartSoFar(call[d])'
    BY DEF PartSoFar, Module
  <2>6. Underway(call[d])'
    BY <2>1, <2>2, <2>3, <2>4, <2>5 DEF Underway
  <2> QED BY <1>1, <1>2, <2>6 DEF CallOK, Call, Busies
<1>3. CASE k.pc \notin Busies
  <2>1. /\ k.pc \in {"idle", "ok", "failed", "raised"} /\ k.ask = "none"
        /\ k.pc = "ok" => k.kind \in {"objects", "package", "module", "transaction"} /\ Complete(k)
    BY <1>3 DEF CallOK, Busies
  <2>2. Complete(k) => Complete(call[d])'
    BY DEF Complete
  <2> QED BY <1>1, <2>1, <2>2 DEF CallOK, Call
<1> QED BY <1>2, <1>3

\* The chain is left alone, and one record changes.
LEMMA OneRecord ==
  ASSUME ClientInv, NEW c \in Callers, NEW k, CallOK(k), k.pc # "begun",
         call' = [call EXCEPT ![c] = k], UNCHANGED <<protocol, owned, indexed>>
  PROVE  ClientInv'
<1>1. DOMAIN call' = Callers /\ call'[c] = k
  BY DEF ClientInv
<1>2. ASSUME NEW d \in Callers PROVE CallOK(call[d])' /\ call'[d].pc # "begun"
  <2>1. CASE d = c
    BY <1>1, <2>1, RecordStays
  <2>2. CASE d # c
    <3>1. CallOK(call[d]) /\ call'[d] = call[d] /\ call[d].pc # "begun"
      BY <2>2 DEF ClientInv
    <3> QED BY <3>1, RecordStays
  <2> QED BY <2>1, <2>2
<1> QED BY <1>1, <1>2 DEF ClientInv

LEMMA BusyAsks ==
  ASSUME NEW k, CallOK(k)
  PROVE  k.ask # "none" <=> k.pc \in Busies
<1>1. Underway(k) => k.ask # "none"
  BY DEF Underway, ObjectsSoFar, ModulesSoFar, PartSoFar
<1> QED BY <1>1 DEF CallOK, Busies

LEMMA PlacedOK ==
  ASSUME NEW k, CallOK(k), k.pc \in Busies, NEW place \in Busies
  PROVE  LET j == [k EXCEPT !.pc = place] IN CallOK(j) /\ j.pc = place
<1> DEFINE j == [k EXCEPT !.pc = place]
<1>1. Underway(k) /\ Call(k)
  BY DEF CallOK, Call, Busies
<1>2. Same(j, k) /\ j.pc = place
  BY <1>1, Placed
<1> HIDE DEF j
<1>3. Underway(j) /\ Call(j)
  BY <1>1, <1>2, SameUnderway DEF Same
<1>4. CallOK(j)
  BY <1>2, <1>3 DEF CallOK, Call, Busies
<1> QED BY <1>2, <1>4 DEF j

LEMMA RequestInv ==
  ASSUME ClientInv, NEW c \in Callers, NEW k, CallOK(k), k.pc \in Busies, NEW queue,
         Request(c, k, queue), UNCHANGED <<protocol, owned, indexed>>
  PROVE  ClientInv'
<1>1. CASE session = "closed"
  <2> DEFINE j == Ends(k, "raised")
  <2>1. CallOK(j) /\ j.pc # "begun"
    BY EndsOK DEF Ends, NoCall
  <2>2. call' = [call EXCEPT ![c] = j]
    BY <1>1 DEF Request
  <2> HIDE DEF j
  <2> QED BY <2>1, <2>2, OneRecord
<1>2. CASE session # "closed"
  <2> DEFINE j == [k EXCEPT !.pc = "requested"]
  <2>1. CallOK(j) /\ j.pc # "begun"
    BY PlacedOK DEF Busies
  <2>2. call' = [call EXCEPT ![c] = j]
    BY <1>2 DEF Request
  <2> HIDE DEF j
  <2> QED BY <2>1, <2>2, OneRecord
<1> QED BY <1>1, <1>2

LEMMA GoesOnInv ==
  ASSUME ClientInv, NEW c \in Callers, NEW k, CallOK(k), NEW queue,
         GoesOn(c, k, queue), UNCHANGED <<protocol, owned, indexed>>
  PROVE  ClientInv'
<1>1. k.ask # "none" => k.pc \in Busies
  BY BusyAsks
<1>2. CASE (k.ask = "none" \/ k.pc = "asleep") /\ call' = [call EXCEPT ![c] = k]
  <2>1. k.pc # "begun"
    BY <1>2, BusyAsks DEF Busies
  <2> QED BY <1>2, <2>1, OneRecord
<1>3. ASSUME k.ask # "none", NEW place \in {"waiting", "requested"},
             call' = [call EXCEPT ![c] = [k EXCEPT !.pc = place]]
      PROVE  ClientInv'
  <2> DEFINE j == [k EXCEPT !.pc = place]
  <2>1. CallOK(j) /\ j.pc # "begun"
    BY <1>1, <1>3, PlacedOK DEF Busies
  <2>2. call' = [call EXCEPT ![c] = j]
    BY <1>3
  <2> HIDE DEF j
  <2> QED BY <2>1, <2>2, OneRecord
<1>4. CASE k.ask # "none" /\ Request(c, k, <<c>>)
  BY <1>1, <1>4, RequestInv
<1> QED BY <1>2, <1>3, <1>4 DEF GoesOn

LEMMA BeginsInv ==
  ASSUME ClientAssumption, ClientInv, NEW c \in Callers, NEW kind \in Kinds, Begins(c, kind)
  PROVE  ClientInv'
<1>1. PICK m \in IF kind = "module" THEN Modules ELSE {0} :
        GoesOn(c, [NoCall EXCEPT !.kind = kind, !.ask = kind, !.pc = "begun", !.part = [name |-> m],
                                 !.kept = owned, !.seen = owned], line)
  BY DEF Begins
<1> DEFINE k == [NoCall EXCEPT !.kind = kind, !.ask = kind, !.pc = "begun", !.part = [name |-> m],
                               !.kept = owned, !.seen = owned]
<1>2. /\ Call(k) /\ k.kind = kind /\ k.ask = kind /\ k.pc = "begun" /\ k.part = [name |-> m]
      /\ k.kept = owned /\ k.seen = owned /\ k.token = 0 /\ k.result = <<>> /\ k.at = 0
  BY DEF NoCall, Call
<1>3. kind \in {"objects", "package", "module", "transaction"}
  BY DEF ClientAssumption
<1>4. /\ Objects \subseteq Nat \ {0} /\ owned \subseteq Objects /\ Modules \subseteq Nat \ {0}
  BY DEF ClientAssumption, ClientInv
<1> HIDE DEF k
<1>5. \A S : k.result \in Seq(S) /\ DOMAIN k.result = {}
  BY <1>2
<1>6. kind = "objects" => Underway(k)
  <2> SUFFICES ASSUME kind = "objects" PROVE Underway(k)
    OBVIOUS
  <2>1. Sorted(k.result) /\ ToSet(k.result) = {}
    BY <1>5 DEF Sorted, ToSet
  <2>2. {i \in k.kept \ Reservations : i <= k.token} = {}
    <3>1. \A i \in Objects : ~(i <= 0)
      BY <1>4
    <3>2. k.token = 0 /\ k.kept \subseteq Objects
      BY <1>2, <1>4
    <3> QED BY <3>1, <3>2
  <2>3. ObjectsSoFar(k)
    BY <1>2, <1>4, <1>5, <2>1, <2>2 DEF ObjectsSoFar
  <2> QED BY <1>2, <2>3 DEF Underway
<1>7. kind = "package" => Underway(k)
  <2> SUFFICES ASSUME kind = "package" PROVE Underway(k)
    OBVIOUS
  <2>1. DOMAIN NamesOf(k.result) = {}
    BY <1>5 DEF NamesOf
  <2>2. Sorted(NamesOf(k.result)) /\ ToSet(NamesOf(k.result)) = {}
    BY <2>1 DEF Sorted, ToSet
  <2>3. {i \in Modules : i <= k.token} = {}
    <3>1. \A i \in Modules : ~(i <= 0)
      BY <1>4
    <3>2. k.token = 0
      BY <1>2
    <3> QED BY <3>1, <3>2
  <2>4. ModulesSoFar(k)
    BY <1>2, <1>5, <2>2, <2>3 DEF ModulesSoFar
  <2> QED BY <1>2, <2>4 DEF Underway
<1>8. kind = "module" => Underway(k)
  <2> SUFFICES ASSUME kind = "module" PROVE Underway(k)
    OBVIOUS
  <2>1. m \in Modules
    OBVIOUS
  <2>2. PartSoFar(k)
    BY <1>2, <2>1 DEF PartSoFar
  <2> QED BY <1>2, <2>2 DEF Underway
<1>9. kind = "transaction" => Underway(k)
  BY <1>2 DEF Underway
<1>10. Underway(k) => CallOK(k)
  BY <1>2 DEF CallOK, Call
<1>11. GoesOn(c, k, line) /\ UNCHANGED <<protocol, owned, indexed>>
  BY <1>1 DEF Begins, k
<1>12. Underway(k) => ClientInv'
  BY <1>10, <1>11, GoesOnInv
<1> QED BY <1>3, <1>6, <1>7, <1>8, <1>9, <1>12

LEMMA CallerInv ==
  ASSUME ClientAssumption, ClientInv, NEW c \in Callers, Step(c) \/ Raises(c)
  PROVE  ClientInv'
<1>1. CallOK(call[c]) /\ Protocols /\ owned \subseteq Objects
  BY DEF ClientInv, Protocols
<1>2. CASE Woken(c)
  <2>1. call[c].pc \in Busies
    BY <1>2 DEF Woken, Busies
  <2> QED BY <1>1, <1>2, <2>1, RequestInv DEF Woken
<1>3. CASE Answers(c)
  <2>1. PICK k \in {Answered(call[c])} : GoesOn(c, k, Left(c))
    BY <1>3 DEF Answers
  <2>2. CallOK(k)
    BY <1>1, <1>3, AnsweredOK DEF Answers
  <2> QED BY <1>3, <2>1, <2>2, GoesOnInv DEF Answers
<1>4. CASE Fails(c)
  <2>1. PICK k \in {Failed(call[c])} : GoesOn(c, k, Left(c))
    BY <1>4 DEF Fails
  <2>2. CallOK(k)
    BY <1>1, <1>4, FailedOK DEF Fails
  <2> QED BY <1>4, <2>1, <2>2, GoesOnInv DEF Fails
<1>5. CASE Polls(c)
  <2>1. call[c].pc \in Busies /\ "begun" \in Busies
    BY <1>5 DEF Polls, Busies
  <2>2. CallOK([call[c] EXCEPT !.pc = "begun"])
    BY <1>1, <2>1, PlacedOK
  <2> QED BY <1>5, <2>2, GoesOnInv DEF Polls
<1>6. CASE Raises(c)
  <2> DEFINE j == Ends(call[c], "raised")
  <2>1. CallOK(j) /\ j.pc # "begun"
    BY EndsOK DEF Ends, NoCall
  <2>2. call' = [call EXCEPT ![c] = j] /\ UNCHANGED <<protocol, owned, indexed>>
    BY <1>6 DEF Raises
  <2> HIDE DEF j
  <2> QED BY <2>1, <2>2, OneRecord
<1> QED BY <1>2, <1>3, <1>4, <1>5, <1>6 DEF Step

\* The chain moves: a listing under way knows what was owned, at some time and all the time.
LEMMA ChangeInv ==
  ASSUME ClientAssumption, ClientInv, ObjectsChange
  PROVE  ClientInv'
<1>1. /\ protocol' = protocol /\ indexed' = indexed /\ owned' \subseteq Objects
      /\ call' = [c \in Callers |-> IF Busy(c) /\ call[c].kind = "objects"
                    THEN [call[c] EXCEPT !.kept = @ \intersect owned', !.seen = @ \union owned']
                    ELSE call[c]]
  BY DEF ObjectsChange, ClientInv
<1>2. ASSUME NEW d \in Callers PROVE CallOK(call[d])' /\ call'[d].pc # "begun"
  <2>1. CallOK(call[d]) /\ Call(call[d]) /\ call[d].pc # "begun"
    BY DEF ClientInv, CallOK, Call
  <2>2. CASE Busy(d) /\ call[d].kind = "objects"
    <3>1. call'[d] = [call[d] EXCEPT !.kept = @ \intersect owned', !.seen = @ \union owned']
      BY <1>1, <2>2
    <3>2. /\ Call(call'[d]) /\ call'[d].pc = call[d].pc /\ call'[d].kind = "objects"
          /\ call'[d].ask = call[d].ask /\ call'[d].token = call[d].token
          /\ call'[d].result = call[d].result
          /\ call'[d].kept = call[d].kept \intersect owned'
          /\ call'[d].seen = call[d].seen \union owned'
      BY <2>1, <2>2, <3>1, Fields DEF Call
    <3>3. ObjectsSoFar(call[d])
      BY <2>1, <2>2 DEF CallOK, Busy, Underway
    <3>4. ObjectsSoFar(call[d])'
      BY <3>2, <3>3 DEF ObjectsSoFar
    <3> QED BY <2>1, <2>2, <3>2, <3>4 DEF CallOK, Call, Busy, Underway
  <2>3. CASE ~(Busy(d) /\ call[d].kind = "objects")
    <3>1. call'[d] = call[d]
      BY <1>1, <2>3
    <3>2. call[d].pc \in Busies => call[d].kind # "objects"
      BY <2>1, <2>3 DEF Busies, Busy
    <3>3. protocol' = protocol /\ indexed' = indexed
      BY <1>1
    <3> QED BY <2>1, <3>1, <3>2, <3>3, RecordStays
  <2> QED BY <2>2, <2>3
<1> QED BY <1>1, <1>2 DEF ClientInv

LEMMA RecordsStay ==
  ASSUME ClientInv, UNCHANGED <<protocol, owned, call>>, indexed => indexed'
  PROVE  ClientInv'
<1>1. ASSUME NEW d \in Callers PROVE CallOK(call[d])' /\ call'[d].pc # "begun"
  <2>1. CallOK(call[d]) /\ call[d].pc # "begun" /\ call'[d] = call[d]
    BY DEF ClientInv
  <2> QED BY <2>1, RecordStays
<1> QED BY <1>1 DEF ClientInv

LEMMA ClientStep ==
  ASSUME ClientAssumption, ClientInv, [Next]_vars
  PROVE  ClientInv'
<1>1. ASSUME NEW c \in Callers, Step(c) \/ Raises(c) PROVE ClientInv'
  BY <1>1, CallerInv
<1>2. ASSUME NEW c \in Callers, NEW kind \in Kinds, Begins(c, kind) PROVE ClientInv'
  BY <1>2, BeginsInv
<1>3. CASE Close \/ Indexed \/ UNCHANGED vars
  <2>1. UNCHANGED <<protocol, owned, call>> /\ (indexed => indexed')
    BY <1>3 DEF Close, Indexed, vars
  <2> QED BY <2>1, RecordsStay
<1> QED BY <1>1, <1>2, <1>3, ChangeInv DEF Next

(***************************************************************************)
(* How far the calls have come.                                            *)
(***************************************************************************)
THEOREM ClientInvariance == Spec => []ClientInv
<1>1. Init => ClientInv
  <2> SUFFICES ASSUME Init PROVE ClientInv
    OBVIOUS
  <2>1. CallOK(NoCall) /\ NoCall.pc # "begun"
    BY DEF CallOK, NoCall
  <2> QED BY <2>1 DEF Init, ClientInv
<1>2. ClientInv /\ [Next]_vars => ClientInv'
  BY ClientAssumption, ClientStep
<1> QED BY <1>1, <1>2, PTL DEF Spec

(***************************************************************************)
(* What ends well is complete: a listing of objects has every one that was *)
(* owned all the time and none that never was, in order, whatever moves    *)
(* between two pages and whatever the filter takes from them; the modules  *)
(* of a package are all there, whole unless a request for that very module *)
(* failed; for any number and size of pages, and any callers at a time.    *)
(***************************************************************************)
THEOREM NothingIsMissed == Spec => []ResultsComplete
<1>1. ClientInv => ResultsComplete
  BY DEF ClientInv, CallOK, ResultsComplete
<1> QED BY <1>1, ClientInvariance, PTL
=============================================================================
