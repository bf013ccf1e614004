-------------------------- MODULE CollectionLemmas --------------------------
(***************************************************************************)
(* What the proofs need to know of numbers, sequences and sums: a set of   *)
(* numbers has a least one, a sequence without repetitions keeps that when *)
(* an element joins or leaves it, and a sum does not depend on the order   *)
(* in which it is taken.                                                   *)
(***************************************************************************)
EXTENDS Integers, SequencesExt, FiniteSetTheorems, TLAPS

(***************************************************************************)
(* Numbers.                                                                *)
(***************************************************************************)
LEMMA LeastExists ==
  ASSUME NEW T \in SUBSET Nat, T # {}
  PROVE  \E m \in T : \A j \in T : m <= j
<1> DEFINE Less == OpToRel(<, Nat)
<1>1. \A x, y \in Nat : x < y => <<x, y>> \in Less
  BY DEF OpToRel
<1>2. IsWellFoundedOn(Less, Nat)
  BY NatLessThanWellFounded, Zenon
<1> HIDE DEF Less
<1>3. PICK m \in T : \A j \in T : <<j, m>> \notin Less
  BY <1>2, WFMin, Zenon
<1>4. \A j \in T : j \in Nat /\ m \in Nat /\ ~(j < m)
  BY <1>1, <1>3
<1> QED BY <1>4

LEMMA MinIsLeast ==
  ASSUME NEW T \in SUBSET Nat, T # {}
  PROVE  Min(T) \in T /\ \A j \in T : Min(T) <= j
<1>1. PICK m \in T : \A j \in T : m <= j
  BY LeastExists
<1> QED BY <1>1 DEF Min

LEMMA ByInduction ==
  ASSUME NEW T \in SUBSET Nat, 0 \in T, \A n \in T : n + 1 \in T
  PROVE  \A n \in Nat : n \in T
<1> SUFFICES ASSUME Nat \ T # {} PROVE FALSE
  OBVIOUS
<1>1. PICK m \in Nat \ T : \A j \in Nat \ T : m <= j
  BY LeastExists
<1>2. m - 1 \in T
  BY <1>1
<1> QED BY <1>1, <1>2

------------------------------------------------------------------------------
(***************************************************************************)
(* Sequences.                                                              *)
(***************************************************************************)
LEMMA ElementOf ==
  ASSUME NEW S, NEW s \in Seq(S), NEW i \in DOMAIN s
  PROVE  s[i] \in S
OBVIOUS

\* The members of a sequence that an element joins or leaves.
LEMMA Joined ==
  ASSUME NEW S, NEW w \in Seq(S), IsInjective(w), NEW x \in S, \A i \in DOMAIN w : w[i] # x
  PROVE  /\ Append(w, x) \in Seq(S) /\ IsInjective(Append(w, x))
         /\ ToSet(Append(w, x)) = ToSet(w) \union {x}
<1>1. /\ Append(w, x) \in Seq(S) /\ Len(w) \in Nat
      /\ DOMAIN w = 1..Len(w) /\ DOMAIN Append(w, x) = 1..(Len(w) + 1)
      /\ \A i \in 1..Len(w) : Append(w, x)[i] = w[i]
      /\ Append(w, x)[Len(w) + 1] = x
  OBVIOUS
<1>2. \A i \in 1..(Len(w) + 1) : i \in 1..Len(w) \/ i = Len(w) + 1
  BY <1>1
<1>3. \A i \in 1..Len(w) : i \in 1..(Len(w) + 1) /\ i # Len(w) + 1
  BY <1>1
<1>4. IsInjective(Append(w, x))
  BY <1>1, <1>2, <1>3 DEF IsInjective
<1>5. Len(w) + 1 \in 1..(Len(w) + 1)
  BY <1>1
<1>6. ToSet(Append(w, x)) = ToSet(w) \union {x}
  BY <1>1, <1>2, <1>3, <1>5 DEF ToSet
<1> QED BY <1>1, <1>4, <1>6

LEMMA Served ==
  ASSUME NEW S, NEW w \in Seq(S), IsInjective(w), w # <<>>
  PROVE  /\ Tail(w) \in Seq(S) /\ IsInjective(Tail(w))
         /\ Head(w) \in S /\ Head(w) \in ToSet(w)
         /\ ToSet(Tail(w)) \subseteq ToSet(w) \ {Head(w)}
<1>1. /\ Tail(w) \in Seq(S) /\ Head(w) = w[1] /\ Head(w) \in S
      /\ Len(w) \in Nat /\ Len(w) # 0
      /\ DOMAIN w = 1..Len(w) /\ DOMAIN Tail(w) = 1..(Len(w) - 1)
      /\ \A i \in 1..(Len(w) - 1) : Tail(w)[i] = w[i + 1]
  OBVIOUS
<1>2. 1 \in 1..Len(w)
  BY <1>1
<1>3. \A i \in 1..(Len(w) - 1) : i + 1 \in 1..Len(w) /\ i + 1 # 1
  BY <1>1
<1>4. ASSUME NEW i \in 1..(Len(w) - 1), NEW j \in 1..(Len(w) - 1), Tail(w)[i] = Tail(w)[j]
      PROVE  i = j
  <2>1. i + 1 = j + 1
    BY <1>1, <1>3, <1>4 DEF IsInjective
  <2> QED BY <1>1, <2>1
<1>5. IsInjective(Tail(w))
  BY <1>1, <1>4 DEF IsInjective
<1>6. ToSet(Tail(w)) \subseteq ToSet(w) \ {Head(w)}
  BY <1>1, <1>2, <1>3 DEF ToSet, IsInjective
<1> QED BY <1>1, <1>2, <1>5, <1>6 DEF ToSet

LEMMA AsSequence ==
  ASSUME NEW S, NEW n \in Nat, NEW f \in [1..n -> S]
  PROVE  f \in Seq(S) /\ Len(f) = n /\ DOMAIN f = 1..n
OBVIOUS

\* What is behind the removed element moves up.
LEMMA RemovedAt ==
  ASSUME NEW S, NEW w \in Seq(S), NEW k \in DOMAIN w
  PROVE  /\ RemoveAt(w, k) \in Seq(S) /\ Len(RemoveAt(w, k)) = Len(w) - 1
         /\ \A i \in 1..(Len(w) - 1) :
              RemoveAt(w, k)[i] = w[IF i < k THEN i ELSE i + 1]
<1> DEFINE L == Len(w)
<1>1. L \in Nat /\ DOMAIN w = 1..L /\ k \in 1..L /\ \A i \in 1..L : w[i] \in S
  OBVIOUS
<1>2. /\ SubSeq(w, 1, k - 1) \in Seq(S) /\ Len(SubSeq(w, 1, k - 1)) = k - 1
      /\ \A i \in 1..(k - 1) : SubSeq(w, 1, k - 1)[i] = w[i]
  BY <1>1
<1>3. /\ SubSeq(w, k + 1, L) \in Seq(S) /\ Len(SubSeq(w, k + 1, L)) = L - k
      /\ \A i \in 1..(L - k) : SubSeq(w, k + 1, L)[i] = w[k + i]
  <2>1. SubSeq(w, k + 1, L) = [i \in 1..(1 + L - (k + 1)) |-> w[k + 1 + i - 1]]
    BY <1>1, Z3
  <2>2. /\ 1 + L - (k + 1) = L - k /\ L - k \in Nat
        /\ \A i \in 1..(L - k) : k + 1 + i - 1 = k + i /\ k + i \in 1..L
    BY <1>1
  <2>3. SubSeq(w, k + 1, L) = [i \in 1..(L - k) |-> w[k + i]]
    BY <2>1, <2>2
  <2>4. \A i \in 1..(L - k) : w[k + i] \in S
    BY <1>1, <2>2
  <2> DEFINE f == [i \in 1..(L - k) |-> w[k + i]]
             n == L - k
  <2>5. n \in Nat /\ f \in [1..n -> S] /\ \A i \in 1..n : f[i] = w[k + i]
    BY <2>2, <2>4
  <2> HIDE DEF f, n, L
  <2>6. f \in Seq(S) /\ Len(f) = n
    BY <2>5, AsSequence
  <2> QED BY <2>3, <2>5, <2>6 DEF f, n
<1>4. RemoveAt(w, k) = SubSeq(w, 1, k - 1) \o SubSeq(w, k + 1, L)
  BY DEF RemoveAt
<1> HIDE DEF L
<1>5. /\ RemoveAt(w, k) \in Seq(S) /\ Len(RemoveAt(w, k)) = L - 1
      /\ DOMAIN RemoveAt(w, k) = 1..(L - 1)
  BY <1>1, <1>2, <1>3, <1>4
<1>6. ASSUME NEW i \in 1..(L - 1)
      PROVE  RemoveAt(w, k)[i] = w[IF i < k THEN i ELSE i + 1]
  <2>1. CASE i < k
    BY <1>1, <1>2, <1>3, <1>4, <2>1
  <2>2. CASE ~(i < k)
    <3>1. i - (k - 1) \in 1..(L - k) /\ k + (i - (k - 1)) = i + 1
      BY <1>1, <2>2
    <3> DEFINE a == SubSeq(w, 1, k - 1)
               b == SubSeq(w, k + 1, L)
    <3>3. a \in Seq(S) /\ b \in Seq(S) /\ Len(a) = k - 1 /\ Len(b) = L - k
      BY <1>2, <1>3
    <3>4. RemoveAt(w, k) = a \o b
      BY <1>4
    <3> HIDE DEF a, b
    <3>5. i \in 1..(Len(a) + Len(b)) /\ ~(i <= Len(a)) /\ Len(a) \in Nat /\ Len(b) \in Nat
      BY <1>1, <2>2, <3>3
    <3>6. (a \o b)[i] = b[i - Len(a)]
      BY <3>3, <3>5
    <3>2. RemoveAt(w, k)[i] = SubSeq(w, k + 1, L)[i - (k - 1)]
      BY <3>3, <3>4, <3>6 DEF b
    <3> QED BY <1>1, <1>3, <2>2, <3>1, <3>2
  <2> QED BY <2>1, <2>2
<1> QED BY <1>5, <1>6 DEF L

LEMMA Removed ==
  ASSUME NEW S, NEW w \in Seq(S), IsInjective(w), NEW k \in DOMAIN w
  PROVE  /\ RemoveAt(w, k) \in Seq(S) /\ IsInjective(RemoveAt(w, k))
         /\ ToSet(RemoveAt(w, k)) \subseteq ToSet(w) \ {w[k]}
<1> DEFINE L == Len(w)
           At(i) == IF i < k THEN i ELSE i + 1
<1>1. L \in Nat /\ DOMAIN w = 1..L /\ k \in 1..L /\ \A i \in 1..L : w[i] \in S
  OBVIOUS
<1>2. /\ RemoveAt(w, k) \in Seq(S) /\ Len(RemoveAt(w, k)) = L - 1
      /\ \A i \in 1..(L - 1) : RemoveAt(w, k)[i] = w[At(i)]
  BY RemovedAt
<1> HIDE DEF L
<1>5. DOMAIN RemoveAt(w, k) = 1..(L - 1)
  BY <1>1, <1>2
<1>7. \A i, j \in 1..(L - 1) : (At(i) = At(j) => i = j) /\ At(i) # k /\ At(i) \in 1..L
  BY <1>1
<1> HIDE DEF At
<1>8. IsInjective(RemoveAt(w, k))
  BY <1>1, <1>2, <1>5, <1>7 DEF IsInjective
<1>9. ToSet(RemoveAt(w, k)) \subseteq ToSet(w) \ {w[k]}
  BY <1>1, <1>2, <1>5, <1>7 DEF ToSet, IsInjective
<1> QED BY <1>2, <1>8, <1>9

------------------------------------------------------------------------------
(***************************************************************************)
(* Sums.  The sum over a finite set takes one element after the other, in  *)
(* an order of its own; it does not depend on that order.                  *)
(***************************************************************************)
First(s) == CHOOSE x \in s : TRUE

Unfolded(g, fun, S) ==
  \A s \in SUBSET S : g[s] = IF s = {} THEN 0 ELSE fun[First(s)] + g[s \ {First(s)}]

LEMMA SumUnfolds ==
  ASSUME NEW S, IsFiniteSet(S), NEW fun
  PROVE  \E g : SumFunctionOnSet(fun, S) = g[S] /\ Unfolded(g, fun, S)
<1> DEFINE D(n) == {s \in SUBSET S : Cardinality(s) <= n}
           Unfolds(g, n) ==
             g = [s \in D(n) |-> IF s = {} THEN 0 ELSE fun[First(s)] + g[s \ {First(s)}]]
           bad == {n \in Nat : ~ \E g : Unfolds(g, n)}
<1>1. \A s \in SUBSET S : IsFiniteSet(s) /\ Cardinality(s) \in Nat
  BY FS_Subset, FS_CardinalityType
<1>2. ASSUME NEW s \in SUBSET S, s # {}
      PROVE  /\ s \ {First(s)} \in SUBSET S /\ Cardinality(s) # 0
             /\ Cardinality(s \ {First(s)}) = Cardinality(s) - 1
  <2>1. First(s) \in s
    BY <1>2 DEF First
  <2> QED BY <1>1, <1>2, <2>1, FS_RemoveElement, FS_EmptySet
<1>3. bad = {}
  <2> SUFFICES ASSUME bad # {} PROVE FALSE
    OBVIOUS
  <2>1. PICK m \in bad : \A j \in bad : m <= j
    <3>1. bad \in SUBSET Nat
      OBVIOUS
    <3> HIDE DEF bad
    <3> QED BY <3>1, LeastExists
  <2>2. CASE m = 0
    <3> DEFINE g == [s \in D(0) |-> 0]
    <3>1. \A s \in D(0) : s = {}
      BY <1>1, FS_EmptySet
    <3>2. Unfolds(g, 0)
      BY <3>1
    <3> QED BY <2>1, <2>2, <3>2
  <2>3. CASE m # 0
    <3>0. m \in Nat /\ \A j \in bad : j \in Nat /\ m <= j
      BY <2>1
    <3>1. m - 1 \in Nat /\ m \in Nat /\ m - 1 \notin bad
      <4> HIDE DEF bad
      <4> QED BY <2>3, <3>0
    <3>2. PICK g : Unfolds(g, m - 1)
      BY <3>1
    <3> DEFINE f == [s \in D(m) |-> IF s = {} THEN 0 ELSE fun[First(s)] + g[s \ {First(s)}]]
    <3>3. \A s \in D(m - 1) : s \in D(m) /\ f[s] = g[s]
      <4> TAKE s \in D(m - 1)
      <4>1. s \in D(m)
        BY <1>1, <3>1
      <4>2. g[s] = IF s = {} THEN 0 ELSE fun[First(s)] + g[s \ {First(s)}]
        BY <3>2
      <4> QED BY <4>1, <4>2
    <3>4. \A s \in D(m) : s # {} => s \ {First(s)} \in D(m - 1)
      BY <1>1, <1>2, <3>1
    <3>5. \A s \in D(m) : f[s] = IF s = {} THEN 0 ELSE fun[First(s)] + f[s \ {First(s)}]
      BY <3>3, <3>4
    <3>6. Unfolds(f, m)
      BY <3>5
    <3> QED BY <2>1, <3>6
  <2> QED BY <2>2, <2>3
<1>4. PICK g : Unfolds(g, Cardinality(S))
  BY <1>1, <1>3
<1>5. D(Cardinality(S)) = SUBSET S
  BY FS_Subset
<1>6. g = [s \in SUBSET S |-> IF s = {} THEN 0 ELSE fun[First(s)] + g[s \ {First(s)}]]
  BY <1>4, <1>5
<1> DEFINE h == CHOOSE h : h = [s \in SUBSET S |->
                                  IF s = {} THEN 0 ELSE fun[First(s)] + h[s \ {First(s)}]]
<1>7. h = [s \in SUBSET S |-> IF s = {} THEN 0 ELSE fun[First(s)] + h[s \ {First(s)}]]
  <2> DEFINE Q(x) == x = [s \in SUBSET S |->
                            IF s = {} THEN 0 ELSE fun[First(s)] + x[s \ {First(s)}]]
  <2>1. \E x : Q(x)
    BY <1>6
  <2> HIDE DEF Q
  <2>2. Q(CHOOSE x : Q(x))
    BY <2>1
  <2> QED BY <2>2 DEF Q
<1>8. SumFunctionOnSet(fun, S) = h[S]
  BY DEF SumFunctionOnSet, FoldFunctionOnSet, MapThenFoldSet, First
<1> HIDE DEF h
<1>9. Unfolded(h, fun, S)
  BY <1>7 DEF Unfolded
<1> QED BY <1>8, <1>9

\* The sum over a set, one element apart, and its type.
LEMMA SumTyped ==
  ASSUME NEW S, IsFiniteSet(S), NEW fun, \A x \in S : fun[x] \in Nat
  PROVE  SumFunctionOnSet(fun, S) \in Nat
<1>1. PICK g : SumFunctionOnSet(fun, S) = g[S] /\ Unfolded(g, fun, S)
  BY SumUnfolds
<1> DEFINE bad == {n \in Nat : \E s \in SUBSET S : Cardinality(s) = n /\ g[s] \notin Nat}
<1>2. \A s \in SUBSET S : IsFiniteSet(s) /\ Cardinality(s) \in Nat
  BY FS_Subset, FS_CardinalityType
<1>3. bad = {}
  <2> SUFFICES ASSUME bad # {} PROVE FALSE
    OBVIOUS
  <2>1. PICK m \in bad : \A j \in bad : m <= j
    <3>1. bad \in SUBSET Nat
      OBVIOUS
    <3> HIDE DEF bad
    <3> QED BY <3>1, LeastExists
  <2>2. PICK s \in SUBSET S : Cardinality(s) = m /\ g[s] \notin Nat
    BY <2>1
  <2>3. s # {} /\ g[s] = fun[First(s)] + g[s \ {First(s)}]
    BY <1>1, <2>2 DEF Unfolded
  <2>4. First(s) \in s /\ s \ {First(s)} \in SUBSET S /\ fun[First(s)] \in Nat
    BY <2>3 DEF First
  <2>5. Cardinality(s \ {First(s)}) = m - 1 /\ m \in Nat /\ m # 0 /\ m - 1 \in Nat
    <3>1. Cardinality(s) # 0 /\ Cardinality(s \ {First(s)}) = Cardinality(s) - 1
      BY <1>2, <2>3, <2>4, FS_RemoveElement, FS_EmptySet
    <3>2. Cardinality(s) \in Nat
      BY <1>2
    <3> QED BY <2>2, <3>1, <3>2
  <2>6. m - 1 \notin bad
    <3>1. \A j \in bad : m <= j
      BY <2>1
    <3> HIDE DEF bad
    <3> QED BY <2>5, <3>1
  <2>7. g[s \ {First(s)}] \in Nat
    BY <2>4, <2>5, <2>6
  <2> QED BY <2>2, <2>3, <2>4, <2>7
<1>4. g[S] \in Nat
  BY <1>2, <1>3
<1> QED BY <1>1, <1>4

LEMMA SumWithout ==
  ASSUME NEW S, IsFiniteSet(S), NEW fun, \A x \in S : fun[x] \in Nat, NEW y \in S
  PROVE  SumFunctionOnSet(fun, S) = fun[y] + SumFunctionOnSet(fun, S \ {y})
<1> DEFINE Total(s) == SumFunctionOnSet(fun, s)
           bad == {n \in Nat : \E s \in SUBSET S : /\ Cardinality(s) = n
                                                   /\ \E x \in s : Total(s) # fun[x] + Total(s \ {x})}
<1>1. \A s \in SUBSET S : /\ IsFiniteSet(s) /\ Cardinality(s) \in Nat
                          /\ Total(s) \in Nat
  BY FS_Subset, FS_CardinalityType, SumTyped
<1>2. ASSUME NEW s \in SUBSET S, s # {}
      PROVE  First(s) \in s /\ Total(s) = fun[First(s)] + Total(s \ {First(s)})
  <2>0. First(s) \in s /\ IsFiniteSet(s) /\ IsFiniteSet(s \ {First(s)})
    <3>1. First(s) \in s
      BY <1>2 DEF First
    <3>2. s \ {First(s)} \in SUBSET S
      OBVIOUS
    <3> QED BY <1>1, <3>1, <3>2
  <2> DEFINE r == s \ {First(s)}
  <2>1. PICK g : Total(s) = g[s] /\ Unfolded(g, fun, s)
    BY <2>0, SumUnfolds
  <2>2. PICK h : Total(r) = h[r] /\ Unfolded(h, fun, r)
    BY <2>0, SumUnfolds
  <2>3. Total(s) = fun[First(s)] + g[r]
    BY <1>2, <2>1 DEF Unfolded
  <2>4. h[r] = g[r]
    <3> DEFINE off == {n \in Nat : \E q \in SUBSET r : Cardinality(q) = n /\ g[q] # h[q]}
    <3>1. off = {}
      <4> SUFFICES ASSUME off # {} PROVE FALSE
        OBVIOUS
      <4>1. PICK m \in off : \A j \in off : m <= j
        <5>1. off \in SUBSET Nat
          OBVIOUS
        <5> HIDE DEF off
        <5> QED BY <5>1, LeastExists
      <4>2. PICK q \in SUBSET r : Cardinality(q) = m /\ g[q] # h[q]
        BY <4>1
      <4>3. q \in SUBSET s /\ q \in SUBSET S
        OBVIOUS
      <4>4. q # {} /\ g[q] = fun[First(q)] + g[q \ {First(q)}] /\ h[q] = fun[First(q)] + h[q \ {First(q)}]
        BY <2>1, <2>2, <4>2, <4>3 DEF Unfolded
      <4>5. First(q) \in q
        BY <4>4 DEF First
      <4>6. Cardinality(q \ {First(q)}) = m - 1 /\ m \in Nat /\ m # 0 /\ m - 1 \in Nat
        <5>1. IsFiniteSet(q) /\ Cardinality(q) \in Nat
          BY <1>1, <4>3
        <5>2. Cardinality(q) # 0 /\ Cardinality(q \ {First(q)}) = Cardinality(q) - 1
          BY <4>4, <4>5, <5>1, FS_RemoveElement, FS_EmptySet
        <5> QED BY <4>2, <5>1, <5>2
      <4>7. m - 1 \notin off
        <5>1. \A j \in off : m <= j
          BY <4>1
        <5> HIDE DEF off
        <5> QED BY <4>6, <5>1
      <4>8. g[q \ {First(q)}] = h[q \ {First(q)}]
        BY <4>6, <4>7
      <4> QED BY <4>2, <4>4, <4>8
    <3>2. r \in SUBSET S
      OBVIOUS
    <3>3. Cardinality(r) \in Nat
      BY <1>1, <3>2
    <3> QED BY <3>1, <3>3
  <2> QED BY <2>0, <2>2, <2>3, <2>4
<1>3. bad = {}
  <2> SUFFICES ASSUME bad # {} PROVE FALSE
    OBVIOUS
  <2>1. PICK m \in bad : \A j \in bad : m <= j
    <3>1. bad \in SUBSET Nat
      OBVIOUS
    <3> HIDE DEF bad
    <3> QED BY <3>1, LeastExists
  <2>2a. PICK s \in SUBSET S : /\ Cardinality(s) = m
                              /\ \E x \in s : Total(s) # fun[x] + Total(s \ {x})
    BY <2>1
  <2>2. PICK x \in s : Cardinality(s) = m /\ Total(s) # fun[x] + Total(s \ {x})
    BY <2>2a
  <2> DEFINE z == First(s)
  <2>3. z \in s /\ Total(s) = fun[z] + Total(s \ {z})
    BY <1>2, <2>2
  <2> HIDE DEF z
  <2>4. x # z
    BY <2>2, <2>3
  <2>5. /\ Cardinality(s \ {z}) = m - 1 /\ Cardinality(s \ {x}) = m - 1
        /\ m \in Nat /\ m - 1 \in Nat
    <3>1. IsFiniteSet(s) /\ Cardinality(s) \in Nat /\ s # {}
      BY <1>1, <2>2
    <3>2. Cardinality(s) # 0
      BY <3>1, FS_EmptySet
    <3>3. Cardinality(s \ {z}) = Cardinality(s) - 1 /\ Cardinality(s \ {x}) = Cardinality(s) - 1
      BY <2>3, <3>1, FS_RemoveElement
    <3> QED BY <2>2, <3>1, <3>2, <3>3
  <2>6. m - 1 \notin bad
    <3>1. \A j \in bad : m <= j
      BY <2>1
    <3> HIDE DEF bad
    <3> QED BY <2>5, <3>1
  <2>7. s \ {z} \in SUBSET S /\ s \ {x} \in SUBSET S
    OBVIOUS
  <2>8. /\ Total(s \ {z}) = fun[x] + Total((s \ {z}) \ {x})
        /\ Total(s \ {x}) = fun[z] + Total((s \ {x}) \ {z})
    <3>1. x \in s \ {z} /\ z \in s \ {x}
      BY <2>3, <2>4
    <3> HIDE DEF Total
    <3> QED BY <2>5, <2>6, <2>7, <3>1
  <2>9. (s \ {z}) \ {x} = (s \ {x}) \ {z}
    OBVIOUS
  <2>10. fun[x] \in Nat /\ fun[z] \in Nat /\ Total((s \ {x}) \ {z}) \in Nat
    <3>1. (s \ {x}) \ {z} \in SUBSET S
      OBVIOUS
    <3> QED BY <1>1, <2>3, <3>1
  <2> HIDE DEF Total
  <2>11. fun[z] + (fun[x] + Total((s \ {x}) \ {z})) = fun[x] + (fun[z] + Total((s \ {x}) \ {z}))
    BY <2>10
  <2> QED BY <2>2, <2>3, <2>8, <2>9, <2>11
<1>4. Cardinality(S) \in Nat
  BY <1>1
<1> HIDE DEF Total
<1>5. Total(S) = fun[y] + Total(S \ {y})
  BY <1>3, <1>4
<1> QED BY <1>5 DEF Total

LEMMA SumOfNone == ASSUME NEW fun PROVE SumFunctionOnSet(fun, {}) = 0
BY SumUnfolds, FS_EmptySet DEF Unfolded
=============================================================================
