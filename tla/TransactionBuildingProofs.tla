---------------------- MODULE TransactionBuildingProofs ----------------------
(***************************************************************************)
(* Proofs about TransactionBuilding: its safety invariants, for any number *)
(* of tasks, objects, coins and commands.                                  *)
(*                                                                         *)
(* The selection of coins is greedy, and no choice of as many coins is     *)
(* worth more.  The builder keeps the inputs of the commands where they    *)
(* are, whatever joins them.  BuildingInv adds what a suspended build      *)
(* holds; a step of a task disturbs no other, because in a SerialQueue     *)
(* nobody else is inside (Alone) and in a ParallelQueue a build is only    *)
(* promised what its own draft says.                                       *)
(***************************************************************************)
EXTENDS TransactionBuilding, CollectionLemmas

------------------------------------------------------------------------------
(***************************************************************************)
(* The selection of coins.                                                 *)
(***************************************************************************)
\* A wallet can be sorted: the poorest coin goes last.
LEMMA RichFirstExists ==
  ASSUME NEW C \in SUBSET DOMAIN Balance
  PROVE  \E s \in [1..Cardinality(C) -> C] : IsInjective(s) /\ RichFirst(s)
<1> DEFINE Sorted(c, n) == \E s \in [1..n -> c] : IsInjective(s) /\ RichFirst(s)
           good == {n \in Nat : \A c \in SUBSET C : Cardinality(c) = n => Sorted(c, n)}
<1>1. /\ \A c \in SUBSET C : IsFiniteSet(c) /\ Cardinality(c) \in Nat
      /\ \A x \in C : Balance[x] \in Nat
  <2>1. IsFiniteSet(C)
    BY FS_Subset, BuildingAssumption
  <2> QED BY <2>1, FS_Subset, FS_CardinalityType, BuildingAssumption
<1>2. good \in SUBSET Nat
  OBVIOUS
<1>3. 0 \in good
  <2>1. ASSUME NEW c \in SUBSET C PROVE Sorted(c, 0)
    <3>1. <<>> \in [1..0 -> c] /\ IsInjective(<<>>) /\ RichFirst(<<>>)
      BY DEF IsInjective, RichFirst
    <3> QED BY <3>1
  <2> QED BY <2>1
<1>4. ASSUME NEW n \in good PROVE n + 1 \in good
  <2> n \in Nat
    BY <1>2
  <2>1. ASSUME NEW c \in SUBSET C, Cardinality(c) = n + 1
        PROVE  Sorted(c, n + 1)
    <3>1. c # {}
      BY <2>1, FS_EmptySet
    <3>2. PICK p \in c : \A x \in c : Balance[p] <= Balance[x]
      <4> DEFINE values == {Balance[x] : x \in c}
      <4>1. values \in SUBSET Nat /\ values # {}
        BY <1>1, <3>1
      <4>2. PICK v \in values : \A w \in values : v <= w
        <5> HIDE DEF values
        <5> QED BY <4>1, LeastExists
      <4> QED BY <4>2
    <3>3. c \ {p} \in SUBSET C /\ Cardinality(c \ {p}) = n
      BY <1>1, <2>1, <3>2, FS_RemoveElement
    <3>4. PICK s \in [1..n -> c \ {p}] : IsInjective(s) /\ RichFirst(s)
      BY <3>3
    <3> DEFINE r == [i \in 1..(n + 1) |-> IF i = n + 1 THEN p ELSE s[i]]
    <3>5. r \in [1..(n + 1) -> c]
      BY <3>4
    <3>6. \A i \in 1..n : r[i] = s[i] /\ s[i] \in c \ {p}
      BY <3>4
    <3>7. r[n + 1] = p
      OBVIOUS
    <3>8. \A i \in 1..(n + 1) : i \in 1..n \/ i = n + 1
      OBVIOUS
    <3>9. DOMAIN s = 1..n /\ DOMAIN r = 1..(n + 1)
      BY <3>4
    <3> HIDE DEF r
    <3>10. IsInjective(r)
      BY <3>4, <3>6, <3>7, <3>8, <3>9 DEF IsInjective
    <3>11. RichFirst(r)
      <4> SUFFICES ASSUME NEW i \in 1..(n + 1), NEW j \in 1..(n + 1), i < j
                   PROVE  Balance[r[i]] >= Balance[r[j]]
        BY <3>9 DEF RichFirst
      <4>1. i \in 1..n
        OBVIOUS
      <4>2. CASE j \in 1..n
        BY <3>4, <3>6, <3>9, <4>1, <4>2 DEF RichFirst
      <4>3. CASE j = n + 1
        <5>1. s[i] \in c /\ Balance[s[i]] \in Nat /\ Balance[p] \in Nat
          BY <1>1, <3>6, <4>1
        <5> QED BY <3>2, <3>6, <3>7, <4>1, <4>3, <5>1
      <4> QED BY <3>8, <4>2, <4>3
    <3> QED BY <3>5, <3>10, <3>11
  <2> QED BY <2>1
<1>5. Cardinality(C) \in good
  <2> HIDE DEF good
  <2> QED BY <1>1, <1>2, <1>3, <1>4, ByInduction
<1> QED BY <1>5

\* n coins of an enumeration are worth the last of them more than n - 1.
LEMMA PrefixGrows ==
  ASSUME NEW C \in SUBSET DOMAIN Balance, NEW N \in Nat, NEW s \in [1..N -> C], IsInjective(s),
         NEW n \in Nat, n < N
  PROVE  /\ Prefix(s, n) \in SUBSET C /\ Prefix(s, n + 1) = Prefix(s, n) \union {s[n + 1]}
         /\ s[n + 1] \in C \ Prefix(s, n)
<1>1. \A i \in 1..n : i \in 1..N /\ i # n + 1
  OBVIOUS
<1>2. n + 1 \in 1..N
  OBVIOUS
<1>3. 1..(n + 1) = 1..n \union {n + 1}
  OBVIOUS
<1>4. DOMAIN s = 1..N /\ \A i, j \in DOMAIN s : s[i] = s[j] => i = j
  BY DEF IsInjective
<1>5. s[n + 1] \notin Prefix(s, n)
  BY <1>1, <1>2, <1>4 DEF Prefix
<1>6. Prefix(s, n + 1) = Prefix(s, n) \union {s[n + 1]}
  BY <1>3 DEF Prefix
<1> QED BY <1>1, <1>2, <1>5, <1>6 DEF Prefix

LEMMA WorthTyped ==
  ASSUME NEW C \in SUBSET DOMAIN Balance
  PROVE  /\ IsFiniteSet(C) /\ Cardinality(C) \in Nat /\ Worth(C) \in Nat
         /\ \A x \in C : Balance[x] \in Nat /\ Worth(C) = Balance[x] + Worth(C \ {x})
<1>1. IsFiniteSet(C)
  BY FS_Subset, BuildingAssumption
<1>2. \A x \in C : Balance[x] \in Nat
  BY BuildingAssumption
<1> QED BY <1>1, <1>2, FS_CardinalityType, SumTyped, SumWithout DEF Worth

LEMMA PrefixCounts ==
  ASSUME NEW C \in SUBSET DOMAIN Balance, NEW N \in Nat, NEW s \in [1..N -> C], IsInjective(s)
  PROVE  \A n \in 0..N : /\ Prefix(s, n) \in SUBSET C /\ Cardinality(Prefix(s, n)) = n
                         /\ Worth(Prefix(s, n)) \in Nat
<1> DEFINE good == {n \in Nat : n <= N => Prefix(s, n) \in SUBSET C /\ Cardinality(Prefix(s, n)) = n}
<1>1. good \in SUBSET Nat
  OBVIOUS
<1>2. 0 \in good
  BY FS_EmptySet DEF Prefix
<1>3. ASSUME NEW n \in good PROVE n + 1 \in good
  <2> SUFFICES ASSUME n + 1 <= N
               PROVE  Prefix(s, n + 1) \in SUBSET C /\ Cardinality(Prefix(s, n + 1)) = n + 1
    OBVIOUS
  <2>1. n \in Nat /\ n < N /\ Prefix(s, n) \in SUBSET C /\ Cardinality(Prefix(s, n)) = n
    OBVIOUS
  <2>2. /\ Prefix(s, n + 1) = Prefix(s, n) \union {s[n + 1]}
        /\ s[n + 1] \in C \ Prefix(s, n)
    BY <2>1, PrefixGrows
  <2>3. IsFiniteSet(Prefix(s, n))
    BY <2>1, WorthTyped
  <2> QED BY <2>1, <2>2, <2>3, FS_AddElement
<1>4. \A n \in Nat : n \in good
  <2> HIDE DEF good
  <2> QED BY <1>1, <1>2, <1>3, ByInduction
<1>5. ASSUME NEW n \in 0..N
      PROVE  Prefix(s, n) \in SUBSET C /\ Cardinality(Prefix(s, n)) = n
  <2>1. n \in good /\ n <= N
    BY <1>4
  <2> QED BY <2>1
<1> QED BY <1>5, WorthTyped

\* No choice of as many coins is worth more than the richest.
LEMMA RichestAreWorthMost ==
  ASSUME NEW C \in SUBSET DOMAIN Balance, NEW s \in [1..Cardinality(C) -> C],
         IsInjective(s), RichFirst(s)
  PROVE  \A m \in 0..Cardinality(C) : \A S \in SUBSET C :
           Cardinality(S) <= m => Worth(S) <= Worth(Prefix(s, m))
<1> DEFINE N == Cardinality(C)
           Least(m) == \A S \in SUBSET C : Cardinality(S) <= m => Worth(S) <= Worth(Prefix(s, m))
           good == {m \in Nat : m <= N => Least(m)}
<1>0. N \in Nat /\ \A i \in 1..N : s[i] \in C
  BY WorthTyped
<1>1. \A S \in SUBSET C : /\ IsFiniteSet(S) /\ Cardinality(S) \in Nat /\ Worth(S) \in Nat
                          /\ \A x \in S : Balance[x] \in Nat /\ Worth(S) = Balance[x] + Worth(S \ {x})
  BY WorthTyped
<1>2. \A n \in 0..N : /\ Prefix(s, n) \in SUBSET C /\ Cardinality(Prefix(s, n)) = n
                      /\ Worth(Prefix(s, n)) \in Nat
  BY <1>0, PrefixCounts
<1>3. good \in SUBSET Nat
  OBVIOUS
<1>4. 0 \in good
  <2>1. ASSUME NEW S \in SUBSET C, Cardinality(S) <= 0 PROVE Worth(S) <= Worth(Prefix(s, 0))
    <3>1. S = {}
      BY <1>1, <2>1, FS_EmptySet
    <3>2. Prefix(s, 0) = S
      BY <3>1 DEF Prefix
    <3>3. Worth(S) \in Nat
      BY <1>1
    <3> HIDE DEF good, Least
    <3>4. Worth(S) <= Worth(S)
      BY <3>3
    <3> QED BY <3>2, <3>4
  <2> QED BY <2>1
<1>5. ASSUME NEW n \in good PROVE n + 1 \in good
  <2> SUFFICES ASSUME n + 1 <= N, NEW S \in SUBSET C, Cardinality(S) <= n + 1
               PROVE  Worth(S) <= Worth(Prefix(s, n + 1))
    OBVIOUS
  <2>1. n \in Nat /\ n < N /\ Least(n) /\ n \in 0..N /\ n + 1 \in 1..N
    BY <1>0
  <2> DEFINE P == Prefix(s, n)
             R == Prefix(s, n + 1)
             last == s[n + 1]
  <2>2. P \in SUBSET C /\ R = P \union {last} /\ last \in C \ P
    BY <1>0, <2>1, PrefixGrows
  <2>3. Cardinality(P) = n /\ Worth(P) \in Nat
    BY <1>2, <2>1
  <2>4. Worth(R) = Balance[last] + Worth(P) /\ Balance[last] \in Nat
    <3>1. R \in SUBSET C /\ last \in R /\ R \ {last} = P
      BY <2>2
    <3> QED BY <1>1, <3>1
  <2>5. P = {s[i] : i \in 1..n}
    BY DEF Prefix
  <2> HIDE DEF P, R, last
  <2>6. CASE S \subseteq P
    <3>1. Cardinality(S) <= n
      BY <1>1, <2>2, <2>3, <2>6, FS_Subset
    <3>2. Worth(S) <= Worth(P)
      BY <2>1, <3>1 DEF P
    <3> QED BY <1>1, <2>3, <2>4, <3>2 DEF R
  <2>7. CASE ~(S \subseteq P)
    <3>1. PICK c \in S : c \notin P
      BY <2>7
    <3>2. Balance[c] <= Balance[last]
      <4>1. PICK i \in 1..N : s[i] = c
        <5>1. Prefix(s, N) \in SUBSET C /\ Cardinality(Prefix(s, N)) = Cardinality(C)
          BY <1>0, <1>2
        <5>2. IsFiniteSet(C)
          BY WorthTyped
        <5>3. Prefix(s, N) = C
          BY <5>1, <5>2, FS_Subset
        <5> QED BY <5>3 DEF Prefix
      <4>2. ~(i \in 1..n)
        BY <2>5, <3>1, <4>1
      <4>3. i = n + 1 \/ n + 1 < i
        BY <2>1, <4>2
      <4>4. CASE i = n + 1
        <5>1. c = last
          BY <4>1, <4>4 DEF last
        <5> QED BY <2>4, <5>1
      <4>5. CASE n + 1 < i
        <5>1. DOMAIN s = 1..N
          BY DEF N
        <5>2. Balance[s[n + 1]] >= Balance[s[i]]
          BY <2>1, <4>5, <5>1 DEF RichFirst
        <5>3. Balance[c] \in Nat
          BY <1>1
        <5> QED BY <2>4, <4>1, <5>2, <5>3 DEF last
      <4> QED BY <4>3, <4>4, <4>5
    <3>3. S \ {c} \in SUBSET C /\ Cardinality(S \ {c}) = Cardinality(S) - 1
      BY <1>1, FS_RemoveElement
    <3>4. Cardinality(S) \in Nat
      BY <1>1
    <3>5. Cardinality(S \ {c}) <= n
      BY <2>1, <3>3, <3>4
    <3>6. Worth(S \ {c}) <= Worth(P) /\ Worth(S \ {c}) \in Nat
      BY <1>1, <2>1, <3>3, <3>5 DEF P
    <3>7. Worth(S) = Balance[c] + Worth(S \ {c}) /\ Balance[c] \in Nat
      BY <1>1
    <3> HIDE DEF N, Least, good
    <3>8. Balance[c] + Worth(S \ {c}) <= Balance[last] + Worth(P)
      BY <2>3, <2>4, <3>2, <3>6, <3>7
    <3> QED BY <2>4, <3>7, <3>8 DEF R
  <2> QED BY <2>6, <2>7
<1>6. \A n \in Nat : n \in good
  <2> HIDE DEF good
  <2> QED BY <1>3, <1>4, <1>5, ByInduction
<1>7. ASSUME NEW m \in 0..N PROVE Least(m)
  <2>1. m \in good /\ m <= N
    BY <1>0, <1>6
  <2> QED BY <2>1
<1> QED BY <1>7

\* What is offered: the richest coins, in order, no more than a payment may have.
LEMMA OfferedIsRichest ==
  ASSUME NEW C \in SUBSET DOMAIN Balance
  PROVE  /\ Len(Offered(C)) = Min({Cardinality(C), MaxPayment})
         /\ Len(Offered(C)) \in Nat
         /\ \A k \in 0..Len(Offered(C)) :
              /\ k <= Cardinality(C) /\ k <= MaxPayment
              /\ Prefix(Offered(C), k) \in SUBSET C /\ Cardinality(Prefix(Offered(C), k)) = k
              /\ Worth(Prefix(Offered(C), k)) \in Nat
              /\ \A S \in SUBSET C :
                   Cardinality(S) <= k => Worth(S) <= Worth(Prefix(Offered(C), k))
<1> DEFINE N == Cardinality(C)
           Rich(s) == IsInjective(s) /\ RichFirst(s)
           rich == CHOOSE s \in [1..N -> C] : Rich(s)
           L == Min({N, MaxPayment})
<1>1. N \in Nat /\ MaxPayment \in Nat
  BY WorthTyped, BuildingAssumption
<1>2. L \in Nat /\ L <= N /\ L <= MaxPayment /\ (L = N \/ L = MaxPayment)
  <2>1. {N, MaxPayment} \in SUBSET Nat /\ {N, MaxPayment} # {}
    BY <1>1
  <2>2. L \in {N, MaxPayment} /\ \A j \in {N, MaxPayment} : L <= j
    BY <2>1, MinIsLeast
  <2> QED BY <1>1, <2>2
<1>3. rich \in [1..N -> C] /\ IsInjective(rich) /\ RichFirst(rich)
  <2>1. \E s \in [1..N -> C] : Rich(s)
    BY RichFirstExists
  <2> HIDE DEF Rich, N
  <2>2. rich \in [1..N -> C] /\ Rich(rich)
    BY <2>1
  <2> QED BY <2>2 DEF Rich
<1>4. Offered(C) = [i \in 1..L |-> rich[i]]
  BY DEF Offered
<1> HIDE DEF L, rich
<1>5. Len(Offered(C)) = L
  BY <1>2, <1>4
<1>6. ASSUME NEW k \in 0..L PROVE Prefix(Offered(C), k) = Prefix(rich, k)
  <2>1. \A i \in 1..k : i \in 1..L
    BY <1>2
  <2>2. \A i \in 1..k : Offered(C)[i] = rich[i]
    BY <1>4, <2>1
  <2> QED BY <2>2 DEF Prefix
<1>7. ASSUME NEW k \in 0..L
      PROVE  /\ k <= N /\ k <= MaxPayment
             /\ Prefix(rich, k) \in SUBSET C /\ Cardinality(Prefix(rich, k)) = k
             /\ Worth(Prefix(rich, k)) \in Nat
             /\ \A S \in SUBSET C : Cardinality(S) <= k => Worth(S) <= Worth(Prefix(rich, k))
  <2>1. k \in 0..N /\ k <= N /\ k <= MaxPayment
    BY <1>1, <1>2
  <2>2. /\ Prefix(rich, k) \in SUBSET C /\ Cardinality(Prefix(rich, k)) = k
        /\ Worth(Prefix(rich, k)) \in Nat
    BY <1>1, <1>3, <2>1, PrefixCounts
  <2>3. \A S \in SUBSET C : Cardinality(S) <= k => Worth(S) <= Worth(Prefix(rich, k))
    BY <1>3, <2>1, RichestAreWorthMost
  <2> QED BY <2>1, <2>2, <2>3
<1>8. L = Min({N, MaxPayment})
  BY DEF L
<1> QED BY <1>2, <1>5, <1>6, <1>7, <1>8

\* select: coins that can be had, worth what is needed.
LEMMA SelectPays ==
  ASSUME NEW C \in SUBSET DOMAIN Balance, NEW need \in Nat, Enough(C, need) # {}
  PROVE  /\ Select(C, need) \in SUBSET C
         /\ Worth(Select(C, need)) \in Nat /\ Worth(Select(C, need)) >= need
         /\ Cardinality(Select(C, need)) \in Enough(C, need)
         /\ \A k \in Enough(C, need) : Cardinality(Select(C, need)) <= k
<1> DEFINE enough == Enough(C, need)
           least == Min(enough)
<1>1. enough \in SUBSET Nat /\ Len(Offered(C)) \in Nat
  BY OfferedIsRichest DEF Enough
<1>2. least \in enough /\ \A k \in enough : least <= k
  BY <1>1, MinIsLeast
<1>3. least \in 0..Len(Offered(C)) /\ Worth(Prefix(Offered(C), least)) >= need
  BY <1>1, <1>2 DEF Enough
<1>4. Select(C, need) = Prefix(Offered(C), least)
  BY DEF Select
<1> HIDE DEF least, enough
<1>5. /\ Select(C, need) \in SUBSET C /\ Cardinality(Select(C, need)) = least
      /\ Worth(Select(C, need)) \in Nat
  BY <1>3, <1>4, OfferedIsRichest
<1> QED BY <1>2, <1>3, <1>4, <1>5 DEF enough

\* A choice of coins that pays is as long as some prefix of the offer that pays.
LEMMA PayersNeedEnough ==
  ASSUME NEW C \in SUBSET DOMAIN Balance, NEW need \in Nat, NEW S \in Payers(C, need)
  PROVE  Cardinality(S) \in Enough(C, need)
<1> DEFINE m == Cardinality(S)
<1>1. S \in SUBSET C /\ m \in 1..MaxPayment /\ Worth(S) >= need
  BY DEF Payers
<1>2. IsFiniteSet(C) /\ Cardinality(C) \in Nat /\ MaxPayment \in Nat /\ Worth(S) \in Nat
  BY <1>1, WorthTyped, BuildingAssumption
<1>3. m <= Cardinality(C)
  BY <1>1, <1>2, FS_Subset
<1>4. /\ Len(Offered(C)) \in {Cardinality(C), MaxPayment} /\ Len(Offered(C)) \in Nat
  <2>1. {Cardinality(C), MaxPayment} \in SUBSET Nat /\ {Cardinality(C), MaxPayment} # {}
    BY <1>2
  <2> QED BY <2>1, MinIsLeast, OfferedIsRichest
<1> HIDE DEF m
<1>5. m \in 0..Len(Offered(C)) /\ m \in 1..Len(Offered(C))
  BY <1>1, <1>2, <1>3, <1>4
<1>6. /\ Worth(Prefix(Offered(C), m)) \in Nat
      /\ Worth(S) <= Worth(Prefix(Offered(C), m))
  <2>1. Cardinality(S) <= m
    BY <1>1, <1>2, <1>5 DEF m
  <2> QED BY <1>1, <1>5, <2>1, OfferedIsRichest
<1>7. Worth(Prefix(Offered(C), m)) >= need
  BY <1>1, <1>2, <1>6
<1> QED BY <1>5, <1>7 DEF Enough, m

------------------------------------------------------------------------------
(***************************************************************************)
(* The queue.                                                              *)
(***************************************************************************)
LEMMA LimitIsNat == ASSUME QueueOK PROVE limit \in Nat /\ limit # 0
BY QueueAssumption DEF QueueOK

LEMMA QueueInitOK == QueueInit => QueueOK
<1> SUFFICES ASSUME QueueInit PROVE QueueOK
  OBVIOUS
<1>1. limit \in Limits /\ limit \in Nat /\ waiting = <<>> /\ inside = {} /\ ended = {}
  BY QueueAssumption DEF QueueInit
<1>2. IsFiniteSet(inside) /\ Cardinality(inside) <= limit
  BY <1>1, FS_EmptySet
<1>3. waiting \in Seq(Tasks) /\ IsInjective(waiting)
  BY <1>1 DEF IsInjective
<1> QED BY <1>1, <1>2, <1>3 DEF QueueOK

LEMMA ArriveKeeps ==
  ASSUME QueueOK, NEW t \in Tasks, Arrive(t)
  PROVE  QueueOK' /\ limit' = limit /\ inside \subseteq inside'
<1>1. /\ limit \in Nat /\ IsFiniteSet(inside) /\ Cardinality(inside) <= limit
      /\ waiting \in Seq(Tasks) /\ IsInjective(waiting) /\ limit \in Limits
      /\ inside \subseteq Tasks /\ ended \subseteq Tasks
      /\ inside \intersect (ended \union ToSet(waiting)) = {}
      /\ ended \intersect ToSet(waiting) = {}
  BY LimitIsNat DEF QueueOK
<1>2. /\ t \notin inside /\ t \notin ended /\ limit' = limit /\ ended' = ended
      /\ \A i \in DOMAIN waiting : waiting[i] # t
  BY DEF Arrive, Waiting
<1>3. CASE Room /\ waiting = <<>>
  <2>1. inside' = inside \union {t} /\ waiting' = waiting
    BY <1>3 DEF Arrive
  <2>2. IsFiniteSet(inside') /\ Cardinality(inside') = Cardinality(inside) + 1
    BY <1>1, <1>2, <2>1, FS_AddElement
  <2>3. Cardinality(inside') <= limit'
    BY <1>1, <1>2, <1>3, <2>2, FS_CardinalityType DEF Room
  <2>4. /\ inside' \intersect (ended' \union ToSet(waiting')) = {}
        /\ ended' \intersect ToSet(waiting') = {}
    BY <1>1, <1>2, <1>3, <2>1 DEF ToSet
  <2> QED BY <1>1, <1>2, <2>1, <2>2, <2>3, <2>4 DEF QueueOK
<1>4. CASE ~(Room /\ waiting = <<>>)
  <2>1. waiting' = Append(waiting, t) /\ inside' = inside
    BY <1>4 DEF Arrive
  <2>2. /\ waiting' \in Seq(Tasks) /\ IsInjective(waiting')
        /\ ToSet(waiting') = ToSet(waiting) \union {t}
    BY <1>1, <1>2, <2>1, Joined
  <2> QED BY <1>1, <1>2, <2>1, <2>2 DEF QueueOK
<1> QED BY <1>3, <1>4

LEMMA GrantKeeps ==
  ASSUME QueueOK, Grant
  PROVE  QueueOK' /\ limit' = limit /\ inside \subseteq inside'
<1>1. /\ limit \in Nat /\ IsFiniteSet(inside) /\ Cardinality(inside) <= limit
      /\ waiting \in Seq(Tasks) /\ IsInjective(waiting) /\ limit \in Limits
      /\ inside \subseteq Tasks /\ ended \subseteq Tasks
      /\ inside \intersect (ended \union ToSet(waiting)) = {}
      /\ ended \intersect ToSet(waiting) = {}
  BY LimitIsNat DEF QueueOK
<1>2. /\ waiting # <<>> /\ Cardinality(inside) < limit /\ limit' = limit /\ ended' = ended
      /\ inside' = inside \union {Head(waiting)} /\ waiting' = Tail(waiting)
  BY DEF Grant, Room
<1>3. /\ waiting' \in Seq(Tasks) /\ IsInjective(waiting')
      /\ Head(waiting) \in Tasks /\ Head(waiting) \in ToSet(waiting)
      /\ ToSet(waiting') \subseteq ToSet(waiting) \ {Head(waiting)}
  BY <1>1, <1>2, Served
<1>4. /\ IsFiniteSet(inside') /\ Cardinality(inside') = Cardinality(inside) + 1
      /\ Cardinality(inside) \in Nat
  <2>1. Head(waiting) \notin inside
    BY <1>1, <1>3
  <2> QED BY <1>1, <1>2, <2>1, FS_AddElement, FS_CardinalityType
<1>5. Cardinality(inside') <= limit' /\ Cardinality(inside') \in Nat
  BY <1>1, <1>2, <1>4, FS_CardinalityType
<1>6. /\ inside' \subseteq Tasks /\ inside' \intersect (ended' \union ToSet(waiting')) = {}
      /\ ended' \intersect ToSet(waiting') = {}
  BY <1>1, <1>2, <1>3
<1> QED BY <1>1, <1>2, <1>3, <1>4, <1>5, <1>6 DEF QueueOK

LEMMA AbandonKeeps ==
  ASSUME QueueOK, NEW t \in Tasks, Abandon(t)
  PROVE  QueueOK' /\ limit' = limit /\ inside \subseteq inside'
<1>1. PICK i \in DOMAIN waiting : waiting[i] = t /\ waiting' = RemoveAt(waiting, i)
  BY DEF Abandon
<1>2. limit' = limit /\ inside' = inside /\ ended' = ended \union {t}
  BY DEF Abandon
<1>3. /\ waiting' \in Seq(Tasks) /\ IsInjective(waiting')
      /\ ToSet(waiting') \subseteq ToSet(waiting) \ {t}
  BY <1>1, Removed DEF QueueOK
<1>4. t \in ToSet(waiting)
  BY <1>1 DEF ToSet
<1> QED BY <1>2, <1>3, <1>4 DEF QueueOK

LEMMA LeaveKeeps ==
  ASSUME QueueOK, NEW t \in inside, Leave(t)
  PROVE  QueueOK' /\ limit' = limit /\ inside' = inside \ {t}
<1>1. inside' = inside \ {t} /\ ended' = ended \union {t} /\ limit' = limit /\ waiting' = waiting
  BY DEF Leave
<1>2. /\ IsFiniteSet(inside') /\ Cardinality(inside') <= Cardinality(inside)
      /\ Cardinality(inside) \in Nat /\ Cardinality(inside') \in Nat
  BY <1>1, FS_Subset, FS_CardinalityType DEF QueueOK
<1>3. Cardinality(inside') <= limit'
  BY <1>1, <1>2, LimitIsNat DEF QueueOK
<1>4. /\ inside' \intersect (ended' \union ToSet(waiting')) = {}
      /\ ended' \intersect ToSet(waiting') = {}
  BY <1>1 DEF QueueOK
<1> QED BY <1>1, <1>2, <1>3, <1>4 DEF QueueOK

\* In a SerialQueue no two tasks are inside.
LEMMA Alone ==
  ASSUME QueueOK, limit = 1, NEW t \in inside, NEW u \in inside
  PROVE  t = u
<1>1. IsFiniteSet(inside) /\ Cardinality(inside) <= 1 /\ Cardinality(inside) \in Nat
  BY FS_CardinalityType DEF QueueOK
<1>2. IsFiniteSet(inside \ {t}) /\ Cardinality(inside \ {t}) = Cardinality(inside) - 1
  BY <1>1, FS_RemoveElement
<1>3. Cardinality(inside \ {t}) = 0
  BY <1>1, <1>2, FS_CardinalityType
<1>4. inside \ {t} = {}
  BY <1>2, <1>3, FS_EmptySet
<1> QED BY <1>4

------------------------------------------------------------------------------
(***************************************************************************)
(* The builder.                                                            *)
(***************************************************************************)
LEMMA JobArgs ==
  ASSUME NEW j \in Jobs, j.op \in {"call", "split"}
  PROVE  /\ j.args \in Seq(Arguments)
         /\ j.op = "split" => Len(j.args) = 1 /\ j.args[1].form = "pure"
BY BuildingAssumption

LEMMA ArgumentShape ==
  ASSUME NEW a \in Arguments
  PROVE  /\ a.form \in {"pure", "id", "reference"} /\ a.mut \in BOOLEAN
         /\ a.form = "pure" => a.val \in Nat /\ a.mut = FALSE
         /\ a.form # "pure" => a.val \in Objects
BY DEF Arguments

LEMMA EncodedMeans ==
  ASSUME NEW a \in Arguments
  PROVE  /\ Encoded(a) \in Inputs /\ Denotes(Encoded(a), a)
         /\ IsObject(Encoded(a)) <=> a.form # "pure"
<1>1. CASE a.form = "pure"
  <2>1. Encoded(a) = [kind |-> "pure", val |-> a.val, mut |-> FALSE] /\ a.val \in Nat
    BY <1>1, ArgumentShape DEF Encoded
  <2> QED BY <1>1, <2>1 DEF Inputs, Denotes, IsObject
<1>2. CASE a.form = "id"
  <2>1. /\ Encoded(a) = [kind |-> "unresolved", val |-> a.val, mut |-> a.mut]
        /\ a.val \in Objects /\ a.mut \in BOOLEAN
    BY <1>2, ArgumentShape DEF Encoded
  <2> QED BY <1>2, <2>1 DEF Inputs, Denotes, IsObject
<1>3. CASE a.form = "reference"
  <2>1. /\ Encoded(a) = [kind |-> "object", val |-> a.val, mut |-> a.mut /\ a.val \in Shared]
        /\ a.val \in Objects /\ a.mut \in BOOLEAN
    BY <1>3, ArgumentShape DEF Encoded, Reference
  <2>2. (a.mut /\ a.val \in Shared) \in BOOLEAN
    OBVIOUS
  <2> QED BY <1>3, <2>1, <2>2 DEF Inputs, Denotes, IsObject
<1> QED BY <1>1, <1>2, <1>3, ArgumentShape

\* The input of an argument is there and says what the caller said.
LEMMA SlotMeans ==
  ASSUME NEW ins \in Seq(Inputs), NEW a \in Arguments
  PROVE  LET new == AddInput(ins, a)
             slot == Slot(ins, a)
         IN  /\ new \in Seq(Inputs) /\ Len(ins) <= Len(new)
             /\ \A i \in DOMAIN ins : i \in DOMAIN new /\ new[i] = ins[i]
             /\ slot \in Nat /\ slot \in DOMAIN new /\ Denotes(new[slot], a)
             /\ compress => \A i, j \in DOMAIN new :
                  i < j /\ SameObject(new[i], new[j]) =>
                    \/ j \in DOMAIN ins
                    \/ j = slot /\ a.form = "reference"
<1> DEFINE slot == Slot(ins, a)
           new == AddInput(ins, a)
<1>0. Len(ins) \in Nat /\ DOMAIN ins = 1..Len(ins) /\ \A i \in DOMAIN ins : ins[i] \in Inputs
  OBVIOUS
<1>1. \A i \in Same(ins, a) : i \in DOMAIN ins /\ Denotes(ins[i], a)
  <2> TAKE i \in Same(ins, a)
  <2>1. CASE a.form = "id"
    <3>1. i \in DOMAIN ins /\ IsObject(ins[i]) /\ ins[i].val = a.val
      BY <2>1 DEF Same
    <3> QED BY <2>1, <3>1 DEF Denotes, IsObject
  <2>2. CASE a.form # "id"
    <3>1. i \in DOMAIN ins /\ ins[i] = Encoded(a)
      BY <2>2 DEF Same
    <3> QED BY <3>1, EncodedMeans
  <2> QED BY <2>1, <2>2
<1>2. CASE compress /\ Same(ins, a) # {}
  <2>1. slot \in Same(ins, a)
    <3>1. Same(ins, a) \in SUBSET Nat
      BY <1>0, <1>1
    <3>2. Min(Same(ins, a)) \in Same(ins, a)
      BY <1>2, <3>1, MinIsLeast
    <3> QED BY <1>2, <3>2 DEF Slot
  <2>2. slot \in DOMAIN ins /\ Denotes(ins[slot], a)
    BY <1>1, <2>1
  <2>3. new = ins
    BY <2>2 DEF AddInput
  <2> HIDE DEF new, slot
  <2> QED BY <1>0, <2>2, <2>3 DEF new, slot
<1>3. CASE ~(compress /\ Same(ins, a) # {})
  <2>1. slot = Len(ins) + 1
    BY <1>3 DEF Slot
  <2>2. slot \notin DOMAIN ins
    BY <1>0, <2>1
  <2>3. new = Append(ins, Encoded(a))
    BY <2>2 DEF AddInput
  <2>4. Encoded(a) \in Inputs /\ Denotes(Encoded(a), a)
    BY EncodedMeans
  <2> HIDE DEF new, slot
  <2>5. /\ new \in Seq(Inputs) /\ Len(new) = Len(ins) + 1 /\ DOMAIN new = 1..(Len(ins) + 1)
        /\ \A i \in 1..Len(ins) : new[i] = ins[i]
        /\ new[Len(ins) + 1] = Encoded(a)
    BY <1>0, <2>3, <2>4
  <2>6. /\ Len(ins) <= Len(new) /\ \A i \in DOMAIN ins : i \in DOMAIN new /\ new[i] = ins[i]
        /\ slot \in Nat /\ slot \in DOMAIN new
    BY <1>0, <2>1, <2>5
  <2>7. Denotes(new[slot], a)
    BY <2>1, <2>4, <2>5
  <2>8. ASSUME compress, NEW i \in DOMAIN new, NEW j \in DOMAIN new, i < j,
               SameObject(new[i], new[j]), j \notin DOMAIN ins
        PROVE  j = slot /\ a.form = "reference"
    <3>1. j = Len(ins) + 1 /\ i \in 1..Len(ins)
      BY <1>0, <2>5, <2>8
    <3>2. IsObject(ins[i]) /\ IsObject(Encoded(a)) /\ ins[i].val = Encoded(a).val
      BY <2>5, <2>8, <3>1 DEF SameObject
    <3>3. a.form # "pure" /\ Encoded(a).val = a.val
      BY <3>2, EncodedMeans DEF Denotes
    <3>4. a.form # "id"
      <4>1. Same(ins, a) = {}
        BY <1>3, <2>8
      <4> QED BY <1>0, <3>1, <3>2, <3>3, <4>1 DEF Same
    <3> QED BY <2>1, <3>1, <3>3, <3>4, ArgumentShape
  <2> QED BY <2>5, <2>6, <2>7, <2>8 DEF new, slot
<1> QED BY <1>2, <1>3

\* What has been added after the first n arguments.
Adding(acc, args, n) ==
  /\ acc.ins \in Seq(Inputs)
  /\ \A i \in DOMAIN inputs : i \in DOMAIN acc.ins /\ acc.ins[i] = inputs[i]
  /\ acc.at \in Seq(Nat) /\ Len(acc.at) = n
  /\ \A k \in 1..n : acc.at[k] \in DOMAIN acc.ins /\ Denotes(acc.ins[acc.at[k]], args[k])
  /\ compress => \A i, j \in DOMAIN acc.ins :
       i < j /\ SameObject(acc.ins[i], acc.ins[j]) =>
         \/ j \in DOMAIN inputs
         \/ \E k \in 1..n : acc.at[k] = j /\ args[k].form = "reference"

LEMMA WithAdds ==
  ASSUME NEW args \in Seq(Arguments), NEW n \in Nat, n < Len(args), NEW acc, Adding(acc, args, n)
  PROVE  Adding(With(acc, args[n + 1]), args, n + 1)
<1> DEFINE a == args[n + 1]
           new == AddInput(acc.ins, a)
           slot == Slot(acc.ins, a)
           at == Append(acc.at, slot)
<1>1. a \in Arguments
  OBVIOUS
<1>2. /\ acc.ins \in Seq(Inputs)
      /\ acc.at \in Seq(Nat) /\ Len(acc.at) = n
      /\ \A i \in DOMAIN inputs : i \in DOMAIN acc.ins /\ acc.ins[i] = inputs[i]
      /\ \A k \in 1..n : acc.at[k] \in DOMAIN acc.ins /\ Denotes(acc.ins[acc.at[k]], args[k])
  BY DEF Adding
<1>3. /\ new \in Seq(Inputs) /\ Len(acc.ins) <= Len(new)
      /\ \A i \in DOMAIN acc.ins : i \in DOMAIN new /\ new[i] = acc.ins[i]
      /\ slot \in Nat /\ slot \in DOMAIN new /\ Denotes(new[slot], a)
      /\ compress => \A i, j \in DOMAIN new :
           i < j /\ SameObject(new[i], new[j]) =>
             j \in DOMAIN acc.ins \/ (j = slot /\ a.form = "reference")
  BY <1>1, <1>2, SlotMeans
<1>4. With(acc, a).ins = new /\ With(acc, a).at = at
  BY DEF With
<1> HIDE DEF new, slot, a
<1>5. /\ at \in Seq(Nat) /\ Len(at) = n + 1 /\ at[n + 1] = slot
      /\ \A k \in 1..n : at[k] = acc.at[k]
  <2>1. slot \in Nat
    BY <1>3
  <2>2. acc.at \in Seq(Nat) /\ Len(acc.at) = n
    BY <1>2
  <2> QED BY <2>1, <2>2
<1> HIDE DEF at
<1>6. \A k \in 1..(n + 1) : k \in 1..n \/ k = n + 1
  OBVIOUS
<1>8. \A i \in DOMAIN inputs : i \in DOMAIN new /\ new[i] = inputs[i]
  BY <1>2, <1>3
<1>9. ASSUME NEW k \in 1..(n + 1) PROVE at[k] \in DOMAIN new /\ Denotes(new[at[k]], args[k])
  <2>1. CASE k \in 1..n
    <3>1. acc.at[k] \in DOMAIN acc.ins /\ Denotes(acc.ins[acc.at[k]], args[k])
      BY <1>2, <2>1
    <3>2. acc.at[k] \in DOMAIN new /\ new[acc.at[k]] = acc.ins[acc.at[k]]
      BY <1>3, <3>1
    <3>3. at[k] = acc.at[k]
      BY <1>5, <2>1
    <3> QED BY <3>1, <3>2, <3>3
  <2>2. CASE k = n + 1
    BY <1>3, <1>5, <2>2 DEF a
  <2> QED BY <1>6, <2>1, <2>2
<1>10. ASSUME compress, NEW i \in DOMAIN new, NEW j \in DOMAIN new, i < j, SameObject(new[i], new[j])
       PROVE  \/ j \in DOMAIN inputs
              \/ \E k \in 1..(n + 1) : at[k] = j /\ args[k].form = "reference"
  <2>1. CASE j = slot /\ a.form = "reference"
    <3>1. n + 1 \in 1..(n + 1)
      OBVIOUS
    <3> QED BY <1>5, <2>1, <3>1 DEF a
  <2>2. CASE j \in DOMAIN acc.ins
    <3>1. i \in DOMAIN acc.ins
      BY <1>2, <1>3, <1>10, <2>2
    <3>2. SameObject(acc.ins[i], acc.ins[j])
      BY <1>3, <1>10, <2>2, <3>1
    <3>3. \/ j \in DOMAIN inputs
          \/ \E k \in 1..n : acc.at[k] = j /\ args[k].form = "reference"
      BY <1>10, <2>2, <3>1, <3>2 DEF Adding
    <3>4. \A k \in 1..n : k \in 1..(n + 1)
      OBVIOUS
    <3> QED BY <1>5, <3>3, <3>4
  <2> QED BY <1>3, <1>10, <2>1, <2>2
<1> QED BY <1>3, <1>4, <1>5, <1>8, <1>9, <1>10 DEF Adding, a

LEMMA AddArgsUnfolds ==
  ASSUME NEW args \in Seq(Arguments)
  PROVE  \E added : /\ AddArgs(args) = added[Len(args)]
                    /\ added[0] = [ins |-> inputs, at |-> <<>>]
                    /\ \A n \in 1..Len(args) : added[n] = With(added[n - 1], args[n])
<1> DEFINE base == [ins |-> inputs, at |-> <<>>]
           Q(f, n) == f = [i \in 0..n |-> IF i = 0 THEN base ELSE With(f[i - 1], args[i])]
           good == {n \in Nat : \E f : Q(f, n)}
<1>1. good \in SUBSET Nat
  OBVIOUS
<1>2. 0 \in good
  <2>1. Q([i \in 0..0 |-> base], 0)
    OBVIOUS
  <2> QED BY <2>1
<1>3. ASSUME NEW n \in good PROVE n + 1 \in good
  <2>1. n \in Nat
    OBVIOUS
  <2>2. PICK f : Q(f, n)
    OBVIOUS
  <2> HIDE DEF base, good
  <2> DEFINE g == [i \in 0..(n + 1) |-> IF i = 0 THEN base ELSE With(f[i - 1], args[i])]
  <2>3. \A i \in 0..n : i \in 0..(n + 1) /\ g[i] = f[i]
    BY <2>1, <2>2
  <2>4. \A i \in 0..(n + 1) : i # 0 => i - 1 \in 0..n
    BY <2>1
  <2>5. \A i \in 0..(n + 1) : g[i] = IF i = 0 THEN base ELSE With(g[i - 1], args[i])
    BY <2>3, <2>4
  <2>6. Q(g, n + 1)
    BY <2>5
  <2> HIDE DEF g
  <2>7. \E x : Q(x, n + 1)
    BY <2>6
  <2> HIDE DEF Q
  <2> QED BY <2>1, <2>7 DEF good
<1>4. Len(args) \in Nat
  OBVIOUS
<1>5. \E f : Q(f, Len(args))
  <2>1. Len(args) \in good
    <3> HIDE DEF good
    <3> QED BY <1>1, <1>2, <1>3, <1>4, ByInduction
  <2> QED BY <2>1
<1> DEFINE P(f) == Q(f, Len(args))
           h == CHOOSE f : P(f)
<1>6. P(h)
  <2> HIDE DEF P
  <2> QED BY <1>5 DEF P
<1>7. AddArgs(args) = h[Len(args)]
  BY DEF AddArgs
<1> HIDE DEF h
<1>8. h[0] = base
  BY <1>4, <1>6
<1>9. ASSUME NEW n \in 1..Len(args) PROVE h[n] = With(h[n - 1], args[n])
  <2>1. n \in 0..Len(args) /\ n # 0
    BY <1>4
  <2> QED BY <1>6, <2>1
<1> QED BY <1>7, <1>8, <1>9

LEMMA AddArgsAdds ==
  ASSUME NEW args \in Seq(Arguments), inputs \in Seq(Inputs)
  PROVE  Adding(AddArgs(args), args, Len(args))
<1>1. PICK added : /\ AddArgs(args) = added[Len(args)]
                   /\ added[0] = [ins |-> inputs, at |-> <<>>]
                   /\ \A n \in 1..Len(args) : added[n] = With(added[n - 1], args[n])
  BY AddArgsUnfolds
<1> DEFINE good == {n \in Nat : n <= Len(args) => Adding(added[n], args, n)}
<1>2. good \in SUBSET Nat /\ Len(args) \in Nat
  OBVIOUS
<1>3. 0 \in good
  <2>1. added[0].ins = inputs /\ added[0].at = <<>>
    BY <1>1
  <2>2. <<>> \in Seq(Nat) /\ Len(<<>>) = 0 /\ 1..0 = {}
    OBVIOUS
  <2>3. Adding(added[0], args, 0)
    BY <2>1, <2>2 DEF Adding
  <2> QED BY <2>3
<1>4. ASSUME NEW n \in good PROVE n + 1 \in good
  <2> SUFFICES ASSUME n + 1 <= Len(args) PROVE Adding(added[n + 1], args, n + 1)
    OBVIOUS
  <2>1. n \in Nat /\ n < Len(args) /\ Adding(added[n], args, n)
    BY <1>2
  <2>2. n + 1 \in 1..Len(args) /\ (n + 1) - 1 = n
    BY <1>2, <2>1
  <2>3. added[n + 1] = With(added[n], args[n + 1])
    BY <1>1, <2>2
  <2> QED BY <2>1, <2>3, WithAdds
<1>5. Len(args) \in good
  <2> HIDE DEF good
  <2> QED BY <1>2, <1>3, <1>4, ByInduction
<1> QED BY <1>1, <1>2, <1>5

\* A command of task t joins the others, and all keep their inputs.
LEMMA CommandJoins ==
  ASSUME job \in [Tasks -> Jobs], NEW t \in Tasks, job[t].op \in {"call", "split"},
         Fits(inputs, commands), Mean(inputs, commands), OneInputEach
  PROVE  LET added == AddArgs(job[t].args)
             cmds == Append(commands, [by |-> t, at |-> added.at])
         IN  /\ Fits(added.ins, cmds) /\ Mean(added.ins, cmds)
             /\ compress => \A i, j \in DOMAIN added.ins :
                  i < j /\ SameObject(added.ins[i], added.ins[j]) => GivenAsReference(cmds, j)
<1> DEFINE args == job[t].args
           added == AddArgs(args)
           c == [by |-> t, at |-> added.at]
           cmds == Append(commands, c)
           K == Len(commands)
<1>1. args \in Seq(Arguments)
  BY JobArgs
<1>2. Adding(added, args, Len(args))
  BY <1>1, AddArgsAdds DEF Fits
<1> HIDE DEF added
<1>3. /\ added.ins \in Seq(Inputs) /\ added.at \in Seq(Nat) /\ Len(added.at) = Len(args)
      /\ \A i \in DOMAIN inputs : i \in DOMAIN added.ins /\ added.ins[i] = inputs[i]
      /\ \A k \in 1..Len(args) : /\ added.at[k] \in DOMAIN added.ins
                                 /\ Denotes(added.ins[added.at[k]], args[k])
  BY <1>2 DEF Adding
<1>4. /\ commands \in Seq([by : Tasks, at : Seq(Nat)]) /\ K \in Nat
      /\ DOMAIN commands = 1..K
      /\ c \in [by : Tasks, at : Seq(Nat)] /\ c.by = t /\ c.at = added.at
      /\ cmds \in Seq([by : Tasks, at : Seq(Nat)]) /\ DOMAIN cmds = 1..(K + 1)
      /\ \A k \in 1..K : cmds[k] = commands[k]
      /\ cmds[K + 1] = c
  BY <1>3 DEF Fits
<1> HIDE DEF cmds, c
<1>5. \A k \in 1..(K + 1) : k \in 1..K \/ k = K + 1
  BY <1>4
<1>6. DOMAIN added.at = 1..Len(args)
  BY <1>3
<1>7. ASSUME NEW k \in DOMAIN cmds
      PROVE  /\ job[cmds[k].by].op \in {"call", "split"}
             /\ Len(cmds[k].at) = Len(job[cmds[k].by].args)
             /\ \A n \in DOMAIN cmds[k].at :
                  /\ cmds[k].at[n] \in DOMAIN added.ins
                  /\ Denotes(added.ins[cmds[k].at[n]], job[cmds[k].by].args[n])
  <2>1. CASE k \in 1..K
    <3>1. /\ job[commands[k].by].op \in {"call", "split"}
          /\ Len(commands[k].at) = Len(job[commands[k].by].args)
          /\ \A n \in DOMAIN commands[k].at : commands[k].at[n] \in DOMAIN inputs
      BY <1>4, <2>1 DEF Fits
    <3>2. \A n \in DOMAIN commands[k].at :
            Denotes(inputs[commands[k].at[n]], job[commands[k].by].args[n])
      BY <1>4, <2>1 DEF Mean
    <3>3. \A n \in DOMAIN commands[k].at :
            /\ commands[k].at[n] \in DOMAIN added.ins
            /\ Denotes(added.ins[commands[k].at[n]], job[commands[k].by].args[n])
      BY <1>3, <3>1, <3>2
    <3>4. cmds[k] = commands[k]
      BY <1>4, <2>1
    <3> QED BY <3>1, <3>3, <3>4
  <2>2. CASE k = K + 1
    BY <1>3, <1>4, <1>6, <2>2
  <2> QED BY <1>4, <1>5, <2>1, <2>2
<1>8. Fits(added.ins, cmds)
  BY <1>3, <1>4, <1>7 DEF Fits
<1>9. Mean(added.ins, cmds)
  BY <1>7 DEF Mean
<1>10. ASSUME compress, NEW i \in DOMAIN added.ins, NEW j \in DOMAIN added.ins, i < j,
              SameObject(added.ins[i], added.ins[j])
       PROVE  GivenAsReference(cmds, j)
  <2>1. CASE j \in DOMAIN inputs
    <3>1. i \in DOMAIN inputs
      <4>1. inputs \in Seq(Inputs)
        BY DEF Fits
      <4> QED BY <1>3, <1>10, <2>1, <4>1
    <3>2. SameObject(inputs[i], inputs[j])
      BY <1>3, <1>10, <2>1, <3>1
    <3>3. GivenAsReference(commands, j)
      BY <1>10, <2>1, <3>1, <3>2 DEF OneInputEach
    <3>4. PICK k \in DOMAIN commands : \E n \in DOMAIN commands[k].at :
            commands[k].at[n] = j /\ job[commands[k].by].args[n].form = "reference"
      BY <3>3 DEF GivenAsReference
    <3>5. k \in DOMAIN cmds /\ cmds[k] = commands[k]
      BY <1>4
    <3> QED BY <3>4, <3>5 DEF GivenAsReference
  <2>2. CASE j \notin DOMAIN inputs
    <3>1. PICK k \in 1..Len(args) : added.at[k] = j /\ args[k].form = "reference"
      BY <1>2, <1>10, <2>2 DEF Adding
    <3>2. K + 1 \in DOMAIN cmds
      BY <1>4
    <3> QED BY <1>4, <1>6, <3>1, <3>2 DEF GivenAsReference
  <2> QED BY <2>1, <2>2
<1> QED BY <1>8, <1>9, <1>10 DEF added, cmds, c

------------------------------------------------------------------------------
(***************************************************************************)
(* The resolution of the inputs, and what the commands split off.          *)
(***************************************************************************)
LEMMA ReferenceShape ==
  ASSUME NEW o \in Objects, NEW m \in BOOLEAN
  PROVE  /\ Reference(o, m) \in Inputs /\ Reference(o, m).kind = "object"
         /\ Reference(o, m).val = o
<1>1. (m /\ o \in Shared) \in BOOLEAN
  OBVIOUS
<1> QED BY <1>1 DEF Reference, Inputs

LEMMA ResolvedKeeps ==
  ASSUME NEW ins, NEW cmds, Fits(ins, cmds), Mean(ins, cmds)
  PROVE  /\ Fits(Resolved(ins), cmds) /\ Mean(Resolved(ins), cmds)
         /\ Unresolved(Resolved(ins)) = {}
         /\ Unresolved(ins) = {} => Resolved(ins) = ins
         /\ DOMAIN Resolved(ins) = DOMAIN ins
         /\ \A i, j \in DOMAIN ins :
              SameObject(Resolved(ins)[i], Resolved(ins)[j]) => SameObject(ins[i], ins[j])
<1> DEFINE new == Resolved(ins)
<1>1. ins \in Seq(Inputs) /\ Len(ins) \in Nat /\ DOMAIN ins = 1..Len(ins)
  BY DEF Fits
<1>2. ASSUME NEW i \in DOMAIN ins
      PROVE  /\ new[i] \in Inputs /\ new[i].val = ins[i].val /\ new[i].kind # "unresolved"
             /\ new[i].kind = "pure" <=> ins[i].kind = "pure"
             /\ i \notin Unresolved(ins) => new[i] = ins[i]
  <2>1. ins[i] \in Inputs
    BY <1>1
  <2>2. CASE i \in Unresolved(ins)
    <3>1. new[i] = Reference(ins[i].val, ins[i].mut) /\ ins[i].kind = "unresolved"
      BY <2>2 DEF Resolved, Unresolved
    <3>2. ins[i].val \in Objects /\ ins[i].mut \in BOOLEAN
      BY <2>1, <3>1 DEF Inputs
    <3>3. new[i] \in Inputs /\ new[i].kind = "object" /\ new[i].val = ins[i].val
      BY <3>1, <3>2, ReferenceShape
    <3> QED BY <2>2, <3>1, <3>3
  <2>3. CASE i \notin Unresolved(ins)
    <3>1. new[i] = ins[i]
      BY <2>3 DEF Resolved
    <3> QED BY <2>1, <2>3, <3>1 DEF Unresolved
  <2> QED BY <2>2, <2>3
<1>3. DOMAIN new = DOMAIN ins
  BY DEF Resolved
<1>4. Unresolved(ins) = {} => new = ins
  <2> SUFFICES ASSUME Unresolved(ins) = {} PROVE new = ins
    OBVIOUS
  <2>1. new = [i \in DOMAIN ins |-> ins[i]]
    BY DEF Resolved
  <2> HIDE DEF new
  <2>2. ins = [i \in DOMAIN ins |-> ins[i]]
    BY <1>1
  <2> QED BY <2>1, <2>2
<1>5. new \in [1..Len(ins) -> Inputs]
  <2>1. new = [i \in DOMAIN ins |-> new[i]]
    BY DEF Resolved
  <2> HIDE DEF new
  <2> QED BY <1>1, <1>2, <2>1
<1> HIDE DEF new
<1>6. new \in Seq(Inputs)
  BY <1>1, <1>5, AsSequence
<1>7. Fits(new, cmds)
  BY <1>3, <1>6 DEF Fits
<1>8. ASSUME NEW k \in DOMAIN cmds, NEW n \in DOMAIN cmds[k].at
      PROVE  Denotes(new[cmds[k].at[n]], job[cmds[k].by].args[n])
  <2>1. cmds[k].at[n] \in DOMAIN ins
    BY <1>8 DEF Fits
  <2>2. Denotes(ins[cmds[k].at[n]], job[cmds[k].by].args[n])
    BY <1>8 DEF Mean
  <2> QED BY <1>2, <2>1, <2>2 DEF Denotes
<1>9. Mean(new, cmds)
  BY <1>8 DEF Mean
<1>10. Unresolved(new) = {}
  BY <1>2, <1>3 DEF Unresolved
<1>11. ASSUME NEW i \in DOMAIN ins, NEW j \in DOMAIN ins, SameObject(new[i], new[j])
       PROVE  SameObject(ins[i], ins[j])
  <2>1. ins[i] \in Inputs /\ ins[j] \in Inputs
    BY <1>1
  <2>2. ins[i].val = ins[j].val
    BY <1>2, <1>11 DEF SameObject
  <2>3. new[i].kind # "pure" /\ new[j].kind # "pure"
    BY <1>11 DEF SameObject, IsObject
  <2>4. ins[i].kind # "pure" /\ ins[j].kind # "pure"
    BY <1>2, <2>3
  <2> QED BY <2>1, <2>2, <2>4 DEF SameObject, IsObject, Inputs
<1> QED BY <1>3, <1>4, <1>7, <1>9, <1>10, <1>11 DEF new

LEMMA DrawIsSplitOff ==
  ASSUME job \in [Tasks -> Jobs], NEW ins, NEW cmds, Fits(ins, cmds), Mean(ins, cmds)
  PROVE  Draw(ins, cmds) = SplitOff(cmds) /\ SplitOff(cmds) \in Nat
<1> DEFINE T == Splits(cmds)
           f == [k \in T |-> ins[cmds[k].at[1]].val]
           g == [k \in T |-> job[cmds[k].by].args[1].val]
<1>1. /\ cmds \in Seq([by : Tasks, at : Seq(Nat)]) /\ Len(cmds) \in Nat
      /\ DOMAIN cmds = 1..Len(cmds)
  BY DEF Fits
<1>2. ASSUME NEW k \in T
      PROVE  f[k] = g[k] /\ g[k] \in Nat
  <2>0. k \in DOMAIN cmds /\ job[cmds[k].by].op = "split"
    BY DEF Splits
  <2>1. /\ k \in DOMAIN cmds /\ job[cmds[k].by].op = "split"
        /\ cmds[k].by \in Tasks /\ cmds[k].at \in Seq(Nat)
    <3>1. cmds[k] \in [by : Tasks, at : Seq(Nat)]
      BY <1>1, <2>0, ElementOf
    <3> QED BY <2>0, <3>1
  <2>2. job[cmds[k].by] \in Jobs
    BY <2>1
  <2>3. /\ job[cmds[k].by].args \in Seq(Arguments)
        /\ Len(job[cmds[k].by].args) = 1 /\ job[cmds[k].by].args[1].form = "pure"
    BY <2>1, <2>2, JobArgs
  <2>4. job[cmds[k].by].args[1].val \in Nat
    <3>1. job[cmds[k].by].args[1] \in Arguments
      BY <2>3
    <3> QED BY <2>3, <3>1, ArgumentShape
  <2>5. 1 \in DOMAIN cmds[k].at
    <3>1. Len(cmds[k].at) = Len(job[cmds[k].by].args)
      BY <2>1 DEF Fits
    <3> QED BY <2>1, <2>3, <3>1
  <2>6. Denotes(ins[cmds[k].at[1]], job[cmds[k].by].args[1])
    BY <2>1, <2>5 DEF Mean
  <2> QED BY <2>4, <2>6 DEF Denotes
<1>3. f = g
  BY <1>2
<1>4. IsFiniteSet(T)
  <2>1. IsFiniteSet(1..Len(cmds))
    BY <1>1, FS_Interval
  <2>2. T \subseteq 1..Len(cmds)
    BY <1>1 DEF Splits
  <2> QED BY <2>1, <2>2, FS_Subset
<1>5. DOMAIN g = T
  OBVIOUS
<1>6. Draw(ins, cmds) = SumFunctionOnSet(f, DOMAIN f)
  BY DEF Draw, SumFunction
<1>7. SplitOff(cmds) = SumFunctionOnSet(g, DOMAIN g)
  BY DEF SplitOff, SumFunction
<1> HIDE DEF f, g, T
<1>8. SumFunctionOnSet(g, T) \in Nat
  BY <1>2, <1>4, SumTyped
<1> QED BY <1>3, <1>5, <1>6, <1>7, <1>8

LEMMA EmptyFits ==
  /\ Fits(<<>>, <<>>) /\ Mean(<<>>, <<>>) /\ NotBuilt.payment = {} /\ InUse(<<>>) = {}
  /\ Fits(NotBuilt.inputs, NotBuilt.commands) /\ Mean(NotBuilt.inputs, NotBuilt.commands)
  /\ Fits(NoDraft.inputs, NoDraft.commands) /\ Mean(NoDraft.inputs, NoDraft.commands)
  /\ NoDraft.draw = 0 /\ NotBuilt.inputs = <<>> /\ NotBuilt.commands = <<>>
<1>1. Fits(<<>>, <<>>) /\ Mean(<<>>, <<>>) /\ InUse(<<>>) = {}
  BY DEF Fits, Mean, InUse
<1>2. /\ NotBuilt.inputs = <<>> /\ NotBuilt.commands = <<>> /\ NotBuilt.payment = {}
      /\ NoDraft.inputs = <<>> /\ NoDraft.commands = <<>> /\ NoDraft.draw = 0
  BY DEF NotBuilt, NoDraft
<1> QED BY <1>1, <1>2

------------------------------------------------------------------------------
(***************************************************************************)
(* The invariant, arranged by what a step touches: the queue, the builder, *)
(* what is built, and each task.                                           *)
(***************************************************************************)
Shape ==
  /\ QueueOK
  /\ job \in [Tasks -> Jobs] /\ step \in [Tasks -> Steps] /\ DOMAIN draft = Tasks
  /\ compress \in BOOLEAN /\ price \in BOOLEAN

Builder == Fits(inputs, commands) /\ Mean(inputs, commands) /\ OneInputEach

Outcome ==
  /\ Fits(built.inputs, built.commands) /\ Mean(built.inputs, built.commands)
  /\ built.payment \subseteq DOMAIN Balance
  /\ BuiltIsCurrent /\ PaymentCovers /\ PaidBySelection

Draft(t) ==
  /\ Fits(draft[t].inputs, draft[t].commands) /\ Mean(draft[t].inputs, draft[t].commands)
  /\ draft[t].draw \in Nat

Undisturbed(t) ==
  /\ step[t] \in {"fetching", "resolving"} => built = NotBuilt
  /\ step[t] \in {"balance", "price", "gas", "account"} =>
       Unresolved(inputs) = {} /\ draft[t].draw = SplitOff(commands)
  /\ step[t] \in {"gas", "account"} =>
       draft[t].inputs = inputs /\ draft[t].commands = commands

Short(t) ==
  step[t] = "short" =>
    \E budget \in Budgets :
      Enough(Candidates(t, draft[t].inputs), budget + draft[t].draw) = {}

Where(t) ==
  /\ Suspended(t) => t \in inside
  /\ step[t] = "fetching" => job[t].op = "call"
  /\ step[t] # "fetching" /\ (Suspended(t) \/ step[t] = "short") => job[t].op = "build"

Local(t) == Where(t) /\ Draft(t) /\ (limit = 1 => Undisturbed(t)) /\ Short(t)

LEMMA Arranged ==
  BuildingInv <=> Shape /\ Builder /\ Outcome /\ \A t \in Tasks : Local(t)
<1>1. ASSUME BuildingInv PROVE Shape /\ Builder /\ Outcome
  BY <1>1 DEF BuildingInv, TypeOK, ArgsMean, Shape, Builder, Outcome
<1>2. ASSUME BuildingInv, NEW t \in Tasks PROVE Local(t)
  <2>1. Where(t)
    BY <1>2 DEF BuildingInv, TypeOK, Where
  <2>2. Draft(t)
    BY <1>2 DEF BuildingInv, TypeOK, Draft
  <2>3. limit = 1 => Undisturbed(t)
    BY <1>2 DEF BuildingInv, NobodyInterferes, Undisturbed
  <2>4. Short(t)
    BY <1>2 DEF BuildingInv, ShortOfGas, Short
  <2> QED BY <2>1, <2>2, <2>3, <2>4 DEF Local
<1>3. ASSUME Shape, Builder, Outcome, \A t \in Tasks : Local(t) PROVE BuildingInv
  <2>1. TypeOK
    <3>1. \A t \in Tasks : /\ Where(t)
                           /\ Fits(draft[t].inputs, draft[t].commands) /\ draft[t].draw \in Nat
      BY <1>3 DEF Local, Draft
    <3> QED BY <1>3, <3>1 DEF Shape, Builder, Outcome, Where, TypeOK
  <2>2. NobodyInterferes
    BY <1>3 DEF Local, Undisturbed, NobodyInterferes
  <2>3. ShortOfGas
    BY <1>3 DEF Local, Short, ShortOfGas
  <2>4. ArgsMean /\ \A t \in Tasks : Mean(draft[t].inputs, draft[t].commands)
    BY <1>3 DEF Local, Draft, ArgsMean, Builder, Outcome
  <2> QED BY <1>3, <2>1, <2>2, <2>3, <2>4 DEF BuildingInv, Builder, Outcome
<1> QED BY <1>1, <1>2, <1>3

\* What a build holds fits and means what it did as long as it and the jobs
\* stand.
LEMMA DraftStays ==
  ASSUME NEW u, Draft(u), job' = job, draft'[u] = draft[u]
  PROVE  Draft(u)'
<1>1. Fits(draft[u].inputs, draft[u].commands)'
  <2>1. Fits(draft[u].inputs, draft[u].commands)
    BY DEF Draft
  <2> QED BY <2>1 DEF Fits
<1>2. Mean(draft[u].inputs, draft[u].commands)'
  <2>1. Mean(draft[u].inputs, draft[u].commands)
    BY DEF Draft
  <2> QED BY <2>1 DEF Mean
<1>3. (draft[u].draw \in Nat)'
  BY DEF Draft
<1> QED BY <1>1, <1>2, <1>3 DEF Draft

\* A step of one task leaves the others what they have.
LEMMA OthersKeep ==
  ASSUME Shape, NEW t \in inside, NEW u \in Tasks, Local(u), u # t,
         job' = job, limit' = limit, step'[u] = step[u], draft'[u] = draft[u],
         u \in inside => u \in inside'
  PROVE  Local(u)'
<1>1. Where(u)'
  BY DEF Local, Where, Suspended
<1>2. Draft(u)'
  BY DraftStays DEF Local
<1>3. limit' = 1 => Undisturbed(u)'
  <2> SUFFICES ASSUME limit = 1 PROVE Undisturbed(u)'
    OBVIOUS
  <2>1. u \notin inside
    BY Alone DEF Shape
  <2>2. ~Suspended(u)
    BY <2>1 DEF Local, Where
  <2> QED BY <2>2 DEF Suspended, Undisturbed
<1>4. Short(u)'
  BY DEF Local, Short, Candidates
<1> QED BY <1>1, <1>2, <1>3, <1>4 DEF Local

\* A task ends and leaves the queue.
LEMMA Ended ==
  ASSUME Shape, \A u \in Tasks : Local(u), NEW t \in inside,
         NEW how \in {"ok", "failed"}, End(t, how), job' = job
  PROVE  /\ QueueOK' /\ step' \in [Tasks -> Steps] /\ DOMAIN draft' = Tasks /\ limit' = limit
         /\ \A u \in Tasks : Local(u)'
<1>1. QueueOK' /\ limit' = limit /\ inside' = inside \ {t} /\ t \in Tasks
  BY LeaveKeeps DEF Shape, End, QueueOK
<1>2. /\ step' = [step EXCEPT ![t] = how] /\ draft' = [draft EXCEPT ![t] = NoDraft]
      /\ step \in [Tasks -> Steps] /\ DOMAIN draft = Tasks
  BY DEF End, Shape
<1>3. ASSUME NEW u \in Tasks PROVE Local(u)'
  <2>1. CASE u # t
    BY <1>1, <1>2, <2>1, OthersKeep
  <2>2. CASE u = t
    <3>1. step'[u] = how /\ draft'[u] = NoDraft
      BY <1>1, <1>2, <2>2
    <3>2. Where(u)' /\ Short(u)' /\ Undisturbed(u)'
      BY <3>1 DEF Where, Short, Undisturbed, Suspended, Steps
    <3>3. Draft(u)'
      <4>1. draft'[u].inputs = <<>> /\ draft'[u].commands = <<>> /\ draft'[u].draw = 0
        BY <3>1 DEF NoDraft
      <4> QED BY <4>1 DEF Draft, Fits, Mean
    <3> QED BY <3>2, <3>3 DEF Local
  <2> QED BY <2>1, <2>2
<1>4. step' \in [Tasks -> Steps]
  BY <1>2 DEF Steps
<1> QED BY <1>1, <1>2, <1>3, <1>4

\* A build is suspended with a draft that fits the commands.
LEMMA Suspends ==
  ASSUME Shape, \A u \in Tasks : Local(u), NEW t \in inside, job[t].op = "build",
         NEW where \in {"resolving", "balance", "price", "gas", "account"}, NEW d,
         Suspend(t, where, d), job' = job,
         Fits(d.inputs, d.commands), Mean(d.inputs, d.commands), d.draw \in Nat,
         limit = 1 /\ where = "resolving" => built' = NotBuilt,
         limit = 1 /\ where # "resolving" =>
           commands' = commands /\ Unresolved(inputs') = {} /\ d.draw = SplitOff(commands),
         limit = 1 /\ where \in {"gas", "account"} =>
           d.inputs = inputs' /\ d.commands = commands
  PROVE  /\ QueueOK' /\ step' \in [Tasks -> Steps] /\ DOMAIN draft' = Tasks /\ limit' = limit
         /\ \A u \in Tasks : Local(u)'
<1>1. queueVars' = queueVars /\ t \in Tasks
  BY DEF Suspend, Shape, QueueOK
<1>2. QueueOK' /\ limit' = limit /\ inside' = inside
  BY <1>1 DEF Shape, QueueOK, queueVars
<1>3. /\ step' = [step EXCEPT ![t] = where] /\ draft' = [draft EXCEPT ![t] = d]
      /\ step \in [Tasks -> Steps] /\ DOMAIN draft = Tasks
  BY DEF Suspend, Shape
<1>4. ASSUME NEW u \in Tasks PROVE Local(u)'
  <2>1. CASE u # t
    BY <1>2, <1>3, <2>1, OthersKeep
  <2>2. CASE u = t
    <3>1. step'[u] = where /\ draft'[u] = d
      BY <1>1, <1>3, <2>2
    <3>2. Where(u)' /\ Short(u)'
      BY <1>2, <2>2, <3>1 DEF Where, Short, Suspended
    <3>3. Draft(u)'
      BY <3>1 DEF Draft, Fits, Mean
    <3>4. limit' = 1 => Undisturbed(u)'
      <4> SUFFICES ASSUME limit = 1 PROVE Undisturbed(u)'
        BY <1>2
      <4>1. step'[u] # "fetching"
        BY <3>1
      <4>2. where = "resolving" => built' = NotBuilt
        OBVIOUS
      <4>3. where \in {"balance", "price", "gas", "account"} =>
              Unresolved(inputs)' = {} /\ d.draw = SplitOff(commands)'
        <5> SUFFICES ASSUME where \in {"balance", "price", "gas", "account"}
                     PROVE  Unresolved(inputs)' = {} /\ d.draw = SplitOff(commands)'
          OBVIOUS
        <5>1. /\ commands' = commands /\ Unresolved(inputs') = {}
              /\ d.draw = SplitOff(commands)
          OBVIOUS
        <5>2. SplitOff(commands)' = SplitOff(commands)
          BY <5>1 DEF SplitOff, Splits
        <5> QED BY <5>1, <5>2
      <4>4. where \in {"gas", "account"} => d.inputs = inputs' /\ d.commands = commands'
        OBVIOUS
      <4> QED BY <3>1, <4>1, <4>2, <4>3, <4>4 DEF Undisturbed
    <3> QED BY <3>2, <3>3, <3>4 DEF Local
  <2> QED BY <2>1, <2>2
<1>5. step' \in [Tasks -> Steps]
  BY <1>3 DEF Steps
<1> QED BY <1>2, <1>3, <1>4, <1>5

\* What is built stays, with the builder in a SerialQueue.
LEMMA OutcomeStays ==
  ASSUME Outcome, built' = built, job' = job, limit' = limit,
         limit = 1 /\ built # NotBuilt => inputs' = inputs /\ commands' = commands
  PROVE  Outcome'
<1>1. Fits(built.inputs, built.commands)' /\ Mean(built.inputs, built.commands)'
  BY DEF Outcome, Fits, Mean
<1>2. BuiltIsCurrent'
  BY DEF Outcome, BuiltIsCurrent
<1>3. PaymentCovers'
  BY DEF Outcome, PaymentCovers, SplitOff, Splits
<1>4. PaidBySelection'
  BY DEF Outcome, PaidBySelection, Candidates
<1> QED BY <1>1, <1>2, <1>3, <1>4 DEF Outcome

LEMMA OutcomeCleared ==
  ASSUME built' = NotBuilt
  PROVE  Outcome'
<1>1. built'.inputs = <<>> /\ built'.commands = <<>> /\ built'.payment = {}
  BY DEF NotBuilt
<1>2. Fits(built.inputs, built.commands)' /\ Mean(built.inputs, built.commands)'
  BY <1>1 DEF Fits, Mean
<1>3. BuiltIsCurrent' /\ PaymentCovers' /\ PaidBySelection'
  BY <1>1 DEF BuiltIsCurrent, PaymentCovers, PaidBySelection
<1> QED BY <1>1, <1>2, <1>3 DEF Outcome

LEMMA BuilderStays ==
  ASSUME Builder, inputs' = inputs, commands' = commands, job' = job, compress' = compress
  PROVE  Builder'
<1>1. Fits(inputs, commands)' /\ Mean(inputs, commands)'
  BY DEF Builder, Fits, Mean
<1>2. OneInputEach'
  BY DEF Builder, OneInputEach, GivenAsReference
<1> QED BY <1>1, <1>2 DEF Builder

LEMMA BuilderGrows ==
  ASSUME Shape, Builder, NEW t \in Tasks, job[t].op \in {"call", "split"}, AddCommand(t),
         job' = job, compress' = compress
  PROVE  Builder'
<1> DEFINE added == AddArgs(job[t].args)
           cmds == Append(commands, [by |-> t, at |-> added.at])
<1>1. /\ Fits(added.ins, cmds) /\ Mean(added.ins, cmds)
      /\ compress => \A i, j \in DOMAIN added.ins :
           i < j /\ SameObject(added.ins[i], added.ins[j]) => GivenAsReference(cmds, j)
  BY CommandJoins DEF Shape, Builder
<1>2. inputs' = added.ins /\ commands' = cmds
  BY DEF AddCommand
<1> HIDE DEF added, cmds
<1>3. Fits(inputs, commands)' /\ Mean(inputs, commands)'
  BY <1>1, <1>2 DEF Fits, Mean
<1>4. OneInputEach'
  BY <1>1, <1>2 DEF OneInputEach, GivenAsReference
<1> QED BY <1>3, <1>4 DEF Builder

LEMMA BuilderResolved ==
  ASSUME Builder, inputs' = Resolved(inputs), commands' = commands, job' = job,
         compress' = compress
  PROVE  Builder'
<1>1. /\ Fits(Resolved(inputs), commands) /\ Mean(Resolved(inputs), commands)
      /\ DOMAIN Resolved(inputs) = DOMAIN inputs
      /\ \A i, j \in DOMAIN inputs :
           SameObject(Resolved(inputs)[i], Resolved(inputs)[j]) => SameObject(inputs[i], inputs[j])
  BY ResolvedKeeps DEF Builder
<1>2. Fits(inputs, commands)' /\ Mean(inputs, commands)'
  BY <1>1 DEF Fits, Mean
<1>3. ASSUME compress, NEW i \in DOMAIN inputs, NEW j \in DOMAIN inputs, i < j,
             SameObject(Resolved(inputs)[i], Resolved(inputs)[j])
      PROVE  GivenAsReference(commands, j)
  BY <1>1, <1>3 DEF Builder, OneInputEach
<1>4. OneInputEach'
  BY <1>1, <1>3 DEF OneInputEach, GivenAsReference
<1> QED BY <1>2, <1>4 DEF Builder

------------------------------------------------------------------------------
(***************************************************************************)
(* The steps.                                                              *)
(***************************************************************************)
Parts == Shape /\ Builder /\ Outcome /\ \A u \in Tasks : Local(u)

LEMMA QueueingKeeps == ASSUME Parts, Queueing PROVE Parts'
<1>1. QueueOK' /\ limit' = limit /\ inside \subseteq inside'
  <2>1. QueueOK
    BY DEF Parts, Shape
  <2>2. CASE Grant
    BY <2>1, <2>2, GrantKeeps
  <2>3. ASSUME NEW t \in Tasks, Arrive(t) \/ Abandon(t)
        PROVE  QueueOK' /\ limit' = limit /\ inside \subseteq inside'
    BY <2>1, <2>3, ArriveKeeps, AbandonKeeps
  <2> QED BY <2>2, <2>3 DEF Queueing
<1>2. /\ job' = job /\ step' = step /\ draft' = draft /\ compress' = compress /\ inputs' = inputs
      /\ commands' = commands /\ price' = price /\ built' = built
  BY DEF Queueing, txnVars
<1>3. Builder'
  BY <1>2, BuilderStays DEF Parts
<1>4. Outcome'
  BY <1>1, <1>2, OutcomeStays DEF Parts
<1>5. ASSUME NEW u \in Tasks PROVE Local(u)'
  <2>1. Local(u)
    BY DEF Parts
  <2>2. Where(u)'
    BY <1>1, <1>2, <2>1 DEF Local, Where, Suspended
  <2>3. Draft(u)'
    BY <1>2, <2>1, DraftStays DEF Local
  <2>4. SplitOff(commands)' = SplitOff(commands)
    BY <1>2 DEF SplitOff, Splits
  <2>5. limit' = 1 => Undisturbed(u)'
    BY <1>1, <1>2, <2>1, <2>4 DEF Local, Undisturbed
  <2>6. Short(u)'
    BY <1>2, <2>1 DEF Local, Short, Candidates
  <2> QED BY <2>2, <2>3, <2>5, <2>6 DEF Local
<1> QED BY <1>1, <1>2, <1>3, <1>4, <1>5 DEF Parts, Shape

LEMMA CommandKeeps ==
  ASSUME Parts, NEW t \in inside, Split(t) \/ CallKnown(t) \/ CallAnswered(t)
  PROVE  Parts'
<1>1. t \in Tasks /\ Shape /\ Builder /\ Outcome /\ \A u \in Tasks : Local(u)
  BY DEF Parts, Shape, QueueOK
<1>2. /\ AddCommand(t) /\ End(t, "ok") /\ job' = job /\ compress' = compress
      /\ price' = price
  BY DEF Split, CallKnown, CallAnswered
<1>3. job[t].op \in {"call", "split"}
  BY <1>1 DEF Split, CallKnown, CallAnswered, Begins, Local, Where
<1>4. Builder'
  BY <1>1, <1>2, <1>3, BuilderGrows
<1>5. /\ QueueOK' /\ step' \in [Tasks -> Steps] /\ DOMAIN draft' = Tasks /\ limit' = limit
      /\ \A u \in Tasks : Local(u)'
  BY <1>1, <1>2, Ended
<1>6. Outcome'
  <2>1. CASE Split(t) \/ CallKnown(t)
    BY <2>1, OutcomeCleared DEF Split, CallKnown
  <2>2. CASE CallAnswered(t)
    <3>1. built' = built
      BY <2>2 DEF CallAnswered
    <3>2. limit = 1 => built = NotBuilt
      BY <1>1, <2>2 DEF CallAnswered, Local, Undisturbed
    <3> QED BY <1>1, <1>2, <1>5, <3>1, <3>2, OutcomeStays
  <2> QED BY <2>1, <2>2
<1> QED BY <1>1, <1>2, <1>4, <1>5, <1>6 DEF Parts, Shape

LEMMA AskingKeeps ==
  ASSUME Parts, NEW t \in inside, CallAsks(t)
  PROVE  Parts'
<1>1. t \in Tasks /\ Shape /\ Builder /\ Outcome /\ \A u \in Tasks : Local(u)
  BY DEF Parts, Shape, QueueOK
<1>2. /\ step' = [step EXCEPT ![t] = "fetching"] /\ queueVars' = queueVars /\ built' = NotBuilt
      /\ job' = job /\ draft' = draft /\ compress' = compress /\ inputs' = inputs
      /\ commands' = commands /\ price' = price /\ job[t].op = "call"
  BY DEF CallAsks, Begins
<1>3. QueueOK' /\ limit' = limit /\ inside' = inside
  BY <1>1, <1>2 DEF Shape, QueueOK, queueVars
<1>4. step' \in [Tasks -> Steps] /\ DOMAIN draft' = Tasks
  BY <1>1, <1>2 DEF Shape, Steps
<1>5. ASSUME NEW u \in Tasks PROVE Local(u)'
  <2>1. CASE u # t
    <3>1. step'[u] = step[u] /\ draft'[u] = draft[u]
      BY <1>1, <1>2, <2>1 DEF Shape
    <3> QED BY <1>1, <1>2, <1>3, <2>1, <3>1, OthersKeep
  <2>2. CASE u = t
    <3>1. step'[u] = "fetching"
      BY <1>1, <1>2, <2>2 DEF Shape
    <3>2. Where(u)' /\ Short(u)' /\ Undisturbed(u)'
      BY <1>2, <1>3, <2>2, <3>1 DEF Where, Short, Undisturbed, Suspended
    <3>3. Draft(u)'
      <4>1. draft'[u] = draft[u]
        BY <1>2
      <4> QED BY <1>1, <1>2, <4>1, DraftStays DEF Local
    <3> QED BY <3>2, <3>3 DEF Local
  <2> QED BY <2>1, <2>2
<1>6. Builder' /\ Outcome'
  BY <1>1, <1>2, BuilderStays, OutcomeCleared
<1> QED BY <1>1, <1>2, <1>3, <1>4, <1>5, <1>6 DEF Parts, Shape

\* A task fails: the transaction stays as it is.
LEMMA FailureKeeps ==
  ASSUME Parts, NEW t \in inside, End(t, "failed"),
         UNCHANGED <<job, compress, inputs, commands, price, built>>
  PROVE  Parts'
<1>1. t \in Tasks /\ Shape /\ Builder /\ Outcome /\ \A u \in Tasks : Local(u)
  BY DEF Parts, Shape, QueueOK
<1>2. /\ QueueOK' /\ step' \in [Tasks -> Steps] /\ DOMAIN draft' = Tasks /\ limit' = limit
      /\ \A u \in Tasks : Local(u)'
  BY <1>1, Ended
<1>3. Builder' /\ Outcome'
  BY <1>1, <1>2, BuilderStays, OutcomeStays
<1> QED BY <1>1, <1>2, <1>3 DEF Parts, Shape

\* The drafts of a suspended build.
LEMMA DraftShapes ==
  ASSUME NEW ins, NEW draw \in Nat, Fits(ins, commands), Mean(ins, commands)
  PROVE  /\ LET d == [NoDraft EXCEPT !.draw = draw]
            IN  d.draw = draw /\ Fits(d.inputs, d.commands) /\ Mean(d.inputs, d.commands)
         /\ LET d == Snapshot(ins, draw)
            IN  /\ d.draw = draw /\ d.inputs = ins /\ d.commands = commands
                /\ Fits(d.inputs, d.commands) /\ Mean(d.inputs, d.commands)
<1> DEFINE d == [NoDraft EXCEPT !.draw = draw]
           e == Snapshot(ins, draw)
<1>1. d.draw = draw /\ d.inputs = <<>> /\ d.commands = <<>>
  BY DEF NoDraft
<1>2. e.draw = draw /\ e.inputs = ins /\ e.commands = commands
  BY DEF Snapshot
<1>3. Fits(<<>>, <<>>) /\ Mean(<<>>, <<>>)
  BY EmptyFits
<1> HIDE DEF d, e
<1>4. Fits(d.inputs, d.commands) /\ Mean(d.inputs, d.commands)
  BY <1>1, <1>3
<1>5. Fits(e.inputs, e.commands) /\ Mean(e.inputs, e.commands)
  BY <1>2
<1> QED BY <1>1, <1>2, <1>4, <1>5 DEF d, e

Moved ==
  /\ QueueOK /\ step \in [Tasks -> Steps] /\ DOMAIN draft = Tasks
  /\ \A u \in Tasks : Local(u)

LEMMA AccountPathKeeps ==
  ASSUME Shape, \A u \in Tasks : Local(u), NEW t \in inside, job[t].op = "build",
         NEW ins, Fits(ins, commands), Mean(ins, commands), NEW draw \in Nat,
         limit = 1 => Unresolved(ins) = {} /\ draw = SplitOff(commands),
         AccountPath(t, ins, draw), inputs' = ins, commands' = commands, job' = job
  PROVE  Moved' /\ limit' = limit
<1> DEFINE d == Snapshot(Resolved(ins), draw)
<1>1. /\ Fits(Resolved(ins), commands) /\ Mean(Resolved(ins), commands)
      /\ Unresolved(ins) = {} => Resolved(ins) = ins
  BY ResolvedKeeps
<1>2. /\ d.draw = draw /\ d.inputs = Resolved(ins) /\ d.commands = commands
      /\ Fits(d.inputs, d.commands) /\ Mean(d.inputs, d.commands)
  BY <1>1, DraftShapes
<1>3. Suspend(t, "account", d)
  BY DEF AccountPath
<1> HIDE DEF d
<1>4. d.draw \in Nat /\ (limit = 1 => Unresolved(inputs') = {} /\ d.inputs = inputs')
  BY <1>1, <1>2
<1>5. limit = 1 => d.draw = SplitOff(commands) /\ d.commands = commands
  BY <1>2
<1>6. /\ QueueOK' /\ step' \in [Tasks -> Steps] /\ DOMAIN draft' = Tasks /\ limit' = limit
      /\ \A u \in Tasks : Local(u)'
  BY <1>2, <1>3, <1>4, <1>5, Suspends
<1> QED BY <1>6 DEF Moved

LEMMA CoinPathKeeps ==
  ASSUME Shape, \A u \in Tasks : Local(u), NEW t \in inside, job[t].op = "build",
         NEW ins, Fits(ins, commands), Mean(ins, commands), NEW draw \in Nat,
         limit = 1 => Unresolved(ins) = {} /\ draw = SplitOff(commands),
         CoinPath(t, ins, draw), inputs' = ins, commands' = commands, job' = job
  PROVE  Moved' /\ limit' = limit
<1>1. CASE price
  <2> DEFINE d == Snapshot(ins, draw)
  <2>1. /\ d.draw = draw /\ d.inputs = ins /\ d.commands = commands
        /\ Fits(d.inputs, d.commands) /\ Mean(d.inputs, d.commands)
    BY DraftShapes
  <2>2. Suspend(t, "gas", d)
    BY <1>1 DEF CoinPath
  <2> HIDE DEF d
  <2>3. /\ QueueOK' /\ step' \in [Tasks -> Steps] /\ DOMAIN draft' = Tasks /\ limit' = limit
        /\ \A u \in Tasks : Local(u)'
    BY <2>1, <2>2, Suspends
  <2> QED BY <2>3 DEF Moved
<1>2. CASE ~price
  <2> DEFINE d == [NoDraft EXCEPT !.draw = draw]
  <2>1. d.draw = draw /\ Fits(d.inputs, d.commands) /\ Mean(d.inputs, d.commands)
    BY DraftShapes
  <2>2. Suspend(t, "price", d)
    BY <1>2 DEF CoinPath
  <2> HIDE DEF d
  <2>3. /\ QueueOK' /\ step' \in [Tasks -> Steps] /\ DOMAIN draft' = Tasks /\ limit' = limit
        /\ \A u \in Tasks : Local(u)'
    BY <2>1, <2>2, Suspends
  <2> QED BY <2>3 DEF Moved
<1> QED BY <1>1, <1>2

LEMMA InspectedKeeps ==
  ASSUME Shape, \A u \in Tasks : Local(u), NEW t \in inside, job[t].op = "build",
         NEW ins, Fits(ins, commands), Mean(ins, commands), Unresolved(ins) = {},
         Inspected(t, ins), inputs' = ins, commands' = commands, job' = job
  PROVE  Moved' /\ limit' = limit
<1> DEFINE draw == Draw(ins, commands)
<1>1. draw = SplitOff(commands) /\ draw \in Nat
  BY DrawIsSplitOff DEF Shape
<1>2. job[t] \in Jobs /\ job[t].gas \in {"auto", "account", "coins"}
  <2>1. t \in Tasks
    BY DEF Shape, QueueOK
  <2> QED BY <2>1, BuildingAssumption DEF Shape
<1>3. CASE job[t].gas = "auto"
  <2> DEFINE d == [NoDraft EXCEPT !.draw = draw]
  <2>1. d.draw = draw /\ Fits(d.inputs, d.commands) /\ Mean(d.inputs, d.commands)
    BY <1>1, DraftShapes
  <2>2. Suspend(t, "balance", d)
    BY <1>3 DEF Inspected
  <2> HIDE DEF d, draw
  <2>3. /\ QueueOK' /\ step' \in [Tasks -> Steps] /\ DOMAIN draft' = Tasks /\ limit' = limit
        /\ \A u \in Tasks : Local(u)'
    BY <1>1, <2>1, <2>2, Suspends
  <2> QED BY <2>3 DEF Moved
<1>4. CASE job[t].gas = "account"
  <2>1. AccountPath(t, ins, draw)
    BY <1>4 DEF Inspected
  <2> HIDE DEF draw
  <2> QED BY <1>1, <2>1, AccountPathKeeps
<1>5. CASE job[t].gas = "coins"
  <2>1. CoinPath(t, ins, draw)
    BY <1>5 DEF Inspected
  <2> HIDE DEF draw
  <2> QED BY <1>1, <2>1, CoinPathKeeps
<1> QED BY <1>2, <1>3, <1>4, <1>5

LEMMA StartKeeps ==
  ASSUME Parts, NEW t \in inside, BuildStart(t)
  PROVE  Parts'
<1>1. t \in Tasks /\ Shape /\ Builder /\ Outcome /\ \A u \in Tasks : Local(u)
  BY DEF Parts, Shape, QueueOK
<1>2. /\ job' = job /\ compress' = compress /\ inputs' = inputs /\ commands' = commands
      /\ price' = price /\ built' = built /\ job[t].op = "build"
  BY DEF BuildStart, Begins
<1>3. Moved' /\ limit' = limit
  <2>1. CASE Unresolved(inputs) = {}
    <3>1. Inspected(t, inputs)
      BY <2>1 DEF BuildStart
    <3> QED BY <1>1, <1>2, <2>1, <3>1, InspectedKeeps DEF Builder
  <2>2. CASE Unresolved(inputs) # {}
    <3> DEFINE d == [NoDraft EXCEPT !.asked = Unresolved(inputs)]
    <3>1. d.inputs = <<>> /\ d.commands = <<>> /\ d.draw = 0
      BY DEF NoDraft
    <3>2. Suspend(t, "resolving", d)
      BY <2>2 DEF BuildStart
    <3> HIDE DEF d
    <3>3. Fits(d.inputs, d.commands) /\ Mean(d.inputs, d.commands) /\ d.draw \in Nat
      BY <3>1, EmptyFits
    <3>4. limit = 1 => built' = NotBuilt
      BY <1>1, <1>2, <2>2 DEF Outcome, BuiltIsCurrent
    <3>5. /\ QueueOK' /\ step' \in [Tasks -> Steps] /\ DOMAIN draft' = Tasks /\ limit' = limit
          /\ \A u \in Tasks : Local(u)'
      BY <1>1, <1>2, <3>2, <3>3, <3>4, Suspends
    <3> QED BY <3>5 DEF Moved
  <2> QED BY <2>1, <2>2
<1>4. Builder' /\ Outcome'
  BY <1>1, <1>2, <1>3, BuilderStays, OutcomeStays
<1> QED BY <1>1, <1>2, <1>3, <1>4 DEF Parts, Shape, Moved

LEMMA ResolutionKeeps ==
  ASSUME Parts, NEW t \in inside, BuildResolved(t)
  PROVE  Parts'
<1>1. t \in Tasks /\ Shape /\ Builder /\ Outcome /\ \A u \in Tasks : Local(u)
  BY DEF Parts, Shape, QueueOK
<1>2. /\ job' = job /\ compress' = compress /\ commands' = commands /\ price' = price
      /\ built' = built /\ step[t] = "resolving"
  BY DEF BuildResolved
<1>3. job[t].op = "build" /\ (limit = 1 => built = NotBuilt)
  BY <1>1, <1>2 DEF Local, Where, Suspended, Undisturbed
<1>4. CASE Unresolved(inputs) \subseteq draft[t].asked
  <2>1. inputs' = Resolved(inputs) /\ Inspected(t, Resolved(inputs))
    BY <1>4 DEF BuildResolved
  <2>2. /\ Fits(Resolved(inputs), commands) /\ Mean(Resolved(inputs), commands)
        /\ Unresolved(Resolved(inputs)) = {}
    BY <1>1, ResolvedKeeps DEF Builder
  <2>3. Moved' /\ limit' = limit
    BY <1>1, <1>2, <1>3, <2>1, <2>2, InspectedKeeps
  <2>4. Builder'
    BY <1>1, <1>2, <2>1, BuilderResolved
  <2>5. Outcome'
    BY <1>1, <1>2, <1>3, <2>3, OutcomeStays
  <2> QED BY <1>1, <1>2, <2>3, <2>4, <2>5 DEF Parts, Shape, Moved
<1>5. CASE ~(Unresolved(inputs) \subseteq draft[t].asked)
  <2>1. End(t, "failed") /\ inputs' = inputs
    BY <1>5 DEF BuildResolved
  <2> QED BY <1>2, <2>1, FailureKeeps
<1> QED BY <1>4, <1>5

LEMMA AnswerKeeps ==
  ASSUME Parts, NEW t \in inside, BalanceKnown(t) \/ PriceKnown(t)
  PROVE  Parts'
<1>1. t \in Tasks /\ Shape /\ Builder /\ Outcome /\ \A u \in Tasks : Local(u)
  BY DEF Parts, Shape, QueueOK
<1>2. /\ job' = job /\ compress' = compress /\ inputs' = inputs /\ commands' = commands
      /\ built' = built /\ step[t] \in {"balance", "price"} /\ price' \in BOOLEAN
  BY <1>1 DEF BalanceKnown, PriceKnown, Shape
<1>3. /\ job[t].op = "build" /\ draft[t].draw \in Nat
      /\ limit = 1 => Unresolved(inputs) = {} /\ draft[t].draw = SplitOff(commands)
  <2>1. job[t].op = "build"
    BY <1>1, <1>2 DEF Local, Where, Suspended
  <2> QED BY <1>1, <1>2, <2>1 DEF Local, Draft, Undisturbed
<1>4. Moved' /\ limit' = limit
  <2>1. CASE BalanceKnown(t)
    <3>1. AccountPath(t, inputs, draft[t].draw) \/ CoinPath(t, inputs, draft[t].draw)
      BY <2>1 DEF BalanceKnown
    <3>2. CASE AccountPath(t, inputs, draft[t].draw)
      BY <1>1, <1>2, <1>3, <3>2, AccountPathKeeps DEF Builder
    <3>3. CASE CoinPath(t, inputs, draft[t].draw)
      BY <1>1, <1>2, <1>3, <3>3, CoinPathKeeps DEF Builder
    <3> QED BY <3>1, <3>2, <3>3
  <2>2. CASE PriceKnown(t)
    <3> DEFINE d == Snapshot(inputs, draft[t].draw)
    <3>1. Suspend(t, "gas", d)
      BY <2>2 DEF PriceKnown
    <3>2. /\ d.draw = draft[t].draw /\ d.inputs = inputs /\ d.commands = commands
          /\ Fits(d.inputs, d.commands) /\ Mean(d.inputs, d.commands)
      BY <1>1, <1>3, DraftShapes DEF Builder
    <3> HIDE DEF d
    <3>3. d.draw \in Nat /\ (limit = 1 => d.draw = SplitOff(commands) /\ Unresolved(inputs') = {})
      BY <1>2, <1>3, <3>2
    <3>4. /\ QueueOK' /\ step' \in [Tasks -> Steps] /\ DOMAIN draft' = Tasks /\ limit' = limit
          /\ \A u \in Tasks : Local(u)'
      BY <1>1, <1>2, <1>3, <3>1, <3>2, <3>3, Suspends
    <3> QED BY <3>4 DEF Moved
  <2> QED BY <2>1, <2>2
<1>5. Builder' /\ Outcome'
  BY <1>1, <1>2, <1>4, BuilderStays, OutcomeStays
<1> QED BY <1>1, <1>2, <1>4, <1>5 DEF Parts, Shape, Moved

\* What a build may pay with are coins of the payer.
LEMMA CandidatesAreCoins ==
  ASSUME job \in [Tasks -> Jobs], NEW t \in Tasks, job[t].op = "build", NEW ins
  PROVE  /\ Candidates(t, ins) \in SUBSET DOMAIN Balance
         /\ Candidates(t, ins) \intersect InUse(ins) = {}
<1>1. job[t].use \subseteq DOMAIN Balance
  <2>1. job[t] \in Jobs
    OBVIOUS
  <2> QED BY <2>1, BuildingAssumption
<1> QED BY <1>1 DEF Candidates

\* A transaction is built from a draft and a payment.
LEMMA BuiltKeeps ==
  ASSUME Parts, NEW t \in inside, step[t] \in {"gas", "account"},
         NEW budget \in Budgets, NEW need, need = budget + draft[t].draw,
         NEW payment, NEW reserved,
         reserved >= need, payment \subseteq Candidates(t, draft[t].inputs),
         payment # {} => /\ Enough(Candidates(t, draft[t].inputs), need) # {}
                         /\ payment = Select(Candidates(t, draft[t].inputs), need),
         Built(t, need, payment, reserved),
         UNCHANGED <<job, compress, inputs, commands, price>>
  PROVE  Parts'
<1>1. t \in Tasks /\ Shape /\ Builder /\ Outcome /\ \A u \in Tasks : Local(u)
  BY DEF Parts, Shape, QueueOK
<1>2. job' = job /\ compress' = compress /\ inputs' = inputs /\ commands' = commands /\ price' = price
  OBVIOUS
<1> DEFINE b == [inputs |-> draft[t].inputs, commands |-> draft[t].commands, need |-> need,
                 payment |-> payment, reserved |-> reserved, by |-> t]
<1>3. built' = b /\ End(t, "ok")
  BY DEF Built
<1>4. /\ b.inputs = draft[t].inputs /\ b.commands = draft[t].commands /\ b.need = need
      /\ b.payment = payment /\ b.reserved = reserved /\ b.by = t
  OBVIOUS
<1> HIDE DEF b
<1>5. /\ QueueOK' /\ step' \in [Tasks -> Steps] /\ DOMAIN draft' = Tasks /\ limit' = limit
      /\ \A u \in Tasks : Local(u)'
  BY <1>1, <1>2, <1>3, Ended
<1>6. /\ job[t].op = "build" /\ draft[t].draw \in Nat
      /\ Fits(draft[t].inputs, draft[t].commands) /\ Mean(draft[t].inputs, draft[t].commands)
  <2>1. job[t].op = "build"
    BY <1>1 DEF Local, Where, Suspended
  <2> QED BY <1>1, <2>1 DEF Local, Draft
<1>7. limit = 1 => /\ draft[t].inputs = inputs /\ draft[t].commands = commands
                   /\ Unresolved(inputs) = {} /\ draft[t].draw = SplitOff(commands)
  BY <1>1 DEF Local, Undisturbed
<1>8. need \in Nat
  BY <1>6, BuildingAssumption
<1>9. /\ Candidates(t, draft[t].inputs) \in SUBSET DOMAIN Balance
      /\ Candidates(t, draft[t].inputs) \intersect InUse(draft[t].inputs) = {}
  BY <1>1, <1>6, CandidatesAreCoins DEF Shape
<1>10. /\ Fits(built.inputs, built.commands)' /\ Mean(built.inputs, built.commands)'
       /\ built'.payment \subseteq DOMAIN Balance
  BY <1>2, <1>3, <1>4, <1>6, <1>9 DEF Fits, Mean
<1>11. BuiltIsCurrent'
  BY <1>2, <1>3, <1>4, <1>5, <1>7 DEF BuiltIsCurrent
<1>12. PaymentCovers'
  <2>1. built'.payment \intersect InUse(built.inputs)' = {}
    BY <1>3, <1>4, <1>9
  <2>2. built'.reserved >= built'.need
    BY <1>3, <1>4
  <2>3. limit' = 1 => built'.need = budget + SplitOff(built.commands)'
    <3>1. limit = 1 => need = budget + SplitOff(draft[t].commands)
      BY <1>7
    <3>2. SplitOff(built.commands)' = SplitOff(draft[t].commands)
      BY <1>2, <1>3, <1>4 DEF SplitOff, Splits
    <3> QED BY <1>3, <1>4, <1>5, <3>1, <3>2
  <2> QED BY <2>1, <2>2, <2>3 DEF PaymentCovers
<1>13. PaidBySelection'
  BY <1>1, <1>2, <1>3, <1>4, <1>6, <1>8 DEF PaidBySelection, Candidates
<1>14. Builder'
  BY <1>1, <1>2, BuilderStays
<1> QED BY <1>1, <1>2, <1>5, <1>10, <1>11, <1>12, <1>13, <1>14 DEF Parts, Shape, Outcome

\* A build that is short of gas keeps its draft, which says why.
LEMMA ShortageKeeps ==
  ASSUME Parts, NEW t \in inside, step[t] = "gas", NEW budget \in Budgets,
         Enough(Candidates(t, draft[t].inputs), budget + draft[t].draw) = {},
         End(t, "short"), UNCHANGED <<job, compress, inputs, commands, price, built>>
  PROVE  Parts'
<1>1. t \in Tasks /\ Shape /\ Builder /\ Outcome /\ \A u \in Tasks : Local(u)
  BY DEF Parts, Shape, QueueOK
<1>2. /\ step' = [step EXCEPT ![t] = "short"] /\ draft' = [draft EXCEPT ![t] = draft[t]]
      /\ step \in [Tasks -> Steps] /\ DOMAIN draft = Tasks /\ job' = job
  BY <1>1 DEF End, Shape
<1>3. QueueOK' /\ limit' = limit /\ inside' = inside \ {t}
  BY <1>1, LeaveKeeps DEF Shape, End
<1>4. ASSUME NEW u \in Tasks PROVE Local(u)'
  <2>1. CASE u # t
    BY <1>1, <1>2, <1>3, <2>1, OthersKeep
  <2>2. CASE u = t
    <3>1. step'[u] = "short" /\ draft'[u] = draft[u] /\ job[u].op = "build"
      <4>1. job[u].op = "build"
        BY <1>1, <2>2 DEF Local, Where, Suspended
      <4> QED BY <1>1, <1>2, <2>2, <4>1
    <3>2. Where(u)' /\ Undisturbed(u)'
      BY <1>2, <3>1 DEF Where, Undisturbed, Suspended
    <3>3. Draft(u)'
      BY <1>1, <1>2, <3>1, DraftStays DEF Local
    <3>4. Short(u)'
      BY <1>2, <2>2, <3>1 DEF Short, Candidates
    <3> QED BY <3>2, <3>3, <3>4 DEF Local
  <2> QED BY <2>1, <2>2
<1>5. step' \in [Tasks -> Steps] /\ DOMAIN draft' = Tasks
  BY <1>2 DEF Steps
<1>6. Builder' /\ Outcome'
  BY <1>1, <1>3, BuilderStays, OutcomeStays
<1> QED BY <1>1, <1>3, <1>4, <1>5, <1>6 DEF Parts, Shape

LEMMA GasKeeps ==
  ASSUME Parts, NEW t \in inside, GasFound(t)
  PROVE  Parts'
<1>1. t \in Tasks /\ Shape /\ \A u \in Tasks : Local(u)
  BY DEF Parts, Shape, QueueOK
<1>2. step[t] = "gas" /\ UNCHANGED <<job, compress, inputs, commands, price>>
  BY DEF GasFound
<1> DEFINE coins == Candidates(t, draft[t].inputs)
<1>3. coins \in SUBSET DOMAIN Balance /\ draft[t].draw \in Nat
  <2>1. job[t].op = "build"
    BY <1>1, <1>2 DEF Local, Where, Suspended
  <2> QED BY <1>1, <2>1, CandidatesAreCoins DEF Shape, Local, Draft
<1>4. PICK budget \in Budgets :
        IF Enough(coins, budget + draft[t].draw) = {}
        THEN End(t, "short") /\ UNCHANGED built
        ELSE Built(t, budget + draft[t].draw, Select(coins, budget + draft[t].draw),
                   Worth(Select(coins, budget + draft[t].draw)))
  BY DEF GasFound
<1> DEFINE need == budget + draft[t].draw
<1>5. need \in Nat
  BY <1>3, BuildingAssumption
<1>6. CASE Enough(coins, need) = {}
  <2>1. End(t, "short") /\ UNCHANGED built
    BY <1>4, <1>6
  <2> QED BY <1>2, <1>6, <2>1, ShortageKeeps
<1>7. CASE Enough(coins, need) # {}
  <2>1. Built(t, need, Select(coins, need), Worth(Select(coins, need)))
    BY <1>4, <1>7
  <2>2. Select(coins, need) \in SUBSET coins /\ Worth(Select(coins, need)) >= need
    BY <1>3, <1>5, <1>7, SelectPays
  <2> QED BY <1>2, <1>7, <2>1, <2>2, BuiltKeeps
<1> QED BY <1>6, <1>7

LEMMA AccountKeeps ==
  ASSUME Parts, NEW t \in inside, AccountPays(t)
  PROVE  Parts'
<1>1. t \in Tasks /\ \A u \in Tasks : Local(u)
  BY DEF Parts, Shape, QueueOK
<1>2. step[t] = "account" /\ UNCHANGED <<job, compress, inputs, commands, price>>
  BY DEF AccountPays
<1>3. PICK budget \in Budgets : Built(t, budget + draft[t].draw, {}, budget + draft[t].draw)
  BY DEF AccountPays
<1> DEFINE need == budget + draft[t].draw
<1>4. need \in Nat
  BY <1>1, BuildingAssumption DEF Local, Draft
<1>5. need >= need
  BY <1>4
<1>6. Built(t, need, {}, need)
  BY <1>3
<1>7. /\ {} \subseteq Candidates(t, draft[t].inputs)
      /\ {} # {} => /\ Enough(Candidates(t, draft[t].inputs), need) # {}
                    /\ {} = Select(Candidates(t, draft[t].inputs), need)
  OBVIOUS
<1>8. need = budget + draft[t].draw
  OBVIOUS
<1> HIDE DEF need
<1> QED BY <1>2, <1>5, <1>6, <1>7, <1>8, BuiltKeeps

\* Who takes a step is inside.
LEMMA RunningIsInside ==
  ASSUME Parts, NEW t \in Tasks, Running(t)
  PROVE  t \in inside
<1>1. Suspended(t) => t \in inside
  BY DEF Parts, Local, Where
<1>2. Suspended(t) \/ t \in inside
  BY DEF Running, Split, CallKnown, CallAsks, CallAnswered, BuildEmpty, BuildStart, BuildResolved,
         BalanceKnown, PriceKnown, GasFound, AccountPays, Fails, Begins, Suspended
<1> QED BY <1>1, <1>2

LEMMA InitHolds == Init => Parts
<1> SUFFICES ASSUME Init PROVE Parts
  OBVIOUS
<1>1. /\ job \in [Tasks -> Jobs] /\ step = [t \in Tasks |-> "start"]
      /\ draft = [t \in Tasks |-> NoDraft] /\ compress \in BOOLEAN
      /\ inputs = <<>> /\ commands = <<>> /\ price = FALSE /\ built = NotBuilt
  BY DEF Init
<1>2. Shape
  BY <1>1, QueueInitOK DEF Init, Shape, Steps
<1>3. Builder
  <2>1. OneInputEach
    BY <1>1 DEF OneInputEach
  <2> QED BY <1>1, <2>1, EmptyFits DEF Builder
<1>4. Outcome
  <2>1. built.payment = {} /\ Fits(built.inputs, built.commands) /\ Mean(built.inputs, built.commands)
    BY <1>1, EmptyFits
  <2> QED BY <1>1, <2>1 DEF Outcome, BuiltIsCurrent, PaymentCovers, PaidBySelection
<1>5. ASSUME NEW u \in Tasks PROVE Local(u)
  <2>1. step[u] = "start" /\ draft[u] = NoDraft
    BY <1>1
  <2>2. Where(u) /\ Undisturbed(u) /\ Short(u)
    BY <2>1 DEF Where, Undisturbed, Short, Suspended
  <2>3. Draft(u)
    BY <2>1, EmptyFits DEF Draft
  <2> QED BY <2>2, <2>3 DEF Local
<1> QED BY <1>2, <1>3, <1>4, <1>5 DEF Parts

LEMMA StutterKeeps == ASSUME Parts, UNCHANGED vars PROVE Parts'
<1>1. /\ queueVars' = queueVars /\ UNCHANGED txnVars
  BY DEF vars
<1>2. /\ limit' = limit /\ waiting' = waiting /\ inside' = inside /\ ended' = ended
      /\ job' = job /\ step' = step /\ draft' = draft /\ compress' = compress /\ inputs' = inputs
      /\ commands' = commands /\ price' = price /\ built' = built
  BY <1>1 DEF queueVars, txnVars
<1>3. Builder' /\ Outcome'
  BY <1>2, BuilderStays, OutcomeStays DEF Parts
<1>4. QueueOK'
  BY <1>2 DEF Parts, Shape, QueueOK
<1>5. ASSUME NEW u \in Tasks PROVE Local(u)'
  <2>1. Local(u)
    BY DEF Parts
  <2>2. Where(u)'
    BY <1>2, <2>1 DEF Local, Where, Suspended
  <2>3. Draft(u)'
    BY <1>2, <2>1, DraftStays DEF Local
  <2>4. SplitOff(commands)' = SplitOff(commands)
    BY <1>2 DEF SplitOff, Splits
  <2>5. limit' = 1 => Undisturbed(u)'
    BY <1>2, <2>1, <2>4 DEF Local, Undisturbed
  <2>6. Short(u)'
    BY <1>2, <2>1 DEF Local, Short, Candidates
  <2> QED BY <2>2, <2>3, <2>5, <2>6 DEF Local
<1> QED BY <1>2, <1>3, <1>4, <1>5 DEF Parts, Shape

LEMMA StepKeeps == ASSUME Parts, [Next]_vars PROVE Parts'
<1>1. CASE UNCHANGED vars
  BY <1>1, StutterKeeps
<1>2. CASE Queueing
  BY <1>2, QueueingKeeps
<1>3. ASSUME NEW t \in Tasks, Running(t) PROVE Parts'
  <2>1. t \in inside
    BY <1>3, RunningIsInside
  <2>2. CASE Split(t) \/ CallKnown(t) \/ CallAnswered(t)
    BY <2>1, <2>2, CommandKeeps
  <2>3. CASE CallAsks(t)
    BY <2>1, <2>3, AskingKeeps
  <2>4. CASE BuildEmpty(t) \/ Fails(t)
    BY <2>1, <2>4, FailureKeeps DEF BuildEmpty, Fails
  <2>5. CASE BuildStart(t)
    BY <2>1, <2>5, StartKeeps
  <2>6. CASE BuildResolved(t)
    BY <2>1, <2>6, ResolutionKeeps
  <2>7. CASE BalanceKnown(t) \/ PriceKnown(t)
    BY <2>1, <2>7, AnswerKeeps
  <2>8. CASE GasFound(t)
    BY <2>1, <2>8, GasKeeps
  <2>9. CASE AccountPays(t)
    BY <2>1, <2>9, AccountKeeps
  <2> QED BY <1>3, <2>2, <2>3, <2>4, <2>5, <2>6, <2>7, <2>8, <2>9 DEF Running
<1> QED BY <1>1, <1>2, <1>3 DEF Next

------------------------------------------------------------------------------
(***************************************************************************)
(* The invariant of the transaction and its builder, and what follows:     *)
(* whatever the tasks of a queue do, and however they interleave, what     *)
(* BuildingInv says of the builder, the builds and their payments holds.   *)
(***************************************************************************)
THEOREM BuildingInvariance == Spec => []BuildingInv
<1>1. Spec => []Parts
  BY InitHolds, StepKeeps, PTL DEF Spec
<1>2. Parts => BuildingInv
  BY Arranged DEF Parts
<1> QED BY <1>1, <1>2, PTL

\* Every argument stands for what the caller gave, in the builder and in what is built.
THEOREM ArgumentsMean == Spec => []ArgsMean
BY BuildingInvariance, PTL DEF BuildingInv

\* With compress_inputs an object has one input unless a reference was given for it.
THEOREM ObjectsHaveOneInput == Spec => []OneInputEach
BY BuildingInvariance, PTL DEF BuildingInv

\* Through a SerialQueue, what is built has every input and command of the builder.
THEOREM BuiltNeverStale == Spec => []BuiltIsCurrent
BY BuildingInvariance, PTL DEF BuildingInv

\* The payment is no input, and is worth the budget and what the commands split off.
THEOREM PaymentsCover == Spec => []PaymentCovers
BY BuildingInvariance, PTL DEF BuildingInv

\* The payment has as few coins as any that pays, and a shortage is one for every choice.
THEOREM PaymentsAreShortest == Spec => []FewestCoins
<1>1. ASSUME BuildingInv PROVE FewestCoins
  <2>1. Parts
    BY <1>1, Arranged DEF Parts
  <2>2. PaidBySelection /\ job \in [Tasks -> Jobs] /\ \A u \in Tasks : Local(u)
    BY <2>1 DEF Parts, Shape, Outcome
  <2>3. ASSUME built.payment # {},
               NEW S \in Payers(Candidates(built.by, built.inputs), built.need)
        PROVE  Cardinality(built.payment) <= Cardinality(S)
    <3> DEFINE coins == Candidates(built.by, built.inputs)
    <3>1. /\ built.by \in Tasks /\ job[built.by].op = "build" /\ built.need \in Nat
          /\ Enough(coins, built.need) # {} /\ built.payment = Select(coins, built.need)
      BY <2>2, <2>3 DEF PaidBySelection
    <3>2. coins \in SUBSET DOMAIN Balance
      BY <2>2, <3>1, CandidatesAreCoins
    <3>3. S \in Payers(coins, built.need)
      OBVIOUS
    <3> HIDE DEF coins
    <3>4. Cardinality(S) \in Enough(coins, built.need)
      BY <3>1, <3>2, <3>3, PayersNeedEnough
    <3> QED BY <3>1, <3>2, <3>4, SelectPays
  <2>4. ASSUME NEW t \in Tasks, step[t] = "short"
        PROVE  \E budget \in Budgets :
                 Payers(Candidates(t, draft[t].inputs), budget + draft[t].draw) = {}
    <3> DEFINE coins == Candidates(t, draft[t].inputs)
    <3>1. Local(t)
      BY <2>2
    <3>2. job[t].op = "build" /\ draft[t].draw \in Nat
      BY <2>4, <3>1 DEF Local, Where, Draft
    <3>3. coins \in SUBSET DOMAIN Balance
      BY <2>2, <3>2, CandidatesAreCoins
    <3>4. PICK budget \in Budgets : Enough(coins, budget + draft[t].draw) = {}
      BY <2>4, <3>1 DEF Local, Short
    <3>5. budget + draft[t].draw \in Nat
      BY <3>2, BuildingAssumption
    <3> HIDE DEF coins
    <3>6. Payers(coins, budget + draft[t].draw) = {}
      BY <3>3, <3>4, <3>5, PayersNeedEnough
    <3> QED BY <3>6 DEF coins
  <2> QED BY <2>3, <2>4 DEF FewestCoins
<1> QED BY <1>1, BuildingInvariance, PTL
=============================================================================
