------------------------ MODULE ZkLoginSessionProofs ------------------------
(***************************************************************************)
(* The configuration stays well formed whatever the operations, the ones   *)
(* that fail half way included, and a signer finds its own secret in it.   *)
(*                                                                         *)
(* Each operation leaves behind a list of good groups and an active group  *)
(* in it; so the proof is a lemma for each thing an operation does to a    *)
(* group, and two for putting the group back into the list.                *)
(***************************************************************************)
EXTENDS ZkLoginSession, TLAPS, WellFoundedInduction

Addresses == {AddressOf(k) : k \in Keys}

AliasEntry == [name : Aliases, key : Keys]
KeyEntry == [key : Keys, alias : Aliases]
ValidBlock == Seq(KeyEntry)

GroupSet ==
  [name : GroupNames, profile : Profiles \union {NoName},
   address : Addresses \union {NoAddress},
   aliases : Seq(AliasEntry), keys : Seq(Keys),
   addresses : Seq(Addresses), profiles : Seq(Profiles)]

HasActives(g) ==
  /\ g.address \in Values(g.addresses) \union {NoAddress}
  /\ g.profile \in Values(g.profiles) \union {NoName}

Good == {g \in GroupSet : AlignedGroup(g) /\ HasActives(g)}

ConfigOK(gs, act) == gs \in Seq(Good) /\ act \in Names(gs) \union {NoName}

ConfigInv ==
  /\ ConfigOK(groups, active)
  /\ ConfigOK(file.groups, file.active)
------------------------------------------------------------------------------
(***************************************************************************)
(* Lists: dropping an entry keeps the others.                              *)
(***************************************************************************)
LEMMA DropKeeps ==
  ASSUME NEW S, NEW s \in Seq(S), NEW i \in 1..Len(s)
  PROVE  /\ Drop(s, i) \in Seq(S)
         /\ Len(Drop(s, i)) = Len(s) - 1
         /\ \A j \in 1..(Len(s) - 1) : Drop(s, i)[j] = IF j < i THEN s[j] ELSE s[j + 1]
         /\ \A j \in 1..Len(s) : j # i => s[j] \in Values(Drop(s, i))
<1>1. Len(s) - 1 \in Nat
  OBVIOUS
<1>2. /\ Drop(s, i) \in Seq(S)
      /\ Len(Drop(s, i)) = Len(s) - 1
      /\ DOMAIN Drop(s, i) = 1..(Len(s) - 1)
  BY <1>1 DEF Drop
<1>3. \A j \in 1..(Len(s) - 1) : Drop(s, i)[j] = IF j < i THEN s[j] ELSE s[j + 1]
  BY DEF Drop
<1>4. ASSUME NEW j \in 1..Len(s), j # i
      PROVE  s[j] \in Values(Drop(s, i))
  <2>1. CASE j < i
    <3>1. j \in 1..(Len(s) - 1) /\ Drop(s, i)[j] = s[j]
      BY <2>1, <1>3
    <3> QED BY <3>1, <1>2 DEF Values
  <2>2. CASE j > i
    <3>1. j - 1 \in 1..(Len(s) - 1) /\ Drop(s, i)[j - 1] = s[j]
      BY <2>2, <1>3
    <3> QED BY <3>1, <1>2 DEF Values
  <2> QED BY <1>4, <2>1, <2>2
<1> QED BY <1>2, <1>3, <1>4

LEMMA FirstIsThere ==
  ASSUME NEW S, NEW s \in Seq(S), NEW default
  PROVE  /\ FirstOr(s, default) \in Values(s) \union {default}
         /\ FirstOr(s, default) \in S \union {default}
<1>1. CASE s = <<>>
  BY <1>1 DEF FirstOr
<1>2. CASE s # <<>>
  <2>1. 1 \in DOMAIN s /\ s[1] \in S
    BY <1>2
  <2> QED BY <2>1, <1>2 DEF FirstOr, Values
<1> QED BY <1>1, <1>2

LEMMA ValuesOf ==
  ASSUME NEW S, NEW s \in Seq(S)
  PROVE  Values(s) \subseteq S
BY DEF Values

LEMMA HasLeast ==
  ASSUME NEW T, T \subseteq Nat, T # {}
  PROVE  \E m \in T : \A j \in T : m <= j
<1> DEFINE Less == OpToRel(<, Nat)
<1>1. \A x, y \in Nat : x < y => <<x, y>> \in Less
  BY DEF OpToRel
<1>2. IsWellFoundedOn(Less, Nat)
  BY NatLessThanWellFounded, Zenon
<1> HIDE DEF Less
<1>3. PICK m \in T : \A j \in T : <<j, m>> \notin Less
  BY <1>2, WFMin, Zenon
<1>4. \A j \in T : j \in Nat /\ m \in Nat /\ ~(j < m)
  BY <1>1, <1>3
<1> QED BY <1>4

LEMMA IndexFinds ==
  ASSUME NEW S, NEW s \in Seq(S), NEW x \in Values(s)
  PROVE  Index(s, x) \in 1..Len(s) /\ s[Index(s, x)] = x
<1> DEFINE At == {i \in 1..Len(s) : s[i] = x}
<1>1. At # {} /\ At \subseteq Nat
  BY DEF Values
<1>2. PICK m \in At : \A j \in At : m <= j
  BY <1>1, HasLeast
<1> QED BY <1>2 DEF Index

LEMMA AliasIndexFinds ==
  ASSUME NEW g \in GroupSet, NEW a \in AliasNames(g)
  PROVE  AliasIndex(g, a) \in 1..Len(g.aliases) /\ g.aliases[AliasIndex(g, a)].name = a
<1> DEFINE At == {i \in 1..Len(g.aliases) : g.aliases[i].name = a}
<1>1. DOMAIN g.aliases = 1..Len(g.aliases)
  BY DEF GroupSet
<1>2. At # {} /\ At \subseteq Nat
  BY <1>1 DEF AliasNames
<1>3. PICK m \in At : \A j \in At : m <= j
  BY <1>2, HasLeast
<1> QED BY <1>1, <1>3 DEF AliasIndex

\* Appending keeps the values there were.
LEMMA AppendKeeps ==
  ASSUME NEW S, NEW s \in Seq(S), NEW x \in S
  PROVE  /\ Append(s, x) \in Seq(S)
         /\ Values(s) \subseteq Values(Append(s, x))
         /\ x \in Values(Append(s, x))
<1>1. /\ DOMAIN Append(s, x) = 1..(Len(s) + 1)
      /\ \A i \in 1..Len(s) : Append(s, x)[i] = s[i]
      /\ Append(s, x)[Len(s) + 1] = x
      /\ Len(s) \in Nat
  OBVIOUS
<1>2. Values(s) \subseteq Values(Append(s, x))
  BY <1>1 DEF Values
<1>3. x \in Values(Append(s, x))
  BY <1>1 DEF Values
<1> QED BY <1>2, <1>3

LEMMA ConcatKeeps ==
  ASSUME NEW S, NEW s \in Seq(S), NEW t \in Seq(S)
  PROVE  /\ s \o t \in Seq(S)
         /\ Len(s \o t) = Len(s) + Len(t)
         /\ \A i \in 1..(Len(s) + Len(t)) :
              (s \o t)[i] = IF i <= Len(s) THEN s[i] ELSE t[i - Len(s)]
         /\ Values(s) \subseteq Values(s \o t)
<1>1. /\ s \o t \in Seq(S)
      /\ Len(s \o t) = Len(s) + Len(t)
      /\ \A i \in 1..(Len(s) + Len(t)) :
           (s \o t)[i] = IF i <= Len(s) THEN s[i] ELSE t[i - Len(s)]
  OBVIOUS
<1>2. Len(s) \in Nat /\ Len(t) \in Nat
  OBVIOUS
<1>3. \A i \in 1..Len(s) : i \in 1..(Len(s) + Len(t)) /\ (s \o t)[i] = s[i]
  BY <1>1, <1>2
<1>4. Values(s) \subseteq Values(s \o t)
  BY <1>1, <1>3 DEF Values
<1> QED BY <1>1, <1>4
------------------------------------------------------------------------------
(***************************************************************************)
(* The list of groups.                                                     *)
(***************************************************************************)
LEMMA GetGood ==
  ASSUME groups \in Seq(Good), NEW n, InGroup(n)
  PROVE  /\ Position(groups, n) \in 1..Len(groups)
         /\ Get(n) \in Good /\ Get(n).name = n
<1>1. \E i \in DOMAIN groups : groups[i].name = n
  BY DEF InGroup, Names
<1>2. Position(groups, n) \in DOMAIN groups /\ groups[Position(groups, n)].name = n
  BY <1>1 DEF Position
<1> QED BY <1>2 DEF Get

LEMMA PutGood ==
  ASSUME groups \in Seq(Good), NEW g \in Good, InGroup(g.name)
  PROVE  Put(g) \in Seq(Good) /\ Names(Put(g)) = Names(groups)
<1> DEFINE i == Position(groups, g.name)
<1>1. i \in 1..Len(groups) /\ groups[i].name = g.name
  BY GetGood DEF Get
<1> HIDE DEF i
<1>2. /\ [groups EXCEPT ![i] = g] \in Seq(Good)
      /\ DOMAIN [groups EXCEPT ![i] = g] = DOMAIN groups
  BY <1>1
<1>3. \A j \in DOMAIN groups : [groups EXCEPT ![i] = g][j].name = groups[j].name
  BY <1>1
<1>4. Names([groups EXCEPT ![i] = g]) = Names(groups)
  BY <1>2, <1>3 DEF Names
<1> QED BY <1>2, <1>4 DEF Put, i

LEMMA AppendGood ==
  ASSUME groups \in Seq(Good), active \in Names(groups) \union {NoName},
         NEW g \in Good, NEW act \in {active, g.name}
  PROVE  ConfigOK(Append(groups, g), act)
<1>1. /\ Append(groups, g) \in Seq(Good)
      /\ DOMAIN Append(groups, g) = 1..(Len(groups) + 1)
      /\ \A i \in 1..Len(groups) : Append(groups, g)[i] = groups[i]
      /\ Append(groups, g)[Len(groups) + 1] = g
      /\ Len(groups) \in Nat
  OBVIOUS
<1>2. Names(groups) \subseteq Names(Append(groups, g))
  BY <1>1 DEF Names
<1>3. g.name \in Names(Append(groups, g))
  BY <1>1 DEF Names
<1> QED BY <1>1, <1>2, <1>3 DEF ConfigOK
------------------------------------------------------------------------------
(***************************************************************************)
(* What the operations do to a group.                                      *)
(***************************************************************************)
LEMMA EmptyGood ==
  ASSUME NEW n \in GroupNames
  PROVE  EmptyGroup(n) \in Good /\ EmptyGroup(n).name = n
BY DEF EmptyGroup, Good, GroupSet, AlignedGroup, HasActives

LEMMA ExtendedLists ==
  ASSUME NEW block \in ValidBlock
  PROVE  /\ KeysOf(block) \in Seq(Keys) /\ AddressesOf(block) \in Seq(Addresses)
         /\ AliasesOf(block) \in Seq(AliasEntry)
         /\ Len(KeysOf(block)) = Len(block) /\ Len(AddressesOf(block)) = Len(block)
         /\ Len(AliasesOf(block)) = Len(block) /\ Len(block) \in Nat
         /\ \A i \in 1..Len(block) : AliasesOf(block)[i].name = block[i].alias
<1>1. DOMAIN block = 1..Len(block) /\ Len(block) \in Nat
  BY DEF ValidBlock
<1>2. ASSUME NEW i \in DOMAIN block
      PROVE  block[i].key \in Keys /\ block[i].alias \in Aliases
  <2>1. block[i] \in KeyEntry
    BY DEF ValidBlock
  <2> QED BY <2>1 DEF KeyEntry
<1> QED BY <1>1, <1>2 DEF KeysOf, AddressesOf, AliasesOf, Addresses, AliasEntry

LEMMA ExtendedGood ==
  ASSUME NEW g \in Good, NEW block \in ValidBlock
  PROVE  /\ Extended(g, block) \in Good
         /\ Extended(g, block).name = g.name
         /\ Extended(g, block).profiles = g.profiles
         /\ \A i \in DOMAIN block : AddressOf(block[i].key) \in Values(Extended(g, block).addresses)
<1> DEFINE e == Extended(g, block)
<1>1. /\ KeysOf(block) \in Seq(Keys) /\ Len(KeysOf(block)) = Len(block)
      /\ AddressesOf(block) \in Seq(Addresses) /\ Len(AddressesOf(block)) = Len(block)
      /\ AliasesOf(block) \in Seq(AliasEntry)
      /\ Len(AliasesOf(block)) = Len(block)
  BY ExtendedLists
<1>2. \A i \in 1..Len(block) :
        AddressesOf(block)[i] = AddressOf(KeysOf(block)[i])
        /\ AliasesOf(block)[i].key = KeysOf(block)[i]
  BY DEF ValidBlock, KeysOf, AddressesOf, AliasesOf
<1>3. g \in GroupSet /\ AlignedGroup(g) /\ HasActives(g)
  BY DEF Good
<1>4. /\ e.keys = g.keys \o KeysOf(block)
      /\ e.addresses = g.addresses \o AddressesOf(block)
      /\ e.aliases = g.aliases \o AliasesOf(block)
      /\ e.name = g.name /\ e.profile = g.profile
      /\ e.address = g.address /\ e.profiles = g.profiles
  BY <1>3 DEF Extended, GroupSet
<1>5. /\ g.keys \in Seq(Keys) /\ g.addresses \in Seq(Addresses)
      /\ g.aliases \in Seq(AliasEntry)
  BY <1>3 DEF GroupSet
<1> HIDE DEF e
<1>6. /\ e.keys \in Seq(Keys) /\ Len(e.keys) = Len(g.keys) + Len(block)
      /\ \A i \in 1..(Len(g.keys) + Len(block)) :
           e.keys[i] = IF i <= Len(g.keys) THEN g.keys[i] ELSE KeysOf(block)[i - Len(g.keys)]
  <2> DEFINE t == KeysOf(block)
  <2>1. t \in Seq(Keys) /\ Len(t) = Len(block)
    BY <1>1
  <2> HIDE DEF t
  <2>2. /\ g.keys \o t \in Seq(Keys)
        /\ Len(g.keys \o t) = Len(g.keys) + Len(t)
        /\ \A i \in 1..(Len(g.keys) + Len(t)) :
             (g.keys \o t)[i] = IF i <= Len(g.keys) THEN g.keys[i] ELSE t[i - Len(g.keys)]
        /\ Values(g.keys) \subseteq Values(g.keys \o t)
    BY <2>1, <1>5, ConcatKeeps
  <2>3. e.keys = g.keys \o t
    BY <1>4 DEF t
  <2> QED BY <2>1, <2>2, <2>3 DEF t
<1>7. /\ e.addresses \in Seq(Addresses) /\ Len(e.addresses) = Len(g.addresses) + Len(block)
      /\ \A i \in 1..(Len(g.addresses) + Len(block)) :
           e.addresses[i] = IF i <= Len(g.addresses) THEN g.addresses[i] ELSE AddressesOf(block)[i - Len(g.addresses)]
      /\ Values(g.addresses) \subseteq Values(e.addresses)
  <2> DEFINE t == AddressesOf(block)
  <2>1. t \in Seq(Addresses) /\ Len(t) = Len(block)
    BY <1>1
  <2> HIDE DEF t
  <2>2. /\ g.addresses \o t \in Seq(Addresses)
        /\ Len(g.addresses \o t) = Len(g.addresses) + Len(t)
        /\ \A i \in 1..(Len(g.addresses) + Len(t)) :
             (g.addresses \o t)[i] = IF i <= Len(g.addresses) THEN g.addresses[i] ELSE t[i - Len(g.addresses)]
        /\ Values(g.addresses) \subseteq Values(g.addresses \o t)
    BY <2>1, <1>5, ConcatKeeps
  <2>3. e.addresses = g.addresses \o t
    BY <1>4 DEF t
  <2> QED BY <2>1, <2>2, <2>3 DEF t
<1>8. /\ e.aliases \in Seq(AliasEntry) /\ Len(e.aliases) = Len(g.aliases) + Len(block)
      /\ \A i \in 1..(Len(g.aliases) + Len(block)) :
           e.aliases[i] = IF i <= Len(g.aliases) THEN g.aliases[i] ELSE AliasesOf(block)[i - Len(g.aliases)]
  <2> DEFINE t == AliasesOf(block)
  <2>1. t \in Seq(AliasEntry) /\ Len(t) = Len(block)
    BY <1>1
  <2> HIDE DEF t
  <2>2. /\ g.aliases \o t \in Seq(AliasEntry)
        /\ Len(g.aliases \o t) = Len(g.aliases) + Len(t)
        /\ \A i \in 1..(Len(g.aliases) + Len(t)) :
             (g.aliases \o t)[i] = IF i <= Len(g.aliases) THEN g.aliases[i] ELSE t[i - Len(g.aliases)]
        /\ Values(g.aliases) \subseteq Values(g.aliases \o t)
    BY <2>1, <1>5, ConcatKeeps
  <2>3. e.aliases = g.aliases \o t
    BY <1>4 DEF t
  <2> QED BY <2>1, <2>2, <2>3 DEF t
<1>9. Extended(g, block) \in GroupSet
  BY <1>3, <1>4, <1>6, <1>7, <1>8 DEF e, Extended, GroupSet
<1>10. Len(g.keys) \in Nat /\ Len(block) \in Nat
       /\ Len(g.keys) = Len(g.addresses) /\ Len(g.aliases) = Len(g.addresses)
  BY <1>3, <1>5 DEF AlignedGroup, ValidBlock
<1>11. AlignedGroup(e)
  <2> SUFFICES ASSUME NEW i \in 1..(Len(g.keys) + Len(block))
               PROVE  e.addresses[i] = AddressOf(e.keys[i]) /\ e.aliases[i].key = e.keys[i]
    BY <1>6, <1>7, <1>8, <1>10 DEF AlignedGroup
  <2>1. CASE i <= Len(g.keys)
    <3>1. i \in 1..Len(g.addresses)
      BY <2>1, <1>10
    <3>2. g.addresses[i] = AddressOf(g.keys[i]) /\ g.aliases[i].key = g.keys[i]
      BY <3>1, <1>3 DEF AlignedGroup
    <3> QED BY <2>1, <3>2, <1>6, <1>7, <1>8, <1>10
  <2>2. CASE i > Len(g.keys)
    <3> DEFINE k == i - Len(g.keys)
    <3>1. k \in 1..Len(block) /\ ~(i <= Len(g.keys))
      BY <2>2, <1>10
    <3>2. e.keys[i] = KeysOf(block)[k]
      BY <3>1, <1>6
    <3>3. e.addresses[i] = AddressesOf(block)[k]
      BY <3>1, <1>7, <1>10
    <3>4. e.aliases[i] = AliasesOf(block)[k]
      BY <3>1, <1>8, <1>10
    <3> HIDE DEF k
    <3> QED BY <3>1, <3>2, <3>3, <3>4, <1>2
  <2> QED BY <1>10, <2>1, <2>2
<1>12. HasActives(e)
  BY <1>3, <1>4, <1>7 DEF HasActives
<1>13. ASSUME NEW i \in DOMAIN block
       PROVE  AddressOf(block[i].key) \in Values(e.addresses)
  <2>1. i \in 1..Len(block) /\ AddressesOf(block)[i] = AddressOf(block[i].key)
    BY DEF ValidBlock, AddressesOf
  <2>2. /\ Len(g.addresses) + i \in 1..(Len(g.addresses) + Len(block))
        /\ ~(Len(g.addresses) + i <= Len(g.addresses))
        /\ (Len(g.addresses) + i) - Len(g.addresses) = i
    BY <2>1, <1>10
  <2>3. e.addresses[Len(g.addresses) + i] = AddressOf(block[i].key)
    BY <2>1, <2>2, <1>7
  <2>4. DOMAIN e.addresses = 1..(Len(g.addresses) + Len(block))
    BY <1>7
  <2> QED BY <2>2, <2>3, <2>4 DEF Values
<1> QED BY <1>4, <1>9, <1>11, <1>12, <1>13 DEF e, Good

\* An entry renamed: the keys and addresses are where they were.
LEMMA RenamedGood ==
  ASSUME NEW g \in Good, NEW i \in 1..Len(g.aliases), NEW b \in Aliases
  PROVE  /\ [g EXCEPT !.aliases[i].name = b] \in Good
         /\ [g EXCEPT !.aliases[i].name = b].name = g.name
<1> DEFINE ls == [g.aliases EXCEPT ![i].name = b]
           e == [g EXCEPT !.aliases = ls]
<1>1. g \in GroupSet /\ AlignedGroup(g) /\ HasActives(g) /\ g.aliases \in Seq(AliasEntry)
  BY DEF Good, GroupSet
<1>2. /\ ls \in Seq(AliasEntry) /\ Len(ls) = Len(g.aliases)
      /\ \A j \in 1..Len(g.aliases) : ls[j].key = g.aliases[j].key
  <2>1. \A j \in 1..Len(g.aliases) : g.aliases[j] \in AliasEntry
    BY <1>1
  <2>2. [g.aliases[i] EXCEPT !.name = b] \in AliasEntry
        /\ [g.aliases[i] EXCEPT !.name = b].key = g.aliases[i].key
    BY <2>1 DEF AliasEntry
  <2> QED BY <1>1, <2>1, <2>2
<1> HIDE DEF ls
<1>3. /\ e \in GroupSet
      /\ e.aliases = ls /\ e.keys = g.keys /\ e.addresses = g.addresses
      /\ e.name = g.name /\ e.address = g.address
      /\ e.profile = g.profile /\ e.profiles = g.profiles
  BY <1>1, <1>2 DEF GroupSet
<1> HIDE DEF e
<1>4. AlignedGroup(e) /\ HasActives(e)
  BY <1>1, <1>2, <1>3 DEF AlignedGroup, HasActives
<1>5. e \in Good /\ e.name = g.name
  BY <1>3, <1>4 DEF Good
<1> QED BY <1>5 DEF e, ls

LEMMA AddressedGood ==
  ASSUME NEW g \in Good, NEW address \in Values(g.addresses)
  PROVE  [g EXCEPT !.address = address] \in Good /\ [g EXCEPT !.address = address].name = g.name
<1> DEFINE e == [g EXCEPT !.address = address]
<1>1. g \in GroupSet /\ AlignedGroup(g) /\ HasActives(g)
  BY DEF Good
<1>2. address \in Addresses
  BY <1>1, ValuesOf DEF GroupSet
<1>3. /\ e \in GroupSet
      /\ e.aliases = g.aliases /\ e.keys = g.keys /\ e.addresses = g.addresses
      /\ e.name = g.name /\ e.address = address
      /\ e.profile = g.profile /\ e.profiles = g.profiles
  BY <1>1, <1>2 DEF GroupSet
<1> HIDE DEF e
<1>4. AlignedGroup(e) /\ HasActives(e)
  BY <1>1, <1>3 DEF AlignedGroup, HasActives
<1> QED BY <1>3, <1>4 DEF Good, e

\* Any profiles, with one of them in use or none.
LEMMA ProfiledGood ==
  ASSUME NEW g \in Good, NEW profs \in Seq(Profiles), NEW p \in Values(profs) \union {NoName}
  PROVE  /\ [g EXCEPT !.profiles = profs, !.profile = p] \in Good
         /\ [g EXCEPT !.profiles = profs, !.profile = p].name = g.name
         /\ [g EXCEPT !.profiles = profs, !.profile = p].addresses = g.addresses
<1> DEFINE e == [g EXCEPT !.profiles = profs, !.profile = p]
<1>1. g \in GroupSet /\ AlignedGroup(g) /\ HasActives(g)
  BY DEF Good
<1>2. p \in Profiles \union {NoName}
  BY ValuesOf
<1>3. /\ e \in GroupSet
      /\ e.aliases = g.aliases /\ e.keys = g.keys /\ e.addresses = g.addresses
      /\ e.name = g.name /\ e.address = g.address
      /\ e.profile = p /\ e.profiles = profs
  BY <1>1, <1>2 DEF GroupSet
<1> HIDE DEF e
<1>4. AlignedGroup(e) /\ HasActives(e)
  BY <1>1, <1>3 DEF AlignedGroup, HasActives
<1> QED BY <1>3, <1>4 DEF Good, e

LEMMA WithoutIdentityGood ==
  ASSUME NEW g \in Good, NEW i \in 1..Len(g.aliases)
  PROVE  WithoutIdentity(g, i) \in Good /\ WithoutIdentity(g, i).name = g.name
<1> DEFINE as == Drop(g.addresses, i)
           ks == Drop(g.keys, i)
           ls == Drop(g.aliases, i)
           a == IF g.address = g.addresses[i] THEN FirstOr(as, NoAddress) ELSE g.address
           e == [g EXCEPT !.aliases = ls, !.keys = ks, !.addresses = as, !.address = a]
<1>1. g \in GroupSet /\ AlignedGroup(g) /\ HasActives(g)
  BY DEF Good
<1>2. /\ g.keys \in Seq(Keys) /\ g.addresses \in Seq(Addresses) /\ g.aliases \in Seq(AliasEntry)
      /\ Len(g.keys) = Len(g.aliases) /\ Len(g.addresses) = Len(g.aliases)
  BY <1>1 DEF GroupSet, AlignedGroup
<1>3. i \in 1..Len(g.keys) /\ i \in 1..Len(g.addresses)
  BY <1>2
<1>4. /\ ks \in Seq(Keys) /\ Len(ks) = Len(g.aliases) - 1
      /\ \A j \in 1..(Len(g.aliases) - 1) : ks[j] = IF j < i THEN g.keys[j] ELSE g.keys[j + 1]
  BY <1>2, <1>3, DropKeeps
<1>5. /\ as \in Seq(Addresses) /\ Len(as) = Len(g.aliases) - 1
      /\ \A j \in 1..(Len(g.aliases) - 1) :
           as[j] = IF j < i THEN g.addresses[j] ELSE g.addresses[j + 1]
      /\ \A j \in 1..Len(g.addresses) : j # i => g.addresses[j] \in Values(as)
  BY <1>2, <1>3, DropKeeps
<1>6. /\ ls \in Seq(AliasEntry) /\ Len(ls) = Len(g.aliases) - 1
      /\ \A j \in 1..(Len(g.aliases) - 1) :
           ls[j] = IF j < i THEN g.aliases[j] ELSE g.aliases[j + 1]
  BY <1>2, <1>3, DropKeeps
<1> HIDE DEF as, ks, ls
<1>7. a \in Values(as) \union {NoAddress} /\ a \in Addresses \union {NoAddress}
  <2>1. CASE g.address = g.addresses[i]
    BY <2>1, <1>5, FirstIsThere
  <2>2. CASE g.address # g.addresses[i]
    <3>1. g.address \in Values(g.addresses) \union {NoAddress}
      BY <1>1 DEF HasActives
    <3>2. g.address \in Values(as) \union {NoAddress}
      <4>1. SUFFICES ASSUME g.address \in Values(g.addresses)
                     PROVE  g.address \in Values(as)
        BY <3>1
      <4>2. PICK j \in 1..Len(g.addresses) : g.addresses[j] = g.address
        BY <4>1, <1>2 DEF Values
      <4> QED BY <4>2, <2>2, <1>5
    <3> QED BY <3>2, <2>2, <1>1 DEF GroupSet
  <2> QED BY <2>1, <2>2
<1> HIDE DEF a
<1>8. /\ e \in GroupSet
      /\ e.aliases = ls /\ e.keys = ks /\ e.addresses = as
      /\ e.name = g.name /\ e.address = a
      /\ e.profile = g.profile /\ e.profiles = g.profiles
  BY <1>1, <1>4, <1>5, <1>6, <1>7 DEF GroupSet
<1> HIDE DEF e
<1>9. AlignedGroup(e)
  <2> SUFFICES ASSUME NEW j \in 1..(Len(g.aliases) - 1)
               PROVE  as[j] = AddressOf(ks[j]) /\ ls[j].key = ks[j]
    BY <1>4, <1>5, <1>6, <1>8 DEF AlignedGroup
  <2>1. Len(g.aliases) \in Nat
    BY <1>2
  <2>2. \A k \in 1..Len(g.aliases) :
          g.addresses[k] = AddressOf(g.keys[k]) /\ g.aliases[k].key = g.keys[k]
    BY <1>1, <1>2 DEF AlignedGroup
  <2>3. j \in 1..Len(g.aliases) /\ j + 1 \in 1..Len(g.aliases)
    BY <2>1
  <2>4. CASE j < i
    BY <2>2, <2>3, <2>4, <1>4, <1>5, <1>6
  <2>5. CASE ~(j < i)
    BY <2>2, <2>3, <2>5, <1>4, <1>5, <1>6
  <2> QED BY <2>4, <2>5
<1>10. HasActives(e)
  BY <1>1, <1>7, <1>8 DEF HasActives
<1>11. e \in Good /\ e.name = g.name
  BY <1>8, <1>9, <1>10 DEF Good
<1>12. WithoutIdentity(g, i) = e
  BY <1>1 DEF WithoutIdentity, e, as, ks, ls, a, GroupSet
<1> QED BY <1>11, <1>12

LEMMA WithoutProfileGood ==
  ASSUME NEW g \in Good, NEW p \in Values(g.profiles)
  PROVE  WithoutProfile(g, p) \in Good /\ WithoutProfile(g, p).name = g.name
<1> DEFINE i == Index(g.profiles, p)
           left == Drop(g.profiles, i)
           q == IF g.profile = p THEN FirstOr(left, NoName) ELSE g.profile
<1>1. g \in GroupSet /\ HasActives(g) /\ g.profiles \in Seq(Profiles)
  BY DEF Good, GroupSet
<1>2. i \in 1..Len(g.profiles) /\ g.profiles[i] = p
  BY <1>1, IndexFinds
<1>3. /\ left \in Seq(Profiles)
      /\ \A j \in 1..Len(g.profiles) : j # i => g.profiles[j] \in Values(left)
  BY <1>1, <1>2, DropKeeps
<1> HIDE DEF left
<1>4. q \in Values(left) \union {NoName}
  <2>1. CASE g.profile = p
    BY <2>1, <1>3, FirstIsThere
  <2>2. CASE g.profile # p
    <3>1. CASE g.profile = NoName
      BY <3>1, <2>2
    <3>2. CASE g.profile \in Values(g.profiles)
      <4>1. PICK j \in 1..Len(g.profiles) : g.profiles[j] = g.profile
        BY <3>2, <1>1 DEF Values
      <4> QED BY <4>1, <2>2, <1>2, <1>3
    <3> QED BY <3>1, <3>2, <1>1 DEF HasActives
  <2> QED BY <2>1, <2>2
<1> HIDE DEF q
<1>5. /\ [g EXCEPT !.profiles = left, !.profile = q] \in Good
      /\ [g EXCEPT !.profiles = left, !.profile = q].name = g.name
  BY <1>3, <1>4, ProfiledGood
<1>6. WithoutProfile(g, p) = [g EXCEPT !.profiles = left, !.profile = q]
  BY <1>1 DEF WithoutProfile, q, left, GroupSet
<1> QED BY <1>5, <1>6

LEMMA WithProfileGood ==
  ASSUME NEW g \in Good, NEW p \in Profiles, NEW activate \in BOOLEAN
  PROVE  WithProfile(g, p, activate) \in Good /\ WithProfile(g, p, activate).name = g.name
<1> DEFINE profs == Append(g.profiles, p)
           q == IF activate THEN p ELSE g.profile
<1>1. g \in GroupSet /\ HasActives(g) /\ g.profiles \in Seq(Profiles)
  BY DEF Good, GroupSet
<1>2. profs \in Seq(Profiles) /\ Values(g.profiles) \subseteq Values(profs) /\ p \in Values(profs)
  BY <1>1, AppendKeeps
<1>3. q \in Values(profs) \union {NoName}
  BY <1>1, <1>2 DEF HasActives
<1> HIDE DEF profs, q
<1>4. /\ [g EXCEPT !.profiles = profs, !.profile = q] \in Good
      /\ [g EXCEPT !.profiles = profs, !.profile = q].name = g.name
  BY <1>2, <1>3, ProfiledGood
<1>5. WithProfile(g, p, activate) = [g EXCEPT !.profiles = profs, !.profile = q]
  BY <1>1 DEF WithProfile, profs, q, GroupSet
<1> QED BY <1>4, <1>5

\* A new group's profiles; its group had none.
LEMMA WithProfilesGood ==
  ASSUME NEW g \in Good, g.profile = NoName,
         NEW profs \in Seq(Profiles), NEW activate \in BOOLEAN
  PROVE  /\ WithProfiles(g, profs, activate) \in Good
         /\ WithProfiles(g, profs, activate).name = g.name
         /\ WithProfiles(g, profs, activate).addresses = g.addresses
<1> DEFINE q == IF activate /\ profs # <<>> THEN profs[Len(profs)] ELSE g.profile
<1>1. g \in GroupSet
  BY DEF Good
<1>2. q \in Values(profs) \union {NoName}
  <2>1. CASE activate /\ profs # <<>>
    <3>1. Len(profs) \in DOMAIN profs
      BY <2>1
    <3> QED BY <3>1, <2>1 DEF Values
  <2> QED BY <2>1
<1> HIDE DEF q
<1>3. /\ [g EXCEPT !.profiles = profs, !.profile = q] \in Good
      /\ [g EXCEPT !.profiles = profs, !.profile = q].name = g.name
      /\ [g EXCEPT !.profiles = profs, !.profile = q].addresses = g.addresses
  BY <1>2, ProfiledGood
<1>4. WithProfiles(g, profs, activate) = [g EXCEPT !.profiles = profs, !.profile = q]
  BY <1>1 DEF WithProfiles, q, GroupSet
<1> QED BY <1>3, <1>4

\* make_active(): a profile of the group, then an address of it.
LEMMA ProfileInUseGood ==
  ASSUME NEW g \in Good, NEW p \in {NoName} \union Values(g.profiles)
  PROVE  /\ Profiled(g, p) \in Good /\ Profiled(g, p).name = g.name
         /\ Profiled(g, p).address = g.address /\ Profiled(g, p).addresses = g.addresses
<1>1. CASE p = NoName
  BY <1>1 DEF Profiled
<1>2. CASE p # NoName
  <2> DEFINE e == [g EXCEPT !.profile = p]
  <2>1. g \in GroupSet /\ AlignedGroup(g) /\ HasActives(g) /\ g.profiles \in Seq(Profiles)
    BY DEF Good, GroupSet
  <2>2. p \in Values(g.profiles) /\ p \in Profiles
    BY <1>2, <2>1, ValuesOf
  <2>3. /\ e \in GroupSet
        /\ e.aliases = g.aliases /\ e.keys = g.keys /\ e.addresses = g.addresses
        /\ e.name = g.name /\ e.address = g.address
        /\ e.profile = p /\ e.profiles = g.profiles
    BY <2>1, <2>2 DEF GroupSet
  <2> HIDE DEF e
  <2>4. AlignedGroup(e) /\ HasActives(e)
    BY <2>1, <2>2, <2>3 DEF AlignedGroup, HasActives
  <2>5. e \in Good
    BY <2>3, <2>4 DEF Good
  <2> QED BY <1>2, <2>3, <2>5 DEF Profiled, e
<1> QED BY <1>1, <1>2

LEMMA ChosenGood ==
  ASSUME NEW g \in Good, NEW h \in Good, h.addresses = g.addresses, h.address = g.address,
         NEW who, Here(g, who)
  PROVE  /\ [h EXCEPT !.address = Chosen(g, who)] \in Good
         /\ [h EXCEPT !.address = Chosen(g, who)].name = h.name
<1>1. g \in GroupSet /\ AlignedGroup(g) /\ h \in GroupSet
  BY DEF Good
<1>2. CASE Chosen(g, who) = h.address
  <2>1. [h EXCEPT !.address = h.address] = h
    BY <1>1 DEF GroupSet
  <2> QED BY <2>1, <1>2
<1>3. CASE Chosen(g, who) \in Values(h.addresses)
  BY <1>3, AddressedGood
<1>4. ASSUME ~IsActive(g, who), who \notin Values(g.addresses)
      PROVE  Chosen(g, who) \in Values(g.addresses)
  <2>1. who \in AliasNames(g)
    BY <1>4 DEF Here
  <2>2. AliasIndex(g, who) \in 1..Len(g.aliases)
    BY <2>1, <1>1, AliasIndexFinds
  <2>3. AliasIndex(g, who) \in DOMAIN g.addresses
    BY <2>2, <1>1 DEF GroupSet, AlignedGroup
  <2> QED BY <2>3, <1>4 DEF Chosen, Values
<1> QED BY <1>2, <1>3, <1>4 DEF Chosen
------------------------------------------------------------------------------
(***************************************************************************)
(* The steps.                                                              *)
(***************************************************************************)
\* An operation that leaves a good list behind keeps the invariant, saved or not.
LEMMA DoneKeeps ==
  ASSUME ConfigInv, NEW gs, NEW act, NEW persist, ConfigOK(gs, act), Done(gs, act, persist)
  PROVE  ConfigInv'
<1>1. groups' = gs /\ active' = act
      /\ file' = IF persist THEN [groups |-> gs, active |-> act] ELSE file
  BY DEF Done
<1>2. ConfigOK(file'.groups, file'.active)
  BY <1>1 DEF ConfigInv
<1> QED BY <1>1, <1>2 DEF ConfigInv, ConfigOK

\* In particular one that puts a good group back in its place.
LEMMA PutKeeps ==
  ASSUME ConfigInv, NEW g \in Good, InGroup(g.name),
         NEW act \in {active, g.name}, NEW persist, Done(Put(g), act, persist)
  PROVE  ConfigInv'
<1>1. Put(g) \in Seq(Good) /\ Names(Put(g)) = Names(groups)
  BY PutGood DEF ConfigInv, ConfigOK
<1>2. ConfigOK(Put(g), act)
  BY <1>1 DEF ConfigInv, ConfigOK, InGroup
<1> QED BY <1>2, DoneKeeps

LEMMA AppendDoneKeeps ==
  ASSUME ConfigInv, NEW g \in Good, NEW activate \in BOOLEAN, NEW persist,
         Done(Append(groups, g), Activated(g.name, activate), persist)
  PROVE  ConfigInv'
<1>1. ConfigOK(Append(groups, g), Activated(g.name, activate))
  BY AppendGood DEF ConfigInv, ConfigOK, Activated
<1> QED BY <1>1, DoneKeeps

\* A block whose keys can be parsed.
LEMMA ValidFromBlocks ==
  ASSUME ConfigAssumption, NEW block \in Blocks, \A i \in DOMAIN block : block[i].key \in Keys
  PROVE  block \in ValidBlock
<1> DEFINE Entry == [key : Keys \union {BadKey}, alias : Aliases]
<1>1. block \in Seq(Entry)
  BY DEF ConfigAssumption
<1> HIDE DEF Entry
<1>2. \A i \in 1..Len(block) : block[i] \in Entry
  BY <1>1
<1>3. ASSUME NEW i \in 1..Len(block)
      PROVE  block[i] \in KeyEntry
  <2>1. block[i].key \in Keys /\ block[i] \in Entry
    BY <1>1, <1>2
  <2> QED BY <2>1 DEF Entry, KeyEntry
<1> QED BY <1>1, <1>3 DEF ValidBlock

LEMMA IdentitySteps ==
  ASSUME ConfigInv, ConfigAssumption, NEW n \in GroupNames, NEW persist \in BOOLEAN
  PROVE  /\ \A block \in Blocks : AddKeys(n, block, persist) => ConfigInv'
         /\ \A k \in Keys, a \in Aliases, activate \in BOOLEAN :
              NewKeypair(n, k, a, activate, persist) => ConfigInv'
         /\ \A k \in Keys, a \in Aliases : NewKeypairFails(n, k, a) => ConfigInv'
         /\ \A a, b \in Aliases : RenameAlias(n, a, b, persist) => ConfigInv'
         /\ \A a \in Aliases : RemoveAlias(n, a) => ConfigInv'
<1>0. groups \in Seq(Good)
  BY DEF ConfigInv, ConfigOK
<1>1. ASSUME NEW block \in Blocks, AddKeys(n, block, persist)
      PROVE  ConfigInv'
  <2>1. Get(n) \in Good /\ Get(n).name = n /\ InGroup(n)
    BY <1>0, <1>1, GetGood DEF AddKeys
  <2>2. block \in ValidBlock
    BY <1>1, ValidFromBlocks DEF AddKeys
  <2>3. Extended(Get(n), block) \in Good /\ Extended(Get(n), block).name = n
    BY <2>1, <2>2, ExtendedGood
  <2>4. Done(Put(Extended(Get(n), block)), active, persist)
    BY <1>1 DEF AddKeys
  <2> QED BY <2>1, <2>3, <2>4, PutKeeps
<1>2. ASSUME NEW k \in Keys, NEW a \in Aliases, NEW activate \in BOOLEAN, InGroup(n)
      PROVE  \E g \in Good : g.name = n /\ NewIdentity(n, k, a, activate) = Put(g)
  <2> DEFINE block == <<[key |-> k, alias |-> a]>>
             g == Extended(Get(n), block)
             h == IF activate THEN [g EXCEPT !.address = AddressOf(k)] ELSE g
  <2>1. Get(n) \in Good /\ Get(n).name = n
    BY <1>0, <1>2, GetGood
  <2>2. block \in ValidBlock /\ 1 \in DOMAIN block /\ block[1].key = k
    BY DEF ValidBlock, KeyEntry
  <2> HIDE DEF block
  <2>3. g \in Good /\ g.name = n /\ AddressOf(k) \in Values(g.addresses)
    BY <2>1, <2>2, ExtendedGood
  <2> HIDE DEF g
  <2>4. h \in Good /\ h.name = n
    BY <2>3, AddressedGood
  <2>5. NewIdentity(n, k, a, activate) = Put(h)
    BY DEF NewIdentity, g, block
  <2> QED BY <2>4, <2>5
<1>3. ASSUME NEW k \in Keys, NEW a \in Aliases, NEW activate \in BOOLEAN,
             NewKeypair(n, k, a, activate, persist)
      PROVE  ConfigInv'
  <2>1. InGroup(n)
    BY <1>3 DEF NewKeypair, IsNew
  <2>2. PICK g \in Good : g.name = n /\ NewIdentity(n, k, a, activate) = Put(g)
    BY <1>2, <2>1
  <2>3. Done(Put(g), IF activate THEN n ELSE active, persist)
    BY <1>3, <2>2 DEF NewKeypair
  <2> QED BY <2>1, <2>2, <2>3, PutKeeps
<1>4. ASSUME NEW k \in Keys, NEW a \in Aliases, NewKeypairFails(n, k, a)
      PROVE  ConfigInv'
  <2>1. InGroup(n)
    BY <1>4 DEF NewKeypairFails, IsNew
  <2>2. PICK g \in Good : g.name = n /\ NewIdentity(n, k, a, TRUE) = Put(g)
    BY <1>2, <2>1
  <2>3. Done(Put(g), active, FALSE)
    BY <1>4, <2>2 DEF NewKeypairFails, HalfDone
  <2> QED BY <2>1, <2>2, <2>3, PutKeeps
<1>5. ASSUME NEW a \in Aliases, InGroup(n), a \in AliasNames(Get(n))
      PROVE  Get(n) \in Good /\ Get(n).name = n /\ AliasIndex(Get(n), a) \in 1..Len(Get(n).aliases)
  <2>1. Get(n) \in Good /\ Get(n).name = n /\ Get(n) \in GroupSet
    BY <1>0, <1>5, GetGood DEF Good
  <2> QED BY <1>5, <2>1, AliasIndexFinds
<1>6. ASSUME NEW a \in Aliases, NEW b \in Aliases, RenameAlias(n, a, b, persist)
      PROVE  ConfigInv'
  <2> DEFINE i == AliasIndex(Get(n), a)
             g == [Get(n) EXCEPT !.aliases[i].name = b]
  <2>1. InGroup(n) /\ Done(Put(g), active, persist)
    BY <1>6 DEF RenameAlias
  <2>2. Get(n) \in Good /\ Get(n).name = n /\ i \in 1..Len(Get(n).aliases)
    BY <1>5, <1>6 DEF RenameAlias
  <2> HIDE DEF i
  <2>3. g \in Good /\ g.name = n
    BY <2>2, RenamedGood
  <2> HIDE DEF g
  <2> QED BY <2>1, <2>3, PutKeeps
<1>7. ASSUME NEW a \in Aliases, RemoveAlias(n, a)
      PROVE  ConfigInv'
  <2> DEFINE i == AliasIndex(Get(n), a)
             g == WithoutIdentity(Get(n), i)
  <2>1. InGroup(n) /\ Done(Put(g), active, FALSE)
    BY <1>7 DEF RemoveAlias
  <2>2. Get(n) \in Good /\ Get(n).name = n /\ i \in 1..Len(Get(n).aliases)
    BY <1>5, <1>7 DEF RemoveAlias
  <2> HIDE DEF i
  <2>3. g \in Good /\ g.name = n
    BY <2>2, WithoutIdentityGood
  <2> HIDE DEF g
  <2> QED BY <2>1, <2>3, PutKeeps
<1> QED BY <1>1, <1>3, <1>4, <1>6, <1>7

LEMMA ProfileSteps ==
  ASSUME ConfigInv, NEW n \in GroupNames, NEW p \in Profiles
  PROVE  /\ \A activate, persist \in BOOLEAN : NewProfile(n, p, activate, persist) => ConfigInv'
         /\ RemoveProfile(n, p) => ConfigInv'
<1>1. ASSUME InGroup(n)
      PROVE  Get(n) \in Good /\ Get(n).name = n
  BY <1>1, GetGood DEF ConfigInv, ConfigOK
<1>2. ASSUME NEW activate \in BOOLEAN, NEW persist \in BOOLEAN, NewProfile(n, p, activate, persist)
      PROVE  ConfigInv'
  <2>1. InGroup(n) /\ Done(Put(WithProfile(Get(n), p, activate)), active, persist)
    BY <1>2 DEF NewProfile
  <2>2. WithProfile(Get(n), p, activate) \in Good /\ WithProfile(Get(n), p, activate).name = n
    BY <1>1, <2>1, WithProfileGood
  <2> QED BY <2>1, <2>2, PutKeeps
<1>3. ASSUME RemoveProfile(n, p)
      PROVE  ConfigInv'
  <2>1. InGroup(n) /\ p \in Values(Get(n).profiles)
        /\ Done(Put(WithoutProfile(Get(n), p)), active, FALSE)
    BY <1>3 DEF RemoveProfile
  <2>2. WithoutProfile(Get(n), p) \in Good /\ WithoutProfile(Get(n), p).name = n
    BY <1>1, <2>1, WithoutProfileGood
  <2> QED BY <2>1, <2>2, PutKeeps
<1> QED BY <1>2, <1>3

LEMMA GroupSteps ==
  ASSUME ConfigInv, ConfigAssumption, NEW n \in GroupNames
  PROVE  /\ \A block \in Blocks, profs \in ProfileBlocks, use, activate, persist \in BOOLEAN :
              \A i \in DOMAIN block : NewGroup(n, block, profs, i, use, activate, persist) => ConfigInv'
         /\ \A block \in Blocks, profs \in ProfileBlocks, use, activate \in BOOLEAN :
              NewGroupFails(n, block, profs, use, activate) => ConfigInv'
         /\ RemoveGroup(n) => ConfigInv'
<1>1. EmptyGroup(n) \in Good /\ EmptyGroup(n).name = n
  BY EmptyGood
<1>2. ASSUME NEW block \in Blocks, Valid(block), NEW profs \in Seq(Profiles), NEW use \in BOOLEAN
      PROVE  LET g == WithProfiles(Extended(EmptyGroup(n), block), profs, use) IN
             /\ g \in Good /\ g.name = n
             /\ \A i \in DOMAIN block : AddressOf(block[i].key) \in Values(g.addresses)
  <2> DEFINE h == Extended(EmptyGroup(n), block)
  <2>1. block \in ValidBlock
    BY <1>2, ValidFromBlocks DEF Valid
  <2>2. /\ h \in Good /\ h.name = n
        /\ \A i \in DOMAIN block : AddressOf(block[i].key) \in Values(h.addresses)
    BY <1>1, <2>1, ExtendedGood
  <2>3. h.profile = NoName
    BY DEF Extended, EmptyGroup
  <2> HIDE DEF h
  <2>4. /\ WithProfiles(h, profs, use) \in Good
        /\ WithProfiles(h, profs, use).name = h.name
        /\ WithProfiles(h, profs, use).addresses = h.addresses
    BY <2>2, <2>3, WithProfilesGood
  <2>5. /\ WithProfiles(h, profs, use).name = n
        /\ \A i \in DOMAIN block : AddressOf(block[i].key) \in Values(WithProfiles(h, profs, use).addresses)
    BY <2>2, <2>4
  <2> QED BY <2>4, <2>5 DEF h
<1>3. ASSUME NEW block \in Blocks, NEW profs \in ProfileBlocks, NEW use \in BOOLEAN,
             NEW activate \in BOOLEAN, NEW persist \in BOOLEAN, NEW i \in DOMAIN block,
             NewGroup(n, block, profs, i, use, activate, persist)
      PROVE  ConfigInv'
  <2> DEFINE g == WithProfiles(Extended(EmptyGroup(n), block), profs, use)
             h == [g EXCEPT !.address = AddressOf(block[i].key)]
  <2>1. profs \in Seq(Profiles)
    BY DEF ConfigAssumption
  <2>2. g \in Good /\ g.name = n /\ AddressOf(block[i].key) \in Values(g.addresses)
    BY <1>2, <1>3, <2>1 DEF NewGroup
  <2>3. Done(Append(groups, h), Activated(n, activate), persist)
    BY <1>3 DEF NewGroup
  <2> HIDE DEF g
  <2>4. h \in Good /\ h.name = n
    BY <2>2, AddressedGood
  <2> HIDE DEF h
  <2> QED BY <2>3, <2>4, AppendDoneKeeps
<1>4. ASSUME NEW block \in Blocks, NEW profs \in ProfileBlocks, NEW use \in BOOLEAN,
             NEW activate \in BOOLEAN, NewGroupFails(n, block, profs, use, activate)
      PROVE  ConfigInv'
  <2>1. profs \in Seq(Profiles)
    BY DEF ConfigAssumption
  <2>2. ASSUME NEW g \in Good, g.name = n, Done(Append(groups, g), Activated(n, activate), FALSE)
        PROVE  ConfigInv'
    BY <2>2, AppendDoneKeeps
  <2>3. CASE Done(Append(groups, EmptyGroup(n)), Activated(n, activate), FALSE)
    BY <2>2, <2>3, <1>1
  <2>4. ASSUME NEW some \in Seq(Profiles), Valid(block),
               Done(Append(groups, WithProfiles(Extended(EmptyGroup(n), block), some, use)),
                    Activated(n, activate), FALSE)
        PROVE  ConfigInv'
    BY <2>2, <2>4, <1>2
  <2>5. \A i \in DOMAIN profs : SubSeq(profs, 1, i - 1) \in Seq(Profiles)
    BY <2>1
  <2> QED BY <1>4, <2>1, <2>3, <2>4, <2>5 DEF NewGroupFails, HalfDone
<1>5. ASSUME RemoveGroup(n)
      PROVE  ConfigInv'
  <2> DEFINE i == Position(groups, n)
  <2>1. groups \in Seq(Good) /\ active \in Names(groups) \union {NoName}
    BY DEF ConfigInv, ConfigOK
  <2>2. i \in 1..Len(groups) /\ groups[i].name = n
    BY <1>5, <2>1, GetGood DEF RemoveGroup, Get
  <2>3. Done(Drop(groups, i), Successor(n), FALSE)
    BY <1>5 DEF RemoveGroup
  <2>4. /\ Drop(groups, i) \in Seq(Good) /\ Len(Drop(groups, i)) = Len(groups) - 1
        /\ \A j \in 1..(Len(groups) - 1) :
             Drop(groups, i)[j] = IF j < i THEN groups[j] ELSE groups[j + 1]
    BY <2>1, <2>2, DropKeeps
  <2>5. \A j \in 1..(Len(groups) - 1) : Drop(groups, i)[j].name \in Names(Drop(groups, i))
    BY <2>4 DEF Names
  <2>6. Successor(n) \in Names(Drop(groups, i)) \union {NoName}
    <3>1. CASE active # n
      <4>1. CASE active = NoName
        BY <3>1, <4>1 DEF Successor
      <4>2. CASE active \in Names(groups)
        <5>1. PICK j \in 1..Len(groups) : groups[j].name = active
          BY <4>2, <2>1 DEF Names
        <5>2. CASE j < i
          <6>1. j \in 1..(Len(groups) - 1) /\ Drop(groups, i)[j].name = active
            BY <5>1, <5>2, <2>1, <2>2, <2>4
          <6> QED BY <6>1, <2>5, <3>1 DEF Successor
        <5>3. CASE j > i
          <6>1. j - 1 \in 1..(Len(groups) - 1) /\ Drop(groups, i)[j - 1].name = active
            BY <5>1, <5>3, <2>1, <2>2, <2>4
          <6> QED BY <6>1, <2>5, <3>1 DEF Successor
        <5>4. j # i
          BY <5>1, <3>1, <2>2
        <5> QED BY <5>1, <5>2, <5>3, <5>4, <2>2
      <4> QED BY <4>1, <4>2, <2>1
    <3>2. CASE active = n /\ i # 1
      <4>1. 1 \in 1..(Len(groups) - 1) /\ Drop(groups, i)[1] = groups[1]
        BY <3>2, <2>1, <2>2, <2>4
      <4> QED BY <4>1, <2>5, <3>2 DEF Successor
    <3>3. CASE active = n /\ i = 1 /\ Len(groups) > 1
      <4>1. 1 \in 1..(Len(groups) - 1) /\ Drop(groups, i)[1] = groups[2]
        BY <3>3, <2>1, <2>2, <2>4
      <4> QED BY <4>1, <2>5, <3>3 DEF Successor
    <3>4. CASE active = n /\ i = 1 /\ ~(Len(groups) > 1)
      BY <3>4 DEF Successor
    <3> QED BY <3>1, <3>2, <3>3, <3>4
  <2>7. ConfigOK(Drop(groups, i), Successor(n))
    BY <2>4, <2>6 DEF ConfigOK
  <2> QED BY <2>3, <2>7, DoneKeeps
<1> QED BY <1>3, <1>4, <1>5

LEMMA ActiveSteps ==
  ASSUME ConfigInv, NEW n \in GroupNames, NEW p, NEW who
  PROVE  /\ \A persist \in BOOLEAN : MakeActive(n, p, who, persist) => ConfigInv'
         /\ MakeActiveFails(n, p, who) => ConfigInv'
         /\ Save => ConfigInv'
         /\ AnyReopen => ConfigInv'
<1>0. ConfigOK(groups, active) /\ ConfigOK(file.groups, file.active)
  BY DEF ConfigInv
<1>1. ASSUME InGroup(n)
      PROVE  Get(n) \in Good /\ Get(n).name = n
  BY <1>1, GetGood DEF ConfigInv, ConfigOK
<1>2. ASSUME NEW persist \in BOOLEAN, MakeActive(n, p, who, persist)
      PROVE  ConfigInv'
  <2> DEFINE h == Profiled(Get(n), p)
             g == [h EXCEPT !.address = Chosen(Get(n), who)]
  <2>1. InGroup(n) /\ p \in {NoName} \union Values(Get(n).profiles) /\ Here(Get(n), who)
    BY <1>2 DEF MakeActive
  <2>2. PICK persists : Done(Put(g), n, persists)
    BY <1>2 DEF MakeActive
  <2>3. /\ h \in Good /\ h.name = n
        /\ h.address = Get(n).address /\ h.addresses = Get(n).addresses
    BY <1>1, <2>1, ProfileInUseGood
  <2> HIDE DEF h
  <2>4. g \in Good /\ g.name = n
    BY <1>1, <2>1, <2>3, ChosenGood
  <2> HIDE DEF g
  <2> QED BY <2>1, <2>2, <2>4, PutKeeps
<1>3. ASSUME MakeActiveFails(n, p, who)
      PROVE  ConfigInv'
  <2>1. InGroup(n)
    BY <1>3 DEF MakeActiveFails
  <2>2. CASE Done(groups, n, FALSE)
    <3>1. ConfigOK(groups, n)
      BY <1>0, <2>1 DEF ConfigOK, InGroup
    <3> QED BY <2>2, <3>1, DoneKeeps
  <2>3. CASE p \in {NoName} \union Values(Get(n).profiles) /\ Done(Put(Profiled(Get(n), p)), n, FALSE)
    <3>1. Profiled(Get(n), p) \in Good /\ Profiled(Get(n), p).name = n
      BY <1>1, <2>1, <2>3, ProfileInUseGood
    <3> QED BY <2>1, <2>3, <3>1, PutKeeps
  <2> QED BY <1>3, <2>2, <2>3 DEF MakeActiveFails, HalfDone
<1>4. ASSUME Save
      PROVE  ConfigInv'
  BY <1>0, <1>4, DoneKeeps DEF Save
<1>5. ASSUME AnyReopen
      PROVE  ConfigInv'
  <2>1. PICK m \in GroupNames, persist \in BOOLEAN : Reopen(m, persist)
    BY <1>5 DEF AnyReopen
  <2>2. PICK persists : Done(file.groups, m, persists)
    BY <2>1 DEF Reopen
  <2>3. ConfigOK(file.groups, m)
    BY <1>0, <2>1 DEF Reopen, ConfigOK
  <2> QED BY <2>2, <2>3, DoneKeeps
<1> QED BY <1>2, <1>3, <1>4, <1>5

LEMMA ConfigStarts ==
  ASSUME ConfigInit, ConfigAssumption
  PROVE  ConfigInv
<1>1. PICK n \in GroupNames :
        /\ \/ groups = <<EmptyGroup(n)>>
           \/ \E block \in Imports, p \in Profiles : \E i \in DOMAIN block :
                groups = <<Imported(n, block, i, p)>>
        /\ active \in {n, NoName}
  BY DEF ConfigInit
<1>2. ASSUME NEW block \in Imports, NEW p \in Profiles, NEW i \in DOMAIN block
      PROVE  Imported(n, block, i, p) \in Good /\ Imported(n, block, i, p).name = n
  <2> DEFINE g == Extended(EmptyGroup(n), block)
             h == [g EXCEPT !.profiles = <<p>>, !.profile = p]
  <2>1. block \in ValidBlock
    BY DEF ConfigAssumption, ValidBlock, KeyEntry
  <2>2. g \in Good /\ g.name = n /\ AddressOf(block[i].key) \in Values(g.addresses)
    BY <2>1, EmptyGood, ExtendedGood
  <2> HIDE DEF g
  <2>3. <<p>> \in Seq(Profiles) /\ p \in Values(<<p>>)
    <3>1. 1 \in DOMAIN <<p>> /\ <<p>>[1] = p
      OBVIOUS
    <3> QED BY <3>1 DEF Values
  <2>4. h \in Good /\ h.name = n /\ h.addresses = g.addresses
    BY <2>2, <2>3, ProfiledGood
  <2>5. Imported(n, block, i, p) = [h EXCEPT !.address = AddressOf(block[i].key)]
    BY <2>2 DEF Imported, g, Good, GroupSet
  <2> HIDE DEF h
  <2>6. AddressOf(block[i].key) \in Values(h.addresses)
    BY <2>2, <2>4
  <2>7. /\ [h EXCEPT !.address = AddressOf(block[i].key)] \in Good
        /\ [h EXCEPT !.address = AddressOf(block[i].key)].name = h.name
    BY <2>4, <2>6, AddressedGood
  <2> QED BY <2>4, <2>5, <2>7
<1>3. PICK g \in Good : groups = <<g>> /\ g.name = n
  BY <1>1, <1>2, EmptyGood
<1>4. ConfigOK(groups, active)
  <2>1. groups \in Seq(Good) /\ 1 \in DOMAIN groups /\ groups[1].name = n
    BY <1>3
  <2> QED BY <2>1, <1>1 DEF ConfigOK, Names
<1>5. file.groups = groups /\ file.active = active
  BY DEF ConfigInit
<1> QED BY <1>4, <1>5 DEF ConfigInv

\* The operations forget key pairs of sessions, they make none.
LEMMA ConfigSteps ==
  ASSUME ConfigInv, ConfigAssumption, ConfigStep
  PROVE  ConfigInv' /\ transient' \subseteq transient
<1> DEFINE OK == ConfigInv' /\ transient' \subseteq transient
<1>1. ASSUME NEW n \in GroupNames, NEW persist \in BOOLEAN
      PROVE  /\ \A block \in Blocks : AddKeys(n, block, persist) => OK
             /\ \A k \in Keys, a \in Aliases, activate \in BOOLEAN :
                  NewKeypair(n, k, a, activate, persist) => OK
             /\ \A a, b \in Aliases : RenameAlias(n, a, b, persist) => OK
  BY IdentitySteps DEF AddKeys, NewKeypair, RenameAlias
<1>2. ASSUME NEW n \in GroupNames
      PROVE  /\ \A k \in Keys, a \in Aliases : NewKeypairFails(n, k, a) => OK
             /\ \A a \in Aliases : RemoveAlias(n, a) => OK
  <2>1. TRUE \in BOOLEAN
    OBVIOUS
  <2> QED BY <2>1, IdentitySteps DEF NewKeypairFails, RemoveAlias
<1>3. ASSUME NEW n \in GroupNames, NEW p \in Profiles
      PROVE  /\ \A activate, persist \in BOOLEAN : NewProfile(n, p, activate, persist) => OK
             /\ RemoveProfile(n, p) => OK
  BY ProfileSteps DEF NewProfile, RemoveProfile
<1>4. ASSUME NEW n \in GroupNames
      PROVE  /\ \A block \in Blocks, profs \in ProfileBlocks, use, activate, persist \in BOOLEAN :
                  \A i \in DOMAIN block : NewGroup(n, block, profs, i, use, activate, persist) => OK
             /\ \A block \in Blocks, profs \in ProfileBlocks, use, activate \in BOOLEAN :
                  NewGroupFails(n, block, profs, use, activate) => OK
             /\ RemoveGroup(n) => OK
  <2>1. ASSUME NEW block \in Blocks, NEW profs \in ProfileBlocks, NEW use \in BOOLEAN,
               NEW activate \in BOOLEAN, NEW persist \in BOOLEAN, NEW i \in DOMAIN block,
               NewGroup(n, block, profs, i, use, activate, persist)
        PROVE  OK
    <3>1. transient' = transient
      BY <2>1 DEF NewGroup
    <3>2. ConfigInv'
      <4>1. \A b \in Blocks, ps \in ProfileBlocks, x, y, z \in BOOLEAN :
              \A j \in DOMAIN b : NewGroup(n, b, ps, j, x, y, z) => ConfigInv'
        BY GroupSteps
      <4> QED BY <2>1, <4>1
    <3> QED BY <3>1, <3>2
  <2>2. ASSUME NEW block \in Blocks, NEW profs \in ProfileBlocks, NEW use \in BOOLEAN,
               NEW activate \in BOOLEAN, NewGroupFails(n, block, profs, use, activate)
        PROVE  OK
    <3>1. transient' = transient
      BY <2>2 DEF NewGroupFails
    <3> QED BY <2>2, <3>1, GroupSteps
  <2>3. RemoveGroup(n) => OK
    <3>1. RemoveGroup(n) => transient' \subseteq transient
      BY DEF RemoveGroup
    <3>2. RemoveGroup(n) => ConfigInv'
      BY GroupSteps
    <3> QED BY <3>1, <3>2
  <2> QED BY <2>1, <2>2, <2>3
<1>5. ASSUME NEW n \in GroupNames, NEW p, NEW who
      PROVE  /\ \A persist \in BOOLEAN : MakeActive(n, p, who, persist) => OK
             /\ MakeActiveFails(n, p, who) => OK
  BY ActiveSteps DEF MakeActive, MakeActiveFails
<1>6. Save => OK
  BY DoneKeeps DEF Save, ConfigInv
<1> HIDE DEF OK
<1>7. ASSUME NEW n \in GroupNames, NEW persist \in BOOLEAN,
             \/ \E block \in Blocks : AddKeys(n, block, persist)
             \/ \E k \in Keys, a \in Aliases, activate \in BOOLEAN :
                  NewKeypair(n, k, a, activate, persist)
             \/ \E a, b \in Aliases : RenameAlias(n, a, b, persist)
      PROVE  OK
  BY <1>1, <1>7
<1>8. ASSUME NEW n \in GroupNames, NEW persist \in BOOLEAN,
             \/ \E p \in Profiles, activate \in BOOLEAN : NewProfile(n, p, activate, persist)
             \/ \E block \in Blocks, profs \in ProfileBlocks, use, activate \in BOOLEAN :
                  \E i \in DOMAIN block : NewGroup(n, block, profs, i, use, activate, persist)
             \/ \E p, who : MakeActive(n, p, who, persist)
      PROVE  OK
  BY <1>3, <1>4, <1>5, <1>8
<1>9. ASSUME NEW n \in GroupNames,
             \/ \E k \in Keys, a \in Aliases : NewKeypairFails(n, k, a)
             \/ \E a \in Aliases : RemoveAlias(n, a)
             \/ \E p \in Profiles : RemoveProfile(n, p)
             \/ \E block \in Blocks, profs \in ProfileBlocks, use, activate \in BOOLEAN :
                  NewGroupFails(n, block, profs, use, activate)
             \/ RemoveGroup(n)
             \/ \E p, who : MakeActiveFails(n, p, who)
      PROVE  OK
  BY <1>2, <1>3, <1>4, <1>5, <1>9
<1> QED
  <2>1. OK
    BY <1>6, <1>7, <1>8, <1>9 DEF ConfigStep
  <2> QED BY <2>1 DEF OK
------------------------------------------------------------------------------
(***************************************************************************)
(* Sessions: a request carries a JWT of its session, and a key pair is     *)
(* filed under the address of its seed.                                    *)
(***************************************************************************)
ZkInv ==
  /\ jwt \in [Sessions -> Jwts \union {NoJwt}]
  /\ \A s \in Sessions : jwt[s] # NoJwt => jwt[s].nonce = s
  /\ \A r \in requests : r.session \in Sessions /\ r.jwt.nonce = r.session
  /\ \A x \in transient :
       x.keypair.proof.nonce = x.keypair.session /\ x.address = ZkAddress(x.keypair.seed)

LEMMA Starts == ConfigAssumption /\ Init => ConfigInv /\ ZkInv
BY ConfigStarts DEF Init, ConfigInit, ZkInv

LEMMA Step ==
  ASSUME ConfigAssumption, ConfigInv, ZkInv, [Next]_vars
  PROVE  ConfigInv' /\ ZkInv'
<1>1. ASSUME UNCHANGED <<groups, active, file>>
      PROVE  ConfigInv'
  BY <1>1 DEF ConfigInv, ConfigOK
<1>2. CASE ConfigStep /\ UNCHANGED zkVars
  <2>1. ConfigInv' /\ transient' \subseteq transient
    BY <1>2, ConfigSteps
  <2> QED BY <1>2, <2>1 DEF ZkInv, zkVars
<1>3. CASE Restart
  <2>1. AnyReopen /\ \E n \in GroupNames : TRUE
    BY <1>3 DEF Restart, AnyReopen
  <2>2. ConfigInv'
    BY <2>1, ActiveSteps
  <2>3. transient' = {}
    BY <2>1 DEF AnyReopen, Reopen
  <2> QED BY <1>3, <2>2, <2>3 DEF ZkInv, Restart
<1>4. ASSUME NEW s \in Sessions, NEW j \in Jwts, ProcessJwt(s, j)
      PROVE  ConfigInv' /\ ZkInv'
  BY <1>1, <1>4 DEF ProcessJwt, ZkInv
<1>5. ASSUME NEW s \in Sessions, AskProof(s)
      PROVE  ConfigInv' /\ ZkInv'
  BY <1>1, <1>5 DEF AskProof, ZkInv
<1>6. ASSUME NEW r \in requests, ProofArrives(r)
      PROVE  ConfigInv' /\ ZkInv'
  <2>1. r.session \in Sessions /\ r.jwt.nonce = r.session
    BY DEF ZkInv
  <2>2. \A x \in transient' :
          x.keypair.proof.nonce = x.keypair.session /\ x.address = ZkAddress(x.keypair.seed)
    <3> DEFINE seed == SeedOf(jwt[r.session])
               kp == [session |-> r.session, proof |-> r.jwt, seed |-> seed]
               filed == [group |-> active, profile |-> Get(active).profile,
                         address |-> ZkAddress(seed), keypair |-> kp]
    <3>1. transient' \subseteq transient \union {filed}
      BY <1>6 DEF ProofArrives, AddTransient, PairFor
    <3>2. filed.keypair.proof.nonce = filed.keypair.session
          /\ filed.address = ZkAddress(filed.keypair.seed)
      BY <2>1
    <3> HIDE DEF filed
    <3> QED BY <3>1, <3>2 DEF ZkInv
  <2>3. UNCHANGED <<groups, active, file, jwt>> /\ requests' \subseteq requests
    BY <1>6 DEF ProofArrives
  <2> QED BY <1>1, <2>2, <2>3 DEF ZkInv
<1>7. ASSUME NEW r \in requests, ProofFails(r)
      PROVE  ConfigInv' /\ ZkInv'
  BY <1>1, <1>7 DEF ProofFails, ZkInv
<1>8. CASE UNCHANGED vars
  BY <1>1, <1>8 DEF vars, configVars, zkVars, ZkInv
<1> QED BY <1>2, <1>3, <1>4, <1>5, <1>6, <1>7, <1>8 DEF Next

\* Every state is well formed, in memory, in the file and in the sessions.
THEOREM Invariant == Spec => [](ConfigInv /\ ZkInv)
<1>1. Init => ConfigInv /\ ZkInv
  BY Starts, ConfigAssumption
<1>2. ConfigInv /\ ZkInv /\ [Next]_vars => (ConfigInv /\ ZkInv)'
  BY Step, ConfigAssumption
<1> QED BY <1>1, <1>2, PTL DEF Spec
------------------------------------------------------------------------------
\* Keys, addresses and aliases stay in line whatever is added, removed or left half done.
THEOREM StaysAligned == Spec => []Aligned
<1>1. ConfigInv => Aligned
  BY DEF ConfigInv, ConfigOK, Aligned, Good
<1> QED BY <1>1, Invariant, PTL

\* What is active exists, in memory and in the file.
THEOREM ActivesStayThere == Spec => []ActivesExist
<1>1. ASSUME NEW gs, NEW act, ConfigOK(gs, act)
      PROVE  ActiveIn(gs, act)
  BY <1>1 DEF ConfigOK, ActiveIn, Good, HasActives
<1>2. ConfigInv => ActivesExist
  BY <1>1 DEF ConfigInv, ActivesExist
<1> QED BY <1>2, Invariant, PTL

\* A signature for an address is made with the secret the address comes from.
THEOREM SignersOwnTheirKeys == Spec => []SignsWithOwnKey
<1>1. ASSUME ConfigInv, ZkInv
      PROVE  SignsWithOwnKey
  <2> SUFFICES ASSUME active \in Names(groups), NEW address,
                      Filed(address) # {} \/ address \in Values(Get(active).addresses)
               PROVE  Derives(SignerSeed(address), address)
    BY DEF SignsWithOwnKey
  <2>1. CASE Filed(address) # {}
    <3> DEFINE x == CHOOSE y \in Filed(address) : TRUE
    <3>1. x \in Filed(address)
      BY <2>1
    <3> HIDE DEF x
    <3>2. x \in transient /\ x.address = address
      BY <3>1 DEF Filed
    <3>3. address = ZkAddress(x.keypair.seed)
      BY <3>2, <1>1 DEF ZkInv
    <3> QED BY <2>1, <3>3 DEF SignerSeed, Derives, x
  <2>2. CASE Filed(address) = {} /\ address \in Values(Get(active).addresses)
    <3> DEFINE g == Get(active)
               i == Index(g.addresses, address)
    <3>1. g \in Good
      BY <1>1, GetGood DEF ConfigInv, ConfigOK, InGroup
    <3> HIDE DEF g
    <3>2. g.addresses \in Seq(Addresses) /\ AlignedGroup(g)
      BY <3>1 DEF Good, GroupSet
    <3>3. i \in 1..Len(g.addresses) /\ g.addresses[i] = address
      BY <2>2, <3>2, IndexFinds DEF g
    <3>4. address = AddressOf(g.keys[i])
      BY <3>2, <3>3 DEF AlignedGroup
    <3>5. SignerSeed(address) = g.keys[i]
      BY <2>2 DEF SignerSeed, g
    <3> QED BY <3>4, <3>5 DEF Derives
  <2> QED BY <2>1, <2>2
<1> QED BY <1>1, Invariant, PTL

\* A filed key pair's proof is one of its session's.
THEOREM ProofsBindTheirKeys == Spec => []ProofBindsKey
<1>1. ZkInv => ProofBindsKey
  BY DEF ZkInv, ProofBindsKey
<1> QED BY <1>1, Invariant, PTL
------------------------------------------------------------------------------
(***************************************************************************)
(* Aliases.  A step puts one group back, appends one, drops one or leaves  *)
(* the list alone.  No two groups have one name; so a group is found where *)
(* it was, or one place further to the front.  In the group that is put    *)
(* back an entry with an alias the group had before has the key and the    *)
(* address it had before, wherever it is now.                              *)
(***************************************************************************)
OneOfEach(gs) == \A i, j \in DOMAIN gs : gs[i].name = gs[j].name => i = j

NamesInv == OneOfEach(groups) /\ OneOfEach(file.groups)

Keeps(g, h) ==
  NoRepeats(g) =>
    \A a \in AliasNames(g) \intersect AliasNames(h) : StandsFor(h, a) = StandsFor(g, a)

KeepsKeys ==
  \A n \in Names(groups) \intersect Names(groups') :
    LET new == groups'[Position(groups', n)] IN
    NoRepeats(Get(n)) =>
      \A a \in AliasNames(Get(n)) \intersect AliasNames(new) :
        StandsFor(new, a) = StandsFor(Get(n), a)

PutsBack == \E g \in Good : InGroup(g.name) /\ groups' = Put(g) /\ Keeps(Get(g.name), g)
Appends == \E g \in Good : g.name \notin Names(groups) /\ groups' = Append(groups, g)
Drops == \E n \in Names(groups) : groups' = Drop(groups, Position(groups, n))

ListStep == PutsBack \/ Appends \/ Drops \/ groups' = groups

\* An entry with an old alias is an old entry: the alias stands for what it stood for.
LEMMA OldEntriesKeep ==
  ASSUME NEW g \in Good, NEW h \in Good,
         \A j \in 1..Len(h.aliases) :
           h.aliases[j].name \in AliasNames(g) =>
             \E i \in 1..Len(g.aliases) :
               /\ g.aliases[i].name = h.aliases[j].name
               /\ g.addresses[i] = h.addresses[j] /\ g.keys[i] = h.keys[j]
  PROVE  Keeps(g, h)
<1> SUFFICES ASSUME NoRepeats(g), NEW a \in AliasNames(g) \intersect AliasNames(h)
             PROVE  StandsFor(h, a) = StandsFor(g, a)
  BY DEF Keeps
<1> DEFINE j == AliasIndex(h, a)
           k == AliasIndex(g, a)
<1>1. g \in GroupSet /\ h \in GroupSet
  BY DEF Good
<1>2. j \in 1..Len(h.aliases) /\ h.aliases[j].name = a
  BY <1>1, AliasIndexFinds
<1>3. k \in 1..Len(g.aliases) /\ g.aliases[k].name = a
  BY <1>1, AliasIndexFinds
<1> HIDE DEF j, k
<1>4. PICK i \in 1..Len(g.aliases) :
        g.aliases[i].name = a /\ g.addresses[i] = h.addresses[j] /\ g.keys[i] = h.keys[j]
  BY <1>2
<1>5. i = k
  <2>1. DOMAIN g.aliases = 1..Len(g.aliases)
    BY <1>1 DEF GroupSet
  <2>2. AliasList(g)[i] = AliasList(g)[k] /\ DOMAIN AliasList(g) = 1..Len(g.aliases)
    BY <2>1, <1>3, <1>4 DEF AliasList
  <2> QED BY <2>2, <1>3, <1>4 DEF NoRepeats, Distinct
<1> QED BY <1>4, <1>5 DEF StandsFor, j, k

LEMMA SameListsKeep ==
  ASSUME NEW g \in Good, NEW h \in Good,
         h.aliases = g.aliases, h.addresses = g.addresses, h.keys = g.keys
  PROVE  Keeps(g, h)
BY OldEntriesKeep

LEMMA ExtendedKeeps ==
  ASSUME NEW g \in Good, NEW block \in ValidBlock, NEW h \in Good,
         h.aliases = Extended(g, block).aliases,
         h.addresses = Extended(g, block).addresses,
         h.keys = Extended(g, block).keys,
         \A i \in DOMAIN block : block[i].alias \notin AliasNames(g)
  PROVE  Keeps(g, h)
<1>1. /\ g.keys \in Seq(Keys) /\ g.addresses \in Seq(Addresses) /\ g.aliases \in Seq(AliasEntry)
      /\ Len(g.keys) = Len(g.aliases) /\ Len(g.addresses) = Len(g.aliases)
      /\ g \in GroupSet
  BY DEF Good, GroupSet, AlignedGroup
<1>2. /\ h.keys = g.keys \o KeysOf(block)
      /\ h.addresses = g.addresses \o AddressesOf(block)
      /\ h.aliases = g.aliases \o AliasesOf(block)
  BY <1>1 DEF Extended, GroupSet
<1>3. /\ KeysOf(block) \in Seq(Keys) /\ AddressesOf(block) \in Seq(Addresses)
      /\ AliasesOf(block) \in Seq(AliasEntry)
      /\ Len(KeysOf(block)) = Len(block) /\ Len(AddressesOf(block)) = Len(block)
      /\ Len(AliasesOf(block)) = Len(block) /\ Len(block) \in Nat
      /\ \A i \in 1..Len(block) : AliasesOf(block)[i].name = block[i].alias
  BY ExtendedLists
<1> DEFINE ks == KeysOf(block)
           as == AddressesOf(block)
           ls == AliasesOf(block)
           old == Len(g.aliases)
<1> HIDE DEF ks, as, ls
<1>4. \A i \in 1..old : h.keys[i] = g.keys[i]
  <2>1. \A i \in 1..(Len(g.keys) + Len(ks)) :
          (g.keys \o ks)[i] = IF i <= Len(g.keys) THEN g.keys[i] ELSE ks[i - Len(g.keys)]
    BY <1>1, <1>3, ConcatKeeps DEF ks
  <2> QED BY <2>1, <1>1, <1>2, <1>3 DEF ks
<1>5. \A i \in 1..old : h.addresses[i] = g.addresses[i]
  <2>1. \A i \in 1..(Len(g.addresses) + Len(as)) :
          (g.addresses \o as)[i] =
            IF i <= Len(g.addresses) THEN g.addresses[i] ELSE as[i - Len(g.addresses)]
    BY <1>1, <1>3, ConcatKeeps DEF as
  <2> QED BY <2>1, <1>1, <1>2, <1>3 DEF as
<1>6. /\ Len(h.aliases) = old + Len(ls)
      /\ \A i \in 1..(old + Len(ls)) :
           h.aliases[i] = IF i <= old THEN g.aliases[i] ELSE ls[i - old]
  <2>0. g.aliases \in Seq(AliasEntry) /\ ls \in Seq(AliasEntry)
    BY <1>1, <1>3 DEF ls
  <2>1. /\ Len(g.aliases \o ls) = Len(g.aliases) + Len(ls)
        /\ \A i \in 1..(Len(g.aliases) + Len(ls)) :
             (g.aliases \o ls)[i] = IF i <= Len(g.aliases) THEN g.aliases[i] ELSE ls[i - Len(g.aliases)]
    BY <2>0, ConcatKeeps
  <2>2. h.aliases = g.aliases \o ls
    BY <1>2 DEF ls
  <2> QED BY <2>1, <2>2
<1>7. ASSUME NEW j \in 1..Len(h.aliases), h.aliases[j].name \in AliasNames(g)
      PROVE  j \in 1..old
  <2> SUFFICES ASSUME j > old PROVE FALSE
    BY <1>1, <1>6
  <2> DEFINE i == j - old
  <2>1. i \in 1..Len(block) /\ h.aliases[j] = ls[i]
    BY <1>1, <1>3, <1>6 DEF ls
  <2> HIDE DEF i
  <2>2. h.aliases[j].name = block[i].alias /\ i \in DOMAIN block
    BY <2>1, <1>3 DEF ls, ValidBlock
  <2> QED BY <2>2, <1>7
<1>8. \A i \in 1..old : h.aliases[i] = g.aliases[i]
  BY <1>1, <1>3, <1>6 DEF ls
<1> HIDE DEF old
<1>9. \A j \in 1..Len(h.aliases) :
        h.aliases[j].name \in AliasNames(g) =>
          \E i \in 1..old :
            /\ g.aliases[i].name = h.aliases[j].name
            /\ g.addresses[i] = h.addresses[j] /\ g.keys[i] = h.keys[j]
  BY <1>4, <1>5, <1>7, <1>8
<1> QED BY <1>9, OldEntriesKeep DEF old

LEMMA RenamedKeeps ==
  ASSUME NEW g \in Good, NEW i \in 1..Len(g.aliases), NEW b \in Aliases, b \notin AliasNames(g)
  PROVE  Keeps(g, [g EXCEPT !.aliases[i].name = b])
<1> DEFINE h == [g EXCEPT !.aliases[i].name = b]
<1>1. h \in Good /\ g \in GroupSet /\ g.aliases \in Seq(AliasEntry)
  BY RenamedGood DEF Good, GroupSet
<1>2. /\ h.addresses = g.addresses /\ h.keys = g.keys
      /\ h.aliases = [g.aliases EXCEPT ![i].name = b]
  BY <1>1 DEF GroupSet
<1>3. /\ Len(h.aliases) = Len(g.aliases)
      /\ \A j \in 1..Len(g.aliases) : j # i => h.aliases[j] = g.aliases[j]
      /\ h.aliases[i].name = b
  <2>1. g.aliases[i] \in AliasEntry
    BY <1>1
  <2> HIDE DEF h
  <2> QED BY <1>1, <1>2, <2>1 DEF AliasEntry
<1> HIDE DEF h
<1>4. \A j \in 1..Len(h.aliases) :
        h.aliases[j].name \in AliasNames(g) =>
          \E k \in 1..Len(g.aliases) :
            /\ g.aliases[k].name = h.aliases[j].name
            /\ g.addresses[k] = h.addresses[j] /\ g.keys[k] = h.keys[j]
  BY <1>2, <1>3
<1> QED BY <1>1, <1>4, OldEntriesKeep DEF h

LEMMA WithoutIdentityKeeps ==
  ASSUME NEW g \in Good, NEW i \in 1..Len(g.aliases)
  PROVE  Keeps(g, WithoutIdentity(g, i))
<1> DEFINE h == WithoutIdentity(g, i)
           last == Len(g.aliases) - 1
<1>1. h \in Good
  BY WithoutIdentityGood
<1>2. /\ g \in GroupSet
      /\ g.keys \in Seq(Keys) /\ g.addresses \in Seq(Addresses) /\ g.aliases \in Seq(AliasEntry)
      /\ Len(g.keys) = Len(g.aliases) /\ Len(g.addresses) = Len(g.aliases)
  BY DEF Good, GroupSet, AlignedGroup
<1>3. /\ h.keys = Drop(g.keys, i) /\ h.addresses = Drop(g.addresses, i)
      /\ h.aliases = Drop(g.aliases, i)
  BY <1>2 DEF WithoutIdentity, GroupSet
<1> HIDE DEF h
<1>31. i \in 1..Len(g.keys) /\ i \in 1..Len(g.addresses)
  BY <1>2
<1>4. \A j \in 1..last : h.keys[j] = IF j < i THEN g.keys[j] ELSE g.keys[j + 1]
  BY <1>2, <1>3, <1>31, DropKeeps
<1>5. \A j \in 1..last : h.addresses[j] = IF j < i THEN g.addresses[j] ELSE g.addresses[j + 1]
  BY <1>2, <1>3, <1>31, DropKeeps
<1>6. /\ Len(h.aliases) = last
      /\ \A j \in 1..last : h.aliases[j] = IF j < i THEN g.aliases[j] ELSE g.aliases[j + 1]
  BY <1>2, <1>3, DropKeeps
<1>7. ASSUME NEW j \in 1..last
      PROVE  \E k \in 1..Len(g.aliases) :
               /\ g.aliases[k].name = h.aliases[j].name
               /\ g.addresses[k] = h.addresses[j] /\ g.keys[k] = h.keys[j]
  <2>1. j \in 1..Len(g.aliases) /\ j + 1 \in 1..Len(g.aliases)
    BY <1>2
  <2>2. CASE j < i
    BY <2>1, <2>2, <1>4, <1>5, <1>6
  <2>3. CASE ~(j < i)
    BY <2>1, <2>3, <1>4, <1>5, <1>6
  <2> QED BY <2>2, <2>3
<1> QED BY <1>1, <1>6, <1>7, OldEntriesKeep DEF h

(***************************************************************************)
(* What each operation does to the list.                                   *)
(***************************************************************************)
LEMMA PutsBackKeeping ==
  ASSUME NEW g \in Good, InGroup(g.name), Keeps(Get(g.name), g), groups' = Put(g)
  PROVE  PutsBack
BY DEF PutsBack

LEMMA IdentityLists ==
  ASSUME ConfigInv, ConfigAssumption, NEW n \in GroupNames, NEW persist \in BOOLEAN
  PROVE  /\ \A block \in Blocks : AddKeys(n, block, persist) => ListStep
         /\ \A k \in Keys, a \in Aliases, activate \in BOOLEAN :
              NewKeypair(n, k, a, activate, persist) => ListStep
         /\ \A k \in Keys, a \in Aliases : NewKeypairFails(n, k, a) => ListStep
         /\ \A a, b \in Aliases : RenameAlias(n, a, b, persist) => ListStep
         /\ \A a \in Aliases : RemoveAlias(n, a) => ListStep
<1>1. ASSUME InGroup(n)
      PROVE  Get(n) \in Good /\ Get(n).name = n
  BY <1>1, GetGood DEF ConfigInv, ConfigOK
<1>2. ASSUME NEW block \in Blocks, AddKeys(n, block, persist)
      PROVE  ListStep
  <2> DEFINE g == Extended(Get(n), block)
  <2>1. InGroup(n) /\ Get(n) \in Good /\ Get(n).name = n
    BY <1>1, <1>2 DEF AddKeys
  <2>2. block \in ValidBlock
    BY <1>2, ValidFromBlocks DEF AddKeys
  <2>3. g \in Good /\ g.name = n
    BY <2>1, <2>2, ExtendedGood
  <2>4. \A i \in DOMAIN block : block[i].alias \notin AliasNames(Get(n))
    BY <1>2 DEF AddKeys
  <2>5. Keeps(Get(n), g)
    BY <2>1, <2>2, <2>3, <2>4, ExtendedKeeps
  <2>6. groups' = Put(g)
    BY <1>2 DEF AddKeys, Done
  <2> HIDE DEF g
  <2> QED BY <2>1, <2>3, <2>5, <2>6, PutsBackKeeping DEF ListStep
<1>3. ASSUME NEW k \in Keys, NEW a \in Aliases, NEW activate \in BOOLEAN,
             InGroup(n), a \notin AliasNames(Get(n)), groups' = NewIdentity(n, k, a, activate)
      PROVE  ListStep
  <2> DEFINE block == <<[key |-> k, alias |-> a]>>
             g == Extended(Get(n), block)
             h == IF activate THEN [g EXCEPT !.address = AddressOf(k)] ELSE g
  <2>1. Get(n) \in Good /\ Get(n).name = n
    BY <1>1, <1>3
  <2>2. /\ block \in ValidBlock /\ 1 \in DOMAIN block /\ block[1].key = k
        /\ \A i \in DOMAIN block : block[i].alias = a
    BY DEF ValidBlock, KeyEntry
  <2> HIDE DEF block
  <2>3. g \in Good /\ g.name = n /\ AddressOf(k) \in Values(g.addresses)
    BY <2>1, <2>2, ExtendedGood
  <2>4. h \in Good /\ h.name = n
    <3> HIDE DEF g
    <3> QED BY <2>3, AddressedGood
  <2>5. h.aliases = g.aliases /\ h.addresses = g.addresses /\ h.keys = g.keys
    <3> HIDE DEF g
    <3> QED BY <2>3 DEF Good, GroupSet
  <2>6. groups' = Put(h)
    BY <1>3 DEF NewIdentity, block
  <2> HIDE DEF h
  <2>7. Keeps(Get(n), h)
    BY <2>1, <2>2, <2>4, <2>5, <1>3, ExtendedKeeps
  <2> QED BY <1>3, <2>4, <2>6, <2>7, PutsBackKeeping DEF ListStep
<1>4. ASSUME NEW k \in Keys, NEW a \in Aliases, NEW activate \in BOOLEAN,
             NewKeypair(n, k, a, activate, persist)
      PROVE  ListStep
  BY <1>3, <1>4 DEF NewKeypair, IsNew, Done
<1>5. ASSUME NEW k \in Keys, NEW a \in Aliases, NewKeypairFails(n, k, a)
      PROVE  ListStep
  BY <1>3, <1>5 DEF NewKeypairFails, IsNew, HalfDone, Done
<1>6. ASSUME NEW a \in Aliases, InGroup(n), a \in AliasNames(Get(n))
      PROVE  AliasIndex(Get(n), a) \in 1..Len(Get(n).aliases)
  BY <1>1, <1>6, AliasIndexFinds DEF Good
<1>7. ASSUME NEW a \in Aliases, NEW b \in Aliases, RenameAlias(n, a, b, persist)
      PROVE  ListStep
  <2> DEFINE i == AliasIndex(Get(n), a)
             g == [Get(n) EXCEPT !.aliases[i].name = b]
  <2>1. InGroup(n) /\ groups' = Put(g) /\ b \notin AliasNames(Get(n))
    BY <1>7 DEF RenameAlias, Done
  <2>2. Get(n) \in Good /\ Get(n).name = n /\ i \in 1..Len(Get(n).aliases)
    BY <1>1, <1>6, <1>7 DEF RenameAlias
  <2> HIDE DEF i
  <2>3. g \in Good /\ g.name = n /\ Keeps(Get(n), g)
    BY <2>1, <2>2, RenamedGood, RenamedKeeps
  <2> HIDE DEF g
  <2> QED BY <2>1, <2>3, PutsBackKeeping DEF ListStep
<1>8. ASSUME NEW a \in Aliases, RemoveAlias(n, a)
      PROVE  ListStep
  <2> DEFINE i == AliasIndex(Get(n), a)
             g == WithoutIdentity(Get(n), i)
  <2>1. InGroup(n) /\ groups' = Put(g)
    BY <1>8 DEF RemoveAlias, Done
  <2>2. Get(n) \in Good /\ Get(n).name = n /\ i \in 1..Len(Get(n).aliases)
    BY <1>1, <1>6, <1>8 DEF RemoveAlias
  <2> HIDE DEF i
  <2>3. g \in Good /\ g.name = n /\ Keeps(Get(n), g)
    BY <2>2, WithoutIdentityGood, WithoutIdentityKeeps
  <2> HIDE DEF g
  <2> QED BY <2>1, <2>3, PutsBackKeeping DEF ListStep
<1> QED BY <1>2, <1>4, <1>5, <1>7, <1>8

\* A profile or an address of a group touches none of its identities.
LEMMA OtherLists ==
  ASSUME ConfigInv, NEW n \in GroupNames
  PROVE  /\ \A p \in Profiles, activate, persist \in BOOLEAN :
              NewProfile(n, p, activate, persist) => ListStep
         /\ \A p \in Profiles : RemoveProfile(n, p) => ListStep
         /\ \A p, who : \A persist \in BOOLEAN : MakeActive(n, p, who, persist) => ListStep
         /\ \A p, who : MakeActiveFails(n, p, who) => ListStep
         /\ RemoveGroup(n) => ListStep
         /\ Save => ListStep
<1>1. ASSUME InGroup(n)
      PROVE  Get(n) \in Good /\ Get(n).name = n
  BY <1>1, GetGood DEF ConfigInv, ConfigOK
<1>2. ASSUME NEW h \in Good, h.name = n, InGroup(n), groups' = Put(h),
             h.aliases = Get(n).aliases, h.addresses = Get(n).addresses, h.keys = Get(n).keys
      PROVE  ListStep
  <2>1. Keeps(Get(n), h)
    BY <1>1, <1>2, SameListsKeep
  <2> QED BY <1>2, <2>1, PutsBackKeeping DEF ListStep
<1>3. ASSUME NEW p \in Profiles, NEW activate \in BOOLEAN, NEW persist \in BOOLEAN,
             NewProfile(n, p, activate, persist)
      PROVE  ListStep
  <2>1. InGroup(n) /\ groups' = Put(WithProfile(Get(n), p, activate))
    BY <1>3 DEF NewProfile, Done
  <2>2. WithProfile(Get(n), p, activate) \in Good /\ WithProfile(Get(n), p, activate).name = n
    BY <1>1, <2>1, WithProfileGood
  <2>3. /\ WithProfile(Get(n), p, activate).aliases = Get(n).aliases
        /\ WithProfile(Get(n), p, activate).addresses = Get(n).addresses
        /\ WithProfile(Get(n), p, activate).keys = Get(n).keys
    BY <1>1, <2>1 DEF WithProfile, Good, GroupSet
  <2> QED BY <1>2, <2>1, <2>2, <2>3
<1>4. ASSUME NEW p \in Profiles, RemoveProfile(n, p)
      PROVE  ListStep
  <2>1. InGroup(n) /\ groups' = Put(WithoutProfile(Get(n), p)) /\ p \in Values(Get(n).profiles)
    BY <1>4 DEF RemoveProfile, Done
  <2>2. WithoutProfile(Get(n), p) \in Good /\ WithoutProfile(Get(n), p).name = n
    BY <1>1, <2>1, WithoutProfileGood
  <2>3. /\ WithoutProfile(Get(n), p).aliases = Get(n).aliases
        /\ WithoutProfile(Get(n), p).addresses = Get(n).addresses
        /\ WithoutProfile(Get(n), p).keys = Get(n).keys
    BY <1>1, <2>1 DEF WithoutProfile, Good, GroupSet
  <2> QED BY <1>2, <2>1, <2>2, <2>3
<1>5. ASSUME NEW p, InGroup(n), p \in {NoName} \union Values(Get(n).profiles)
      PROVE  /\ Profiled(Get(n), p) \in Good /\ Profiled(Get(n), p).name = n
             /\ Profiled(Get(n), p).address = Get(n).address
             /\ Profiled(Get(n), p).aliases = Get(n).aliases
             /\ Profiled(Get(n), p).addresses = Get(n).addresses
             /\ Profiled(Get(n), p).keys = Get(n).keys
  <2>1. Get(n) \in Good /\ Get(n).name = n
    BY <1>1, <1>5
  <2>2. /\ Profiled(Get(n), p).aliases = Get(n).aliases
        /\ Profiled(Get(n), p).keys = Get(n).keys
    BY <2>1 DEF Profiled, Good, GroupSet
  <2>3. /\ Profiled(Get(n), p) \in Good /\ Profiled(Get(n), p).name = Get(n).name
        /\ Profiled(Get(n), p).address = Get(n).address
        /\ Profiled(Get(n), p).addresses = Get(n).addresses
    BY <1>5, <2>1, ProfileInUseGood
  <2> QED BY <2>1, <2>2, <2>3
<1>6. ASSUME NEW p, NEW who, NEW persist \in BOOLEAN, MakeActive(n, p, who, persist)
      PROVE  ListStep
  <2> DEFINE h == Profiled(Get(n), p)
             g == [h EXCEPT !.address = Chosen(Get(n), who)]
  <2>1. InGroup(n) /\ p \in {NoName} \union Values(Get(n).profiles) /\ Here(Get(n), who)
    BY <1>6 DEF MakeActive
  <2>2. groups' = Put(g)
    BY <1>6 DEF MakeActive, Done
  <2>3. /\ h \in Good /\ h.name = n /\ h.address = Get(n).address
        /\ h.aliases = Get(n).aliases /\ h.addresses = Get(n).addresses /\ h.keys = Get(n).keys
    BY <1>5, <2>1
  <2> HIDE DEF h
  <2>4. g \in Good /\ g.name = n
    BY <1>1, <2>1, <2>3, ChosenGood
  <2>5. g.aliases = h.aliases /\ g.addresses = h.addresses /\ g.keys = h.keys
    BY <2>3 DEF Good, GroupSet
  <2> HIDE DEF g
  <2> QED BY <1>2, <2>1, <2>2, <2>3, <2>4, <2>5
<1>7. ASSUME NEW p, NEW who, MakeActiveFails(n, p, who)
      PROVE  ListStep
  <2>1. CASE groups' = groups
    BY <2>1 DEF ListStep
  <2>2. CASE p \in {NoName} \union Values(Get(n).profiles) /\ groups' = Put(Profiled(Get(n), p))
    <3>1. InGroup(n)
      BY <1>7 DEF MakeActiveFails
    <3> QED BY <1>2, <1>5, <2>2, <3>1
  <2> QED BY <1>7, <2>1, <2>2 DEF MakeActiveFails, HalfDone, Done
<1>8. RemoveGroup(n) => ListStep
  BY DEF RemoveGroup, Done, ListStep, Drops, InGroup
<1>9. Save => ListStep
  BY DEF Save, Done, ListStep
<1> QED BY <1>3, <1>4, <1>6, <1>7, <1>8, <1>9

LEMMA GroupLists ==
  ASSUME ConfigAssumption, NEW n \in GroupNames,
         NEW block \in Blocks, NEW profs \in ProfileBlocks,
         NEW use \in BOOLEAN, NEW activate \in BOOLEAN
  PROVE  /\ \A persist \in BOOLEAN : \A i \in DOMAIN block :
              NewGroup(n, block, profs, i, use, activate, persist) => ListStep
         /\ NewGroupFails(n, block, profs, use, activate) => ListStep
<1>1. ASSUME NEW g \in Good, g.name = n, n \notin Names(groups), groups' = Append(groups, g)
      PROVE  ListStep
  BY <1>1 DEF ListStep, Appends
<1>2. EmptyGroup(n) \in Good /\ EmptyGroup(n).name = n
  BY EmptyGood
<1>3. profs \in Seq(Profiles)
  BY DEF ConfigAssumption
<1>4. ASSUME NEW some \in Seq(Profiles), Valid(block)
      PROVE  LET g == WithProfiles(Extended(EmptyGroup(n), block), some, use) IN
             /\ g \in Good /\ g.name = n
             /\ \A i \in DOMAIN block : AddressOf(block[i].key) \in Values(g.addresses)
  <2> DEFINE h == Extended(EmptyGroup(n), block)
  <2>1. block \in ValidBlock
    BY <1>4, ValidFromBlocks DEF Valid
  <2>2. /\ h \in Good /\ h.name = n
        /\ \A i \in DOMAIN block : AddressOf(block[i].key) \in Values(h.addresses)
    BY <1>2, <2>1, ExtendedGood
  <2>3. h.profile = NoName
    BY DEF Extended, EmptyGroup
  <2> HIDE DEF h
  <2>4. /\ WithProfiles(h, some, use) \in Good
        /\ WithProfiles(h, some, use).name = h.name
        /\ WithProfiles(h, some, use).addresses = h.addresses
    BY <2>2, <2>3, WithProfilesGood
  <2> QED BY <2>2, <2>4 DEF h
<1>5. ASSUME NEW persist \in BOOLEAN, NEW i \in DOMAIN block,
             NewGroup(n, block, profs, i, use, activate, persist)
      PROVE  ListStep
  <2> DEFINE g == WithProfiles(Extended(EmptyGroup(n), block), profs, use)
             h == [g EXCEPT !.address = AddressOf(block[i].key)]
  <2>1. g \in Good /\ g.name = n /\ AddressOf(block[i].key) \in Values(g.addresses)
    BY <1>3, <1>4, <1>5 DEF NewGroup
  <2>2. groups' = Append(groups, h) /\ n \notin Names(groups)
    BY <1>5 DEF NewGroup, Done
  <2> HIDE DEF g
  <2>3. h \in Good /\ h.name = n
    BY <2>1, AddressedGood
  <2> HIDE DEF h
  <2> QED BY <1>1, <2>2, <2>3
<1>6. ASSUME NewGroupFails(n, block, profs, use, activate)
      PROVE  ListStep
  <2>1. n \notin Names(groups)
    BY <1>6 DEF NewGroupFails
  <2>2. CASE groups' = Append(groups, EmptyGroup(n))
    BY <1>1, <1>2, <2>1, <2>2
  <2>3. ASSUME NEW some \in Seq(Profiles), Valid(block),
               groups' = Append(groups, WithProfiles(Extended(EmptyGroup(n), block), some, use))
        PROVE  ListStep
    BY <1>1, <1>4, <2>1, <2>3
  <2>4. \A i \in DOMAIN profs : SubSeq(profs, 1, i - 1) \in Seq(Profiles)
    BY <1>3
  <2> QED BY <1>3, <1>6, <2>2, <2>3, <2>4 DEF NewGroupFails, HalfDone, Done
<1> QED BY <1>5, <1>6

FileFollows == file' \in {file, [groups |-> groups', active |-> active']}

LEMMA EveryListStep ==
  ASSUME ConfigInv, ConfigAssumption, ConfigStep
  PROVE  ListStep /\ FileFollows
<1> DEFINE OK == ListStep /\ FileFollows
<1>0. ASSUME NEW gs, NEW act, NEW persist, Done(gs, act, persist)
      PROVE  FileFollows
  BY <1>0 DEF Done, FileFollows
<1>1. ASSUME NEW n \in GroupNames, NEW persist \in BOOLEAN
      PROVE  /\ \A block \in Blocks : AddKeys(n, block, persist) => OK
             /\ \A k \in Keys, a \in Aliases, activate \in BOOLEAN :
                  NewKeypair(n, k, a, activate, persist) => OK
             /\ \A a, b \in Aliases : RenameAlias(n, a, b, persist) => OK
  BY <1>0, IdentityLists DEF AddKeys, NewKeypair, RenameAlias
<1>2. ASSUME NEW n \in GroupNames
      PROVE  /\ \A k \in Keys, a \in Aliases : NewKeypairFails(n, k, a) => OK
             /\ \A a \in Aliases : RemoveAlias(n, a) => OK
  <2>1. TRUE \in BOOLEAN
    OBVIOUS
  <2> QED BY <1>0, <2>1, IdentityLists DEF NewKeypairFails, RemoveAlias, HalfDone
<1>3. ASSUME NEW n \in GroupNames
      PROVE  /\ \A p \in Profiles, activate, persist \in BOOLEAN :
                  NewProfile(n, p, activate, persist) => OK
             /\ \A p \in Profiles : RemoveProfile(n, p) => OK
             /\ RemoveGroup(n) => OK
  BY <1>0, OtherLists DEF NewProfile, RemoveProfile, RemoveGroup
<1>4. ASSUME NEW n \in GroupNames, NEW block \in Blocks, NEW profs \in ProfileBlocks,
             NEW use \in BOOLEAN, NEW activate \in BOOLEAN
      PROVE  /\ \A persist \in BOOLEAN : \A i \in DOMAIN block :
                  NewGroup(n, block, profs, i, use, activate, persist) => OK
             /\ NewGroupFails(n, block, profs, use, activate) => OK
  BY <1>0, GroupLists DEF NewGroup, NewGroupFails, HalfDone
<1>5. ASSUME NEW n \in GroupNames, NEW p, NEW who
      PROVE  /\ \A persist \in BOOLEAN : MakeActive(n, p, who, persist) => OK
             /\ MakeActiveFails(n, p, who) => OK
  BY <1>0, OtherLists DEF MakeActive, MakeActiveFails, HalfDone
<1>6. Save => OK
  BY <1>0 DEF Save, Done, ListStep
<1> HIDE DEF OK
<1>7. ASSUME NEW n \in GroupNames, NEW persist \in BOOLEAN,
             \/ \E block \in Blocks : AddKeys(n, block, persist)
             \/ \E k \in Keys, a \in Aliases, activate \in BOOLEAN :
                  NewKeypair(n, k, a, activate, persist)
             \/ \E a, b \in Aliases : RenameAlias(n, a, b, persist)
      PROVE  OK
  BY <1>1, <1>7
<1>8. ASSUME NEW n \in GroupNames, NEW persist \in BOOLEAN,
             \/ \E p \in Profiles, activate \in BOOLEAN : NewProfile(n, p, activate, persist)
             \/ \E block \in Blocks, profs \in ProfileBlocks, use, activate \in BOOLEAN :
                  \E i \in DOMAIN block : NewGroup(n, block, profs, i, use, activate, persist)
             \/ \E p, who : MakeActive(n, p, who, persist)
      PROVE  OK
  BY <1>3, <1>4, <1>5, <1>8
<1>9. ASSUME NEW n \in GroupNames,
             \/ \E k \in Keys, a \in Aliases : NewKeypairFails(n, k, a)
             \/ \E a \in Aliases : RemoveAlias(n, a)
             \/ \E p \in Profiles : RemoveProfile(n, p)
             \/ \E block \in Blocks, profs \in ProfileBlocks, use, activate \in BOOLEAN :
                  NewGroupFails(n, block, profs, use, activate)
             \/ RemoveGroup(n)
             \/ \E p, who : MakeActiveFails(n, p, who)
      PROVE  OK
  BY <1>2, <1>3, <1>4, <1>5, <1>9
<1> QED
  <2>1. OK
    BY <1>6, <1>7, <1>8, <1>9 DEF ConfigStep
  <2> QED BY <2>1 DEF OK

\* With one group of each name a group's place is where its name is.
LEMMA OnePlace ==
  ASSUME NEW gs, OneOfEach(gs), NEW i \in DOMAIN gs
  PROVE  Position(gs, gs[i].name) = i
<1>1. \E j \in DOMAIN gs : gs[j].name = gs[i].name
  OBVIOUS
<1>2. /\ Position(gs, gs[i].name) \in DOMAIN gs
      /\ gs[Position(gs, gs[i].name)].name = gs[i].name
  BY <1>1 DEF Position
<1> QED BY <1>2 DEF OneOfEach

LEMMA ListStepKeeps ==
  ASSUME groups \in Seq(Good), OneOfEach(groups), ListStep
  PROVE  OneOfEach(groups') /\ KeepsKeys
<1>1. ASSUME OneOfEach(groups'),
             \A i \in DOMAIN groups, j \in DOMAIN groups' :
               groups[i].name = groups'[j].name => Keeps(groups[i], groups'[j])
      PROVE  KeepsKeys
  <2> SUFFICES ASSUME NEW n \in Names(groups) \intersect Names(groups')
               PROVE  Keeps(Get(n), groups'[Position(groups', n)])
    BY DEF KeepsKeys, Keeps
  <2>1. PICK i \in DOMAIN groups : groups[i].name = n
    BY DEF Names
  <2>2. PICK j \in DOMAIN groups' : groups'[j].name = n
    BY DEF Names
  <2>3. Position(groups, n) = i /\ Position(groups', n) = j
    BY <1>1, <2>1, <2>2, OnePlace
  <2> QED BY <1>1, <2>1, <2>2, <2>3 DEF Get
<1>2. \A i \in DOMAIN groups : groups[i] \in Good /\ Keeps(groups[i], groups[i])
  BY DEF Keeps
<1>3. \A i, j \in DOMAIN groups : groups[i].name = groups[j].name => i = j
  BY DEF OneOfEach
<1>4. CASE PutsBack
  <2>1. PICK g \in Good : InGroup(g.name) /\ groups' = Put(g) /\ Keeps(Get(g.name), g)
    BY <1>4 DEF PutsBack
  <2>2. PICK k \in DOMAIN groups : groups[k].name = g.name
    BY <2>1 DEF InGroup, Names
  <2>3. Position(groups, g.name) = k /\ Get(g.name) = groups[k]
    BY <2>2, OnePlace DEF Get
  <2>4. /\ DOMAIN groups' = DOMAIN groups /\ groups'[k] = g
        /\ \A j \in DOMAIN groups : j # k => groups'[j] = groups[j]
    BY <2>1, <2>2, <2>3 DEF Put
  <2>5. \A j \in DOMAIN groups : groups'[j].name = groups[j].name
    BY <2>2, <2>4
  <2>6. OneOfEach(groups')
    BY <1>3, <2>4, <2>5 DEF OneOfEach
  <2>7. ASSUME NEW i \in DOMAIN groups, NEW j \in DOMAIN groups', groups[i].name = groups'[j].name
        PROVE  Keeps(groups[i], groups'[j])
    <3>1. i = j
      BY <1>3, <2>4, <2>5, <2>7
    <3> QED BY <1>2, <2>1, <2>3, <2>4, <3>1
  <2> QED BY <1>1, <2>6, <2>7
<1>5. CASE Appends
  <2>1. PICK g \in Good : g.name \notin Names(groups) /\ groups' = Append(groups, g)
    BY <1>5 DEF Appends
  <2>2. /\ DOMAIN groups' = 1..(Len(groups) + 1) /\ groups'[Len(groups) + 1] = g
        /\ \A j \in 1..Len(groups) : groups'[j] = groups[j]
        /\ DOMAIN groups = 1..Len(groups) /\ Len(groups) \in Nat
    BY <2>1
  <2>3. \A j \in 1..Len(groups) : groups[j].name # g.name
    BY <2>1, <2>2 DEF Names
  <2>4. \A j \in DOMAIN groups' : j \in DOMAIN groups \/ (j = Len(groups) + 1 /\ groups'[j] = g)
    BY <2>2
  <2>5. OneOfEach(groups')
    BY <1>3, <2>2, <2>3, <2>4 DEF OneOfEach
  <2>6. ASSUME NEW i \in DOMAIN groups, NEW j \in DOMAIN groups', groups[i].name = groups'[j].name
        PROVE  Keeps(groups[i], groups'[j])
    <3>1. j \in DOMAIN groups
      BY <2>2, <2>3, <2>4, <2>6
    <3> QED BY <1>2, <1>3, <2>2, <2>6, <3>1
  <2> QED BY <1>1, <2>5, <2>6
<1>6. CASE Drops
  <2>1. PICK n \in Names(groups) : groups' = Drop(groups, Position(groups, n))
    BY <1>6 DEF Drops
  <2>2. PICK k \in DOMAIN groups : groups[k].name = n
    BY DEF Names
  <2>3. groups' = Drop(groups, k) /\ k \in 1..Len(groups)
    BY <2>1, <2>2, OnePlace
  <2>4. /\ Len(Drop(groups, k)) = Len(groups) - 1 /\ Drop(groups, k) \in Seq(Good)
        /\ \A j \in 1..(Len(groups) - 1) :
             Drop(groups, k)[j] = IF j < k THEN groups[j] ELSE groups[j + 1]
    BY <2>3, DropKeeps
  <2>5. /\ DOMAIN groups' = 1..(Len(groups) - 1)
        /\ \A j \in 1..(Len(groups) - 1) :
             groups'[j] = IF j < k THEN groups[j] ELSE groups[j + 1]
        /\ DOMAIN groups = 1..Len(groups) /\ Len(groups) \in Nat
    BY <2>3, <2>4
  <2> DEFINE from(j) == IF j < k THEN j ELSE j + 1
  <2>6. \A j \in DOMAIN groups' : from(j) \in DOMAIN groups /\ groups'[j] = groups[from(j)]
    BY <2>3, <2>5
  <2>7. \A i, j \in DOMAIN groups' : from(i) = from(j) => i = j
    BY <2>3, <2>5
  <2> HIDE DEF from
  <2>8. OneOfEach(groups')
    BY <1>3, <2>6, <2>7 DEF OneOfEach
  <2>9. ASSUME NEW i \in DOMAIN groups, NEW j \in DOMAIN groups', groups[i].name = groups'[j].name
        PROVE  Keeps(groups[i], groups'[j])
    <3>1. i = from(j)
      BY <1>3, <2>6, <2>9
    <3> QED BY <1>2, <2>6, <3>1
  <2> QED BY <1>1, <2>8, <2>9
<1>7. CASE groups' = groups
  <2>1. OneOfEach(groups')
    BY <1>7
  <2>2. \A i, j \in DOMAIN groups : groups[i].name = groups[j].name => Keeps(groups[i], groups[j])
    BY <1>2, <1>3
  <2> QED BY <1>1, <1>7, <2>1, <2>2
<1> QED BY <1>4, <1>5, <1>6, <1>7 DEF ListStep

LEMMA NamesStep ==
  ASSUME ConfigAssumption, ConfigInv, NamesInv, [Next]_vars
  PROVE  NamesInv' /\ [groups' # file.groups => KeepsKeys]_configVars
<1>1. CASE ConfigStep
  <2>1. ListStep /\ FileFollows
    BY <1>1, EveryListStep
  <2>2. OneOfEach(groups') /\ KeepsKeys
    BY <2>1, ListStepKeeps DEF ConfigInv, ConfigOK, NamesInv
  <2>3. file'.groups \in {file.groups, groups'}
    BY <2>1 DEF FileFollows
  <2> QED BY <2>2, <2>3 DEF NamesInv
<1>2. CASE AnyReopen
  <2>1. PICK n \in GroupNames, persist \in BOOLEAN : Reopen(n, persist)
    BY <1>2 DEF AnyReopen
  <2>2. groups' = file.groups /\ file'.groups = file.groups
    BY <2>1 DEF Reopen, Done
  <2> QED BY <2>2 DEF NamesInv
<1>3. CASE UNCHANGED <<groups, file>>
  <2>1. OneOfEach(groups') /\ KeepsKeys
    BY <1>3, ListStepKeeps DEF ListStep, ConfigInv, ConfigOK, NamesInv
  <2> QED BY <1>3, <2>1 DEF NamesInv
<1> QED BY <1>1, <1>2, <1>3
        DEF Next, Restart, ProcessJwt, AskProof, ProofArrives, ProofFails, vars, configVars

\* An alias stands for the same identity whatever is done around it.
THEOREM AliasesStandStill == Spec => AliasesKeepTheirKeys
<1>1. Init => NamesInv
  <2> SUFFICES ASSUME Init PROVE NamesInv
    OBVIOUS
  <2>1. PICK g : groups = <<g>>
    BY DEF Init, ConfigInit
  <2>2. file.groups = groups
    BY DEF Init, ConfigInit
  <2> QED BY <2>1, <2>2 DEF NamesInv, OneOfEach
<1>2. ConfigInv /\ NamesInv /\ [Next]_vars
        => NamesInv' /\ [groups' # file.groups => KeepsKeys]_configVars
  BY NamesStep, ConfigAssumption
<1>3. Spec => []ConfigInv
  BY Invariant, PTL
<1>4. Spec => [][groups' # file.groups => KeepsKeys]_configVars
  BY <1>1, <1>2, <1>3, PTL DEF Spec
<1> QED BY <1>4 DEF AliasesKeepTheirKeys, KeepsKeys
=============================================================================
