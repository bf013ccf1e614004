---------------------------- MODULE Configuration ----------------------------
(***************************************************************************)
(* PysuiConfiguration, PysuiConfigModel and ProfileGroup: groups of keys,  *)
(* addresses, aliases and profiles in memory, and the file they are saved  *)
(* to.  A group keeps its identities in three lists that belong together   *)
(* by index.                                                               *)
(*                                                                         *)
(* No operation awaits anything, so each is a step.  An operation that     *)
(* raises before it has changed anything is left out; the three that raise *)
(* half way through have an action for it.  Urls and protocols are data.   *)
(***************************************************************************)
EXTENDS Naturals, Sequences

CONSTANTS
  GroupNames, Profiles, Keys, Aliases,
  NoName,       \* the empty string
  BadKey,       \* a key string that cannot be parsed
  Blocks,       \* the blocks of keys and aliases that are added
  ProfileBlocks, \* the blocks of profiles
  Imports,      \* the blocks that a Sui configuration may hold
  MaxIdentities, \* bound: identities in a group
  MaxOps        \* bound: operations

ASSUME ConfigAssumption ==
  /\ NoName \notin GroupNames \union Profiles
  /\ BadKey \notin Keys
  /\ MaxIdentities \in Nat /\ MaxOps \in Nat
  /\ Blocks \subseteq Seq([key : Keys \union {BadKey}, alias : Aliases])
  /\ Imports \subseteq Seq([key : Keys, alias : Aliases]) \ {<<>>}
  /\ ProfileBlocks \subseteq Seq(Profiles)

VARIABLES
  groups,     \* _model.groups
  active,     \* _model.group_active
  file,       \* PysuiConfig.json
  transient,  \* key pairs of zkLogin sessions, in memory only
  ops         \* operations so far

configVars == <<groups, active, file, transient, ops>>

\* The address is a hash of the public key.
AddressOf(k) == <<"0x", k>>
NoAddress == <<>>

EmptyGroup(n) ==
  [name |-> n, profile |-> NoName, address |-> NoAddress,
   aliases |-> <<>>, keys |-> <<>>, addresses |-> <<>>, profiles |-> <<>>]

KeysOf(block) == [i \in DOMAIN block |-> block[i].key]
AddressesOf(block) == [i \in DOMAIN block |-> AddressOf(block[i].key)]

\* An alias entry holds the public key too.
AliasesOf(block) == [i \in DOMAIN block |-> [name |-> block[i].alias, key |-> block[i].key]]

Values(s) == {s[i] : i \in DOMAIN s}
AliasNames(g) == {g.aliases[i].name : i \in DOMAIN g.aliases}
Names(gs) == {gs[i].name : i \in DOMAIN gs}

Drop(s, i) == [j \in 1..(Len(s) - 1) |-> IF j < i THEN s[j] ELSE s[j + 1]]
FirstOr(s, default) == IF s = <<>> THEN default ELSE s[1]

\* The first entry is the one that is found.
Index(s, x) == CHOOSE i \in DOMAIN s : s[i] = x /\ \A j \in DOMAIN s : s[j] = x => i <= j
AliasIndex(g, a) ==
  CHOOSE i \in DOMAIN g.aliases :
    g.aliases[i].name = a /\ \A j \in DOMAIN g.aliases : g.aliases[j].name = a => i <= j

Position(gs, n) == CHOOSE i \in DOMAIN gs : gs[i].name = n
Get(n) == groups[Position(groups, n)]
Put(g) == [groups EXCEPT ![Position(groups, g.name)] = g]

\* in_group, or the active group.
InGroup(n) == n \in Names(groups)

\* What an operation leaves behind; it is written if the caller persists.
Done(gs, act, persist) ==
  /\ ops < MaxOps
  /\ groups' = gs /\ active' = act
  /\ file' = IF persist THEN [groups |-> gs, active |-> act] ELSE file
  /\ ops' = ops + 1

HalfDone(gs, act) == Done(gs, act, FALSE)
------------------------------------------------------------------------------
(***************************************************************************)
(* Identities.                                                             *)
(***************************************************************************)
\* Mutant: in front.
Prefixed(g, block) ==
  [g EXCEPT !.keys = KeysOf(block) \o @,
            !.addresses = AddressesOf(block) \o @,
            !.aliases = @ \o AliasesOf(block)]

Extended(g, block) ==
  [g EXCEPT !.keys = @ \o KeysOf(block),
            !.addresses = @ \o AddressesOf(block),
            !.aliases = @ \o AliasesOf(block)]

Fits(g, n) == Len(g.keys) + n <= MaxIdentities

\* add_keys(): each entry is compared with what the group had before the call.
AddKeys(n, block, persist) ==
  /\ InGroup(n) /\ Fits(Get(n), Len(block))
  /\ \A i \in DOMAIN block :
       /\ block[i].key \in Keys \ Values(Get(n).keys)
       /\ block[i].alias \notin AliasNames(Get(n))
  /\ Done(Put(Extended(Get(n), block)), active, persist)
  /\ UNCHANGED transient

\* new_keypair(): a key that is nowhere yet.
NewIdentity(n, k, a, activate) ==
  LET block == <<[key |-> k, alias |-> a]>>
      g == Extended(Get(n), block)
  IN Put(IF activate THEN [g EXCEPT !.address = AddressOf(k)] ELSE g)

IsNew(n, k, a) ==
  /\ InGroup(n) /\ Fits(Get(n), 1)
  /\ \A gs \in {groups, file.groups} : \A i \in DOMAIN gs : k \notin Values(gs[i].keys)
  /\ a \notin AliasNames(Get(n))

NewKeypair(n, k, a, activate, persist) ==
  /\ IsNew(n, k, a)
  /\ activate => active \in Names(groups)
  /\ Done(NewIdentity(n, k, a, activate), IF activate THEN n ELSE active, persist)
  /\ UNCHANGED transient

\* There is no active group to compare the group with.
NewKeypairFails(n, k, a) ==
  /\ IsNew(n, k, a)
  /\ active \notin Names(groups)
  /\ HalfDone(NewIdentity(n, k, a, TRUE), active)
  /\ UNCHANGED transient

RenameAlias(n, a, b, persist) ==
  /\ InGroup(n)
  /\ a \in AliasNames(Get(n)) /\ b \notin AliasNames(Get(n))
  /\ Done(Put([Get(n) EXCEPT !.aliases[AliasIndex(Get(n), a)].name = b]), active, persist)
  /\ UNCHANGED transient

\* The identity goes from all three lists.
\* Mutant: its key stays.
WithoutButKey(g, i) ==
  LET left == Drop(g.addresses, i) IN
  [g EXCEPT !.aliases = Drop(g.aliases, i), !.addresses = left,
            !.address = IF @ = g.addresses[i] THEN FirstOr(left, NoAddress) ELSE @]

WithoutIdentity(g, i) ==
  LET left == Drop(g.addresses, i) IN
  [g EXCEPT !.aliases = Drop(g.aliases, i), !.keys = Drop(g.keys, i), !.addresses = left,
            !.address = IF @ = g.addresses[i] THEN FirstOr(left, NoAddress) ELSE @]

RemoveAlias(n, a) ==
  /\ InGroup(n) /\ a \in AliasNames(Get(n))
  /\ Done(Put(WithoutIdentity(Get(n), AliasIndex(Get(n), a))), active, FALSE)
  /\ UNCHANGED transient
------------------------------------------------------------------------------
(***************************************************************************)
(* Profiles.                                                               *)
(***************************************************************************)
WithProfile(g, p, activate) ==
  [g EXCEPT !.profiles = Append(@, p), !.profile = IF activate THEN p ELSE @]

NewProfile(n, p, activate, persist) ==
  /\ InGroup(n) /\ p \notin Values(Get(n).profiles)
  /\ Done(Put(WithProfile(Get(n), p, activate)), active, persist)
  /\ UNCHANGED transient

WithoutProfile(g, p) ==
  LET left == Drop(g.profiles, Index(g.profiles, p)) IN
  [g EXCEPT !.profiles = left, !.profile = IF @ = p THEN FirstOr(left, NoName) ELSE @]

RemoveProfile(n, p) ==
  /\ InGroup(n) /\ p \in Values(Get(n).profiles)
  /\ Done(Put(WithoutProfile(Get(n), p)), active, FALSE)
  /\ UNCHANGED transient
------------------------------------------------------------------------------
(***************************************************************************)
(* Groups.                                                                 *)
(***************************************************************************)
Distinct(s) == \A i, j \in DOMAIN s : s[i] = s[j] => i = j

\* s[i] is the first that was there before.
FirstRepeat(s, i) == Distinct(SubSeq(s, 1, i - 1)) /\ ~Distinct(SubSeq(s, 1, i))

\* Of two profiles the last is active if they are made active.
WithProfiles(g, profs, activate) ==
  [g EXCEPT !.profiles = profs,
            !.profile = IF activate /\ profs # <<>> THEN profs[Len(profs)] ELSE @]

Valid(block) == \A i \in DOMAIN block : block[i].key \in Keys
Activated(n, activate) == IF activate THEN n ELSE active

NewGroup(n, block, profs, i, use, activate, persist) ==
  /\ n \notin Names(groups)
  /\ Valid(block) /\ Len(block) <= MaxIdentities
  /\ Distinct(profs)
  /\ LET g == WithProfiles(Extended(EmptyGroup(n), block), profs, use) IN
       Done(Append(groups, [g EXCEPT !.address = AddressOf(block[i].key)]),
            Activated(n, activate), persist)
  /\ UNCHANGED transient

\* The group stays, and stays active, with what was done before the exception.
NewGroupFails(n, block, profs, use, activate) ==
  /\ n \notin Names(groups)
  /\ LET act == Activated(n, activate)
         g == Extended(EmptyGroup(n), block)
     IN \/ /\ ~Valid(block)
           /\ HalfDone(Append(groups, EmptyGroup(n)), act)
        \/ /\ Valid(block) /\ Len(block) <= MaxIdentities
           /\ \E i \in DOMAIN profs :
                /\ FirstRepeat(profs, i)
                /\ HalfDone(Append(groups, WithProfiles(g, SubSeq(profs, 1, i - 1), use)), act)
        \/ /\ Valid(block) /\ Len(block) <= MaxIdentities
           /\ Distinct(profs)
           /\ HalfDone(Append(groups, WithProfiles(g, profs, use)), act)
  /\ UNCHANGED transient

\* The active group is followed by the first that is left.
\* Mutant: by the first there was.
SuccessorBefore(n) == IF active = n THEN groups[1].name ELSE active

Successor(n) ==
  IF active # n THEN active
  ELSE IF Position(groups, n) # 1 THEN groups[1].name
  ELSE IF Len(groups) > 1 THEN groups[2].name ELSE NoName

RemoveGroup(n) ==
  /\ InGroup(n)
  /\ Done(Drop(groups, Position(groups, n)), Successor(n), FALSE)
  /\ transient' = {x \in transient : x.group # n}

(***************************************************************************)
(* make_active(): the group, its profile, its address or alias, in this    *)
(* order; NoName stands for an argument that is not given.  What comes     *)
(* before an argument that is not found has been changed already.          *)
(***************************************************************************)
\* What is active is known by an address, by the alias that is found for it, or not asked for.
IsActive(g, who) ==
  \/ who \in {NoAddress, g.address}
  \/ /\ g.address \in Values(g.addresses)
     /\ who = g.aliases[Index(g.addresses, g.address)].name

\* An alias is looked for only in a group with an active address.
Here(g, who) ==
  \/ IsActive(g, who)
  \/ who \in Values(g.addresses)
  \/ who \in AliasNames(g) /\ g.address \in Values(g.addresses)

Chosen(g, who) ==
  IF IsActive(g, who) THEN g.address
  ELSE IF who \in Values(g.addresses) THEN who
  ELSE g.addresses[AliasIndex(g, who)]

Profiled(g, p) == IF p = NoName THEN g ELSE [g EXCEPT !.profile = p]

MakeActive(n, p, who, persist) ==
  /\ InGroup(n)
  /\ p \in {NoName} \union Values(Get(n).profiles)
  /\ Here(Get(n), who)
  /\ LET g == [Profiled(Get(n), p) EXCEPT !.address = Chosen(Get(n), who)]
         changes == n # active \/ p \notin {NoName, Get(n).profile} \/ ~IsActive(Get(n), who)
     IN Done(Put(g), n, persist /\ changes)
  /\ UNCHANGED transient

MakeActiveFails(n, p, who) ==
  /\ InGroup(n)
  /\ \/ /\ p \notin {NoName} \union Values(Get(n).profiles)
        /\ HalfDone(groups, n)
     \/ /\ p \in {NoName} \union Values(Get(n).profiles)
        /\ ~Here(Get(n), who)
        /\ HalfDone(Put(Profiled(Get(n), p)), n)
  /\ UNCHANGED transient
------------------------------------------------------------------------------
Save ==
  /\ Done(groups, active, TRUE)
  /\ UNCHANGED transient

\* The process ends and another opens the file, with a group of it.
Reopen(n, persist) ==
  /\ n \in Names(file.groups)
  /\ Done(file.groups, n, persist /\ n # file.active)
  /\ transient' = {}

\* get_proof() of a zkLogin session stores its key pair (add_transient_keypair()).
AddTransient(address, keypair) ==
  transient' =
    {x \in transient : ~(x.group = active /\ x.profile = Get(active).profile /\ x.address = address)}
      \union {[group |-> active, profile |-> Get(active).profile, address |-> address,
               keypair |-> keypair]}

ConfigStep ==
  \/ \E n \in GroupNames, persist \in BOOLEAN :
       \/ \E block \in Blocks : AddKeys(n, block, persist)
       \/ \E k \in Keys, a \in Aliases, activate \in BOOLEAN :
            NewKeypair(n, k, a, activate, persist)
       \/ \E a, b \in Aliases : RenameAlias(n, a, b, persist)
       \/ \E p \in Profiles, activate \in BOOLEAN : NewProfile(n, p, activate, persist)
       \/ \E block \in Blocks, profs \in ProfileBlocks, use, activate \in BOOLEAN :
            \E i \in DOMAIN block : NewGroup(n, block, profs, i, use, activate, persist)
       \/ \E p \in Profiles \union {NoName},
             who \in {NoAddress} \union {AddressOf(k) : k \in Keys} \union Aliases :
            MakeActive(n, p, who, persist)
  \/ \E n \in GroupNames :
       \/ \E k \in Keys, a \in Aliases : NewKeypairFails(n, k, a)
       \/ \E a \in Aliases : RemoveAlias(n, a)
       \/ \E p \in Profiles : RemoveProfile(n, p)
       \/ \E block \in Blocks, profs \in ProfileBlocks, use, activate \in BOOLEAN :
            NewGroupFails(n, block, profs, use, activate)
       \/ RemoveGroup(n)
       \/ \E p \in Profiles \union {NoName},
             who \in {NoAddress} \union {AddressOf(k) : k \in Keys} \union Aliases :
            MakeActiveFails(n, p, who)
  \/ Save

AnyReopen == \E n \in GroupNames, persist \in BOOLEAN : Reopen(n, persist)

ConfigNext == ConfigStep \/ AnyReopen

\* initialize_config(): an empty group, or one with the identities of a Sui configuration.
Imported(n, block, i, p) ==
  [Extended(EmptyGroup(n), block) EXCEPT
     !.profiles = <<p>>, !.profile = p, !.address = AddressOf(block[i].key)]

ConfigInit ==
  /\ \E n \in GroupNames :
       /\ \/ groups = <<EmptyGroup(n)>>
          \/ \E block \in Imports, p \in Profiles : \E i \in DOMAIN block :
               groups = <<Imported(n, block, i, p)>>
       /\ active \in {n, NoName}
  /\ file = [groups |-> groups, active |-> active]
  /\ transient = {}
  /\ ops = 0

ConfigSpec == ConfigInit /\ [][ConfigNext]_configVars
------------------------------------------------------------------------------
(***************************************************************************)
(* In every group the three lists have one length, and each index holds a  *)
(* key, its address and the alias with its public key.                     *)
(***************************************************************************)
AlignedGroup(g) ==
  /\ Len(g.keys) = Len(g.addresses) /\ Len(g.aliases) = Len(g.addresses)
  /\ \A i \in 1..Len(g.addresses) :
       g.addresses[i] = AddressOf(g.keys[i]) /\ g.aliases[i].key = g.keys[i]

Aligned ==
  \A gs \in {groups, file.groups} : \A i \in DOMAIN gs : AlignedGroup(gs[i])

(***************************************************************************)
(* What is active exists, in memory and in the file, after operations that *)
(* failed half way and after removals of what was active.                  *)
(***************************************************************************)
ActiveIn(gs, act) ==
  /\ act \in Names(gs) \union {NoName}
  /\ \A i \in DOMAIN gs :
       /\ gs[i].address \in Values(gs[i].addresses) \union {NoAddress}
       /\ gs[i].profile \in Values(gs[i].profiles) \union {NoName}

ActivesExist == ActiveIn(groups, active) /\ ActiveIn(file.groups, file.active)

(***************************************************************************)
(* An alias stands for one identity, whatever is added, removed, renamed   *)
(* or made active around it, in a group that repeats no key and alias.     *)
(***************************************************************************)
AliasList(g) == [i \in DOMAIN g.aliases |-> g.aliases[i].name]
NoRepeats(g) == Distinct(g.keys) /\ Distinct(AliasList(g))

StandsFor(g, a) == LET i == AliasIndex(g, a) IN <<g.addresses[i], g.keys[i]>>

AliasesKeepTheirKeys ==
  [][groups' # file.groups =>
       \A n \in Names(groups) \intersect Names(groups') :
         LET new == groups'[Position(groups', n)] IN
         NoRepeats(Get(n)) =>
           \A a \in AliasNames(Get(n)) \intersect AliasNames(new) :
             StandsFor(new, a) = StandsFor(Get(n), a)]_configVars
=============================================================================
