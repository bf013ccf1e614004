------------------------- MODULE TransactionBuilding -------------------------
(***************************************************************************)
(* One AsyncSuiTransaction and the programmable transaction builder in it, *)
(* used by several coroutines: commands add inputs and commands, builds    *)
(* resolve the deferred inputs and choose the gas payment.  The coroutines *)
(* run through a SerialQueue or a ParallelQueue (TaskQueue).               *)
(*                                                                         *)
(* A step is what happens between two awaits that suspend.  Arguments that *)
(* are results of earlier commands pass through unchanged and are left     *)
(* out, as are Receiving and optional objects and funds withdrawals.       *)
(***************************************************************************)
EXTENDS TaskQueue, FiniteSetsExt

CONSTANTS
  Objects,     \* object ids, gas coins among them
  Shared,      \* those that are shared on the chain
  Balance,     \* the payer's gas coins and their balances
  MaxPayment,  \* _MAX_GAS_PAYMENT_OBJECTS
  Budgets,     \* the budgets a simulation may yield
  Jobs         \* what a task may be: commands and builds

\* What a caller may pass to a command: a value, an id or a reference.
Arguments ==
  [form : {"pure"}, val : Nat, mut : {FALSE}]
    \union [form : {"id", "reference"}, val : Objects, mut : BOOLEAN]

ASSUME BuildingAssumption ==
  /\ Shared \subseteq Objects
  /\ DOMAIN Balance \subseteq Objects /\ Balance \in [DOMAIN Balance -> Nat]
  /\ IsFiniteSet(DOMAIN Balance)
  /\ MaxPayment \in Nat \ {0}
  /\ Budgets \subseteq Nat
  /\ \A j \in Jobs :
       \/ j.op = "build" /\ j.gas \in {"auto", "account", "coins"} /\ j.use \subseteq DOMAIN Balance
       \/ j.op = "call" /\ j.args \in Seq(Arguments)
       \/ /\ j.op = "split" /\ j.args \in Seq(Arguments)
          /\ Len(j.args) = 1 /\ j.args[1].form = "pure"

VARIABLES
  job,       \* what each task does
  step,      \* the await at which it is suspended, or how it ended
  draft,     \* the local variables of a build
  compress,  \* compress_inputs
  inputs,    \* builder.inputs; the index is the position in the dictionary
  commands,  \* builder.commands: who added it, and the input of each argument
  known,     \* functions whose parameters AsyncLRU may remember
  price,     \* the gas price is known
  built      \* _built_transaction

txnVars == <<job, step, draft, compress, inputs, commands, known, price, built>>
vars == <<queueVars, txnVars>>

\* Arguments as the caller gives them.
Pure(n) == [form |-> "pure", val |-> n, mut |-> FALSE]
ById(o, m) == [form |-> "id", val |-> o, mut |-> m]
ByReference(o, m) == [form |-> "reference", val |-> o, mut |-> m]

Call(f, args) == [op |-> "call", target |-> f, args |-> args]
SplitGas(n) == [op |-> "split", args |-> <<Pure(n)>>]
Build(gas, use) == [op |-> "build", gas |-> gas, use |-> use]

NotBuilt == [inputs |-> <<>>, commands |-> <<>>, need |-> 0, payment |-> {}, reserved |-> 0,
             by |-> "nobody"]
NoDraft == [asked |-> {}, draw |-> 0, inputs |-> <<>>, commands |-> <<>>]

Init ==
  /\ QueueInit
  /\ job \in [Tasks -> Jobs]
  /\ step = [t \in Tasks |-> "start"]
  /\ draft = [t \in Tasks |-> NoDraft]
  /\ compress \in BOOLEAN
  /\ inputs = <<>> /\ commands = <<>>
  /\ known = {} /\ price = FALSE
  /\ built = NotBuilt
------------------------------------------------------------------------------
(***************************************************************************)
(* The builder: input_pure(), input_obj().                                 *)
(***************************************************************************)
\* Only the reference to a shared object says whether it is mutable.
Reference(o, m) == [kind |-> "object", val |-> o, mut |-> m /\ o \in Shared]

Encoded(a) ==
  IF a.form = "reference" THEN Reference(a.val, a.mut)
  ELSE [kind |-> IF a.form = "pure" THEN "pure" ELSE "unresolved", val |-> a.val, mut |-> a.mut]

IsObject(i) == i.kind \in {"object", "unresolved"}
InUse(ins) == {ins[i].val : i \in {j \in DOMAIN ins : IsObject(ins[j])}}

\* An id matches whatever stands for the object, a reference only an equal one.
\* Mutant: an id matches deferred inputs only.
SameDeferred(ins, a) == {i \in DOMAIN ins : ins[i] = Encoded(a)}

Same(ins, a) ==
  {i \in DOMAIN ins : IF a.form = "id" THEN IsObject(ins[i]) /\ ins[i].val = a.val
                                       ELSE ins[i] = Encoded(a)}

Slot(ins, a) ==
  IF compress /\ Same(ins, a) # {} THEN Min(Same(ins, a)) ELSE Len(ins) + 1
AddInput(ins, a) ==
  IF Slot(ins, a) \in DOMAIN ins THEN ins ELSE Append(ins, Encoded(a))

With(acc, a) ==
  [ins |-> AddInput(acc.ins, a), at |-> Append(acc.at, Slot(acc.ins, a))]

\* The arguments of a command, from left to right.
AddArgs(args) ==
  LET added[n \in 0..Len(args)] ==
        IF n = 0 THEN [ins |-> inputs, at |-> <<>>] ELSE With(added[n - 1], args[n])
  IN  added[Len(args)]

AddCommand(t) ==
  LET added == AddArgs(job[t].args) IN
  /\ inputs' = added.ins
  /\ commands' = Append(commands, [by |-> t, at |-> added.at])

End(t, how) ==
  /\ step' = [step EXCEPT ![t] = how]
  /\ draft' = [draft EXCEPT ![t] = IF how = "short" THEN @ ELSE NoDraft]
  /\ Leave(t)

Begins(t, op) == t \in inside /\ step[t] = "start" /\ job[t].op = op

(***************************************************************************)
(* The commands.  _invalidates_build clears the built transaction before   *)
(* the command awaits anything.                                            *)
(***************************************************************************)
\* split_coin(), merge_coins(), transfer_objects(), ...: nothing to wait for.
Split(t) ==
  /\ Begins(t, "split")
  /\ built' = NotBuilt
  /\ AddCommand(t)
  /\ End(t, "ok")
  /\ UNCHANGED <<job, compress, known, price>>

\* move_call(), split_coin_equal() with the parameters of the function at hand.
CallKnown(t) ==
  /\ Begins(t, "call") /\ job[t].target \in known
  /\ built' = NotBuilt
  /\ AddCommand(t)
  /\ End(t, "ok")
  /\ UNCHANGED <<job, compress, known, price>>

\* The key of the LRU covers the state of the transaction too: it may always miss.
\* Mutant: the built transaction is kept.
CallKeepsBuilt(t) ==
  /\ Begins(t, "call")
  /\ step' = [step EXCEPT ![t] = "fetching"]
  /\ UNCHANGED <<queueVars, job, draft, compress, inputs, commands, known, price, built>>

CallAsks(t) ==
  /\ Begins(t, "call")
  /\ built' = NotBuilt
  /\ step' = [step EXCEPT ![t] = "fetching"]
  /\ UNCHANGED <<queueVars, job, draft, compress, inputs, commands, known, price>>

CallAnswered(t) ==
  /\ step[t] = "fetching"
  /\ known' = known \union {job[t].target}
  /\ AddCommand(t)
  /\ End(t, "ok")
  /\ UNCHANGED <<job, compress, price, built>>
------------------------------------------------------------------------------
(***************************************************************************)
(* _build_txn_data().                                                      *)
(***************************************************************************)
Unresolved(ins) == {i \in DOMAIN ins : ins[i].kind = "unresolved"}

\* resolved_object_inputs(): each stays where it was.
\* Mutant: the inputs that were resolved are put behind the others.
ResolvedLast(ins) ==
  SelectSeq(ins, LAMBDA i : i.kind # "unresolved")
    \o [k \in 1..Cardinality(Unresolved(ins)) |->
          LET u == SelectSeq(ins, LAMBDA i : i.kind = "unresolved")[k] IN Reference(u.val, u.mut)]

Resolved(ins) ==
  [i \in DOMAIN ins |-> IF i \in Unresolved(ins) THEN Reference(ins[i].val, ins[i].mut)
                                                 ELSE ins[i]]

\* _inspect_ptb_for_gas_coin(): what the commands split off the gas coin.
\* Mutant: the first command is not looked at.
DrawLater(ins, cmds) ==
  SumFunction([k \in {l \in DOMAIN cmds : l > 1 /\ job[cmds[l].by].op = "split"} |->
                 ins[cmds[k].at[1]].val])

Splits(cmds) == {k \in DOMAIN cmds : job[cmds[k].by].op = "split"}
Draw(ins, cmds) == SumFunction([k \in Splits(cmds) |-> ins[cmds[k].at[1]].val])

Suspend(t, where, d) ==
  /\ step' = [step EXCEPT ![t] = where]
  /\ draft' = [draft EXCEPT ![t] = d]
  /\ UNCHANGED queueVars

Snapshot(ins, draw) ==
  [asked |-> {}, draw |-> draw, inputs |-> ins, commands |-> commands]

\* The coin path takes its snapshot once the price is known.
CoinPath(t, ins, draw) ==
  IF price THEN Suspend(t, "gas", Snapshot(ins, draw))
           ELSE Suspend(t, "price", [NoDraft EXCEPT !.draw = draw])

\* The account path resolves a clone, so that later inputs are none of its business.
AccountPath(t, ins, draw) == Suspend(t, "account", Snapshot(Resolved(ins), draw))

\* From the resolution of the inputs to the next await.
Inspected(t, ins) ==
  LET draw == Draw(ins, commands) IN
  CASE job[t].gas = "auto" -> Suspend(t, "balance", [NoDraft EXCEPT !.draw = draw])
    [] job[t].gas = "account" -> AccountPath(t, ins, draw)
    [] job[t].gas = "coins" -> CoinPath(t, ins, draw)

BuildEmpty(t) ==
  /\ Begins(t, "build") /\ inputs = <<>> /\ commands = <<>>
  /\ End(t, "failed")
  /\ UNCHANGED <<job, compress, inputs, commands, known, price, built>>

BuildStart(t) ==
  /\ Begins(t, "build") /\ commands # <<>>
  /\ IF Unresolved(inputs) = {} THEN Inspected(t, inputs)
     ELSE Suspend(t, "resolving", [NoDraft EXCEPT !.asked = Unresolved(inputs)])
  /\ UNCHANGED <<job, compress, inputs, commands, known, price, built>>

\* An input that came up meanwhile has no entry: KeyError.
BuildResolved(t) ==
  /\ step[t] = "resolving"
  /\ IF Unresolved(inputs) \subseteq draft[t].asked
     THEN inputs' = Resolved(inputs) /\ Inspected(t, Resolved(inputs))
     ELSE End(t, "failed") /\ UNCHANGED inputs
  /\ UNCHANGED <<job, compress, commands, known, price, built>>

\* auto_gas: the account pays if it has a balance.
BalanceKnown(t) ==
  /\ step[t] = "balance"
  /\ AccountPath(t, inputs, draft[t].draw) \/ CoinPath(t, inputs, draft[t].draw)
  /\ UNCHANGED <<job, compress, inputs, commands, known, price, built>>

PriceKnown(t) ==
  /\ step[t] = "price"
  /\ price' = TRUE
  /\ Suspend(t, "gas", Snapshot(inputs, draft[t].draw))
  /\ UNCHANGED <<job, compress, inputs, commands, known, built>>
------------------------------------------------------------------------------
(***************************************************************************)
(* async_get_gas_data(), coins_for_budget().                               *)
(***************************************************************************)
Worth(coins) == SumFunctionOnSet(Balance, coins)

\* The richest coins first, at most as many as a payment may have.
RichFirst(s) == \A i, j \in DOMAIN s : i < j => Balance[s[i]] >= Balance[s[j]]

Offered(coins) ==
  LET rich == CHOOSE s \in [1..Cardinality(coins) -> coins] : IsInjective(s) /\ RichFirst(s)
  IN  [i \in 1..Min({Cardinality(coins), MaxPayment}) |-> rich[i]]

Prefix(s, k) == {s[i] : i \in 1..k}

\* How many of the offered coins it takes; one if the first is enough.
Enough(coins, need) ==
  {k \in 1..Len(Offered(coins)) : Worth(Prefix(Offered(coins), k)) >= need}

\* Mutant: coins are taken until the offer is used up.
SelectAll(coins, need) == Prefix(Offered(coins), Max(Enough(coins, need)))

Select(coins, need) == Prefix(Offered(coins), Min(Enough(coins, need)))

\* The coins of the payer, or those the caller names, that are no inputs.
Candidates(t, ins) ==
  (IF job[t].use = {} THEN DOMAIN Balance ELSE job[t].use) \ InUse(ins)

\* need is _reserved, reserved what the payment is worth.
Built(t, need, payment, reserved) ==
  /\ built' = [inputs |-> draft[t].inputs, commands |-> draft[t].commands, need |-> need,
               payment |-> payment, reserved |-> reserved, by |-> t]
  /\ End(t, "ok")

GasFound(t) ==
  /\ step[t] = "gas"
  /\ \E budget \in Budgets :
       LET coins == Candidates(t, draft[t].inputs)
           need == budget + draft[t].draw
       IN IF Enough(coins, need) = {}
          THEN End(t, "short") /\ UNCHANGED built
          ELSE Built(t, need, Select(coins, need), Worth(Select(coins, need)))
  /\ UNCHANGED <<job, compress, inputs, commands, known, price>>

\* A reservation of the account stands for the gas coin.
AccountPays(t) ==
  /\ step[t] = "account"
  /\ \E budget \in Budgets :
       LET need == budget + draft[t].draw IN Built(t, need, {}, need)
  /\ UNCHANGED <<job, compress, inputs, commands, known, price>>

\* A request fails, or the caller cancels the task where it is suspended.
Suspended(t) ==
  step[t] \in {"fetching", "resolving", "balance", "price", "gas", "account"}

\* Mutant: an exception does not leave the queue.
FailsInside(t) ==
  /\ Suspended(t)
  /\ step' = [step EXCEPT ![t] = "failed"]
  /\ UNCHANGED <<queueVars, job, draft, compress, inputs, commands, known, price, built>>

Fails(t) ==
  /\ Suspended(t)
  /\ End(t, "failed")
  /\ UNCHANGED <<job, compress, inputs, commands, known, price, built>>
------------------------------------------------------------------------------
Queueing == (Grant \/ \E t \in Tasks : Arrive(t) \/ Abandon(t)) /\ UNCHANGED txnVars

Running(t) ==
  \/ Split(t) \/ CallKnown(t) \/ CallAsks(t) \/ CallAnswered(t)
  \/ BuildEmpty(t) \/ BuildStart(t) \/ BuildResolved(t)
  \/ BalanceKnown(t) \/ PriceKnown(t) \/ GasFound(t) \/ AccountPays(t)
  \/ Fails(t)

Next == Queueing \/ \E t \in Tasks : Running(t)

Spec == Init /\ [][Next]_vars

\* The event loop wakes waiters, and requests are answered or time out.
FairSpec ==
  Spec /\ WF_vars(Grant /\ UNCHANGED txnVars) /\ WF_vars(\E t \in Tasks : Running(t))
------------------------------------------------------------------------------
Steps == {"start", "fetching", "resolving", "balance", "price", "gas", "account", "ok",
          "failed", "short"}

Inputs ==
  [kind : {"pure"}, val : Nat, mut : {FALSE}]
    \union [kind : {"unresolved", "object"}, val : Objects, mut : BOOLEAN]

\* Commands of tasks that are commands, with an input for each argument.
Fits(ins, cmds) ==
  /\ ins \in Seq(Inputs)
  /\ cmds \in Seq([by : Tasks, at : Seq(Nat)])
  /\ \A k \in DOMAIN cmds :
       LET c == cmds[k] IN
       /\ job[c.by].op \in {"call", "split"}
       /\ Len(c.at) = Len(job[c.by].args)
       /\ \A n \in DOMAIN c.at : c.at[n] \in DOMAIN ins

TypeOK ==
  /\ QueueOK
  /\ job \in [Tasks -> Jobs]
  /\ step \in [Tasks -> Steps]
  /\ \A t \in Tasks :
       /\ Suspended(t) => t \in inside
       /\ step[t] = "fetching" => job[t].op = "call"
       /\ step[t] # "fetching" /\ (Suspended(t) \/ step[t] = "short") => job[t].op = "build"
  /\ DOMAIN draft = Tasks
  /\ compress \in BOOLEAN /\ price \in BOOLEAN
  /\ Fits(inputs, commands) /\ Fits(built.inputs, built.commands)
  /\ \A t \in Tasks : Fits(draft[t].inputs, draft[t].commands) /\ draft[t].draw \in Nat
  /\ built.payment \subseteq DOMAIN Balance

Denotes(input, arg) ==
  /\ input.val = arg.val
  /\ arg.form = "pure" <=> input.kind = "pure"

Mean(ins, cmds) ==
  \A k \in DOMAIN cmds : \A n \in DOMAIN cmds[k].at :
    Denotes(ins[cmds[k].at[n]], job[cmds[k].by].args[n])

(***************************************************************************)
(* The input of every argument is the value the caller gave, in the        *)
(* builder and in what was built: indices survive the sharing of inputs,   *)
(* their resolution, and commands and builds that overlap in any way.      *)
(***************************************************************************)
ArgsMean == Mean(inputs, commands) /\ Mean(built.inputs, built.commands)

(***************************************************************************)
(* With compress_inputs an object has one input, whether it is named       *)
(* before or after it was resolved, unless a caller gives a reference that *)
(* differs from what is there.                                             *)
(***************************************************************************)
SameObject(i, j) == IsObject(i) /\ IsObject(j) /\ i.val = j.val

GivenAsReference(cmds, j) ==
  \E k \in DOMAIN cmds : \E n \in DOMAIN cmds[k].at :
    cmds[k].at[n] = j /\ job[cmds[k].by].args[n].form = "reference"

OneInputEach ==
  compress =>
    \A i, j \in DOMAIN inputs :
      i < j /\ SameObject(inputs[i], inputs[j]) => GivenAsReference(commands, j)

(***************************************************************************)
(* A transaction that is used through a SerialQueue is never out of date:  *)
(* what is built has all inputs and commands, and no input is deferred.    *)
(***************************************************************************)
BuiltIsCurrent ==
  limit = 1 /\ built # NotBuilt =>
    /\ built.inputs = inputs /\ built.commands = commands
    /\ Unresolved(built.inputs) = {}

SplitOff(cmds) == SumFunction([k \in Splits(cmds) |-> job[cmds[k].by].args[1].val])

(***************************************************************************)
(* The gas payment holds no coin that is also an input, pays for the       *)
(* budget and, if commands do not overlap with the build, for what the     *)
(* commands split off the gas coin.                                        *)
(***************************************************************************)
PaymentCovers ==
  built # NotBuilt =>
    /\ built.payment \intersect InUse(built.inputs) = {}
    /\ built.reserved >= built.need
    /\ limit = 1 => \E budget \in Budgets :
         built.need = budget + SplitOff(built.commands)

(***************************************************************************)
(* No choice of coins pays with fewer of them, and a build that is short   *)
(* of gas had no choice that would have paid every budget.                 *)
(***************************************************************************)
Payers(coins, need) ==
  {S \in SUBSET coins : Cardinality(S) \in 1..MaxPayment /\ Worth(S) >= need}

FewestCoins ==
  /\ built.payment # {} =>
       \A S \in Payers(Candidates(built.by, built.inputs), built.need) :
         Cardinality(built.payment) <= Cardinality(S)
  /\ \A t \in Tasks : step[t] = "short" =>
       \E budget \in Budgets :
         Payers(Candidates(t, draft[t].inputs), budget + draft[t].draw) = {}

(***************************************************************************)
(* The invariant behind these: what builds hold while they are suspended.  *)
(***************************************************************************)
\* A task that has a SerialQueue for itself finds everything as it left it.
NobodyInterferes ==
  limit = 1 => \A t \in Tasks :
    /\ step[t] \in {"fetching", "resolving"} => built = NotBuilt
    /\ step[t] \in {"balance", "price", "gas", "account"} =>
         Unresolved(inputs) = {} /\ draft[t].draw = SplitOff(commands)
    /\ step[t] \in {"gas", "account"} =>
         draft[t].inputs = inputs /\ draft[t].commands = commands

\* The payment is what select made of the coins that could be had, for a budget and a draw.
PaidBySelection ==
  built.payment # {} =>
    LET coins == Candidates(built.by, built.inputs)
    IN  /\ built.by \in Tasks /\ job[built.by].op = "build" /\ built.need \in Nat
        /\ Enough(coins, built.need) # {} /\ built.payment = Select(coins, built.need)

ShortOfGas ==
  \A t \in Tasks : step[t] = "short" =>
    \E budget \in Budgets :
      Enough(Candidates(t, draft[t].inputs), budget + draft[t].draw) = {}

BuildingInv ==
  /\ TypeOK
  /\ ArgsMean /\ \A t \in Tasks : Mean(draft[t].inputs, draft[t].commands)
  /\ OneInputEach
  /\ BuiltIsCurrent /\ NobodyInterferes
  /\ PaymentCovers /\ PaidBySelection /\ ShortOfGas

(***************************************************************************)
(* Every task that entered a queue ends, whatever the tasks before it did: *)
(* the queue is empty again and again.                                     *)
(***************************************************************************)
EveryTaskEnds == []<>(waiting = <<>> /\ inside = {})
=============================================================================
