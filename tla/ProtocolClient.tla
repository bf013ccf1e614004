--------------------------- MODULE ProtocolClient ---------------------------
(***************************************************************************)
(* One client of a Sui node and the coroutines that call it: listings      *)
(* (execute_for_all, abstracts/async_client.py) that follow pages and      *)
(* fetch the parts a page has no room for, and wait_for_transaction().     *)
(* The GraphQL client lets one request at a time on its session, which the *)
(* first one opens; the gRPC client lets all of them on its channel.       *)
(*                                                                         *)
(* A page is the items after a cursor.  Objects and modules are numbers,   *)
(* in the order in which the node lists them.  Functions and datatypes of  *)
(* a module are counted in pages, of which the module itself carries the   *)
(* first.                                                                  *)
(***************************************************************************)
EXTENDS Naturals, Sequences, SequencesExt, FiniteSets

CONSTANTS
  Callers,        \* each makes one call
  Kinds,          \* of the calls they may make: "objects", "package", "module", "transaction"
  Objects,        \* objects the address may own
  Reservations,   \* those of them that stand for no real object
  PageSize,
  Modules,        \* of the package
  Pages,          \* Pages[m][p]: pages that part p ("functions", "datatypes") of module m fills
  Timeout,        \* of wait_for_transaction, in seconds
  PollInterval

ASSUME ClientAssumption ==
  /\ Kinds \subseteq {"objects", "package", "module", "transaction"}
  /\ Objects \subseteq Nat \ {0} /\ Modules \subseteq Nat \ {0}
  /\ IsFiniteSet(Objects) /\ IsFiniteSet(Modules)
  /\ Reservations \subseteq Objects
  /\ {PageSize, PollInterval} \subseteq Nat \ {0} /\ Timeout \in Nat
  /\ Pages \in [Modules -> [{"functions", "datatypes"} -> Nat \ {0}]]

VARIABLES
  protocol,  \* _protocol
  owned,     \* the objects on the chain
  indexed,   \* the node knows the transaction waited for
  session,   \* of the GraphQL client: _async_session
  line,      \* of _slock: the coroutine whose request is on the session, then those that wait
  call       \* what each coroutine has done

vars == <<protocol, owned, indexed, session, line, call>>

\* kept and seen are history: the objects owned all the time of a listing, and at some time of it;
\* and cut, the modules that could not be completed.
NoCall == [pc |-> "idle", kind |-> "none", ask |-> "none", token |-> 0, result |-> <<>>,
           at |-> 0, part |-> <<>>, waited |-> 0, kept |-> {}, seen |-> {}, cut |-> {}]

Init ==
  /\ protocol \in {"gql", "grpc"}
  /\ owned = Objects
  /\ indexed = FALSE
  /\ session = IF protocol = "gql" THEN "none" ELSE "open"
  /\ line = <<>>
  /\ call = [c \in Callers |-> NoCall]

Busy(c) == call[c].pc \in {"waiting", "requested", "asleep"}

\* The call is over: with a result, as a failed result, or by an exception.
Ended(k) == [NoCall EXCEPT !.pc = "ok", !.kind = k.kind, !.result = k.result,
                           !.kept = k.kept, !.seen = k.seen, !.cut = k.cut]
Ends(k, how) == [NoCall EXCEPT !.pc = how, !.kind = k.kind]

-----------------------------------------------------------------------------
(* What the node answers, as the encoders hand it on.                      *)

Sorted(s) == \A i, j \in DOMAIN s : i < j => s[i] < s[j]

\* The numbers of a finite set, the smallest first.
Below(S, i) == {j \in S : j < i}

InOrder(S) == [n \in 1..Cardinality(S) |-> CHOOSE i \in S : Cardinality(Below(S, i)) = n - 1]

\* The first page after a cursor, and the cursor of the next one: 0 if there is none.
Page(S, token) ==
  LET rest == InOrder({i \in S : i > token})
      items == SubSeq(rest, 1, Min({PageSize, Len(rest)}))
  IN  [items |-> items, next |-> IF Len(rest) > PageSize THEN Last(items) ELSE 0]

\* Reservations are dropped after the node has cut the page.
ObjectPage(token) ==
  LET page == Page(owned, token)
  IN  [page EXCEPT !.items = InOrder(ToSet(@) \ Reservations)]

\* A module as it comes with a package or alone.  `more` are the has_next attributes,
\* which the gRPC messages do not have.
Module(m) ==
  [name |-> m,
   functions |-> IF protocol = "gql" THEN 1 ELSE Pages[m]["functions"],
   datatypes |-> IF protocol = "gql" THEN 1 ELSE Pages[m]["datatypes"],
   more |-> {p \in {"functions", "datatypes"} : protocol = "gql" /\ Pages[m][p] > 1}]

PackagePage(token) ==
  LET page == IF protocol = "gql" THEN Page(Modules, token) ELSE [items |-> InOrder(Modules), next |-> 0]
  IN  [items |-> [i \in DOMAIN page.items |-> Module(page.items[i])], next |-> page.next]

Whole(x) == x.functions = Pages[x.name]["functions"] /\ x.datatypes = Pages[x.name]["datatypes"]

-----------------------------------------------------------------------------
(* How a call goes on.  These operators yield the record of the call; its  *)
(* `ask` is what it requests next.                                         *)

\* The next module of a package that is not whole is fetched by itself.
NextModule(k) ==
  LET rest == {i \in DOMAIN k.result : i > k.at /\ k.result[i].more # {}}
  IN  IF rest = {} THEN Ended(k)
      ELSE [k EXCEPT !.ask = "module", !.at = Min(rest),
                     !.part = [name |-> k.result[Min(rest)].name]]

\* Mutant: the listing ends at a page on which nothing is left.
ObjectsAnsweredNonEmpty(k) ==
  LET page == ObjectPage(k.token)
      grown == [k EXCEPT !.result = @ \o page.items, !.token = page.next]
  IN  IF page.next = 0 \/ page.items = <<>> THEN Ended(grown) ELSE grown

ObjectsAnswered(k) ==
  LET page == ObjectPage(k.token)
      grown == [k EXCEPT !.result = @ \o page.items, !.token = page.next]
  IN  IF page.next = 0 THEN Ended(grown) ELSE grown

PackageAnswered(k) ==
  LET page == PackagePage(k.token)
      grown == [k EXCEPT !.result = @ \o page.items, !.token = page.next]
  IN  IF page.next = 0 THEN NextModule(grown) ELSE grown

\* A module is complete, or as complete as it will be.
ModuleDone(k) ==
  IF k.kind = "module" THEN Ended([k EXCEPT !.result = <<k.part>>])
  ELSE NextModule([k EXCEPT !.result[k.at] = k.part])

\* The functions are fetched before the datatypes, each if the module says there are more.
Datatypes(k) ==
  IF "datatypes" \in k.part.more THEN [k EXCEPT !.ask = "datatypes", !.token = 0] ELSE ModuleDone(k)

Functions(k) ==
  IF "functions" \in k.part.more THEN [k EXCEPT !.ask = "functions", !.token = 0] ELSE Datatypes(k)

ModuleAnswered(k) == Functions([k EXCEPT !.part = Module(k.part.name)])

\* A page of functions or datatypes; the part replaces what came with the module.
PartAnswered(k) ==
  LET fetched == k.token + 1
      filled == [k EXCEPT !.part[k.ask] = fetched]
  IN  IF fetched < Pages[k.part.name][k.ask] THEN [k EXCEPT !.token = fetched]
      ELSE IF k.ask = "functions" THEN Datatypes(filled) ELSE ModuleDone(filled)

\* No transaction yet: sleep, unless the polls have used up the timeout.
NotYet(k) ==
  IF k.waited + PollInterval < Timeout THEN [k EXCEPT !.waited = @ + PollInterval, !.pc = "asleep"]
  ELSE Ends(k, "raised")

Answered(k) ==
  CASE k.ask = "objects" -> ObjectsAnswered(k)
    [] k.ask = "package" -> PackageAnswered(k)
    [] k.ask = "module" -> ModuleAnswered(k)
    [] k.ask \in {"functions", "datatypes"} -> PartAnswered(k)
    [] k.ask = "transaction" -> IF indexed THEN Ended(k) ELSE NotYet(k)

\* The result of the request is an error.  A package keeps the module it came with.
Failed(k) ==
  CASE k.ask = "transaction" -> NotYet(k)
    [] k.kind = "package" /\ k.ask # "package" -> NextModule([k EXCEPT !.cut = @ \union {k.part.name}])
    [] OTHER -> Ends(k, "failed")

-----------------------------------------------------------------------------
(* Requests.                                                               *)

\* The session is ours: it is opened if there is none.  A closed one raises an exception that
\* is not turned into a result.
Request(c, k, queue) ==
  IF session = "closed"
  THEN /\ call' = [call EXCEPT ![c] = Ends(k, "raised")]
       /\ line' = Tail(queue)
       /\ UNCHANGED session
  ELSE /\ call' = [call EXCEPT ![c] = [k EXCEPT !.pc = "requested"]]
       /\ line' = queue
       /\ session' = "open"

\* The coroutine goes on until it suspends: for an answer, in the line, asleep, or it has ended.
\* `queue` is the line it leaves behind.
GoesOn(c, k, queue) ==
  \/ /\ k.ask = "none" \/ k.pc = "asleep"
     /\ call' = [call EXCEPT ![c] = k] /\ line' = queue /\ UNCHANGED session
  \/ /\ k.ask # "none" /\ k.pc # "asleep" /\ protocol = "grpc"
     /\ call' = [call EXCEPT ![c] = [k EXCEPT !.pc = "requested"]] /\ line' = queue /\ UNCHANGED session
  \/ /\ k.ask # "none" /\ k.pc # "asleep" /\ protocol = "gql"
     /\ IF queue = <<>> THEN Request(c, k, <<c>>)
        ELSE /\ call' = [call EXCEPT ![c] = [k EXCEPT !.pc = "waiting"]]
             /\ line' = Append(queue, c) /\ UNCHANGED session

\* Mutant: a waiter that gives up keeps its place.
LeftByHolder(c) == IF call[c].pc = "waiting" THEN line ELSE SelectSeq(line, LAMBDA d : d # c)

\* The line without c: the semaphore is released, or the waiter gives up.
Left(c) == SelectSeq(line, LAMBDA d : d # c)

Begins(c, kind) ==
  /\ call[c].pc = "idle"
  /\ kind = "transaction" => protocol = "gql"
  /\ \E m \in IF kind = "module" THEN Modules ELSE {0} :
       GoesOn(c, [NoCall EXCEPT !.kind = kind, !.ask = kind, !.pc = "begun", !.part = [name |-> m],
                                !.kept = owned, !.seen = owned], line)
  /\ UNCHANGED <<protocol, owned, indexed>>

\* The semaphore wakes the coroutine that has come to the front.
Woken(c) ==
  /\ call[c].pc = "waiting" /\ Head(line) = c
  /\ Request(c, call[c], line)
  /\ UNCHANGED <<protocol, owned, indexed>>

Answers(c) ==
  /\ call[c].pc = "requested"
  /\ \E k \in {Answered(call[c])} : GoesOn(c, k, Left(c))
  /\ UNCHANGED <<protocol, owned, indexed>>

\* An error answer, a timeout or a broken connection, as a failed result.
Fails(c) ==
  /\ call[c].pc = "requested"
  /\ \E k \in {Failed(call[c])} : GoesOn(c, k, Left(c))
  /\ UNCHANGED <<protocol, owned, indexed>>

\* An exception that _execute does not know, or the caller cancels the call.
Raises(c) ==
  /\ Busy(c)
  /\ call' = [call EXCEPT ![c] = Ends(@, "raised")]
  /\ line' = Left(c)
  /\ UNCHANGED <<protocol, owned, indexed, session>>

\* asyncio.sleep() is over.
Polls(c) ==
  /\ call[c].pc = "asleep"
  /\ GoesOn(c, [call[c] EXCEPT !.pc = "begun"], line)
  /\ UNCHANGED <<protocol, owned, indexed>>

\* close() of GraphQL: before the first request there is nothing to close, and it changes nothing.
\* gRPC has no session; what closing its channels does to requests is in Fails and Raises.
Close ==
  /\ protocol = "gql" /\ session = "open"
  /\ session' = "closed"
  /\ UNCHANGED <<protocol, owned, indexed, line, call>>

Calling(kind) == \E c \in Callers : Busy(c) /\ call[c].kind = kind

\* Objects come and go on the chain, and the transaction becomes known.  Bound: only while a call
\* could see it.
ObjectsChange ==
  /\ Calling("objects")
  /\ \E i \in Objects :
       owned' = IF i \in owned THEN owned \ {i} ELSE owned \union {i}
  /\ call' = [c \in Callers |-> IF Busy(c) /\ call[c].kind = "objects"
                THEN [call[c] EXCEPT !.kept = @ \intersect owned', !.seen = @ \union owned']
                ELSE call[c]]
  /\ UNCHANGED <<protocol, indexed, session, line>>

Indexed ==
  /\ Calling("transaction") /\ ~indexed /\ indexed' = TRUE
  /\ UNCHANGED <<protocol, owned, session, line, call>>

Step(c) == Woken(c) \/ Answers(c) \/ Fails(c) \/ Polls(c)

Next ==
  \/ \E c \in Callers : Step(c) \/ Raises(c) \/ \E kind \in Kinds : Begins(c, kind)
  \/ Close \/ ObjectsChange \/ Indexed

Spec == Init /\ [][Next]_vars

\* The event loop runs what is ready, and a request is answered or fails.
Fairness == \A c \in Callers : WF_vars(Step(c))

FairSpec == Spec /\ Fairness

-----------------------------------------------------------------------------
(* Properties.                                                             *)

\* Every real object that was owned all the time, none that never was, each once and in order.
ObjectsComplete(k) ==
  /\ Sorted(k.result)
  /\ k.kept \ Reservations \subseteq ToSet(k.result)
  /\ ToSet(k.result) \subseteq k.seen \ Reservations

NamesOf(modules) == [i \in DOMAIN modules |-> modules[i].name]

\* Each module once, and whole unless a request for that very module failed.
ModulesComplete(k) ==
  /\ Sorted(NamesOf(k.result)) /\ ToSet(NamesOf(k.result)) = Modules
  /\ \A i \in DOMAIN k.result : Whole(k.result[i]) \/ k.result[i].name \in k.cut

\* What ends well is complete: a listing of objects (execute_for_all), whatever moves on the chain
\* between two pages and with pages that lose all their items to the filter; a listing of the
\* modules of a package and a module by itself (_apply_compound), although their parts come by
\* further requests, any of which may fail.
Complete(k) ==
  CASE k.kind = "objects" -> ObjectsComplete(k)
    [] k.kind = "package" -> ModulesComplete(k)
    [] k.kind = "module" -> Whole(k.result[1])
    [] OTHER -> indexed

ResultsComplete == \A c \in Callers : call[c].pc = "ok" => Complete(call[c])

\* Every call ends, although others fail, are cancelled while they wait or while their request is
\* on the session, and although the session is closed under it (_slock, wait_for_transaction).
EveryCallEnds == \A c \in Callers : Busy(c) ~> ~Busy(c)

(***************************************************************************)
(* The invariant behind ResultsComplete: how far a call has come.  What a  *)
(* listing has goes up to its cursor; while the modules of a package are   *)
(* completed, those before the one at hand are done and those behind it    *)
(* are as they came.                                                       *)
(***************************************************************************)
Parts == {"functions", "datatypes"}

ModuleRecords == [name : Modules, functions : Nat, datatypes : Nat, more : SUBSET Parts]

ObjectsSoFar(k) ==
  /\ k.ask = "objects" /\ k.token \in Nat
  /\ k.kept \subseteq owned /\ owned \subseteq k.seen
  /\ k.result \in Seq(Objects) /\ Sorted(k.result)
  /\ ToSet(k.result) \subseteq {i \in k.seen \ Reservations : i <= k.token}
  /\ {i \in k.kept \ Reservations : i <= k.token} \subseteq ToSet(k.result)

AsItCame(x) == x = Module(x.name)

ModulesSoFar(k) ==
  /\ k.ask = "package" /\ k.token \in Nat /\ k.at = 0
  /\ protocol = "grpc" => k.token = 0
  /\ k.result \in Seq(ModuleRecords) /\ \A i \in DOMAIN k.result : AsItCame(k.result[i])
  /\ Sorted(NamesOf(k.result)) /\ ToSet(NamesOf(k.result)) = {m \in Modules : m <= k.token}

Done(x, k) == Whole(x) \/ x.name \in k.cut

Listed(k) ==
  /\ k.result \in Seq(ModuleRecords)
  /\ Sorted(NamesOf(k.result)) /\ ToSet(NamesOf(k.result)) = Modules

Completing(k) ==
  /\ Listed(k)
  /\ k.at \in DOMAIN k.result /\ k.part.name = k.result[k.at].name
  /\ \A i \in DOMAIN k.result : /\ i < k.at => Done(k.result[i], k)
                                /\ i > k.at => AsItCame(k.result[i])

\* The part at hand: what comes after it is as it came with the module.
PartSoFar(k) ==
  LET m == k.part.name
  IN  /\ m \in Modules
      /\ \/ k.ask = "module"
         \/ k.ask = "functions" /\ k.part = Module(m)
         \/ k.ask = "datatypes" /\ k.part = [Module(m) EXCEPT !.functions = Pages[m]["functions"]]
      /\ k.ask # "module" => k.token \in Nat /\ k.token < Pages[m][k.ask]

Underway(k) ==
  \/ k.kind = "objects" /\ ObjectsSoFar(k)
  \/ k.kind = "package" /\ ModulesSoFar(k)
  \/ k.kind = "package" /\ Completing(k) /\ PartSoFar(k)
  \/ k.kind = "module" /\ PartSoFar(k)
  \/ k.kind = "transaction" /\ k.ask = "transaction"

CallOK(k) ==
  /\ DOMAIN k = DOMAIN NoCall
  /\ \/ k.pc \in {"begun", "waiting", "requested", "asleep"} /\ Underway(k)
     \/ /\ k.pc \in {"idle", "ok", "failed", "raised"} /\ k.ask = "none"
        /\ k.pc = "ok" => k.kind \in {"objects", "package", "module", "transaction"} /\ Complete(k)

ClientInv ==
  /\ protocol \in {"gql", "grpc"} /\ owned \subseteq Objects
  /\ DOMAIN call = Callers
  /\ \A c \in Callers : CallOK(call[c]) /\ call[c].pc # "begun"
=============================================================================
