------------------------- MODULE SerialExecutorProofs -------------------------
(***************************************************************************)
(* Proofs about SerialExecutor, for any transactions, options, amounts and *)
(* disturbances.  First QueueInv: a skipped transaction was never tried,   *)
(* and nothing happens after a hard stop.  Then OrderInv, over what a step *)
(* of the processor does with futures and queue (ItemStays, ItemSettles,   *)
(* ItemStops, Get): the steps keep the promise of ExecutorPromise in       *)
(* submission order, and an ended processor leaves only late submissions   *)
(* open.  Last FundedInv: the balance transactions start with.             *)
(***************************************************************************)
EXTENDS SerialExecutor, TLAPS

\* What the settling of the current item leaves alone.
ItemFrame == UNCHANGED <<order, closing, cur, retries, attempted, late>>

\* The balances stay natural numbers.
GasTyped == tracked' \in Nat /\ coin' \in Nat /\ behind' \in BOOLEAN

(***************************************************************************)
(* A suffix of the queue holds items of the queue, in the same order.      *)
(***************************************************************************)
LEMMA SuffixFacts ==
  ASSUME NEW S, NEW q \in Seq(S), NEW i \in 1..Len(q)
  PROVE  LET r == SubSeq(q, i + 1, Len(q)) IN
         /\ r \in Seq(S)
         /\ Len(r) = Len(q) - i
         /\ \A k \in 1..Len(r) : i + k \in 1..Len(q) /\ r[k] = q[i + k]
OBVIOUS

\* Tail, likewise.
LEMMA TailFacts ==
  ASSUME NEW S, NEW q \in Seq(S), q # <<>>
  PROVE  /\ Tail(q) \in Seq(S)
         /\ Len(Tail(q)) = Len(q) - 1
         /\ Head(q) = q[1] /\ 1 \in 1..Len(q) /\ Head(q) \in S
         /\ \A k \in 1..Len(Tail(q)) : 1 + k \in 1..Len(q) /\ Tail(q)[k] = q[1 + k]
OBVIOUS

\* Append adds one item at the end.
LEMMA AppendFacts ==
  ASSUME NEW S, NEW q \in Seq(S), NEW x \in S
  PROVE  /\ Append(q, x) \in Seq(S)
         /\ Len(Append(q, x)) = Len(q) + 1
         /\ Len(q) \in Nat
         /\ Append(q, x)[Len(q) + 1] = x
         /\ \A k \in 1..Len(q) : Append(q, x)[k] = q[k]
OBVIOUS

LEMMA InitInv == Init => QueueInv
<1> SUFFICES ASSUME Init PROVE QueueInv
  OBVIOUS
<1>1. coin \in Nat /\ tracked = coin
  <2>1. PICK total \in InitialTotals, merged \in BOOLEAN :
          coin = IF Mode = "coins" /\ merged THEN total - MergeGas ELSE total
    BY DEF Init
  <2>2. total \in Nat /\ MergeGas \in Nat /\ total >= MergeGas
    BY NumbersAssumption
  <2> QED BY <2>1, <2>2 DEF Init
<1>2. TypeOK
  <2>1. retries \in 0..MaxRetries
    BY NumbersAssumption DEF Init
  <2>2. order \in Seq(Txns) /\ queue \in Seq(Txns \union {SENTINEL})
    BY DEF Init
  <2>3. fut \in [Txns -> FutureStates]
    BY DEF Init, FutureStates
  <2> QED BY <1>1, <2>1, <2>2, <2>3 DEF Init, TypeOK
<1>3. Len(queue) = 0
  BY DEF Init
<1> QED
  BY <1>2, <1>3 DEF Init, QueueInv, QueuedUntried, QueuedOnce, Waits, UnsubmittedUntried,
     CurrentTaken, Busy, RetryLeft, HaltedEnded, Ended, SkippedNeverAttempted

(***************************************************************************)
(* A hard stop of a busy processor, when the futures f differ from those   *)
(* before at the current item only: what it skips was queued, and so was   *)
(* never tried; what it leaves in the queue it does not skip.              *)
(***************************************************************************)
LEMMA HardStopInv ==
  ASSUME QueueInv, Busy, ItemFrame, GasTyped,
         NEW f \in [Txns -> FutureStates],
         \A t \in Txns : t # cur => f[t] = fut[t],
         f[cur] \notin {"none", "skipped"},
         HardStop(f)
  PROVE  QueueInv'
<1>0. /\ queue \in Seq(Txns \union {SENTINEL})
      /\ SENTINEL \notin Txns
      /\ cur \in Txns /\ ~Waits(cur)
      /\ pc' \in Ended
  BY SentinelAssumption DEF QueueInv, TypeOK, CurrentTaken, HardStop, Ended
<1>1. ASSUME NEW t \in Txns, t \in Drained(f)
      PROVE  Waits(t) /\ t # cur
  BY <1>1, <1>0 DEF Drained, Waits
<1>2. \A t \in Txns : fut'[t] = IF t \in Drained(f) THEN "skipped" ELSE f[t]
  BY DEF HardStop
<1>3. fut' \in [Txns -> FutureStates]
  BY DEF HardStop, FutureStates
<1>4. /\ queue' \in Seq(Txns \union {SENTINEL})
      /\ \A t \in Txns : Waits(t)' => Waits(t) /\ t \notin Drained(f)
      /\ QueuedOnce'
  <2>1. CASE Refusing(f) = {}
    <3>1. queue' = <<>>
      BY <2>1 DEF HardStop
    <3> QED BY <3>1 DEF Waits, QueuedOnce
  <2>2. CASE Refusing(f) # {}
    <3>1. PICK i \in Refusing(f) : /\ \A j \in Refusing(f) : i <= j
                                   /\ queue' = SubSeq(queue, i + 1, Len(queue))
      BY <2>2 DEF HardStop
    <3>2. i \in 1..Len(queue)
      BY <3>1 DEF Refusing
    <3>3. /\ queue' \in Seq(Txns \union {SENTINEL})
          /\ \A k \in 1..Len(queue') : /\ i + k \in 1..Len(queue)
                                       /\ queue'[k] = queue[i + k]
      BY <1>0, <3>1, <3>2, SuffixFacts
    <3>4. ASSUME NEW t \in Txns, Waits(t)'
          PROVE  Waits(t) /\ t \notin Drained(f)
      <4>1. PICK k \in 1..Len(queue') : queue'[k] = t
        BY <3>4 DEF Waits
      <4>2. i + k \in 1..Len(queue) /\ queue[i + k] = t
        BY <4>1, <3>3
      <4>3. ASSUME t \in Drained(f) PROVE FALSE
        <5>1. PICK m \in 1..Len(queue) : /\ \A j \in Refusing(f) : m < j
                                         /\ queue[m] = t
          BY <4>3 DEF Drained
        <5>2. m = i + k
          BY <5>1, <4>2 DEF QueueInv, QueuedOnce
        <5>3. m < i
          BY <5>1, <3>1
        <5> QED BY <5>2, <5>3, <3>2, <4>1
      <4> QED BY <4>2, <4>3 DEF Waits
    <3>5. QueuedOnce'
      <4> SUFFICES ASSUME NEW k \in 1..Len(queue'), NEW m \in 1..Len(queue'),
                          queue'[k] \in Txns, queue'[k] = queue'[m]
                   PROVE  k = m
        BY DEF QueuedOnce
      <4>1. i + k = i + m
        BY <3>3 DEF QueueInv, QueuedOnce
      <4> QED BY <4>1, <3>2
    <3> QED BY <3>3, <3>4, <3>5
  <2> QED BY <2>1, <2>2
<1>5. QueuedUntried'
  <2> SUFFICES ASSUME NEW t \in Txns, Waits(t)'
               PROVE  fut'[t] \in {"pending", "cancelled"} /\ t \notin attempted'
    BY DEF QueuedUntried
  <2>1. Waits(t) /\ t # cur /\ fut'[t] = fut[t]
    BY <1>0, <1>2, <1>4
  <2> QED BY <2>1 DEF QueueInv, QueuedUntried, ItemFrame
<1>6. UnsubmittedUntried' /\ SkippedNeverAttempted'
  <2> SUFFICES ASSUME NEW t \in Txns, fut'[t] \in {"none", "skipped"}
               PROVE  t \notin attempted'
    BY DEF UnsubmittedUntried, SkippedNeverAttempted
  <2>1. CASE t \in Drained(f)
    BY <2>1, <1>1 DEF QueueInv, QueuedUntried, ItemFrame
  <2>2. CASE t \notin Drained(f)
    <3>1. t # cur /\ fut[t] \in {"none", "skipped"}
      BY <2>2, <1>2
    <3> QED BY <3>1 DEF QueueInv, UnsubmittedUntried, SkippedNeverAttempted, ItemFrame
  <2> QED BY <2>1, <2>2
<1>7. TypeOK'
  BY <1>0, <1>3, <1>4 DEF QueueInv, TypeOK, ItemFrame, GasTyped, HardStop, Ended
<1>8. CurrentTaken' /\ RetryLeft' /\ HaltedEnded'
  BY <1>0 DEF CurrentTaken, Busy, RetryLeft, HaltedEnded, Ended
<1> QED BY <1>4, <1>5, <1>6, <1>7, <1>8 DEF QueueInv

(***************************************************************************)
(* A step of a busy processor that settles nothing: it goes to another     *)
(* place of its loop, possibly handing the current item to the node.       *)
(***************************************************************************)
LEMMA StayInv ==
  ASSUME QueueInv, Busy, GasTyped,
         UNCHANGED <<fut, order, halted, queue, closing, cur, late>>,
         pc' \in {"get", "build", "execute", "callback", "fund", "crashed"},
         attempted' \in {attempted, attempted \union {cur}},
         retries' \in 0..MaxRetries,
         RetryLeft'
  PROVE  QueueInv'
<1>0. cur \in Txns /\ fut[cur] \notin {"none", "skipped"} /\ ~Waits(cur)
  BY DEF QueueInv, CurrentTaken
<1>1. TypeOK'
  BY <1>0 DEF QueueInv, TypeOK, GasTyped, Ended
<1>2. \A t \in Txns : Waits(t)' = Waits(t)
  BY DEF Waits
<1>3. \A t \in Txns : t \in attempted' => t \in attempted \/ t = cur
  OBVIOUS
<1>4. QueuedUntried'
  <2> SUFFICES ASSUME NEW t \in Txns, Waits(t)'
               PROVE  fut'[t] \in {"pending", "cancelled"} /\ t \notin attempted'
    BY DEF QueuedUntried
  <2>1. Waits(t) /\ t # cur
    BY <1>0, <1>2
  <2> QED BY <2>1, <1>3 DEF QueueInv, QueuedUntried
<1>5. UnsubmittedUntried' /\ SkippedNeverAttempted'
  BY <1>0, <1>3 DEF QueueInv, UnsubmittedUntried, SkippedNeverAttempted
<1>6. QueuedOnce'
  BY DEF QueueInv, QueuedOnce
<1>7. CurrentTaken'
  BY <1>0, <1>2 DEF CurrentTaken
<1>8. HaltedEnded'
  BY DEF QueueInv, HaltedEnded, Busy, Ended
<1> QED BY <1>1, <1>4, <1>5, <1>6, <1>7, <1>8 DEF QueueInv

(***************************************************************************)
(* Settling the current item, with whatever follows: the next item, a      *)
(* request for funds after a success, a hard stop, or a crash when the     *)
(* future was withdrawn.                                                   *)
(***************************************************************************)
LEMMA FinishInv ==
  ASSUME QueueInv, Busy, ItemFrame, GasTyped,
         NEW r \in Results, NEW stop \in BOOLEAN, NEW next \in {"get", "callback"},
         next = "callback" => r = "ok",
         Finish(r, stop, next)
  PROVE  QueueInv'
<1> DEFINE settled == [fut EXCEPT ![cur] = r]
<1>0. /\ cur \in Txns /\ ~Waits(cur)
      /\ fut \in [Txns -> FutureStates]
      /\ fut[cur] \notin {"none", "skipped"}
      /\ retries \in 0..MaxRetries
  BY DEF QueueInv, CurrentTaken, TypeOK
<1>1. /\ settled \in [Txns -> FutureStates]
      /\ settled[cur] = r
      /\ \A t \in Txns : t # cur => settled[t] = fut[t]
      /\ r \notin {"none", "skipped"}
  BY <1>0 DEF FutureStates, Results
<1>2. CASE fut[cur] = "cancelled"
  <2>1. pc' = "crashed" /\ UNCHANGED <<fut, queue, halted>>
    BY <1>2 DEF Finish, Crash
  <2>2. RetryLeft'
    BY <2>1 DEF RetryLeft
  <2> QED BY <2>1, <2>2, <1>0, StayInv DEF ItemFrame
<1>3. CASE fut[cur] # "cancelled" /\ stop
  <2>1. HardStop(settled)
    BY <1>3 DEF Finish
  <2> HIDE DEF settled
  <2> QED BY <2>1, <1>1, HardStopInv
<1>4. CASE fut[cur] # "cancelled" /\ ~stop
  <2>1. fut' = settled /\ pc' = next /\ UNCHANGED <<queue, halted>>
    BY <1>4 DEF Finish
  <2> HIDE DEF settled
  <2>2. TypeOK'
    BY <2>1, <1>1 DEF QueueInv, TypeOK, ItemFrame, GasTyped
  <2>3. \A t \in Txns : Waits(t)' = Waits(t)
    BY <2>1 DEF Waits
  <2>4. QueuedUntried'
    <3> SUFFICES ASSUME NEW t \in Txns, Waits(t)'
                 PROVE  fut'[t] \in {"pending", "cancelled"} /\ t \notin attempted'
      BY DEF QueuedUntried
    <3>1. Waits(t) /\ t # cur
      BY <1>0, <2>3
    <3> QED BY <3>1, <2>1, <1>1 DEF QueueInv, QueuedUntried, ItemFrame
  <2>5. UnsubmittedUntried' /\ SkippedNeverAttempted'
    BY <2>1, <1>1 DEF QueueInv, UnsubmittedUntried, SkippedNeverAttempted, ItemFrame
  <2>6. QueuedOnce'
    BY <2>1 DEF QueueInv, QueuedOnce
  <2>7. CurrentTaken'
    BY <2>1, <2>3, <1>0, <1>1 DEF CurrentTaken, ItemFrame
  <2>8. RetryLeft'
    BY <2>1, <1>1 DEF RetryLeft, Retrying, ItemFrame
  <2>9. HaltedEnded'
    BY <2>1 DEF QueueInv, HaltedEnded, Busy, Ended
  <2> QED BY <2>2, <2>4, <2>5, <2>6, <2>7, <2>8, <2>9 DEF QueueInv
<1> QED BY <1>2, <1>3, <1>4

\* Funds were refused: the item that waits for them fails, then a hard stop.
LEMMA RefusedInv ==
  ASSUME QueueInv, Busy, ItemFrame, UNCHANGED gas, Refused
  PROVE  QueueInv'
<1>1. GasTyped
  BY DEF QueueInv, TypeOK, GasTyped, gas
<1>2. CASE Retrying
  BY <1>1, <1>2, FinishInv DEF Refused, Results
<1>3. CASE ~Retrying
  <2>1. /\ fut \in [Txns -> FutureStates]
        /\ fut[cur] \notin {"none", "skipped"}
        /\ HardStop(fut)
    BY <1>3 DEF QueueInv, TypeOK, CurrentTaken, Refused
  <2> QED BY <1>1, <2>1, HardStopInv
<1> QED BY <1>2, <1>3

\* A transaction executes: the balances stay natural numbers.
LEMMA ExecuteOkInv == QueueInv /\ ExecuteOk => QueueInv'
<1> SUFFICES ASSUME QueueInv, ExecuteOk PROVE QueueInv'
  OBVIOUS
<1>1. PICK g \in GasCosts, x \in Transfers :
        /\ pc = "execute"
        /\ ChainExecutes(g, x)
        /\ tracked' = Deduct(tracked, g)
        /\ behind' = FALSE
        /\ Finish("ok", FALSE, IF NeedsFunds(tracked') THEN "callback" ELSE "get")
        /\ ItemFrame
  BY DEF ExecuteOk, ItemFrame
<1>2. GasTyped
  <2>1. g \in Int /\ tracked \in Nat /\ MaxBalance \in Nat
    BY NumbersAssumption DEF QueueInv, TypeOK
  <2>2. tracked' \in Nat
    BY <1>1, <2>1 DEF Deduct
  <2>3. coin' \in Nat
    BY <1>1, <2>1 DEF ChainExecutes
  <2> QED BY <1>1, <2>2, <2>3 DEF GasTyped
<1>3. Busy
  BY <1>1 DEF Busy
<1>4. CASE NeedsFunds(tracked')
  <2>1. Finish("ok", FALSE, "callback")
    BY <1>1, <1>4
  <2> QED BY <1>1, <1>2, <1>3, <2>1, FinishInv DEF Results
<1>5. CASE ~NeedsFunds(tracked')
  <2>1. Finish("ok", FALSE, "get")
    BY <1>1, <1>5
  <2> QED BY <1>1, <1>2, <1>3, <2>1, FinishInv DEF Results
<1> QED BY <1>4, <1>5

\* The reply is lost: the same, with nothing learnt about the coin.
LEMMA ReplyLostInv == QueueInv /\ ReplyLost => QueueInv'
<1> SUFFICES ASSUME QueueInv, ReplyLost PROVE QueueInv'
  OBVIOUS
<1>1. PICK g \in GasCosts, x \in Transfers :
        /\ pc = "execute"
        /\ ChainExecutes(g, x)
        /\ behind' = (Mode = "coins")
        /\ Finish("exec_error", ExitOnFailure, "get")
        /\ tracked' = tracked
        /\ ItemFrame
  BY DEF ReplyLost, ItemFrame
<1>2. GasTyped
  <2>1. tracked \in Nat /\ MaxBalance \in Nat
    BY NumbersAssumption DEF QueueInv, TypeOK
  <2>2. coin' \in Nat
    BY <1>1, <2>1 DEF ChainExecutes
  <2> QED BY <1>1, <2>1, <2>2 DEF GasTyped
<1>3. Busy
  BY <1>1 DEF Busy
<1> QED BY <1>1, <1>2, <1>3, FinishInv, OptionsAssumption DEF Results

\* The processor takes the next item out of the queue.
LEMMA GetInv == QueueInv /\ Get => QueueInv'
<1> SUFFICES ASSUME QueueInv, Get PROVE QueueInv'
  OBVIOUS
<1>0. /\ queue \in Seq(Txns \union {SENTINEL}) /\ queue # <<>>
      /\ queue' = Tail(queue)
      /\ UNCHANGED <<fut, order, halted, closing, tracked, coin, behind, attempted, late>>
  BY DEF QueueInv, TypeOK, Get, gas
<1>1. /\ queue' \in Seq(Txns \union {SENTINEL})
      /\ Head(queue) = queue[1] /\ 1 \in 1..Len(queue)
      /\ Head(queue) \in Txns \union {SENTINEL}
      /\ \A k \in 1..Len(queue') : 1 + k \in 1..Len(queue) /\ queue'[k] = queue[1 + k]
  BY <1>0, TailFacts
<1>2. \A t \in Txns : Waits(t)' => Waits(t) /\ t # Head(queue)
  <2> SUFFICES ASSUME NEW t \in Txns, Waits(t)'
               PROVE  Waits(t) /\ t # Head(queue)
    OBVIOUS
  <2>1. PICK k \in 1..Len(queue') : queue'[k] = t
    BY DEF Waits
  <2>2. 1 + k \in 1..Len(queue) /\ queue[1 + k] = t /\ 1 + k # 1
    BY <1>1, <2>1
  <2> QED BY <1>1, <2>2 DEF Waits, QueueInv, QueuedOnce
<1>3. QueuedOnce'
  <2> SUFFICES ASSUME NEW k \in 1..Len(queue'), NEW m \in 1..Len(queue'),
                      queue'[k] \in Txns, queue'[k] = queue'[m]
               PROVE  k = m
    BY DEF QueuedOnce
  <2>1. 1 + k = 1 + m
    BY <1>1 DEF QueueInv, QueuedOnce
  <2> QED BY <2>1
<1>4. QueuedUntried' /\ UnsubmittedUntried' /\ SkippedNeverAttempted'
  BY <1>0, <1>2 DEF QueueInv, QueuedUntried, UnsubmittedUntried, SkippedNeverAttempted
<1>5. HaltedEnded'
  BY <1>0 DEF QueueInv, HaltedEnded, Get, Ended
<1>6. CASE Head(queue) = SENTINEL
  <2>1. pc' = "done" /\ cur' = cur /\ retries' = retries
    BY <1>6 DEF Get
  <2>2. TypeOK'
    BY <1>0, <1>1, <2>1 DEF QueueInv, TypeOK, Ended
  <2>3. CurrentTaken' /\ RetryLeft'
    BY <2>1 DEF CurrentTaken, Busy, RetryLeft
  <2> QED BY <1>3, <1>4, <1>5, <2>2, <2>3 DEF QueueInv
<1>7. CASE Head(queue) # SENTINEL
  <2>1. pc' = "build" /\ cur' = Head(queue) /\ retries' = 0 /\ cur' \in Txns
    BY <1>1, <1>7 DEF Get
  <2>2. TypeOK'
    <3>1. 0 \in 0..MaxRetries
      BY NumbersAssumption
    <3> QED BY <1>0, <1>1, <2>1, <3>1 DEF QueueInv, TypeOK
  <2>3. Waits(cur')
    BY <1>1, <2>1 DEF Waits
  <2>4. CurrentTaken'
    BY <1>0, <1>2, <2>1, <2>3 DEF QueueInv, QueuedUntried, CurrentTaken
  <2>5. RetryLeft'
    BY <2>1 DEF RetryLeft
  <2> QED BY <1>3, <1>4, <1>5, <2>2, <2>4, <2>5 DEF QueueInv
<1> QED BY <1>6, <1>7

\* Every step of the processor task.
LEMMA ProcessorInv == QueueInv /\ Processor => QueueInv'
<1> SUFFICES ASSUME QueueInv, Processor PROVE QueueInv'
  OBVIOUS
<1>0. /\ retries \in 0..MaxRetries /\ MaxRetries \in Nat /\ MaxBalance \in Nat
      /\ tracked \in Nat /\ coin \in Nat /\ behind \in BOOLEAN
  BY NumbersAssumption DEF QueueInv, TypeOK
<1>1. CASE Get
  BY <1>1, GetInv
<1>2. CASE Build
  <2>1. Busy /\ GasTyped /\ RetryLeft'
    BY <1>0, <1>2 DEF Build, Busy, GasTyped, gas, RetryLeft
  <2> QED BY <1>0, <1>2, <2>1, StayInv DEF Build
<1>3. CASE BuildFails
  <2>1. Busy /\ GasTyped /\ ItemFrame
    BY <1>0, <1>3 DEF BuildFails, Busy, GasTyped, gas, ItemFrame
  <2> QED BY <1>3, <2>1, FinishInv, OptionsAssumption DEF BuildFails, Results
<1>4. CASE ExecuteOk
  BY <1>4, ExecuteOkInv
<1>5. CASE OutOfGas
  <2>1. Busy /\ GasTyped /\ ItemFrame
    BY <1>0, <1>5 DEF OutOfGas, Busy, GasTyped, gas, ItemFrame
  <2>2. CASE retries >= MaxRetries
    BY <1>5, <2>1, <2>2, FinishInv DEF OutOfGas, Results
  <2>3. CASE ~(retries >= MaxRetries)
    <3>1. pc' = "callback" /\ UNCHANGED <<fut, queue, halted>>
      BY <1>5, <2>3 DEF OutOfGas
    <3>2. RetryLeft'
      BY <1>0, <2>1, <2>3 DEF RetryLeft, ItemFrame
    <3> QED BY <1>0, <2>1, <3>1, <3>2, StayInv DEF ItemFrame
  <2> QED BY <2>2, <2>3
<1>6. CASE ExecuteFails
  <2>1. Busy /\ GasTyped /\ ItemFrame
    BY <1>0, <1>6 DEF ExecuteFails, Busy, GasTyped, gas, ItemFrame
  <2> QED BY <1>6, <2>1, FinishInv, OptionsAssumption DEF ExecuteFails, Results
<1>7. CASE ReplyLost
  BY <1>7, ReplyLostInv
<1>8. CASE CallbackOk
  <2>1. Busy /\ GasTyped
    BY <1>0, <1>8 DEF CallbackOk, Busy, GasTyped, gas
  <2>2. RetryLeft'
    BY <1>8 DEF QueueInv, RetryLeft, Retrying, CallbackOk
  <2> QED BY <1>0, <1>8, <2>1, <2>2, StayInv DEF CallbackOk
<1>9. CASE CallbackDeclines
  BY <1>9, RefusedInv DEF CallbackDeclines, Busy, ItemFrame
<1>10. CASE CallbackRaises
  <2>1. Busy /\ GasTyped /\ RetryLeft'
    BY <1>0, <1>10 DEF CallbackRaises, Crash, Busy, GasTyped, gas, RetryLeft
  <2> QED BY <1>0, <1>10, <2>1, StayInv DEF CallbackRaises, Crash
<1>11. CASE FundOk
  <2>1. Busy
    BY <1>11 DEF FundOk, Busy
  <2>2. GasTyped
    <3>1. PICK a \in Refills : AddFunds(a) /\ {coin', tracked'} \subseteq 0..MaxBalance
      BY <1>11 DEF FundOk
    <3>2. coin' \in Nat /\ tracked' \in Nat
      BY <1>0, <3>1
    <3>3. behind' \in BOOLEAN
      BY <1>0, <3>1 DEF AddFunds
    <3> QED BY <3>2, <3>3 DEF GasTyped
  <2>3. /\ UNCHANGED <<fut, order, halted, queue, closing, cur, attempted, late>>
        /\ pc = "fund" /\ pc' \in {"build", "get"}
        /\ retries' = IF Retrying THEN retries + 1 ELSE retries
    BY <1>11 DEF FundOk
  <2>4. retries' \in 0..MaxRetries
    BY <1>0, <2>3 DEF QueueInv, RetryLeft
  <2>5. RetryLeft'
    BY <2>3 DEF RetryLeft
  <2> QED BY <2>1, <2>2, <2>3, <2>4, <2>5, StayInv
<1>12. CASE FundFails
  BY <1>12, RefusedInv DEF FundFails, Busy, ItemFrame
<1> QED
  BY <1>1, <1>2, <1>3, <1>4, <1>5, <1>6, <1>7, <1>8, <1>9, <1>10, <1>11, <1>12
  DEF Processor

\* A transaction is submitted: queued at the end, or skipped by a dead executor.
LEMMA SubmitInv == QueueInv /\ (\E t \in Txns : Submit(t)) => QueueInv'
<1> SUFFICES ASSUME QueueInv, NEW t \in Txns, Submit(t) PROVE QueueInv'
  OBVIOUS
<1> DEFINE new == IF halted THEN "skipped" ELSE "pending"
<1>0. /\ fut \in [Txns -> FutureStates] /\ fut[t] = "none"
      /\ queue \in Seq(Txns \union {SENTINEL}) /\ order \in Seq(Txns)
      /\ t \notin attempted /\ ~Waits(t)
      /\ UNCHANGED <<halted, closing, pc, cur, retries, tracked, coin, behind, attempted>>
  BY DEF QueueInv, TypeOK, Submit, worker, gas, UnsubmittedUntried, QueuedUntried
<1>1. /\ fut' \in [Txns -> FutureStates]
      /\ fut'[t] = new
      /\ \A u \in Txns : u # t => fut'[u] = fut[u]
  BY <1>0 DEF Submit, FutureStates
<1>2. /\ queue' \in Seq(Txns \union {SENTINEL})
      /\ \A u \in Txns : Waits(u)' => Waits(u) \/ (u = t /\ ~halted)
      /\ QueuedOnce'
  <2>1. CASE halted
    <3>1. queue' = queue
      BY <2>1 DEF Submit
    <3> QED BY <1>0, <3>1 DEF Waits, QueuedOnce, QueueInv
  <2>2. CASE ~halted
    <3>1. queue' = Append(queue, t)
      BY <2>2 DEF Submit
    <3>2. /\ queue' \in Seq(Txns \union {SENTINEL})
          /\ Len(queue') = Len(queue) + 1 /\ Len(queue) \in Nat
          /\ queue'[Len(queue) + 1] = t
          /\ \A k \in 1..Len(queue) : queue'[k] = queue[k]
      BY <1>0, <3>1, AppendFacts
    <3>3. \A k \in 1..Len(queue') : k \in 1..Len(queue) \/ k = Len(queue) + 1
      BY <3>2
    <3>4. \A u \in Txns : Waits(u)' => Waits(u) \/ u = t
      BY <3>2, <3>3 DEF Waits
    <3>5. \A k \in 1..Len(queue) : queue[k] # t
      BY <1>0 DEF Waits
    <3>6. QueuedOnce'
      <4> SUFFICES ASSUME NEW k \in 1..Len(queue'), NEW m \in 1..Len(queue'),
                          queue'[k] \in Txns, queue'[k] = queue'[m]
                   PROVE  k = m
        BY DEF QueuedOnce
      <4>1. CASE k \in 1..Len(queue) /\ m \in 1..Len(queue)
        <5>1. queue[k] \in Txns /\ queue[k] = queue[m]
          BY <3>2, <4>1
        <5> QED BY <4>1, <5>1 DEF QueueInv, QueuedOnce
      <4>2. CASE k = Len(queue) + 1 \/ m = Len(queue) + 1
        BY <3>2, <3>3, <3>5, <4>2
      <4> QED BY <3>3, <4>1, <4>2
    <3> QED BY <2>2, <3>2, <3>4, <3>6
  <2> QED BY <2>1, <2>2
<1>3. QueuedUntried'
  BY <1>0, <1>1, <1>2 DEF QueueInv, QueuedUntried
<1>4. UnsubmittedUntried' /\ SkippedNeverAttempted'
  BY <1>0, <1>1 DEF QueueInv, UnsubmittedUntried, SkippedNeverAttempted
<1>5. CurrentTaken'
  <2> SUFFICES ASSUME Busy
               PROVE  cur \in Txns /\ fut'[cur] \notin {"none", "skipped"} /\ ~Waits(cur)'
    BY <1>0 DEF CurrentTaken, Busy
  <2>1. cur \in Txns /\ fut[cur] \notin {"none", "skipped"} /\ ~Waits(cur) /\ cur # t
    BY <1>0 DEF QueueInv, CurrentTaken
  <2> QED BY <2>1, <1>0, <1>1, <1>2 DEF Waits
<1>6. RetryLeft'
  <2> SUFFICES ASSUME pc \in {"callback", "fund"}, fut'[cur] # "ok"
               PROVE  retries < MaxRetries
    BY <1>0 DEF RetryLeft, Retrying
  <2>1. cur \in Txns /\ cur # t
    BY <1>0 DEF QueueInv, CurrentTaken, Busy
  <2> QED BY <2>1, <1>1 DEF QueueInv, RetryLeft, Retrying
<1>7. TypeOK'
  <2>1. order' \in Seq(Txns) /\ late' \in SUBSET Txns
    BY <1>0, AppendFacts DEF QueueInv, TypeOK, Submit
  <2> QED BY <1>0, <1>1, <1>2, <2>1 DEF QueueInv, TypeOK
<1>8. HaltedEnded'
  BY <1>0 DEF QueueInv, HaltedEnded
<1> QED BY <1>2, <1>3, <1>4, <1>5, <1>6, <1>7, <1>8 DEF QueueInv

\* A pending future is cancelled by its holder.
LEMMA CancelInv == QueueInv /\ (\E t \in Txns : CancelFuture(t)) => QueueInv'
<1> SUFFICES ASSUME QueueInv, NEW t \in Txns, CancelFuture(t) PROVE QueueInv'
  OBVIOUS
<1>0. /\ fut \in [Txns -> FutureStates] /\ fut[t] = "pending"
      /\ UNCHANGED <<order, halted, queue, closing, pc, cur, retries, tracked, coin,
                     behind, attempted, late>>
  BY DEF QueueInv, TypeOK, CancelFuture, worker, gas
<1>1. /\ fut' \in [Txns -> FutureStates]
      /\ fut'[t] = "cancelled"
      /\ \A u \in Txns : u # t => fut'[u] = fut[u]
  BY <1>0 DEF CancelFuture, FutureStates
<1>2. \A u \in Txns : Waits(u)' = Waits(u)
  BY <1>0 DEF Waits
<1>3. QueuedUntried' /\ UnsubmittedUntried' /\ SkippedNeverAttempted'
  BY <1>0, <1>1, <1>2
  DEF QueueInv, QueuedUntried, UnsubmittedUntried, SkippedNeverAttempted
<1>4. CurrentTaken'
  BY <1>0, <1>1, <1>2 DEF QueueInv, CurrentTaken, Busy
<1>5. RetryLeft'
  <2> SUFFICES ASSUME pc \in {"callback", "fund"}, fut'[cur] # "ok"
               PROVE  retries < MaxRetries
    BY <1>0 DEF RetryLeft, Retrying
  <2>1. cur \in Txns
    BY DEF QueueInv, CurrentTaken, Busy
  <2> QED BY <2>1, <1>0, <1>1 DEF QueueInv, RetryLeft, Retrying
<1>6. TypeOK' /\ QueuedOnce' /\ HaltedEnded'
  BY <1>0, <1>1 DEF QueueInv, TypeOK, QueuedOnce, HaltedEnded
<1> QED BY <1>3, <1>4, <1>5, <1>6 DEF QueueInv

\* close() queues the sentinel, which is no transaction.
LEMMA CloseInv == QueueInv /\ Close => QueueInv'
<1> SUFFICES ASSUME QueueInv, Close PROVE QueueInv'
  OBVIOUS
<1>0. /\ queue \in Seq(Txns \union {SENTINEL})
      /\ queue' = Append(queue, SENTINEL) /\ closing' = TRUE
      /\ UNCHANGED <<fut, order, halted, pc, cur, retries, tracked, coin, behind,
                     attempted, late>>
  BY DEF QueueInv, TypeOK, Close, worker, gas
<1>1. /\ queue' \in Seq(Txns \union {SENTINEL})
      /\ Len(queue') = Len(queue) + 1 /\ Len(queue) \in Nat
      /\ queue'[Len(queue) + 1] = SENTINEL
      /\ \A k \in 1..Len(queue) : queue'[k] = queue[k]
  BY <1>0, AppendFacts
<1>2. \A k \in 1..Len(queue') : queue'[k] \in Txns => k \in 1..Len(queue)
  BY <1>1, SentinelAssumption
<1>3. \A t \in Txns : Waits(t)' = Waits(t)
  BY <1>1, <1>2 DEF Waits
<1>4. QueuedOnce'
  BY <1>1, <1>2 DEF QueueInv, QueuedOnce
<1>5. QueuedUntried' /\ UnsubmittedUntried' /\ SkippedNeverAttempted'
  BY <1>0, <1>3 DEF QueueInv, QueuedUntried, UnsubmittedUntried, SkippedNeverAttempted
<1>6. CurrentTaken' /\ RetryLeft' /\ HaltedEnded'
  BY <1>0, <1>3 DEF QueueInv, CurrentTaken, Busy, RetryLeft, Retrying, HaltedEnded
<1>7. TypeOK'
  BY <1>0, <1>1 DEF QueueInv, TypeOK
<1> QED BY <1>4, <1>5, <1>6, <1>7 DEF QueueInv

\* Every step of the executor and of those who use it.
LEMMA NextInv == QueueInv /\ [Next]_vars => QueueInv'
<1> SUFFICES ASSUME QueueInv, [Next]_vars PROVE QueueInv'
  OBVIOUS
<1>1. CASE \E t \in Txns : Submit(t)
  BY <1>1, SubmitInv
<1>2. CASE \E t \in Txns : CancelFuture(t)
  BY <1>2, CancelInv
<1>3. CASE Close
  BY <1>3, CloseInv
<1>4. CASE Processor
  BY <1>4, ProcessorInv
<1>5. CASE UNCHANGED vars
  BY <1>5 DEF vars, QueueInv, TypeOK, QueuedUntried, QueuedOnce, Waits, UnsubmittedUntried,
     CurrentTaken, Busy, RetryLeft, Retrying, HaltedEnded, SkippedNeverAttempted
<1> QED BY <1>1, <1>2, <1>3, <1>4, <1>5 DEF Next

------------------------------------------------------------------------------
(***************************************************************************)
(* What a step of the processor task does with futures and queue, gas and  *)
(* retries aside: it stays with its item, settles it, stops hard, or takes *)
(* the next item (Get).                                                    *)
(***************************************************************************)
ItemStays ==
  /\ UNCHANGED <<fut, halted, queue>>
  /\ pc' \in {"get", "build", "execute", "callback", "fund", "crashed"}
  /\ pc' = "get" => fut[cur] = "ok"
  /\ pc' \in {"build", "execute"} => fut[cur] # "ok"

ItemSettles(r) ==
  /\ fut[cur] = "pending"
  /\ fut' = [fut EXCEPT ![cur] = r]
  /\ pc' \in {"get", "callback"}
  /\ pc' = "callback" => r = "ok"
  /\ UNCHANGED <<queue, halted>>

\* The futures before the drain loop: the current item may have been settled.
Settled(f) ==
  \/ f = fut /\ fut[cur] = "ok"
  \/ fut[cur] = "pending" /\ \E r \in Results : f = [fut EXCEPT ![cur] = r]

ItemStops == \E f \in [Txns -> FutureStates] : Settled(f) /\ HardStop(f)

\* The build and execution steps, whose item has no result yet.
Open == Busy /\ fut[cur] \in {"pending", "cancelled"}

LEMMA FinishSteps ==
  ASSUME QueueInv, Open,
         NEW r \in Results, NEW stop \in BOOLEAN, NEW next \in {"get", "callback"},
         next = "callback" => r = "ok",
         Finish(r, stop, next)
  PROVE  ItemStays \/ ItemSettles(r) \/ ItemStops
<1> DEFINE settled == [fut EXCEPT ![cur] = r]
<1>1. CASE fut[cur] = "cancelled"
  BY <1>1 DEF Finish, Crash, ItemStays
<1>2. CASE fut[cur] = "pending" /\ stop
  <2>1. HardStop(settled)
    BY <1>2 DEF Finish
  <2>2. settled \in [Txns -> FutureStates]
    BY DEF QueueInv, TypeOK, FutureStates, Results
  <2>3. Settled(settled)
    BY <1>2 DEF Settled
  <2> HIDE DEF settled
  <2> QED BY <2>1, <2>2, <2>3 DEF ItemStops
<1>3. CASE fut[cur] = "pending" /\ ~stop
  BY <1>3 DEF Finish, ItemSettles
<1> QED BY <1>1, <1>2, <1>3 DEF Open

LEMMA RefusedSteps ==
  ASSUME QueueInv, CurrentOpen, Busy, Refused
  PROVE  ItemStays \/ (\E r \in Results : ItemSettles(r)) \/ ItemStops
<1>1. CASE Retrying
  <2>1. Open /\ Finish("exec_error", TRUE, "get")
    BY <1>1 DEF CurrentOpen, Retrying, Open, Refused
  <2> QED BY <2>1, FinishSteps DEF Results
<1>2. CASE ~Retrying
  <2>1. fut \in [Txns -> FutureStates] /\ Settled(fut) /\ HardStop(fut)
    BY <1>2 DEF Refused, Retrying, Settled, QueueInv, TypeOK
  <2> QED BY <2>1 DEF ItemStops
<1> QED BY <1>1, <1>2

LEMMA ProcessorSteps ==
  ASSUME QueueInv, CurrentOpen, Processor
  PROVE  Get \/ (Busy /\ UNCHANGED <<order, closing, cur, late>>
                 /\ (ItemStays \/ (\E r \in Results : ItemSettles(r)) \/ ItemStops))
<1> DEFINE Goal == /\ Busy /\ UNCHANGED <<order, closing, cur, late>>
                   /\ ItemStays \/ (\E r \in Results : ItemSettles(r)) \/ ItemStops
<1>0. pc \in {"build", "execute"} => Open
  BY DEF CurrentOpen, Busy, Open
<1>1. CASE Build
  BY <1>0, <1>1 DEF Build, Busy, ItemStays, gas, Open
<1>2. CASE BuildFails
  <2>1. Open /\ Finish("build_error", ExitOnFailure, "get")
    BY <1>0, <1>2 DEF BuildFails
  <2>2. ItemStays \/ ItemSettles("build_error") \/ ItemStops
    BY <2>1, FinishSteps, OptionsAssumption DEF Results
  <2> QED BY <1>2, <2>1, <2>2 DEF BuildFails, Open, Results
<1>3. CASE ExecuteOk
  <2>1. PICK next \in {"get", "callback"} : Finish("ok", FALSE, next)
    BY <1>3 DEF ExecuteOk
  <2>2. Open /\ UNCHANGED <<order, closing, cur, late>>
    BY <1>0, <1>3 DEF ExecuteOk
  <2>3. ItemStays \/ ItemSettles("ok") \/ ItemStops
    BY <2>1, <2>2, FinishSteps DEF Results
  <2> QED BY <2>2, <2>3 DEF Open, Results
<1>4. CASE OutOfGas
  <2>1. Open /\ UNCHANGED <<order, closing, cur, late>>
    BY <1>0, <1>4 DEF OutOfGas
  <2>2. CASE retries >= MaxRetries
    <3>1. Finish("exec_error", TRUE, "get")
      BY <1>4, <2>2 DEF OutOfGas
    <3>2. ItemStays \/ ItemSettles("exec_error") \/ ItemStops
      BY <2>1, <3>1, FinishSteps DEF Results
    <3> QED BY <2>1, <3>2 DEF Open, Results
  <2>3. CASE ~(retries >= MaxRetries)
    <3>1. pc' = "callback" /\ UNCHANGED <<fut, queue, halted>>
      BY <1>4, <2>3 DEF OutOfGas
    <3> QED BY <2>1, <3>1 DEF ItemStays, Open
  <2> QED BY <2>2, <2>3
<1>5. CASE ExecuteFails
  <2>1. Open /\ Finish("exec_error", ExitOnFailure, "get")
    BY <1>0, <1>5 DEF ExecuteFails
  <2>2. ItemStays \/ ItemSettles("exec_error") \/ ItemStops
    BY <2>1, FinishSteps, OptionsAssumption DEF Results
  <2> QED BY <1>5, <2>1, <2>2 DEF ExecuteFails, Open, Results
<1>6. CASE ReplyLost
  <2>1. Open /\ Finish("exec_error", ExitOnFailure, "get")
    BY <1>0, <1>6 DEF ReplyLost
  <2>2. ItemStays \/ ItemSettles("exec_error") \/ ItemStops
    BY <2>1, FinishSteps, OptionsAssumption DEF Results
  <2> QED BY <1>6, <2>1, <2>2 DEF ReplyLost, Open, Results
<1>7. CASE CallbackOk
  BY <1>7 DEF CallbackOk, Busy, ItemStays
<1>8. CASE CallbackDeclines
  <2>1. Busy /\ Refused
    BY <1>8 DEF CallbackDeclines, Busy
  <2> QED BY <1>8, <2>1, RefusedSteps DEF CallbackDeclines
<1>9. CASE CallbackRaises
  BY <1>9 DEF CallbackRaises, Crash, Busy, ItemStays
<1>10. CASE FundOk
  BY <1>10 DEF FundOk, Busy, ItemStays, Retrying
<1>11. CASE FundFails
  <2>1. Busy /\ Refused
    BY <1>11 DEF FundFails, Busy
  <2> QED BY <1>11, <2>1, RefusedSteps DEF FundFails
<1> QED
  BY <1>1, <1>2, <1>3, <1>4, <1>5, <1>6, <1>7, <1>8, <1>9, <1>10, <1>11 DEF Processor
------------------------------------------------------------------------------
(***************************************************************************)
(* The invariant about orders.  First, what remains of the queue stays in  *)
(* order when items are taken from its front, and the oldest item stays    *)
(* the oldest when futures are settled.                                    *)
(***************************************************************************)
LEMMA SuffixOrder ==
  ASSUME OrderInv, UNCHANGED <<order, closing, late>>,
         NEW d \in Nat, queue' \in Seq(Txns \union {SENTINEL}),
         \A k \in 1..Len(queue') : d + k \in 1..Len(queue) /\ queue'[k] = queue[d + k]
  PROVE  QueueInOrder' /\ LateBehindSentinel'
<1>1. QueueInOrder'
  <2> SUFFICES ASSUME NEW i \in 1..Len(order), NEW j \in 1..Len(order),
                      NEW k \in 1..Len(queue'), NEW m \in 1..Len(queue'),
                      order[i] = queue'[k], order[j] = queue'[m], i < j
               PROVE  k < m
    BY DEF QueueInOrder
  <2>1. order[i] = queue[d + k] /\ order[j] = queue[d + m]
    OBVIOUS
  <2>2. d + k \in 1..Len(queue) /\ d + m \in 1..Len(queue)
    OBVIOUS
  <2>3. d + k < d + m
    BY <2>1, <2>2 DEF OrderInv, QueueInOrder
  <2> QED BY <2>3
<1>2. LateBehindSentinel'
  <2> SUFFICES ASSUME NEW k \in 1..Len(queue'), NEW m \in 1..Len(queue'),
                      queue'[k] = SENTINEL
               PROVE  closing /\ (k < m /\ queue'[m] \in Txns => queue'[m] \in late)
    BY DEF LateBehindSentinel
  <2>1. queue[d + k] = SENTINEL /\ queue'[m] = queue[d + m]
    OBVIOUS
  <2>2. d + k \in 1..Len(queue) /\ d + m \in 1..Len(queue)
    OBVIOUS
  <2>3. closing /\ (d + k < d + m /\ queue[d + m] \in Txns => queue[d + m] \in late)
    BY <2>1, <2>2 DEF OrderInv, LateBehindSentinel
  <2> QED BY <2>1, <2>3
<1> QED BY <1>1, <1>2

LEMMA SettledOrder ==
  ASSUME QueueInv, OrderInv, order' = order,
         \A t \in Txns : /\ fut'[t] = "pending" => fut[t] = "pending"
                         /\ fut'[t] = "none" <=> fut[t] = "none"
  PROVE  /\ Submitted'
         /\ (Busy' => Busy /\ cur' = cur) => CurrentOldest'
<1>0. order \in Seq(Txns) /\ \A i \in 1..Len(order) : order[i] \in Txns
  BY DEF QueueInv, TypeOK
<1>1. Submitted'
  BY <1>0 DEF OrderInv, Submitted
<1>2. ASSUME Busy, cur' = cur
      PROVE  OldestPending(cur)'
  <2>1. PICK i \in 1..Len(order) :
          order[i] = cur /\ \A j \in 1..(i - 1) : fut[order[j]] # "pending"
    BY <1>2 DEF OrderInv, CurrentOldest, OldestPending
  <2>2. \A j \in 1..(i - 1) : fut'[order[j]] # "pending"
    BY <1>0, <2>1
  <2> QED BY <1>2, <2>1, <2>2 DEF OldestPending
<1> QED BY <1>1, <1>2 DEF CurrentOldest

\* The item being processed was submitted, and it is not in the queue.
LEMMA StaysOrder ==
  ASSUME QueueInv, OrderInv, Busy, UNCHANGED <<order, closing, cur, late>>, ItemStays
  PROVE  OrderInv'
<1>0. /\ queue \in Seq(Txns \union {SENTINEL}) /\ cur \in Txns
      /\ UNCHANGED <<fut, queue, halted>>
      /\ pc \in {"build", "execute", "callback", "fund"}
  BY DEF QueueInv, TypeOK, CurrentTaken, ItemStays, Busy
<1>1. QueueInOrder' /\ LateBehindSentinel'
  <2>1. \A k \in 1..Len(queue') : 0 + k \in 1..Len(queue) /\ queue'[k] = queue[0 + k]
    BY <1>0
  <2> QED BY <1>0, <2>1, SuffixOrder
<1>2. Submitted' /\ CurrentOldest'
  BY <1>0, SettledOrder
<1>3. \A t \in Txns : Waits(t)' = Waits(t)
  BY <1>0 DEF Waits
<1>4. \A t \in Txns : fut[t] = "pending" => Waits(t) \/ t = cur
  BY <1>0 DEF OrderInv, OpenHeld, Ended
<1>5. OpenHeld'
  <2>1. CASE pc' = "get"
    <3>1. fut[cur] = "ok"
      BY <2>1 DEF ItemStays
    <3> QED BY <1>0, <1>3, <1>4, <3>1 DEF OpenHeld
  <2>2. CASE pc' = "crashed"
    BY <2>2 DEF OpenHeld, Ended
  <2>3. CASE pc' \in {"build", "execute", "callback", "fund"}
    BY <2>3, <1>0, <1>3, <1>4 DEF OpenHeld, Busy
  <2> QED BY <2>1, <2>2, <2>3 DEF ItemStays
<1>6. CurrentOpen'
  BY <1>0 DEF OrderInv, CurrentOpen, Busy, ItemStays
<1>7. DoneClosed' /\ DrainedAtExit'
  BY DEF ItemStays, DoneClosed, DrainedAtExit
<1> QED BY <1>1, <1>2, <1>5, <1>6, <1>7 DEF OrderInv

LEMMA SettlesOrder ==
  ASSUME QueueInv, OrderInv, Busy, UNCHANGED <<order, closing, cur, late>>,
         NEW r \in Results, ItemSettles(r)
  PROVE  OrderInv'
<1>0. /\ queue \in Seq(Txns \union {SENTINEL}) /\ cur \in Txns
      /\ queue' = queue /\ pc' \in {"get", "callback"}
      /\ fut \in [Txns -> FutureStates] /\ fut[cur] = "pending"
      /\ pc \in {"build", "execute", "callback", "fund"}
  BY DEF QueueInv, TypeOK, CurrentTaken, ItemSettles, Busy
<1>1. /\ fut'[cur] = r /\ r \notin {"pending", "none"}
      /\ \A t \in Txns : t # cur => fut'[t] = fut[t]
  BY <1>0 DEF ItemSettles, Results
<1>2. QueueInOrder' /\ LateBehindSentinel'
  <2>1. \A k \in 1..Len(queue') : 0 + k \in 1..Len(queue) /\ queue'[k] = queue[0 + k]
    BY <1>0
  <2> QED BY <1>0, <2>1, SuffixOrder
<1>3. Submitted' /\ CurrentOldest'
  <2>1. \A t \in Txns : /\ fut'[t] = "pending" => fut[t] = "pending"
                        /\ fut'[t] = "none" <=> fut[t] = "none"
    BY <1>0, <1>1
  <2> QED BY <2>1, SettledOrder
<1>4. \A t \in Txns : Waits(t)' = Waits(t)
  BY <1>0 DEF Waits
<1>5. \A t \in Txns : fut[t] = "pending" => Waits(t) \/ t = cur
  BY <1>0 DEF OrderInv, OpenHeld, Ended
<1>6. OpenHeld'
  BY <1>1, <1>4, <1>5 DEF OpenHeld
<1>7. CurrentOpen'
  BY <1>0, <1>1 DEF CurrentOpen, Busy, ItemSettles
<1>8. DoneClosed' /\ DrainedAtExit'
  BY <1>0 DEF DoneClosed, DrainedAtExit
<1> QED BY <1>2, <1>3, <1>6, <1>7, <1>8 DEF OrderInv

(***************************************************************************)
(* What a hard stop of a busy processor drains: open futures of the queue, *)
(* never the current item; if no item refuses, all of them.                *)
(***************************************************************************)
LEMMA DrainFacts ==
  ASSUME QueueInv, Busy, NEW f \in [Txns -> FutureStates], Settled(f)
  PROVE  /\ \A t \in Drained(f) : t \in Txns /\ t # cur /\ fut[t] = "pending"
         /\ \A t \in Txns : t # cur => f[t] = fut[t]
         /\ f[cur] \in Results
         /\ Refusing(f) = {} => \A t \in Txns : Waits(t) => t \in Drained(f)
<1>0. /\ queue \in Seq(Txns \union {SENTINEL}) /\ SENTINEL \notin Txns
      /\ cur \in Txns /\ ~Waits(cur)
      /\ fut \in [Txns -> FutureStates]
  BY SentinelAssumption DEF QueueInv, TypeOK, CurrentTaken
<1>1. /\ \A t \in Txns : t # cur => f[t] = fut[t]
      /\ f[cur] \in Results
  BY <1>0 DEF Settled, Results
<1>2. ASSUME NEW t \in Drained(f)
      PROVE  t \in Txns /\ t # cur /\ fut[t] = "pending"
  <2>1. PICK k \in 1..Len(queue) : /\ \A j \in Refusing(f) : k < j
                                   /\ queue[k] = t /\ t # SENTINEL
    BY <1>2 DEF Drained
  <2>2. t \in Txns /\ Waits(t)
    BY <1>0, <2>1 DEF Waits
  <2>3. k \notin Refusing(f)
    BY <2>1
  <2>4. f[t] # "cancelled"
    BY <2>1, <2>2, <2>3 DEF Refusing
  <2>5. t # cur
    BY <1>0, <2>2
  <2>6. fut[t] \in {"pending", "cancelled"}
    BY <2>2 DEF QueueInv, QueuedUntried
  <2> QED BY <1>1, <2>2, <2>4, <2>5, <2>6
<1>3. ASSUME Refusing(f) = {}, NEW t \in Txns, Waits(t)
      PROVE  t \in Drained(f)
  BY <1>0, <1>3 DEF Drained, Waits
<1> QED BY <1>1, <1>2, <1>3

LEMMA StopsOrder ==
  ASSUME QueueInv, OrderInv, Busy, UNCHANGED <<order, closing, cur, late>>, ItemStops
  PROVE  OrderInv'
<1>0. PICK f \in [Txns -> FutureStates] : Settled(f) /\ HardStop(f)
  BY DEF ItemStops
<1>1. /\ queue \in Seq(Txns \union {SENTINEL}) /\ cur \in Txns
      /\ pc \notin Ended
      /\ pc' \in Ended /\ halted' = TRUE
  BY <1>0 DEF QueueInv, TypeOK, CurrentTaken, Busy, HardStop, Ended
<1>2. \A t \in Txns : fut'[t] = IF t \in Drained(f) THEN "skipped" ELSE f[t]
  BY <1>0 DEF HardStop
<1>3. \A t \in Txns : /\ fut'[t] = "pending" => fut[t] = "pending" /\ t # cur /\ t \notin Drained(f)
                      /\ fut'[t] = "none" <=> fut[t] = "none"
  <2>1. fut[cur] \notin {"none"}
    BY DEF QueueInv, CurrentTaken
  <2>2. f[cur] \in Results /\ f[cur] \notin {"none", "pending"}
    BY <1>0, DrainFacts DEF Results
  <2>3. \A t \in Txns : t # cur => f[t] = fut[t]
    BY <1>0, DrainFacts
  <2>4. \A t \in Drained(f) : fut[t] = "pending" /\ t # cur
    BY <1>0, DrainFacts
  <2> QED BY <1>2, <2>1, <2>2, <2>3, <2>4
<1>4. Submitted' /\ CurrentOldest'
  <2>1. ~Busy'
    BY <1>1 DEF Busy, Ended
  <2> QED BY <1>3, <2>1, SettledOrder
<1>5. QueueInOrder' /\ LateBehindSentinel'
  <2>1. CASE Refusing(f) = {}
    <3>1. queue' = <<>>
      BY <1>0, <2>1 DEF HardStop
    <3> QED BY <3>1, SuffixOrder
  <2>2. CASE Refusing(f) # {}
    <3>1. PICK i \in Refusing(f) : queue' = SubSeq(queue, i + 1, Len(queue))
      BY <1>0, <2>2 DEF HardStop
    <3>2. i \in 1..Len(queue) /\ i \in Nat
      BY <3>1 DEF Refusing
    <3>3. /\ queue' \in Seq(Txns \union {SENTINEL})
          /\ \A k \in 1..Len(queue') : /\ i + k \in 1..Len(queue)
                                       /\ queue'[k] = queue[i + k]
      BY <1>1, <3>1, <3>2, SuffixFacts
    <3> QED BY <3>2, <3>3, SuffixOrder
  <2> QED BY <2>1, <2>2
<1>6. DrainedAtExit'
  <2>1. CASE Refusing(f) = {}
    <3>1. \A t \in Txns : Waits(t) => t \in Drained(f)
      BY <1>0, <2>1, DrainFacts
    <3>2. \A t \in Txns : fut[t] = "pending" => Waits(t) \/ t = cur
      BY <1>1 DEF OrderInv, OpenHeld
    <3> QED BY <1>3, <3>1, <3>2 DEF DrainedAtExit
  <2>2. CASE Refusing(f) # {}
    BY <1>0, <2>2 DEF HardStop, DrainedAtExit
  <2> QED BY <2>1, <2>2
<1>7. OpenHeld' /\ CurrentOpen' /\ DoneClosed'
  BY <1>1 DEF OpenHeld, CurrentOpen, DoneClosed, Busy, Ended
<1> QED BY <1>4, <1>5, <1>6, <1>7 DEF OrderInv

(***************************************************************************)
(* Taking the next item: nothing open was submitted before it, or it would *)
(* be in front of it.  Taking the sentinel: what is left came late.        *)
(***************************************************************************)
LEMMA GetOrder ==
  ASSUME QueueInv, OrderInv, Get
  PROVE  OrderInv'
<1>0. /\ queue \in Seq(Txns \union {SENTINEL}) /\ queue # <<>>
      /\ queue' = Tail(queue) /\ pc = "get"
      /\ order \in Seq(Txns) /\ \A i \in 1..Len(order) : order[i] \in Txns
      /\ SENTINEL \notin Txns
      /\ UNCHANGED <<fut, order, halted, closing, late>>
  BY SentinelAssumption DEF QueueInv, TypeOK, Get
<1>1. /\ queue' \in Seq(Txns \union {SENTINEL})
      /\ Len(queue') = Len(queue) - 1 /\ Len(queue) \in Nat
      /\ Head(queue) = queue[1] /\ 1 \in 1..Len(queue)
      /\ Head(queue) \in Txns \union {SENTINEL}
      /\ \A k \in 1..Len(queue') : 1 + k \in 1..Len(queue) /\ queue'[k] = queue[1 + k]
  BY <1>0, TailFacts
<1>2. QueueInOrder' /\ LateBehindSentinel'
  BY <1>0, <1>1, SuffixOrder
<1>3. Submitted'
  BY <1>0, SettledOrder
<1>4. \A t \in Txns : fut[t] = "pending" => Waits(t)
  BY <1>0 DEF OrderInv, OpenHeld, Ended, Busy
<1>5. \A t \in Txns : Waits(t) => Waits(t)' \/ t = Head(queue)
  <2> SUFFICES ASSUME NEW t \in Txns, Waits(t), t # Head(queue)
               PROVE  Waits(t)'
    OBVIOUS
  <2>1. PICK k \in 1..Len(queue) : queue[k] = t
    BY DEF Waits
  <2>2. k - 1 \in 1..Len(queue') /\ 1 + (k - 1) = k
    BY <1>1, <2>1
  <2>3. queue'[k - 1] = t
    BY <1>1, <2>1, <2>2
  <2> QED BY <2>2, <2>3 DEF Waits
<1>6. CASE Head(queue) = SENTINEL
  <2>1. pc' = "done"
    BY <1>6 DEF Get
  <2>2. closing
    BY <1>1, <1>6 DEF OrderInv, LateBehindSentinel
  <2>3. DrainedAtExit'
    <3> SUFFICES ASSUME NEW t \in Txns, fut[t] = "pending" PROVE t \in late
      BY <1>0 DEF DrainedAtExit
    <3>1. PICK k \in 1..Len(queue) : queue[k] = t
      BY <1>4 DEF Waits
    <3>2. 1 < k
      BY <1>0, <1>1, <1>6, <3>1
    <3> QED BY <1>1, <1>6, <3>1, <3>2 DEF OrderInv, LateBehindSentinel
  <2>4. OpenHeld' /\ CurrentOldest' /\ CurrentOpen' /\ DoneClosed'
    BY <1>0, <2>1, <2>2
    DEF OpenHeld, CurrentOldest, CurrentOpen, DoneClosed, Busy, Ended
  <2> QED BY <1>2, <1>3, <2>3, <2>4 DEF OrderInv
<1>7. CASE Head(queue) # SENTINEL
  <2>1. pc' = "build" /\ cur' = Head(queue) /\ cur' \in Txns
    BY <1>1, <1>7 DEF Get
  <2>2. Waits(Head(queue)) /\ fut[Head(queue)] \in {"pending", "cancelled"}
    BY <1>1, <2>1 DEF Waits, QueueInv, QueuedUntried
  <2>3. OpenHeld'
    BY <1>0, <1>4, <1>5, <2>1 DEF OpenHeld, Busy
  <2>4. CurrentOldest'
    <3>1. PICK i \in 1..Len(order) : order[i] = Head(queue)
      BY <1>0, <2>1, <2>2 DEF OrderInv, Submitted
    <3>2. ASSUME NEW j \in 1..(i - 1), fut[order[j]] = "pending"
          PROVE  FALSE
      <4>1. j \in 1..Len(order) /\ j < i /\ order[j] \in Txns
        BY <1>0, <3>1
      <4>2. PICK m \in 1..Len(queue) : queue[m] = order[j]
        BY <1>4, <3>2, <4>1 DEF Waits
      <4>3. m < 1
        BY <1>1, <3>1, <4>1, <4>2 DEF OrderInv, QueueInOrder
      <4> QED BY <4>2, <4>3
    <3>3. OldestPending(cur)'
      BY <1>0, <2>1, <3>1, <3>2 DEF OldestPending
    <3> QED BY <3>3 DEF CurrentOldest
  <2>5. CurrentOpen' /\ DoneClosed' /\ DrainedAtExit'
    BY <1>0, <2>1, <2>2 DEF CurrentOpen, DoneClosed, DrainedAtExit, Busy
  <2> QED BY <1>2, <1>3, <2>3, <2>4, <2>5 DEF OrderInv
<1> QED BY <1>6, <1>7

(***************************************************************************)
(* The holders: a submission comes last in both orders; what comes after   *)
(* close() is late.                                                        *)
(***************************************************************************)
LEMMA SubmitOrder ==
  ASSUME QueueInv, OrderInv, NEW t \in Txns, Submit(t)
  PROVE  OrderInv'
<1>0. /\ fut \in [Txns -> FutureStates] /\ fut[t] = "none"
      /\ queue \in Seq(Txns \union {SENTINEL}) /\ order \in Seq(Txns)
      /\ \A i \in 1..Len(order) : order[i] \in Txns /\ order[i] # t
      /\ SENTINEL \notin Txns /\ ~Waits(t)
      /\ Busy => cur \in Txns /\ cur # t
      /\ UNCHANGED <<halted, closing, pc, cur>>
  BY SentinelAssumption
  DEF QueueInv, TypeOK, Submit, worker, QueuedUntried, CurrentTaken, OrderInv, Submitted
<1>1. /\ fut'[t] = IF halted THEN "skipped" ELSE "pending"
      /\ \A u \in Txns : u # t => fut'[u] = fut[u]
  BY <1>0 DEF Submit
<1>2. /\ Len(order') = Len(order) + 1 /\ Len(order) \in Nat
      /\ order'[Len(order) + 1] = t
      /\ \A k \in 1..Len(order) : order'[k] = order[k]
  BY <1>0, AppendFacts DEF Submit
<1>3. \A i \in 1..Len(order') : i \in 1..Len(order) \/ i = Len(order) + 1
  BY <1>2
<1>4. Submitted'
  <2>1. ASSUME NEW u \in Txns, fut'[u] # "none"
        PROVE  \E i \in 1..Len(order') : order'[i] = u
    <3>1. CASE u = t
      <4>1. Len(order) + 1 \in 1..Len(order')
        BY <1>2
      <4> QED BY <1>2, <3>1, <4>1
    <3>2. CASE u # t
      <4>1. PICK i \in 1..Len(order) : order[i] = u
        BY <1>1, <2>1, <3>2 DEF OrderInv, Submitted
      <4>2. i \in 1..Len(order') /\ order'[i] = u
        BY <1>2, <4>1
      <4> QED BY <4>2
    <3> QED BY <3>1, <3>2
  <2>2. ASSUME NEW i \in 1..Len(order') PROVE fut'[order'[i]] # "none"
    <3>1. CASE i \in 1..Len(order)
      BY <1>0, <1>1, <1>2, <3>1 DEF OrderInv, Submitted
    <3>2. CASE i = Len(order) + 1
      BY <1>1, <1>2, <3>2
    <3> QED BY <1>3, <3>1, <3>2
  <2> QED BY <2>1, <2>2 DEF Submitted
<1>5. CurrentOldest'
  <2> SUFFICES ASSUME Busy PROVE OldestPending(cur)'
    BY <1>0 DEF CurrentOldest, Busy
  <2>1. PICK i \in 1..Len(order) :
          order[i] = cur /\ \A j \in 1..(i - 1) : fut[order[j]] # "pending"
    BY DEF OrderInv, CurrentOldest, OldestPending
  <2>2. i \in 1..Len(order') /\ order'[i] = cur
    BY <1>2, <2>1
  <2>3. \A j \in 1..(i - 1) : j \in 1..Len(order)
    BY <1>2
  <2>4. \A j \in 1..(i - 1) : fut'[order'[j]] # "pending"
    BY <1>0, <1>1, <1>2, <2>1, <2>3
  <2> QED BY <1>0, <2>2, <2>4 DEF OldestPending
<1>6. CurrentOpen' /\ DoneClosed'
  BY <1>0, <1>1 DEF OrderInv, CurrentOpen, DoneClosed, Busy
<1>7. CASE halted
  <2>1. queue' = queue /\ late' = late /\ fut'[t] = "skipped"
    BY <1>1, <1>7 DEF Submit
  <2>2. \A u \in Txns : Waits(u)' = Waits(u)
    BY <2>1 DEF Waits
  <2>3. OpenHeld' /\ DrainedAtExit'
    BY <1>0, <1>1, <2>1, <2>2 DEF OrderInv, OpenHeld, DrainedAtExit, Busy
  <2>4. LateBehindSentinel'
    BY <1>0, <2>1 DEF OrderInv, LateBehindSentinel
  <2>5. QueueInOrder'
    <3> SUFFICES ASSUME NEW i \in 1..Len(order'), NEW j \in 1..Len(order'),
                        NEW k \in 1..Len(queue), NEW m \in 1..Len(queue),
                        order'[i] = queue[k], order'[j] = queue[m], i < j
                 PROVE  k < m
      BY <2>1 DEF QueueInOrder
    <3>1. queue[k] # t /\ queue[m] # t
      BY <1>0 DEF Waits
    <3>2. i \in 1..Len(order) /\ j \in 1..Len(order)
      BY <1>2, <1>3, <3>1
    <3>3. order[i] = queue[k] /\ order[j] = queue[m]
      BY <1>2, <3>2
    <3> QED BY <3>2, <3>3 DEF OrderInv, QueueInOrder
  <2> QED BY <1>4, <1>5, <1>6, <2>3, <2>4, <2>5 DEF OrderInv
<1>8. CASE ~halted
  <2>0. queue' = Append(queue, t) /\ fut'[t] = "pending"
        /\ late' = IF closing THEN late \union {t} ELSE late
    BY <1>1, <1>8 DEF Submit
  <2>1. /\ Len(queue') = Len(queue) + 1 /\ Len(queue) \in Nat
        /\ queue'[Len(queue) + 1] = t
        /\ \A k \in 1..Len(queue) : queue'[k] = queue[k]
    BY <1>0, <2>0, AppendFacts
  <2>2. \A k \in 1..Len(queue') : k \in 1..Len(queue) \/ k = Len(queue) + 1
    BY <2>1
  <2>3. \A k \in 1..Len(queue) : queue[k] # t
    BY <1>0 DEF Waits
  <2>4. \A u \in Txns : Waits(u) \/ u = t => Waits(u)'
    <3>1. ASSUME NEW u \in Txns, Waits(u) PROVE Waits(u)'
      <4>1. PICK k \in 1..Len(queue) : queue[k] = u
        BY <3>1 DEF Waits
      <4>2. k \in 1..Len(queue')
        BY <2>1
      <4> QED BY <2>1, <4>1, <4>2 DEF Waits
    <3>2. Len(queue) + 1 \in 1..Len(queue')
      BY <2>1
    <3>3. Waits(t)'
      BY <2>1, <3>2 DEF Waits
    <3> QED BY <3>1, <3>3
  <2>5. OpenHeld'
    BY <1>0, <1>1, <2>4 DEF OrderInv, OpenHeld, Busy
  <2>6. DrainedAtExit'
    <3> SUFFICES ASSUME pc = "done", NEW u \in Txns, fut'[u] = "pending"
                 PROVE  u \in late'
      BY <1>0 DEF DrainedAtExit
    <3>1. closing
      BY <1>8 DEF OrderInv, DoneClosed
    <3> QED BY <1>1, <2>0, <3>1 DEF OrderInv, DrainedAtExit
  <2>7. LateBehindSentinel'
    <3> SUFFICES ASSUME NEW k \in 1..Len(queue'), NEW m \in 1..Len(queue'),
                        queue'[k] = SENTINEL
                 PROVE  closing /\ (k < m /\ queue'[m] \in Txns => queue'[m] \in late')
      BY <1>0 DEF LateBehindSentinel
    <3>1. k \in 1..Len(queue) /\ queue[k] = SENTINEL
      BY <1>0, <2>1, <2>2
    <3>2. closing
      BY <3>1 DEF OrderInv, LateBehindSentinel
    <3>3. CASE m = Len(queue) + 1
      BY <2>0, <2>1, <3>2, <3>3
    <3>4. CASE m \in 1..Len(queue)
      <4>1. k < m /\ queue[m] \in Txns => queue[m] \in late
        BY <3>1, <3>4 DEF OrderInv, LateBehindSentinel
      <4> QED BY <2>0, <2>1, <3>2, <3>4, <4>1
    <3> QED BY <2>2, <3>3, <3>4
  <2>8. QueueInOrder'
    <3> SUFFICES ASSUME NEW i \in 1..Len(order'), NEW j \in 1..Len(order'),
                        NEW k \in 1..Len(queue'), NEW m \in 1..Len(queue'),
                        order'[i] = queue'[k], order'[j] = queue'[m], i < j
                 PROVE  k < m
      BY DEF QueueInOrder
    <3>1. i \in 1..Len(order) /\ order'[i] = order[i] /\ order[i] # t
      BY <1>0, <1>2, <1>3
    <3>2. k \in 1..Len(queue) /\ queue'[k] = queue[k]
      BY <2>1, <2>2, <3>1
    <3>3. CASE m = Len(queue) + 1
      BY <2>1, <3>2, <3>3
    <3>4. CASE m \in 1..Len(queue)
      <4>1. queue'[m] = queue[m] /\ queue[m] # t
        BY <2>1, <2>3, <3>4
      <4>2. j \in 1..Len(order) /\ order'[j] = order[j]
        BY <1>2, <1>3, <4>1
      <4> QED BY <3>1, <3>2, <3>4, <4>1, <4>2 DEF OrderInv, QueueInOrder
    <3> QED BY <2>2, <3>3, <3>4
  <2> QED BY <1>4, <1>5, <1>6, <2>5, <2>6, <2>7, <2>8 DEF OrderInv
<1> QED BY <1>7, <1>8

LEMMA CancelOrder ==
  ASSUME QueueInv, OrderInv, NEW t \in Txns, CancelFuture(t)
  PROVE  OrderInv'
<1>0. /\ fut \in [Txns -> FutureStates] /\ fut[t] = "pending"
      /\ queue \in Seq(Txns \union {SENTINEL})
      /\ Busy => cur \in Txns
      /\ UNCHANGED <<order, halted, queue, closing, pc, cur, late>>
  BY DEF QueueInv, TypeOK, CancelFuture, worker, CurrentTaken
<1>1. fut'[t] = "cancelled" /\ \A u \in Txns : u # t => fut'[u] = fut[u]
  BY <1>0 DEF CancelFuture
<1>2. \A u \in Txns : Waits(u)' = Waits(u)
  BY <1>0 DEF Waits
<1>3. QueueInOrder' /\ LateBehindSentinel'
  <2>1. \A k \in 1..Len(queue') : 0 + k \in 1..Len(queue) /\ queue'[k] = queue[0 + k]
    BY <1>0
  <2> QED BY <1>0, <2>1, SuffixOrder
<1>4. Submitted' /\ CurrentOldest'
  <2>1. \A u \in Txns : /\ fut'[u] = "pending" => fut[u] = "pending"
                        /\ fut'[u] = "none" <=> fut[u] = "none"
    BY <1>0, <1>1
  <2> QED BY <1>0, <2>1, SettledOrder DEF Busy
<1>5. OpenHeld' /\ DrainedAtExit'
  BY <1>0, <1>1, <1>2 DEF OrderInv, OpenHeld, DrainedAtExit, Busy
<1>6. CurrentOpen' /\ DoneClosed'
  BY <1>0, <1>1 DEF OrderInv, CurrentOpen, DoneClosed, Busy
<1> QED BY <1>3, <1>4, <1>5, <1>6 DEF OrderInv

LEMMA CloseOrder ==
  ASSUME QueueInv, OrderInv, Close
  PROVE  OrderInv'
<1>0. /\ queue \in Seq(Txns \union {SENTINEL}) /\ order \in Seq(Txns)
      /\ SENTINEL \notin Txns
      /\ queue' = Append(queue, SENTINEL) /\ closing' = TRUE
      /\ UNCHANGED <<fut, order, halted, pc, cur, late>>
  BY SentinelAssumption DEF QueueInv, TypeOK, Close, worker
<1>1. /\ Len(queue') = Len(queue) + 1 /\ Len(queue) \in Nat
      /\ queue'[Len(queue) + 1] = SENTINEL
      /\ \A k \in 1..Len(queue) : queue'[k] = queue[k]
  BY <1>0, AppendFacts
<1>2. \A k \in 1..Len(queue') : k \in 1..Len(queue) \/ k = Len(queue) + 1
  BY <1>1
<1>3. \A t \in Txns : Waits(t) => Waits(t)'
  <2> SUFFICES ASSUME NEW t \in Txns, Waits(t) PROVE Waits(t)'
    OBVIOUS
  <2>1. PICK k \in 1..Len(queue) : queue[k] = t
    BY DEF Waits
  <2>2. k \in 1..Len(queue')
    BY <1>1
  <2> QED BY <1>1, <2>1, <2>2 DEF Waits
<1>4. QueueInOrder'
  <2> SUFFICES ASSUME NEW i \in 1..Len(order), NEW j \in 1..Len(order),
                      NEW k \in 1..Len(queue'), NEW m \in 1..Len(queue'),
                      order[i] = queue'[k], order[j] = queue'[m], i < j
               PROVE  k < m
    BY <1>0 DEF QueueInOrder
  <2>1. order[i] \in Txns /\ order[j] \in Txns
    BY <1>0
  <2>2. k \in 1..Len(queue) /\ m \in 1..Len(queue)
    BY <1>0, <1>1, <1>2, <2>1
  <2> QED BY <1>1, <2>2 DEF OrderInv, QueueInOrder
<1>5. LateBehindSentinel'
  <2> SUFFICES ASSUME NEW k \in 1..Len(queue'), NEW m \in 1..Len(queue'),
                      queue'[k] = SENTINEL, k < m, queue'[m] \in Txns
               PROVE  queue'[m] \in late
    BY <1>0 DEF LateBehindSentinel
  <2>1. m \in 1..Len(queue)
    BY <1>0, <1>1, <1>2
  <2>2. k \in 1..Len(queue)
    BY <1>1, <2>1
  <2> QED BY <1>1, <2>1, <2>2 DEF OrderInv, LateBehindSentinel
<1>6. Submitted' /\ CurrentOldest'
  BY <1>0, SettledOrder DEF Busy
<1>7. OpenHeld' /\ CurrentOpen' /\ DoneClosed' /\ DrainedAtExit'
  BY <1>0, <1>3 DEF OrderInv, OpenHeld, CurrentOpen, DoneClosed, DrainedAtExit, Busy
<1> QED BY <1>4, <1>5, <1>6, <1>7 DEF OrderInv

LEMMA InitOrder == Init => OrderInv
<1> SUFFICES ASSUME Init PROVE OrderInv
  OBVIOUS
<1>1. /\ \A t \in Txns : fut[t] = "none"
      /\ Len(order) = 0 /\ Len(queue) = 0 /\ pc = "get"
  BY DEF Init
<1> QED
  BY <1>1 DEF OrderInv, Submitted, OpenHeld, QueueInOrder, CurrentOldest, CurrentOpen,
     LateBehindSentinel, DoneClosed, DrainedAtExit, Busy, Ended

LEMMA NextOrder == QueueInv /\ OrderInv /\ [Next]_vars => OrderInv'
<1> SUFFICES ASSUME QueueInv, OrderInv, [Next]_vars PROVE OrderInv'
  OBVIOUS
<1>1. CASE \E t \in Txns : Submit(t)
  BY <1>1, SubmitOrder
<1>2. CASE \E t \in Txns : CancelFuture(t)
  BY <1>2, CancelOrder
<1>3. CASE Close
  BY <1>3, CloseOrder
<1>4. CASE Processor
  <2>1. CurrentOpen
    BY DEF OrderInv
  <2>2. CASE Get
    BY <2>2, GetOrder
  <2>3. CASE /\ Busy /\ UNCHANGED <<order, closing, cur, late>>
             /\ ItemStays \/ (\E r \in Results : ItemSettles(r)) \/ ItemStops
    BY <2>3, StaysOrder, SettlesOrder, StopsOrder
  <2> QED BY <1>4, <2>1, <2>2, <2>3, ProcessorSteps
<1>5. CASE UNCHANGED vars
  BY <1>5 DEF vars, OrderInv, Submitted, OpenHeld, QueueInOrder, CurrentOldest, OldestPending,
     CurrentOpen, LateBehindSentinel, DoneClosed, DrainedAtExit, Busy, Waits
<1> QED BY <1>1, <1>2, <1>3, <1>4, <1>5 DEF Next
------------------------------------------------------------------------------
(***************************************************************************)
(* The balance a COINS executor starts with.  No future becomes "ok" but   *)
(* in ExecuteOk, whose test sends a balance that is low to the callback;   *)
(* from there the way back leads through add_funds.                        *)
(***************************************************************************)
AnyOk == \E t \in Txns : fut[t] = "ok"

\* Settling an item with an error makes no future "ok".
LEMMA ErrorNoOk ==
  ASSUME QueueInv, NEW r \in Results \ {"ok"}, NEW stop \in BOOLEAN, NEW next,
         Finish(r, stop, next)
  PROVE  AnyOk' => AnyOk \/ pc' \in Ended
<1>1. CASE fut[cur] = "cancelled"
  BY <1>1 DEF Finish, Crash, Ended
<1>2. CASE fut[cur] # "cancelled" /\ stop
  BY <1>2 DEF Finish, HardStop, Ended
<1>3. CASE fut[cur] # "cancelled" /\ ~stop
  <2>1. fut \in [Txns -> FutureStates] /\ fut' = [fut EXCEPT ![cur] = r] /\ r # "ok"
    BY <1>3 DEF Finish, QueueInv, TypeOK
  <2> QED BY <2>1 DEF AnyOk
<1> QED BY <1>1, <1>2, <1>3

\* From the callback a refusal leads to the end of the processor task.
LEMMA RefusedEnds ==
  ASSUME Refused
  PROVE  pc' \in Ended
BY DEF Refused, Finish, Crash, HardStop, Ended

LEMMA NextFunded == QueueInv /\ FundedInv /\ [Next]_vars => FundedInv'
<1> SUFFICES ASSUME QueueInv, FundedInv, [Next]_vars,
                    Mode = "coins", pc' \in {"get", "build", "execute"}, AnyOk'
             PROVE  tracked' >= Threshold \/ tracked' = 0
  BY DEF FundedInv, AnyOk
<1>0. tracked \in Nat /\ coin \in Nat /\ Threshold \in Nat /\ MergeGas \in Nat
      /\ pc' \notin Ended /\ fut \in [Txns -> FutureStates]
  BY NumbersAssumption DEF QueueInv, TypeOK, Ended
<1>1. ASSUME tracked' = tracked, pc \in {"get", "build", "execute"}, AnyOk
      PROVE  tracked' >= Threshold \/ tracked' = 0
  BY <1>1 DEF FundedInv, AnyOk
<1>2. CASE \E t \in Txns : Submit(t) \/ CancelFuture(t)
  <2>1. PICK t \in Txns : Submit(t) \/ CancelFuture(t)
    BY <1>2
  <2>2. tracked' = tracked /\ pc' = pc
    BY <2>1 DEF Submit, CancelFuture, worker, gas
  <2>3. AnyOk
    <3>1. fut' = [fut EXCEPT ![t] = fut'[t]] /\ fut'[t] # "ok"
      BY <1>0, <2>1 DEF Submit, CancelFuture
    <3> QED BY <1>0, <3>1 DEF AnyOk
  <2> QED BY <1>1, <2>2, <2>3
<1>3. CASE Close
  BY <1>1, <1>3 DEF Close, worker, gas, AnyOk
<1>4. CASE Get
  BY <1>1, <1>4 DEF Get, gas, AnyOk
<1>5. CASE Build
  BY <1>1, <1>5 DEF Build, gas, AnyOk
<1>6. CASE BuildFails
  <2>1. AnyOk
    BY <1>0, <1>6, ErrorNoOk, OptionsAssumption DEF BuildFails, Results
  <2> QED BY <1>1, <1>6, <2>1 DEF BuildFails, gas
<1>7. CASE ExecuteOk
  <2>1. PICK g \in GasCosts :
          /\ tracked' = Deduct(tracked, g)
          /\ Finish("ok", FALSE, IF NeedsFunds(tracked') THEN "callback" ELSE "get")
    BY <1>7 DEF ExecuteOk
  <2>2. tracked' \in Nat
    BY <1>0, <2>1, NumbersAssumption DEF Deduct
  <2>3. ~NeedsFunds(tracked')
    BY <1>0, <2>1 DEF Finish, Crash, Ended
  <2> QED BY <1>0, <2>2, <2>3 DEF NeedsFunds
<1>8. CASE OutOfGas
  <2>1. AnyOk
    <3>1. Finish("exec_error", TRUE, "get")
      BY <1>8 DEF OutOfGas
    <3> QED BY <1>0, <3>1, ErrorNoOk DEF Results
  <2> QED BY <1>1, <1>8, <2>1 DEF OutOfGas, gas
<1>9. CASE ExecuteFails
  <2>1. AnyOk
    BY <1>0, <1>9, ErrorNoOk, OptionsAssumption DEF ExecuteFails, Results
  <2> QED BY <1>1, <1>9, <2>1 DEF ExecuteFails, gas
<1>10. CASE ReplyLost
  <2>1. AnyOk
    BY <1>0, <1>10, ErrorNoOk, OptionsAssumption DEF ReplyLost, Results
  <2> QED BY <1>1, <1>10, <2>1 DEF ReplyLost
<1>11. CASE CallbackOk
  BY <1>11 DEF CallbackOk
<1>12. CASE CallbackDeclines \/ FundFails
  BY <1>0, <1>12, RefusedEnds DEF CallbackDeclines, FundFails
<1>13. CASE CallbackRaises
  BY <1>13 DEF CallbackRaises, Crash
<1>14. CASE FundOk
  <2>1. PICK a \in Refills : AddFunds(a)
    BY <1>14 DEF FundOk
  <2>2. a \in Nat
    BY NumbersAssumption
  <2>3. a >= Threshold /\ coin >= MergeGas /\ tracked' = coin + a - MergeGas
    BY <2>1 DEF AddFunds
  <2> QED BY <1>0, <2>2, <2>3
<1>15. CASE UNCHANGED vars
  BY <1>1, <1>15 DEF vars, AnyOk
<1> QED
  BY <1>2, <1>3, <1>4, <1>5, <1>6, <1>7, <1>8, <1>9, <1>10, <1>11, <1>12, <1>13, <1>14,
     <1>15 DEF Next, Processor
------------------------------------------------------------------------------
(***************************************************************************)
(* The invariant of the serial executor holds in every reachable state.    *)
(***************************************************************************)
THEOREM SerialInvariance == Spec => []SerialInv
<1>1. Init => SerialInv
  <2>1. Init => FundedInv
    BY DEF Init, FundedInv
  <2> QED BY <2>1, InitInv, InitOrder DEF SerialInv
<1>2. SerialInv /\ [Next]_vars => SerialInv'
  BY NextInv, NextOrder, NextFunded DEF SerialInv
<1> QED BY <1>1, <1>2, PTL DEF Spec

(***************************************************************************)
(* Every variable keeps its type: no balance becomes negative, no item is  *)
(* retried more than max_retries times.                                    *)
(***************************************************************************)
THEOREM SerialTypeCorrect == Spec => []TypeOK
<1>1. SerialInv => TypeOK
  BY DEF SerialInv, QueueInv
<1> QED BY <1>1, SerialInvariance, PTL

(***************************************************************************)
(* ExecutionSkipped is only ever reported for a transaction that was never *)
(* handed to the node.                                                     *)
(***************************************************************************)
THEOREM SkippedCorrect == Spec => []SkippedNeverAttempted
<1>1. SerialInv => SkippedNeverAttempted
  BY DEF SerialInv, QueueInv
<1> QED BY <1>1, SerialInvariance, PTL

(***************************************************************************)
(* After a hard stop nothing is attempted and no funds move.               *)
(***************************************************************************)
THEOREM HaltCorrect == Spec => NothingAfterHalt
<1>1. SerialInv /\ [Next]_vars => [halted => UNCHANGED <<attempted, coin, pc>>]_vars
  <2> SUFFICES ASSUME SerialInv, [Next]_vars, halted
               PROVE  UNCHANGED <<attempted, coin, pc>>
    OBVIOUS
  <2>1. pc \in {"done", "crashed"}
    BY DEF SerialInv, QueueInv, HaltedEnded, Ended
  <2>2. ~Processor
    BY <2>1 DEF Processor, Get, Build, BuildFails, ExecuteOk, OutOfGas, ExecuteFails,
       ReplyLost, CallbackOk, CallbackDeclines, CallbackRaises, FundOk, FundFails
  <2>3. CASE UNCHANGED vars
    BY <2>3 DEF vars
  <2>4. CASE Close \/ \E t \in Txns : Submit(t) \/ CancelFuture(t)
    BY <2>4 DEF Close, Submit, CancelFuture, worker, gas
  <2> QED BY <2>2, <2>3, <2>4 DEF Next
<1> QED BY <1>1, SerialInvariance, PTL DEF Spec, NothingAfterHalt

(***************************************************************************)
(* When the processor task has ended by the sentinel or by a hard stop,    *)
(* only futures of late submissions are left open.                         *)
(***************************************************************************)
THEOREM NothingLeftBehind == Spec => []DrainedAtExit
<1>1. SerialInv => DrainedAtExit
  BY DEF SerialInv, OrderInv
<1> QED BY <1>1, SerialInvariance, PTL

(***************************************************************************)
(* Behind a success, COINS transactions start with a balance at the        *)
(* threshold, or with the 0 that process() does not report.                *)
(***************************************************************************)
THEOREM FundedStarts == Spec => []StartsFunded
<1>1. SerialInv => StartsFunded
  BY DEF SerialInv, FundedInv, StartsFunded
<1> QED BY <1>1, SerialInvariance, PTL

(***************************************************************************)
(* Refinement: every step of the serial executor is a submission, a        *)
(* withdrawal, the settling of the oldest open future with what a hard     *)
(* stop skips, or no step of the promise at all.                           *)
(***************************************************************************)
LEMMA StopsKeepPromise ==
  ASSUME QueueInv, OrderInv, Busy, UNCHANGED <<order, closing, cur, late>>, ItemStops
  PROVE  PromiseNext
<1>0. PICK f \in [Txns -> FutureStates] : Settled(f) /\ HardStop(f)
  BY DEF ItemStops
<1>1. /\ halted' = TRUE
      /\ fut' = [t \in Txns |-> IF t \in Drained(f) THEN "skipped" ELSE f[t]]
  BY <1>0 DEF HardStop
<1>2. /\ Drained(f) \in SUBSET Txns
      /\ \A t \in Drained(f) : t # cur /\ fut[t] = "pending"
  BY <1>0, DrainFacts
<1>3. cur \in Txns /\ fut \in [Txns -> FutureStates] /\ OldestPending(cur)
  BY DEF QueueInv, TypeOK, CurrentTaken, OrderInv, CurrentOldest
<1>4. CASE f = fut
  <2>1. Settle({}, "ok", Drained(f))
    BY <1>1, <1>2, <1>3, <1>4 DEF Settle
  <2> QED BY <1>2, <2>1 DEF PromiseNext, Results
<1>5. CASE fut[cur] = "pending" /\ \E r \in Results : f = [fut EXCEPT ![cur] = r]
  <2>1. PICK r \in Results : f = [fut EXCEPT ![cur] = r]
    BY <1>5
  <2>2. f[cur] = r /\ \A t \in Txns : t # cur => f[t] = fut[t]
    BY <1>3, <2>1
  <2>3. fut' = [t \in Txns |-> IF t \in {cur} THEN r
                               ELSE IF t \in Drained(f) THEN "skipped" ELSE fut[t]]
    BY <1>1, <1>2, <2>2
  <2>4. Settle({cur}, r, Drained(f))
    BY <1>1, <1>2, <1>3, <1>5, <2>3 DEF Settle
  <2>5. {cur} \in SUBSET Txns
    BY <1>3
  <2> QED BY <1>2, <2>4, <2>5 DEF PromiseNext
<1> QED BY <1>0, <1>4, <1>5 DEF Settled

LEMMA SettlesKeepPromise ==
  ASSUME QueueInv, OrderInv, Busy, UNCHANGED <<order, closing, cur, late>>,
         NEW r \in Results, ItemSettles(r)
  PROVE  PromiseNext
<1>1. cur \in Txns /\ fut \in [Txns -> FutureStates] /\ OldestPending(cur)
      /\ halted \in BOOLEAN
  BY DEF QueueInv, TypeOK, CurrentTaken, OrderInv, CurrentOldest
<1>2. /\ fut[cur] = "pending" /\ halted' = halted
      /\ fut' = [t \in Txns |-> IF t \in {cur} THEN r
                                ELSE IF t \in {} THEN "skipped" ELSE fut[t]]
  BY <1>1 DEF ItemSettles
<1>3. Settle({cur}, r, {})
  BY <1>1, <1>2 DEF Settle
<1>4. {cur} \in SUBSET Txns /\ {} \in SUBSET Txns
  BY <1>1
<1> QED BY <1>3, <1>4 DEF PromiseNext

(***************************************************************************)
(* The serial executor implements ExecutorPromise, in submission order.    *)
(***************************************************************************)
THEOREM SerialKeepsPromise == Spec => KeepsPromise
<1>1. Init => PromiseInit
  BY DEF Init, PromiseInit
<1>2. SerialInv /\ [Next]_vars => [PromiseNext]_promiseVars
  <2> SUFFICES ASSUME QueueInv, OrderInv, [Next]_vars
               PROVE  PromiseNext \/ UNCHANGED promiseVars
    BY DEF SerialInv
  <2>1. CASE \E t \in Txns : Submit(t)
    BY <2>1 DEF Submit, PromiseNext, PromiseSubmit
  <2>2. CASE \E t \in Txns : CancelFuture(t)
    BY <2>2 DEF CancelFuture, PromiseNext, Withdraw
  <2>3. CASE Close
    BY <2>3 DEF Close, promiseVars
  <2>4. CASE Processor
    <3>1. CASE Get
      BY <3>1 DEF Get, promiseVars
    <3>2. CASE Busy /\ UNCHANGED <<order, closing, cur, late>> /\ ItemStays
      BY <3>2 DEF ItemStays, promiseVars
    <3>3. CASE /\ Busy /\ UNCHANGED <<order, closing, cur, late>>
               /\ \E r \in Results : ItemSettles(r)
      BY <3>3, SettlesKeepPromise
    <3>4. CASE Busy /\ UNCHANGED <<order, closing, cur, late>> /\ ItemStops
      BY <3>4, StopsKeepPromise
    <3> QED BY <2>4, <3>1, <3>2, <3>3, <3>4, ProcessorSteps DEF OrderInv
  <2>5. CASE UNCHANGED vars
    BY <2>5 DEF vars, promiseVars
  <2> QED BY <2>1, <2>2, <2>3, <2>4, <2>5 DEF Next
<1> QED BY <1>1, <1>2, SerialInvariance, PTL DEF Spec, KeepsPromise, PromiseSpec
===============================================================================
