--------------------------- MODULE EventBusProofs ---------------------------
(* What holds of EventBus for every queue size, number of handlers, number *)
(* of publish calls, and whether or not handlers raise.                    *)
EXTENDS EventBus, SequenceTheorems, TLAPS

Ids == 1 .. MaxCalls

(* What was accepted is what was handled, what is in hand and what is      *)
(* queued, in this order; the counter counts the last two.                 *)
OrderInv ==
    /\ unfinished = Len(queue) + InHand
    /\ Len(accepted) = Len(handled) + InHand + Len(queue)
    /\ \A i \in 1 .. Len(queue) : queue[i] = accepted[Len(handled) + InHand + i]
    /\ loop = "handling" => cur = accepted[Len(handled) + 1]

(* What a waiter of the counter may rely on.                               *)
WaitInv ==
    /\ loop = "handling" => step \in 1 .. Handlers
    /\ joiner = "waiting" => mark <= Len(accepted)
    /\ joiner = "woken" => mark <= Len(handled)
    /\ stopper # "no" => ~running /\ loop # "off"
    /\ stopper = "woken" => loop = "exited"

BusInv == TypeOK /\ OrderInv /\ WaitInv

-----------------------------------------------------------------------------
(* Putting one more event keeps the order and counts it.                   *)
LEMMA PutKeepsOrder ==
    ASSUME TypeOK, OrderInv, NEW e \in Ids, Put(e), ~Full,
           UNCHANGED <<handled, loop, cur>>
    PROVE  /\ OrderInv'
           /\ queue' \in Seq(Ids) /\ Len(queue') <= MaxSize
           /\ unfinished' \in Nat
           /\ accepted' \in Seq(Ids)
           /\ Len(accepted') = Len(accepted) + 1
<1> USE DEF TypeOK, Ids
<1>1. /\ queue' \in Seq(Ids) /\ accepted' \in Seq(Ids)
      /\ Len(queue') = Len(queue) + 1
      /\ Len(accepted') = Len(accepted) + 1
  BY DEF Put
<1>2. InHand' = InHand /\ InHand \in {0, 1}
  BY DEF InHand
<1>3. /\ Len(queue) \in Nat /\ Len(accepted) \in Nat /\ Len(handled) \in Nat
  BY LenProperties
<1>4. /\ \A i \in 1 .. Len(queue) : queue'[i] = queue[i]
      /\ queue'[Len(queue) + 1] = e
      /\ \A i \in 1 .. Len(accepted) : accepted'[i] = accepted[i]
      /\ accepted'[Len(accepted) + 1] = e
  BY DEF Put
<1>5. /\ unfinished' = Len(queue') + InHand'
      /\ Len(accepted') = Len(handled') + InHand' + Len(queue')
  BY <1>1, <1>2, <1>3 DEF Put, OrderInv
<1>6. ASSUME NEW i \in 1 .. Len(queue')
      PROVE  queue'[i] = accepted'[Len(handled') + InHand' + i]
  <2>1. CASE i \in 1 .. Len(queue)
    <3>1. Len(handled) + InHand + i \in 1 .. Len(accepted)
      BY <2>1, <1>2, <1>3 DEF OrderInv
    <3> QED BY <2>1, <3>1, <1>2, <1>4 DEF OrderInv
  <2>2. CASE i = Len(queue) + 1
    <3>1. Len(handled) + InHand + i = Len(accepted) + 1
      BY <2>2, <1>2, <1>3 DEF OrderInv
    <3> QED BY <2>2, <3>1, <1>2, <1>4
  <2> QED BY <2>1, <2>2, <1>1, <1>3
<1>7. loop' = "handling" => cur' = accepted'[Len(handled') + 1]
  <2> SUFFICES ASSUME loop = "handling" PROVE cur = accepted'[Len(handled) + 1]
    OBVIOUS
  <2>1. InHand = 1
    BY DEF InHand
  <2>2. Len(handled) + 1 \in 1 .. Len(accepted)
    BY <2>1, <1>3 DEF OrderInv
  <2> QED BY <2>2, <1>4 DEF OrderInv
<1>8. Len(queue') <= MaxSize
  BY <1>1, <1>3, BusAssumption DEF Full
<1>9. unfinished' \in Nat
  BY DEF Put
<1> QED BY <1>1, <1>5, <1>6, <1>7, <1>8, <1>9 DEF OrderInv

(* Taking the head of the queue in hand keeps the order.                   *)
LEMMA GetKeepsOrder ==
    ASSUME TypeOK, OrderInv, Get
    PROVE  /\ OrderInv'
           /\ queue' \in Seq(Ids) /\ Len(queue') <= MaxSize
           /\ cur' \in Ids
<1> USE DEF TypeOK, Ids
<1>1. /\ queue' \in Seq(Ids) /\ cur' \in Ids
      /\ Len(queue') = Len(queue) - 1
      /\ cur' = queue[1]
      /\ \A i \in 1 .. Len(queue') : queue'[i] = queue[i + 1]
  <2>1. queue # <<>> /\ queue' = Tail(queue) /\ cur' = Head(queue)
    BY DEF Get
  <2>2. /\ Head(queue) \in Ids /\ Tail(queue) \in Seq(Ids)
        /\ Len(Tail(queue)) = Len(queue) - 1
        /\ \A i \in 1 .. Len(Tail(queue)) : Tail(queue)[i] = queue[i + 1]
    BY <2>1, HeadTailProperties
  <2> QED BY <2>1, <2>2
<1>2. InHand = 0 /\ InHand' = 1
  BY DEF InHand, Get
<1>3. Len(queue) \in Nat /\ Len(accepted) \in Nat /\ Len(handled) \in Nat
  BY LenProperties
<1>4. Len(queue) >= 1
  <2>1. queue \in Seq(Ids) /\ queue # <<>>
    BY DEF Get
  <2>2. Len(queue) \in Nat \ {0}
    BY <2>1, EmptySeq
  <2> QED BY <2>2
<1>5. /\ unfinished' = Len(queue') + InHand'
      /\ Len(accepted') = Len(handled') + InHand' + Len(queue')
  <2>1. unfinished' = unfinished /\ accepted' = accepted /\ handled' = handled
    BY DEF Get, history
  <2>2. Len(accepted') = Len(accepted) /\ Len(handled') = Len(handled)
    BY <2>1
  <2>3. unfinished = Len(queue) /\ Len(accepted) = Len(handled) + Len(queue)
    BY <1>2, <1>3 DEF OrderInv
  <2> HIDE DEF TypeOK
  <2> QED BY <2>1, <2>2, <2>3, <1>1, <1>2, <1>3
<1>6. ASSUME NEW i \in 1 .. Len(queue')
      PROVE  queue'[i] = accepted'[Len(handled') + InHand' + i]
  <2>1. i + 1 \in 1 .. Len(queue)
    BY <1>1, <1>3
  <2>2. queue[i + 1] = accepted[Len(handled) + InHand + (i + 1)]
    BY <2>1 DEF OrderInv
  <2>3. Len(handled) + InHand + (i + 1) = Len(handled') + InHand' + i
    BY <1>1, <1>2, <1>3 DEF Get, history
  <2> QED BY <2>2, <2>3, <1>1 DEF Get, history
<1>7. cur' = accepted'[Len(handled') + 1]
  <2>1. queue[1] = accepted[Len(handled) + InHand + 1]
    BY <1>3, <1>4 DEF OrderInv
  <2>2. Len(handled) + InHand + 1 = Len(handled) + 1
    BY <1>2, <1>3
  <2>3. accepted' = accepted /\ handled' = handled
    BY DEF Get, history
  <2>4. cur' = queue[1]
    BY <1>1
  <2> HIDE DEF TypeOK
  <2> QED BY <2>1, <2>2, <2>3, <2>4, Zenon
<1>8. Len(queue') <= MaxSize
  BY <1>1, <1>3, BusAssumption
<1>9. OrderInv'
  BY <1>5, <1>6, <1>7 DEF OrderInv
<1> QED BY <1>1, <1>8, <1>9

(* The end of a dispatch keeps the order, and hands over what it had.      *)
LEMMA DoneKeepsOrder ==
    ASSUME TypeOK, OrderInv, loop = "handling", TaskDone, UNCHANGED <<queue, accepted>>
    PROVE  /\ OrderInv'
           /\ unfinished' \in Nat
           /\ handled' \in Seq(Ids)
           /\ Len(handled') = Len(handled) + 1
           /\ unfinished' = 0 => Len(handled') = Len(accepted)
<1> USE DEF TypeOK, Ids
<1>1. InHand = 1 /\ InHand' = 0
  BY DEF InHand, TaskDone
<1>2. Len(queue) \in Nat /\ Len(accepted) \in Nat /\ Len(handled) \in Nat
  BY LenProperties
<1>3. cur \in Ids
  <2>1. Len(handled) + 1 \in 1 .. Len(accepted)
    BY <1>1, <1>2 DEF OrderInv
  <2>2. accepted[Len(handled) + 1] \in Ids
    BY <2>1, ElementOfSeq
  <2> QED BY <2>2 DEF OrderInv
<1>4. handled' \in Seq(Ids) /\ Len(handled') = Len(handled) + 1
  BY <1>3 DEF TaskDone
<1>5. /\ unfinished' = Len(queue') + InHand'
      /\ Len(accepted') = Len(handled') + InHand' + Len(queue')
      /\ unfinished' \in Nat
  BY <1>1, <1>2, <1>4 DEF TaskDone, OrderInv
<1>6. \A i \in 1 .. Len(queue') : queue'[i] = accepted'[Len(handled') + InHand' + i]
  <2>1. Len(handled') + InHand' = Len(handled) + InHand
    BY <1>1, <1>2, <1>4
  <2> QED BY <2>1 DEF OrderInv
<1>7. loop' # "handling"
  BY DEF TaskDone
<1>8. unfinished' = 0 => Len(handled') = Len(accepted)
  BY <1>1, <1>2, <1>4, <1>5
<1> QED BY <1>4, <1>5, <1>6, <1>7, <1>8 DEF OrderInv

-----------------------------------------------------------------------------
(* The invariant holds of a bus that has just been made.                   *)
LEMMA InitBus == Init => BusInv
<1> SUFFICES ASSUME Init PROVE BusInv
  OBVIOUS
<1>1. /\ queue \in Seq(Ids) /\ accepted \in Seq(Ids) /\ handled \in Seq(Ids)
      /\ Len(queue) = 0 /\ Len(accepted) = 0 /\ Len(handled) = 0
  BY EmptySeq DEF Init
<1>2. TypeOK
  <2>1. /\ Len(queue) <= MaxSize
        /\ unfinished \in Nat /\ mark \in Nat
        /\ cur \in 0 .. MaxCalls /\ calls \in 0 .. MaxCalls /\ step \in 0 .. Handlers
    BY <1>1, BusAssumption DEF Init
  <2> QED BY <1>1, <2>1 DEF Init, TypeOK, Ids
<1>3. OrderInv
  BY <1>1 DEF Init, OrderInv, InHand
<1>4. WaitInv
  BY DEF Init, WaitInv
<1> QED BY <1>2, <1>3, <1>4 DEF BusInv

(* Each step of the bus keeps the invariant.                               *)
LEMMA StepBus == BusInv /\ [Next]_vars => BusInv'
<1> SUFFICES ASSUME BusInv, [Next]_vars PROVE BusInv'
  OBVIOUS
<1>a. TypeOK /\ OrderInv /\ WaitInv
  BY DEF BusInv
<1> USE BusAssumption, <1>a
<1>b. Len(queue) \in Nat /\ Len(accepted) \in Nat /\ Len(handled) \in Nat
  BY LenProperties DEF TypeOK
<1>1. CASE Start
  <2>1. TypeOK'
    BY <1>1 DEF Start, TypeOK, waiters, history
  <2>2. OrderInv'
    BY <1>1 DEF Start, OrderInv, InHand, history
  <2>3. WaitInv'
    BY <1>1 DEF Start, WaitInv, waiters, history
  <2> QED BY <2>1, <2>2, <2>3 DEF BusInv
<1>2. ASSUME NEW e \in Ids, Put(e), ~Full,
             UNCHANGED <<running, loop, cur, step, waiters, handled>>,
             putters' \subseteq Ids, calls' \in 0 .. MaxCalls
      PROVE  BusInv'
  <2>1. /\ OrderInv'
        /\ queue' \in Seq(Ids) /\ Len(queue') <= MaxSize
        /\ unfinished' \in Nat
        /\ accepted' \in Seq(Ids)
        /\ Len(accepted') = Len(accepted) + 1
    BY <1>2, PutKeepsOrder
  <2>2. TypeOK'
    BY <1>2, <2>1 DEF TypeOK, Ids, waiters
  <2>3. WaitInv'
    BY <1>2, <2>1, <1>b DEF WaitInv, waiters, TypeOK
  <2> QED BY <2>1, <2>2, <2>3 DEF BusInv
<1>3. ASSUME UNCHANGED <<queue, unfinished, accepted, running, loop, cur, step, waiters, handled>>,
             putters' \subseteq Ids, calls' \in 0 .. MaxCalls
      PROVE  BusInv'
  <2>1. TypeOK'
    BY <1>3 DEF TypeOK, Ids, waiters
  <2>2. OrderInv'
    BY <1>3 DEF OrderInv, InHand
  <2>3. WaitInv'
    BY <1>3 DEF WaitInv, waiters
  <2> QED BY <2>1, <2>2, <2>3 DEF BusInv
<1>4. CASE Publish \/ PublishAndWait
  <2>1. calls' \in Ids /\ calls' \in 0 .. MaxCalls
    BY <1>4 DEF Publish, PublishAndWait, TypeOK, Ids
  <2>2. putters' \subseteq Ids
    BY <1>4, <2>1 DEF Publish, PublishAndWait, TypeOK, Ids
  <2>3. UNCHANGED <<running, loop, cur, step, waiters, handled>>
    BY <1>4 DEF Publish, PublishAndWait
  <2>4. \/ ~Full /\ Put(calls')
        \/ UNCHANGED <<queue, unfinished, accepted>>
    BY <1>4 DEF Publish, PublishAndWait
  <2>5. CASE ~Full /\ Put(calls')
    BY <2>1, <2>2, <2>3, <2>5, <1>2
  <2>6. CASE UNCHANGED <<queue, unfinished, accepted>>
    BY <2>1, <2>2, <2>3, <2>6, <1>3
  <2> QED BY <2>4, <2>5, <2>6
<1>5. ASSUME NEW e \in putters, PutterResumes(e) PROVE BusInv'
  <2>1. e \in Ids /\ putters' \subseteq Ids /\ calls' \in 0 .. MaxCalls
    BY <1>5 DEF PutterResumes, TypeOK, Ids
  <2>2. UNCHANGED <<running, loop, cur, step, waiters, handled>> /\ ~Full /\ Put(e)
    BY <1>5 DEF PutterResumes
  <2> QED BY <2>1, <2>2, <1>2
<1>6. CASE Get
  <2>1. /\ OrderInv'
        /\ queue' \in Seq(Ids) /\ Len(queue') <= MaxSize
        /\ cur' \in Ids
    BY <1>6, GetKeepsOrder
  <2>2. TypeOK'
    BY <1>6, <2>1 DEF Get, TypeOK, Ids, waiters, history
  <2>3. WaitInv'
    BY <1>6 DEF Get, WaitInv, waiters, history
  <2> QED BY <2>1, <2>2, <2>3 DEF BusInv
<1>7. ASSUME loop = "handling" PROVE step \in 1 .. Handlers /\ cur \in Ids
  <2>1. step \in 1 .. Handlers
    BY <1>7 DEF WaitInv
  <2>2. Len(handled) + 1 \in 1 .. Len(accepted)
    BY <1>7, <1>b DEF OrderInv, InHand
  <2>3. accepted[Len(handled) + 1] \in Ids
    BY <2>2, ElementOfSeq DEF TypeOK, Ids
  <2> QED BY <2>1, <2>3, <1>7 DEF OrderInv
<1>8. ASSUME loop = "handling", TaskDone, step' = 0,
             UNCHANGED <<queue, putters, running, cur, mark, calls, accepted>>
      PROVE  BusInv'
  <2>1. /\ OrderInv'
        /\ unfinished' \in Nat
        /\ handled' \in Seq(Ids)
        /\ Len(handled') = Len(handled) + 1
        /\ unfinished' = 0 => Len(handled') = Len(accepted)
    BY <1>8, DoneKeepsOrder
  <2>2. /\ joiner' \in {joiner, "woken"} /\ (joiner' # joiner => joiner = "waiting" /\ unfinished' = 0)
        /\ stopper' \in {stopper, "woken"} /\ (stopper' # stopper => stopper = "waiting")
        /\ loop' = IF running THEN "getting" ELSE "exited"
    BY <1>8 DEF TaskDone, Wake
  <2>3. TypeOK'
    BY <1>8, <2>1, <2>2 DEF TypeOK, Ids
  <2>4. /\ joiner' = "waiting" => mark' <= Len(accepted')
        /\ joiner' = "woken" => mark' <= Len(handled')
    BY <1>8, <2>1, <2>2, <1>b DEF WaitInv, TypeOK
  <2>5. /\ loop' # "handling"
        /\ stopper' # "no" => ~running' /\ loop' # "off"
        /\ stopper' = "woken" => loop' = "exited"
    BY <1>8, <2>2 DEF WaitInv
  <2> QED BY <2>1, <2>3, <2>4, <2>5 DEF BusInv, WaitInv
<1>9. CASE HandlerReturns
  <2>1. CASE step < Handlers
    <3>1. /\ step' = step + 1
          /\ UNCHANGED <<loop, unfinished, joiner, stopper, handled, queue, putters, running,
                         cur, mark, calls, accepted>>
      BY <1>9, <2>1, <1>7 DEF HandlerReturns
    <3>2. TypeOK'
      BY <3>1, <1>9, <1>7, <2>1 DEF HandlerReturns, TypeOK, Ids
    <3>3. OrderInv'
      BY <3>1 DEF OrderInv, InHand
    <3>4. WaitInv'
      BY <3>1, <1>9, <1>7, <2>1 DEF WaitInv, HandlerReturns
    <3> QED BY <3>2, <3>3, <3>4 DEF BusInv
  <2>2. CASE step = Handlers
    BY <1>9, <2>2, <1>8 DEF HandlerReturns
  <2> QED BY <1>9, <2>1, <2>2 DEF HandlerReturns
<1>10. CASE HandlerRaises
  BY <1>10, <1>8 DEF HandlerRaises
<1>11. CASE Join \/ JoinReturns
  <2>1. TypeOK'
    BY <1>11, <1>b DEF Join, JoinReturns, TypeOK, bus, history
  <2>2. OrderInv'
    BY <1>11 DEF Join, JoinReturns, OrderInv, InHand, bus, history
  <2>3. WaitInv'
    BY <1>11, <1>b DEF Join, JoinReturns, WaitInv, bus, history
  <2> QED BY <2>1, <2>2, <2>3 DEF BusInv
<1>12. CASE Stop
  <2>1. loop = "handling" => unfinished > 0
    BY <1>b DEF OrderInv, InHand
  <2>2. TypeOK'
    BY <1>12 DEF Stop, CancelLoop, TypeOK, history
  <2>3. OrderInv'
    BY <1>12, <2>1 DEF Stop, CancelLoop, OrderInv, InHand, history
  <2>4. WaitInv'
    BY <1>12 DEF Stop, CancelLoop, WaitInv, history
  <2> QED BY <2>2, <2>3, <2>4 DEF BusInv
<1>13. CASE StopResumes
  <2>1. TypeOK'
    BY <1>13 DEF StopResumes, CancelLoop, TypeOK, history
  <2>2. OrderInv'
    BY <1>13 DEF StopResumes, CancelLoop, OrderInv, WaitInv, InHand, history
  <2>3. WaitInv'
    BY <1>13 DEF StopResumes, CancelLoop, WaitInv, history
  <2> QED BY <2>1, <2>2, <2>3 DEF BusInv
<1>14. CASE UNCHANGED vars
  BY <1>14 DEF vars, bus, waiters, history, BusInv, TypeOK, OrderInv, WaitInv, InHand
<1> QED
  BY <1>1, <1>4, <1>5, <1>6, <1>9, <1>10, <1>11, <1>12, <1>13, <1>14 DEF Next, LoopStep

-----------------------------------------------------------------------------
(* The invariant holds in every behaviour of the bus.                      *)
LEMMA BusInvariant == Spec => []BusInv
BY InitBus, StepBus, PTL DEF Spec

(* Type correctness of the bus; in particular its queue stays in bounds.   *)
THEOREM TypeCorrect == Spec => []TypeOK
<1>1. BusInv => TypeOK
  BY DEF BusInv
<1> QED BY <1>1, BusInvariant, PTL

(* The bus implements ordered, exactly-once dispatch: a put is an Accept,  *)
(* the end of a dispatch (returned or raised) is a Handle of the oldest    *)
(* event not handled yet, and every other step leaves both logs alone.     *)
THEOREM ImplementsOrder == Spec => OrderedSpec
<1>1. Init => Ordered!Init
  BY DEF Init, Ordered!Init
<1>2. BusInv /\ [Next]_vars => [Ordered!Next]_<<accepted, handled>>
  <2> SUFFICES ASSUME BusInv, [Next]_vars
               PROVE  Ordered!Next \/ UNCHANGED <<accepted, handled>>
    OBVIOUS
  <2>a. TypeOK /\ OrderInv
    BY DEF BusInv
  <2>b. Len(queue) \in Nat /\ Len(accepted) \in Nat /\ Len(handled) \in Nat
    BY <2>a, LenProperties DEF TypeOK
  <2>1. ASSUME NEW e \in Ids, Put(e), UNCHANGED handled PROVE Ordered!Next
    BY <2>1 DEF Put, Ordered!Next, Ordered!Accept, Ids
  <2>2. ASSUME loop = "handling", TaskDone, UNCHANGED accepted PROVE Ordered!Next
    <3>1. cur = accepted[Len(handled) + 1]
      BY <2>2, <2>a DEF OrderInv
    <3>2. Len(handled) < Len(accepted)
      BY <2>2, <2>a, <2>b DEF OrderInv, InHand
    <3> QED BY <2>2, <3>1, <3>2 DEF TaskDone, Ordered!Next, Ordered!Handle
  <2>3. CASE Publish \/ PublishAndWait
    <3>1. calls' \in Ids
      BY <2>3, <2>a, BusAssumption DEF Publish, PublishAndWait, TypeOK, Ids
    <3>2. UNCHANGED handled
      BY <2>3 DEF Publish, PublishAndWait
    <3>3. Put(calls') \/ UNCHANGED accepted
      BY <2>3 DEF Publish, PublishAndWait
    <3> QED BY <3>1, <3>2, <3>3, <2>1
  <2>4. ASSUME NEW e \in putters, PutterResumes(e) PROVE Ordered!Next
    <3>1. e \in Ids
      BY <2>4, <2>a DEF TypeOK, Ids
    <3> QED BY <2>4, <3>1, <2>1 DEF PutterResumes
  <2>5. CASE HandlerReturns
    BY <2>5, <2>2 DEF HandlerReturns
  <2>6. CASE HandlerRaises
    BY <2>6, <2>2 DEF HandlerRaises
  <2>7. CASE Start \/ Get \/ Join \/ JoinReturns \/ Stop \/ StopResumes
    BY <2>7 DEF Start, Get, Join, JoinReturns, Stop, StopResumes, history
  <2>8. CASE UNCHANGED vars
    BY <2>8 DEF vars, history
  <2> QED BY <2>3, <2>4, <2>5, <2>6, <2>7, <2>8 DEF Next, LoopStep
<1> QED BY <1>1, <1>2, BusInvariant, PTL DEF Spec, OrderedSpec, Ordered!Spec

(* join() returns only after everything accepted before the call has been  *)
(* dispatched, whatever was published while it was waking up.              *)
THEOREM JoinsSettle == Spec => JoinSettles
<1>1. BusInv /\ [Next]_vars =>
          [joiner = "woken" /\ joiner' = "no" => Len(handled) >= mark]_vars
  BY LenProperties DEF BusInv, WaitInv, TypeOK
<1> QED BY <1>1, BusInvariant, PTL DEF Spec, JoinSettles

(* stop() cancels the dispatch task only between two events.               *)
THEOREM StopsBetweenEvents == Spec => StopCutsNoHandler
<1>1. BusInv /\ [Next]_vars =>
          [stopper # "done" /\ stopper' = "done" => loop # "handling"]_vars
  <2> SUFFICES ASSUME BusInv, Next, stopper # "done", stopper' = "done"
               PROVE  loop # "handling"
    BY DEF vars, waiters
  <2>1. CASE Stop
    <3>1. unfinished = 0
      BY <2>1 DEF Stop
    <3> QED BY <3>1, LenProperties DEF BusInv, OrderInv, InHand, TypeOK
  <2>2. CASE StopResumes
    BY <2>2 DEF StopResumes, BusInv, WaitInv
  <2>3. CASE ~Stop /\ ~StopResumes
    BY <2>3 DEF Next, LoopStep, Start, Publish, PublishAndWait, PutterResumes, Get,
                HandlerReturns, HandlerRaises, TaskDone, Wake, Join, JoinReturns, waiters
  <2> QED BY <2>1, <2>2, <2>3
<1> QED BY <1>1, BusInvariant, PTL DEF Spec, StopCutsNoHandler
=============================================================================
