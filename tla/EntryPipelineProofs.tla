------------------------- MODULE EntryPipelineProofs -------------------------
(* What holds of EntryPipeline for every universe, limit, TTL and delay.   *)
EXTENDS EntryPipeline, SequenceTheorems, FiniteSetTheorems, TLAPS

(* The handler under way has a symbol, and the order it is placing still   *)
(* fits under the bound on units; Head and Tail of a non-empty queue.      *)
HandlerInv ==
    /\ TypeOK
    /\ stage # "idle" => cur \in Symbols
    /\ stage = "placing" => held[cur] < MaxUnits

(* Taking the next event off the queue gives a known symbol and leaves a   *)
(* queue of events.                                                        *)
LEMMA NextEvent ==
    ASSUME NEW S, NEW q \in Seq([kind : {"bar", "signal"}, symbol : S]), q # <<>>
    PROVE  /\ Head(q).symbol \in S
           /\ Tail(q) \in Seq([kind : {"bar", "signal"}, symbol : S])
<1>1. Head(q) \in [kind : {"bar", "signal"}, symbol : S]
  BY HeadTailProperties
<1>2. Tail(q) \in Seq([kind : {"bar", "signal"}, symbol : S])
  BY HeadTailProperties
<1> QED BY <1>1, <1>2

(* Pruning leaves every entry with an age or none.                         *)
LEMMA PruneType ==
    ASSUME NEW p \in [Symbols -> Absent .. TTL + 1], TTL \in Nat
    PROVE  PrunePendingEntries(p) \in [Symbols -> Absent .. TTL + 1]
BY DEF PrunePendingEntries, Absent

(* The handler invariant holds throughout.                                 *)
LEMMA HandlerInvariant == Spec => []HandlerInv
<1>1. Init => HandlerInv
  <2> SUFFICES ASSUME Init PROVE HandlerInv
    OBVIOUS
  <2>1. /\ held \in [Symbols -> 0 .. MaxUnits]
        /\ pending \in [Symbols -> Absent .. TTL + 1]
    BY EntryAssumption DEF Init, Absent
  <2>2. queue \in Seq([kind : {"bar", "signal"}, symbol : Symbols])
    BY DEF Init
  <2> QED BY <2>1, <2>2 DEF Init, HandlerInv, TypeOK
<1>2. HandlerInv /\ [Next]_vars => HandlerInv'
  <2> SUFFICES ASSUME HandlerInv, [Next]_vars PROVE HandlerInv'
    OBVIOUS
  <2> USE EntryAssumption DEF HandlerInv, TypeOK
  <2> DEFINE Events == [kind : {"bar", "signal"}, symbol : Symbols]
  <2>1. CASE AnyBar
    <3>1. PICK s \in Symbols : BarCloses(s)
      BY <2>1 DEF AnyBar
    <3>2. Bar(s) \in Events
      BY DEF Bar
    <3>3. queue' \in Seq(Events)
      BY <3>1, <3>2 DEF BarCloses
    <3> QED BY <3>1, <3>3 DEF BarCloses, market, switches
  <2>2. CASE SkipBar
    BY <2>2, NextEvent DEF SkipBar, IsNext, market, switches
  <2>3. CASE OnBar
    <3>1. /\ Head(queue).symbol \in Symbols
          /\ queue' \in Seq(Events)
      BY <2>3, NextEvent DEF OnBar, IsNext
    <3>2. pending' \in [Symbols -> Absent .. TTL + 1]
      BY <2>3, PruneType DEF OnBar
    <3>3. /\ stage' \in {"idle", "sizing"}
          /\ cur' \in Symbols \cup {NoSymbol}
          /\ stage' # "idle" => cur' \in Symbols
      BY <2>3, <3>1 DEF OnBar, IsNext
    <3> QED BY <2>3, <3>1, <3>2, <3>3 DEF OnBar, market, switches
  <2>4. CASE EmitSignal
    <3>1. cur \in Symbols
      BY <2>4 DEF EmitSignal
    <3>2. Signal(cur) \in Events
      BY <3>1 DEF Signal
    <3>3. queue' \in Seq(Events)
      BY <2>4, <3>2 DEF EmitSignal
    <3>4. pending' \in [Symbols -> Absent .. TTL + 1]
      BY <2>4, <3>1 DEF EmitSignal, Absent
    <3> QED BY <2>4, <3>3, <3>4 DEF EmitSignal, HandlerEnds, market, switches
  <2>5. CASE SizingFails \/ CheckOrderRejects \/ SubmitFails
    BY <2>5 DEF SizingFails, CheckOrderRejects, SubmitFails, HandlerEnds, market, switches
  <2>6. CASE OnSignal
    <3>1. /\ Head(queue).symbol \in Symbols
          /\ queue' \in Seq(Events)
      BY <2>6, NextEvent DEF OnSignal, IsNext
    <3> QED BY <2>6, <3>1 DEF OnSignal, market, switches
  <2>7. CASE CheckOrderPasses
    BY <2>7 DEF CheckOrderPasses, market, switches
  <2>8. CASE SubmitEntry
    BY <2>8 DEF SubmitEntry, market
  <2>9. CASE OrderAnswered
    <3>1. cur \in Symbols /\ held[cur] < MaxUnits
      BY <2>9 DEF OrderAnswered
    <3>2. held[cur] + 1 \in 0 .. MaxUnits
      BY <3>1
    <3>3. held' \in [Symbols -> 0 .. MaxUnits]
      <4>1. CASE held' = [held EXCEPT ![cur] = @ + 1]
        BY <4>1, <3>1, <3>2
      <4>2. CASE UNCHANGED held
        BY <4>2
      <4> QED BY <4>1, <4>2, <2>9 DEF OrderAnswered
    <3> QED BY <2>9, <3>3 DEF OrderAnswered, HandlerEnds, switches
  <2>10. CASE Polling
    BY <2>10 DEF Polling, PollRead, PollApply, Held, handler, switches
  <2>11. ASSUME NEW s \in Symbols, ClosePosition(s) PROVE HandlerInv'
    BY <2>11 DEF ClosePosition, handler, switches
  <2>12. CASE Tick
    <3>1. pending' \in [Symbols -> Absent .. TTL + 1]
      BY <2>12 DEF Tick, Absent
    <3> QED BY <2>12, <3>1 DEF Tick, market, handler, switches
  <2>13. CASE Trip \/ EngageKillSwitch \/ ResetKillSwitch \/ \E b \in BOOLEAN : SetPaused(b)
    <3>1. /\ paused' \in BOOLEAN
          /\ halted' \in BOOLEAN
          /\ slipped' \in Nat
      <4>1. CASE Trip
        BY <4>1 DEF Trip
      <4>2. CASE EngageKillSwitch
        BY <4>2 DEF EngageKillSwitch
      <4>3. CASE ResetKillSwitch
        BY <4>3 DEF ResetKillSwitch
      <4>4. CASE \E b \in BOOLEAN : SetPaused(b)
        BY <4>4 DEF SetPaused
      <4> QED BY <2>13, <4>1, <4>2, <4>3, <4>4
    <3>2. UNCHANGED <<market, pending, handler>>
      BY <2>13 DEF Trip, EngageKillSwitch, ResetKillSwitch, SetPaused
    <3> QED BY <3>1, <3>2 DEF market, handler
  <2>14. CASE UNCHANGED vars
    BY <2>14 DEF vars, market, handler, switches
  <2> QED
    BY <2>1, <2>2, <2>3, <2>4, <2>5, <2>6, <2>7, <2>8, <2>9, <2>10, <2>11, <2>12, <2>13, <2>14
    DEF Next, Dispatch
<1> QED BY <1>1, <1>2, PTL DEF Spec

(* Type correctness of the entry pipeline.                                 *)
THEOREM TypeCorrect == Spec => []TypeOK
BY HandlerInvariant, PTL DEF HandlerInv

(* Of the invariant behind AtMostOneSlips: an order that was approved      *)
(* before the halt is the only one that can still go out.                  *)
SlipInv ==
    halted => slipped <= 1 /\ (stage = "approved" => slipped = 0)

(* Whatever is queued or under way when the breaker halts, at most one     *)
(* entry is submitted before it is reset: on_signal reads the breaker in   *)
(* check_order, and the bus runs one handler at a time.                    *)
THEOREM HaltStopsEntries == Spec => []AtMostOneSlips
<1>1. Init => SlipInv
  BY DEF Init, SlipInv
<1>2. TypeOK /\ SlipInv /\ [Next]_vars => SlipInv'
  <2> SUFFICES ASSUME TypeOK, SlipInv, [Next]_vars PROVE SlipInv'
    OBVIOUS
  <2> USE DEF SlipInv, TypeOK
  <2>1. CASE AnyBar \/ Polling \/ Tick
    BY <2>1 DEF AnyBar, BarCloses, Polling, PollRead, PollApply, Tick, handler, switches
  <2>2. CASE SkipBar \/ OnBar \/ OnSignal
    BY <2>2 DEF SkipBar, OnBar, OnSignal, IsNext, switches
  <2>3. CASE EmitSignal \/ SizingFails \/ CheckOrderRejects \/ SubmitFails \/ OrderAnswered
    BY <2>3 DEF EmitSignal, SizingFails, CheckOrderRejects, SubmitFails, OrderAnswered,
                HandlerEnds, switches
  <2>4. CASE CheckOrderPasses
    BY <2>4 DEF CheckOrderPasses, switches
  <2>5. CASE SubmitEntry
    BY <2>5 DEF SubmitEntry
  <2>6. ASSUME NEW s \in Symbols, ClosePosition(s) PROVE SlipInv'
    BY <2>6 DEF ClosePosition, handler, switches
  <2>7. CASE Trip \/ EngageKillSwitch \/ ResetKillSwitch
    BY <2>7 DEF Trip, EngageKillSwitch, ResetKillSwitch, handler
  <2>8. CASE \E b \in BOOLEAN : SetPaused(b)
    BY <2>8 DEF SetPaused, handler
  <2>9. CASE UNCHANGED vars
    BY <2>9 DEF vars, handler, switches
  <2> QED
    BY <2>1, <2>2, <2>3, <2>4, <2>5, <2>6, <2>7, <2>8, <2>9 DEF Next, Dispatch
<1>3. SlipInv => AtMostOneSlips
  BY DEF SlipInv, AtMostOneSlips
<1> QED BY <1>1, <1>2, <1>3, TypeCorrect, PTL DEF Spec
-----------------------------------------------------------------------------
(* The event queue as far as entries go: an event is in it or not, and a   *)
(* signal is in it at most once.                                           *)
Event == [kind : {"bar", "signal"}, symbol : Symbols]
InQueue(q, e) == \E i \in 1 .. Len(q) : q[i] = e
SignalsOnce(q) == \A i, j \in 1 .. Len(q) : q[i] = q[j] /\ q[i].kind = "signal" => i = j

(* Publishing an event adds it and nothing else.                           *)
LEMMA PublishAdds ==
    ASSUME NEW q \in Seq(Event), NEW e \in Event
    PROVE  /\ \A x : InQueue(Append(q, e), x) <=> InQueue(q, x) \/ x = e
           /\ SignalsOnce(q) /\ (e.kind = "bar" \/ ~InQueue(q, e)) => SignalsOnce(Append(q, e))
<1> DEFINE r == Append(q, e)
<1>1. /\ Len(q) \in Nat
      /\ Len(r) = Len(q) + 1
      /\ \A i \in 1 .. Len(q) : r[i] = q[i]
      /\ r[Len(q) + 1] = e
  BY AppendProperties
<1> HIDE DEF r
<1>2. \A i \in 1 .. Len(r) : i \in 1 .. Len(q) \/ i = Len(q) + 1
  BY <1>1
<1>3. 1 .. Len(q) \subseteq 1 .. Len(r) /\ Len(q) + 1 \in 1 .. Len(r)
  BY <1>1
<1>4. \A x : InQueue(r, x) <=> InQueue(q, x) \/ x = e
  BY <1>1, <1>2, <1>3 DEF InQueue
<1>5. ASSUME SignalsOnce(q), e.kind = "bar" \/ ~InQueue(q, e) PROVE SignalsOnce(r)
  BY <1>1, <1>2, <1>5 DEF SignalsOnce, InQueue
<1> QED BY <1>4, <1>5 DEF r

(* Dispatching the next event removes it, and all of it.                   *)
LEMMA DispatchRemoves ==
    ASSUME NEW q \in Seq(Event), q # <<>>
    PROVE  /\ Head(q) \in Event /\ InQueue(q, Head(q))
           /\ \A x : InQueue(Tail(q), x) => InQueue(q, x)
           /\ SignalsOnce(q) => SignalsOnce(Tail(q))
           /\ SignalsOnce(q) /\ Head(q).kind = "signal" => ~InQueue(Tail(q), Head(q))
<1> DEFINE r == Tail(q)
<1>1. /\ Len(q) \in Nat /\ Len(q) >= 1
      /\ Len(r) = Len(q) - 1
      /\ \A i \in 1 .. Len(r) : r[i] = q[i + 1]
      /\ Head(q) = q[1] /\ Head(q) \in Event
  BY HeadTailProperties, EmptySeq, LenProperties
<1> HIDE DEF r
<1>2. \A i \in 1 .. Len(r) : i + 1 \in 1 .. Len(q) /\ i + 1 # 1
  BY <1>1
<1>3. 1 \in 1 .. Len(q)
  BY <1>1
<1>4. InQueue(q, Head(q))
  BY <1>1, <1>3 DEF InQueue
<1>5. \A x : InQueue(r, x) => InQueue(q, x)
  BY <1>1, <1>2 DEF InQueue
<1>6. ASSUME SignalsOnce(q) PROVE SignalsOnce(r)
  <2> SUFFICES ASSUME NEW i \in 1 .. Len(r), NEW j \in 1 .. Len(r),
                      r[i] = r[j], r[i].kind = "signal"
               PROVE  i = j
    BY DEF SignalsOnce
  <2>1. i + 1 = j + 1
    BY <1>1, <1>2, <1>6 DEF SignalsOnce
  <2> QED BY <2>1, <1>1
<1>7. ASSUME SignalsOnce(q), Head(q).kind = "signal" PROVE ~InQueue(r, Head(q))
  BY <1>1, <1>2, <1>3, <1>7 DEF SignalsOnce, InQueue
<1> QED BY <1>1, <1>4, <1>5, <1>6, <1>7 DEF r

(* What a poll has read and not applied.                                   *)
Read == IF polled = NoPoll THEN {} ELSE polled
Handling(s) == stage \in {"reading", "approved", "placing"} /\ cur = s
UnderWay(s) == InQueue(queue, Signal(s)) \/ Handling(s)

(* One symbol: its entry is under way at most once and only while it is    *)
(* neither held nor about to be reported as held, its slot is reserved     *)
(* from the signal to the poll that confirms it, and a poll on its way     *)
(* cannot take a position out of sight that is still there.                *)
SymbolInv(s) ==
    /\ ~(InQueue(queue, Signal(s)) /\ Handling(s))
    /\ UnderWay(s) => pending[s] \in 0 .. TTL /\ held[s] = 0 /\ s \notin watched \cup Read
    /\ stage = "sizing" /\ cur = s =>
          pending[s] = Absent /\ held[s] = 0 /\ s \notin watched \cup Read
    /\ s \in (Held \cup Read) \ watched => pending[s] \in 0 .. TTL
    /\ s \in Held \cap watched /\ polled # NoPoll => s \in polled
    /\ held[s] <= 1

(* All of them: the reserved slots never exceed the limit.                 *)
Slots == watched \cup PendingSet(pending)
SlotInv ==
    /\ Cardinality(Slots) <= MaxOpen
    /\ stage = "sizing" => Cardinality(Slots) < MaxOpen

EntryInv == SignalsOnce(queue) /\ (\A s \in Symbols : SymbolInv(s)) /\ SlotInv

(* Fewer slots are no problem.                                             *)
LEMMA FewerSlots ==
    ASSUME TypeOK, SlotInv, Slots' \subseteq Slots, stage' = "sizing" => stage = "sizing"
    PROVE  SlotInv'
<1>1. IsFiniteSet(Slots)
  <2>1. Slots \subseteq Symbols
    BY DEF Slots, PendingSet, TypeOK
  <2> QED BY <2>1, FS_Subset, EntryAssumption
<1>2. /\ Cardinality(Slots') <= Cardinality(Slots)
      /\ Cardinality(Slots') \in Nat /\ Cardinality(Slots) \in Nat
  BY <1>1, FS_Subset, FS_CardinalityType
<1> QED BY <1>2, EntryAssumption DEF SlotInv
(* Steps that leave a symbol's position, reservation and entry alone, and  *)
(* what the monitor knows of it.                                           *)
LEMMA SymbolAlone ==
    ASSUME NEW s \in Symbols, SymbolInv(s),
           UNCHANGED <<held[s], pending[s], watched, polled>>,
           InQueue(queue, Signal(s))' => InQueue(queue, Signal(s)),
           Handling(s)' => Handling(s),
           stage' = "sizing" /\ cur' = s => stage = "sizing" /\ cur = s
    PROVE  SymbolInv(s)'
BY DEF SymbolInv, UnderWay, Held, Read

(* The steps of the dispatched handler, one event at a time.               *)
LEMMA DispatchKeeps ==
    ASSUME HandlerInv, HandlerInv', EntryInv, Dispatch
    PROVE  EntryInv'
<1> USE DEF EntryInv
<1>0. /\ queue \in Seq(Event) /\ \A s \in Symbols : Signal(s) \in Event
      /\ TTL \in Nat /\ Absent \notin 0 .. TTL
      /\ pending \in [Symbols -> Absent .. TTL + 1]
      /\ held \in [Symbols -> 0 .. MaxUnits] /\ MaxUnits \in Nat
  BY EntryAssumption DEF HandlerInv, TypeOK, Event, Signal, Absent
<1>1. ASSUME UNCHANGED <<market, pending>>, stage' # "sizing",
             SignalsOnce(queue'),
             \A s \in Symbols : SymbolInv(s)'
      PROVE  EntryInv'
  <2>1. Slots' = Slots
    BY <1>1 DEF Slots, PendingSet, market
  <2> QED BY <1>1, <2>1, FewerSlots DEF HandlerInv
<1>2. CASE SkipBar
  <2>1. ASSUME NEW s \in Symbols PROVE SymbolInv(s)'
    BY <1>0, <1>2, SymbolAlone, DispatchRemoves DEF SkipBar, IsNext, market, Handling
  <2> QED BY <1>0, <1>1, <1>2, <2>1, DispatchRemoves DEF SkipBar, IsNext
<1>3. CASE SizingFails \/ CheckOrderRejects \/ SubmitFails
  <2>1. ASSUME NEW s \in Symbols PROVE SymbolInv(s)'
    BY <1>3, SymbolAlone
    DEF SizingFails, CheckOrderRejects, SubmitFails, HandlerEnds, market, Handling
  <2> QED BY <1>1, <1>3, <2>1 DEF SizingFails, CheckOrderRejects, SubmitFails, HandlerEnds
<1>4. CASE CheckOrderPasses \/ SubmitEntry
  <2>1. ASSUME NEW s \in Symbols PROVE SymbolInv(s)'
    BY <1>4, SymbolAlone DEF CheckOrderPasses, SubmitEntry, market, Handling
  <2> QED BY <1>1, <1>4, <2>1 DEF CheckOrderPasses, SubmitEntry
<1>5. CASE OnSignal
  <2> DEFINE t == Head(queue).symbol
  <2>1. /\ t \in Symbols /\ Head(queue) = Signal(t)
        /\ InQueue(queue, Signal(t)) /\ ~InQueue(queue', Signal(t))
        /\ \A x : InQueue(queue', x) => InQueue(queue, x)
        /\ SignalsOnce(queue')
    BY <1>0, <1>5, DispatchRemoves DEF OnSignal, IsNext, Event, Signal
  <2>2. stage' = "reading" /\ cur' = t /\ UNCHANGED <<market, pending>> /\ stage = "idle"
    BY <1>5 DEF OnSignal, IsNext
  <2> HIDE DEF t
  <2>3. ASSUME NEW s \in Symbols PROVE SymbolInv(s)'
    <3>1. CASE s = t
      BY <2>1, <2>2, <3>1 DEF SymbolInv, UnderWay, Handling, Held, Read, market
    <3>2. CASE s # t
      BY <2>1, <2>2, <3>2, SymbolAlone DEF Handling, market
    <3> QED BY <3>1, <3>2
  <2> QED BY <1>1, <2>1, <2>2, <2>3
<1>6. CASE OrderAnswered
  <2>1. cur \in Symbols /\ Handling(cur) /\ stage = "placing" /\ stage' = "idle"
    BY <1>6 DEF OrderAnswered, HandlerEnds, HandlerInv, Handling
  <2>2. /\ held'[cur] \in {0, 1}
        /\ \A s \in Symbols \ {cur} : held'[s] = held[s]
        /\ UNCHANGED <<watched, polled, pending, queue>>
    <3>1. held[cur] = 0
      BY <2>1 DEF SymbolInv, UnderWay
    <3> QED BY <1>0, <1>6, <2>1, <3>1 DEF OrderAnswered
  <2>3. ASSUME NEW s \in Symbols PROVE SymbolInv(s)'
    <3>1. CASE s = cur
      <4>1. /\ pending[s] \in 0 .. TTL /\ s \notin watched \cup Read
            /\ ~InQueue(queue, Signal(s))
        BY <2>1, <3>1 DEF SymbolInv, UnderWay
      <4>2. UNCHANGED <<pending, watched, polled, queue>> /\ held'[s] \in {0, 1} /\ ~Handling(s)'
        BY <2>1, <2>2, <3>1 DEF Handling
      <4> QED BY <4>1, <4>2, <2>1 DEF SymbolInv, UnderWay, Held, Read
    <3>2. CASE s # cur
      BY <2>1, <2>2, <3>2, SymbolAlone DEF Handling
    <3> QED BY <3>1, <3>2
  <2>4. SlotInv'
    <3>1. Slots' = Slots
      BY <2>2 DEF Slots, PendingSet
    <3> QED BY <2>1, <3>1, FewerSlots DEF HandlerInv
  <2> QED BY <2>2, <2>3, <2>4
<1>7. CASE EmitSignal
  <2>1. cur \in Symbols /\ stage = "sizing" /\ stage' = "idle"
    BY <1>7 DEF EmitSignal, HandlerEnds, HandlerInv
  <2>2. pending[cur] = Absent /\ held[cur] = 0 /\ cur \notin watched \cup Read
    BY <2>1 DEF SymbolInv
  <2>3. ~UnderWay(cur)
    BY <1>0, <2>1, <2>2 DEF SymbolInv
  <2>4. /\ UNCHANGED <<held, watched, polled>>
        /\ pending'[cur] = 0
        /\ \A s \in Symbols \ {cur} : pending'[s] = pending[s]
        /\ queue' = Append(queue, Signal(cur))
    BY <1>0, <1>7, <2>1 DEF EmitSignal, market
  <2>5. \A x : InQueue(queue', x) <=> InQueue(queue, x) \/ x = Signal(cur)
    BY <1>0, <2>1, <2>4, PublishAdds
  <2>6. SignalsOnce(queue')
    BY <1>0, <2>1, <2>3, <2>4, PublishAdds DEF UnderWay
  <2>7. ASSUME NEW s \in Symbols PROVE SymbolInv(s)'
    <3>1. CASE s = cur
      <4>1. pending'[s] \in 0 .. TTL /\ held'[s] = 0 /\ s \notin watched' \cup Read'
        BY <1>0, <2>2, <2>4, <3>1 DEF Read
      <4> QED BY <4>1, <2>1 DEF SymbolInv, UnderWay, Handling, Held
    <3>2. CASE s # cur
      <4>1. Signal(s) # Signal(cur)
        BY <3>2 DEF Signal
      <4> QED BY <2>1, <2>4, <2>5, <3>2, <4>1, SymbolAlone DEF Handling
    <3> QED BY <3>1, <3>2
  <2>8. SlotInv'
    <3>1. Slots' \subseteq Slots \cup {cur}
      BY <2>4 DEF Slots, PendingSet
    <3>2. IsFiniteSet(Slots)
      <4>1. Slots \subseteq Symbols
        BY DEF Slots, PendingSet, HandlerInv, TypeOK
      <4> QED BY <4>1, FS_Subset, EntryAssumption
    <3>3. /\ IsFiniteSet(Slots \cup {cur})
          /\ Cardinality(Slots \cup {cur}) <= Cardinality(Slots) + 1
      <4>1. Cardinality(Slots) \in Nat
        BY <3>2, FS_CardinalityType
      <4>2. /\ IsFiniteSet(Slots \cup {cur})
            /\ Cardinality(Slots \cup {cur}) =
                  IF cur \in Slots THEN Cardinality(Slots) ELSE Cardinality(Slots) + 1
        BY <3>2, FS_AddElement
      <4> QED BY <4>1, <4>2
    <3>4. /\ Cardinality(Slots') <= Cardinality(Slots \cup {cur})
          /\ Cardinality(Slots') \in Nat /\ Cardinality(Slots) \in Nat
          /\ Cardinality(Slots \cup {cur}) \in Nat
      BY <3>1, <3>2, <3>3, FS_Subset, FS_CardinalityType
    <3> QED BY <2>1, <3>3, <3>4, EntryAssumption DEF SlotInv
  <2> QED BY <2>6, <2>7, <2>8
<1>8. CASE OnBar
  <2> DEFINE t == Head(queue).symbol
  <2>1. /\ t \in Symbols /\ stage = "idle" /\ UNCHANGED market
        /\ \A x : InQueue(queue', x) => InQueue(queue, x)
        /\ SignalsOnce(queue')
    BY <1>0, <1>8, DispatchRemoves DEF OnBar, IsNext, Event
  <2>2. /\ \A s \in Symbols : s \in watched => pending'[s] = Absent
        /\ \A s \in Symbols : s \notin watched /\ pending[s] \in 0 .. TTL => pending'[s] = pending[s]
        /\ \A s \in Symbols : pending'[s] # Absent => pending[s] # Absent
    BY <1>0, <1>8 DEF OnBar, PrunePendingEntries
  <2>3. \/ UNCHANGED <<stage, cur>>
        \/ /\ t \notin Slots' /\ Cardinality(Slots') < MaxOpen
           /\ stage' = "sizing" /\ cur' = t
    BY <1>8, <2>1 DEF OnBar, MayEnter, Slots, market
  <2> HIDE DEF t
  <2>4. ASSUME NEW s \in Symbols PROVE SymbolInv(s)'
    <3>1. /\ ~Handling(s)' /\ ~Handling(s) /\ UNCHANGED <<held, watched, polled>>
          /\ UnderWay(s)' => UnderWay(s)
      BY <2>1, <2>3 DEF Handling, UnderWay, market
    <3>2. UnderWay(s) => pending'[s] \in 0 .. TTL /\ held[s] = 0 /\ s \notin watched \cup Read
      BY <2>2 DEF SymbolInv
    <3>3. s \in (Held \cup Read) \ watched => pending'[s] \in 0 .. TTL
      BY <2>2 DEF SymbolInv
    <3>4. stage' = "sizing" /\ cur' = s =>
             pending'[s] = Absent /\ held[s] = 0 /\ s \notin watched \cup Read
      <4>1. ASSUME stage' = "sizing", cur' = s PROVE s \notin watched' /\ pending'[s] = Absent
        BY <4>1, <2>1, <2>3 DEF Slots, PendingSet
      <4> QED BY <1>0, <3>1, <3>3, <4>1 DEF Held
    <3> QED BY <3>1, <3>2, <3>3, <3>4 DEF SymbolInv, UnderWay, Held, Read
  <2>5. SlotInv'
    <3>1. Slots' \subseteq Slots
      BY <2>1, <2>2 DEF Slots, PendingSet, market
    <3>2. CASE UNCHANGED <<stage, cur>>
      BY <3>1, <3>2, FewerSlots DEF HandlerInv
    <3>3. CASE Cardinality(Slots') < MaxOpen
      <4>1. IsFiniteSet(Slots')
        <5>1. Slots' \subseteq Symbols
          BY DEF Slots, PendingSet, HandlerInv, TypeOK
        <5> QED BY <5>1, FS_Subset, EntryAssumption
      <4> QED BY <3>3, <4>1, FS_CardinalityType, EntryAssumption DEF SlotInv
    <3> QED BY <2>3, <3>2, <3>3
  <2> QED BY <2>1, <2>4, <2>5
<1> QED
  BY <1>2, <1>3, <1>4, <1>5, <1>6, <1>7, <1>8 DEF Dispatch
(* The other tasks, when neither an entry nor a poll's answer is delayed.  *)
LEMMA OthersKeep ==
    ASSUME HandlerInv, EntryInv, Delays = {},
           \/ AnyBar \/ Polling \/ Tick \/ UNCHANGED <<market, pending, handler>>
           \/ \E s \in Symbols : ClosePosition(s)
    PROVE  EntryInv'
<1> USE DEF EntryInv
<1>0. /\ queue \in Seq(Event) /\ \A s \in Symbols : Signal(s) \in Event /\ Bar(s) \in Event
      /\ TTL \in Nat /\ Absent \notin 0 .. TTL
      /\ pending \in [Symbols -> Absent .. TTL + 1]
      /\ held \in [Symbols -> 0 .. MaxUnits] /\ MaxUnits \in Nat
      /\ polled = NoPoll \/ polled \subseteq Symbols
      /\ watched \subseteq Symbols
  BY EntryAssumption DEF HandlerInv, TypeOK, Event, Signal, Bar, Absent
<1>1. ASSUME Slots' \subseteq Slots, UNCHANGED <<queue, stage>>, \A s \in Symbols : SymbolInv(s)'
      PROVE  EntryInv'
  BY <1>1, FewerSlots DEF HandlerInv
<1>2. ASSUME NEW t \in Symbols, BarCloses(t) PROVE EntryInv'
  <2>1. UNCHANGED <<market, pending, stage, cur>> /\ queue' = Append(queue, Bar(t))
    BY <1>2 DEF BarCloses
  <2>2. SignalsOnce(queue')
    BY <1>0, <2>1, PublishAdds DEF Bar
  <2>3. ASSUME NEW s \in Symbols PROVE SymbolInv(s)'
    <3>1. Signal(s) # Bar(t)
      BY DEF Signal, Bar
    <3>2. InQueue(queue', Signal(s)) => InQueue(queue, Signal(s))
      BY <1>0, <2>1, <3>1, PublishAdds
    <3> QED BY <2>1, <3>2, SymbolAlone DEF market, Handling
  <2>4. Slots' = Slots
    BY <2>1 DEF Slots, PendingSet, market
  <2> QED BY <2>1, <2>2, <2>3, <2>4, FewerSlots DEF HandlerInv
<1>3. CASE PollRead
  <2>1. UNCHANGED <<held, watched, pending, queue, stage, cur>> /\ Read = {} /\ Read' \subseteq Held
    BY <1>3 DEF PollRead, handler, Read
  <2>2. polled' = Held
    BY <1>3 DEF PollRead
  <2>3. ASSUME NEW s \in Symbols PROVE SymbolInv(s)'
    BY <1>0, <2>1, <2>2 DEF SymbolInv, UnderWay, Handling, Held
  <2>4. Slots' = Slots
    BY <2>1 DEF Slots, PendingSet
  <2> QED BY <1>1, <2>1, <2>3, <2>4
<1>4. CASE PollApply
  <2>1. /\ UNCHANGED <<held, pending, queue, stage, cur>>
        /\ watched' = Read /\ Read' = {} /\ polled' = NoPoll /\ polled # NoPoll /\ Read = polled
    BY <1>4 DEF PollApply, handler, Read
  <2>2. ASSUME NEW s \in Symbols PROVE SymbolInv(s)'
    BY <1>0, <2>1 DEF SymbolInv, UnderWay, Handling, Held
  <2>3. Slots' \subseteq Slots
    <3>1. Read \subseteq Symbols
      BY <1>0 DEF Read
    <3>2. ASSUME NEW s \in Read \ watched PROVE pending[s] # Absent
      BY <1>0, <3>1, <3>2 DEF SymbolInv
    <3> QED BY <2>1, <3>1, <3>2 DEF Slots, PendingSet
  <2> QED BY <1>1, <2>1, <2>2, <2>3
<1>5. CASE Tick
  <2>1. /\ UNCHANGED <<held, watched, polled, queue, stage, cur>>
        /\ polled = NoPoll
        /\ \A s \in PendingSet(pending) : Unconfirmed(s) => pending[s] < TTL
    BY <1>5 DEF Tick, market, handler
  <2>2. \A s \in Symbols : pending'[s] =
           IF pending[s] \in 0 .. TTL THEN pending[s] + 1 ELSE pending[s]
    BY <1>5 DEF Tick
  <2>3. ASSUME NEW s \in Symbols PROVE SymbolInv(s)'
    <3>1. UnderWay(s) \/ s \in Held \ watched => Unconfirmed(s)
      BY DEF UnderWay, InQueue, Handling, Unconfirmed
    <3>2. ASSUME UnderWay(s) \/ s \in Held \ watched PROVE pending'[s] \in 0 .. TTL
      <4>1. pending[s] \in 0 .. TTL
        BY <3>2 DEF SymbolInv
      <4>2. pending[s] < TTL
        BY <1>0, <2>1, <3>1, <3>2, <4>1 DEF PendingSet
      <4> QED BY <1>0, <2>2, <4>1, <4>2
    <3>3. pending[s] = Absent => pending'[s] = Absent
      BY <1>0, <2>2
    <3> QED BY <2>1, <3>2, <3>3 DEF SymbolInv, UnderWay, Handling, Held, Read
  <2>4. Slots' \subseteq Slots
    BY <1>0, <2>1, <2>2 DEF Slots, PendingSet
  <2> QED BY <1>1, <2>1, <2>3, <2>4
<1>6. ASSUME NEW t \in Symbols, ClosePosition(t) PROVE EntryInv'
  <2>1. /\ UNCHANGED <<watched, polled, pending, queue, stage, cur>>
        /\ held'[t] = 0 /\ \A s \in Symbols \ {t} : held'[s] = held[s]
    BY <1>0, <1>6 DEF ClosePosition, handler
  <2>2. ASSUME NEW s \in Symbols PROVE SymbolInv(s)'
    <3>1. CASE s = t
      BY <2>1, <3>1 DEF SymbolInv, UnderWay, Handling, Held, Read
    <3>2. CASE s # t
      BY <2>1, <3>2, SymbolAlone DEF Handling
    <3> QED BY <3>1, <3>2
  <2>3. Slots' = Slots
    BY <2>1 DEF Slots, PendingSet
  <2> QED BY <1>1, <2>1, <2>2, <2>3
<1>7. CASE UNCHANGED <<market, pending, handler>>
  <2>1. ASSUME NEW s \in Symbols PROVE SymbolInv(s)'
    BY <1>7, SymbolAlone DEF market, handler, Handling
  <2>2. Slots' = Slots
    BY <1>7 DEF Slots, PendingSet, market
  <2> QED BY <1>1, <1>7, <2>1, <2>2 DEF handler
<1> QED BY <1>2, <1>3, <1>4, <1>5, <1>6, <1>7 DEF AnyBar, Polling

(* The invariant of the slots and of each symbol, when an entry is over    *)
(* and a poll applied in time.                                             *)
LEMMA EntryInvariant == Delays = {} => (Spec => []EntryInv)
<1> SUFFICES ASSUME Delays = {} PROVE Spec => []EntryInv
  OBVIOUS
<1>1. Init => EntryInv
  <2> SUFFICES ASSUME Init PROVE EntryInv
    OBVIOUS
  <2>1. SignalsOnce(queue) /\ \A x : ~InQueue(queue, x)
    BY DEF Init, SignalsOnce, InQueue
  <2>2. ASSUME NEW s \in Symbols PROVE SymbolInv(s)
    BY <2>1 DEF Init, SymbolInv, UnderWay, Handling, Held, Read
  <2>3. Slots = {}
    BY DEF Init, Slots, PendingSet
  <2>4. SlotInv
    BY <2>3, FS_EmptySet, EntryAssumption DEF SlotInv
  <2> QED BY <2>1, <2>2, <2>4 DEF EntryInv
<1>2. HandlerInv /\ HandlerInv' /\ EntryInv /\ [Next]_vars => EntryInv'
  <2> SUFFICES ASSUME HandlerInv, HandlerInv', EntryInv, [Next]_vars PROVE EntryInv'
    OBVIOUS
  <2>1. ASSUME \/ Trip \/ EngageKillSwitch \/ ResetKillSwitch
               \/ \E b \in BOOLEAN : SetPaused(b)
               \/ UNCHANGED vars
        PROVE  UNCHANGED <<market, pending, handler>>
    BY <2>1 DEF Trip, EngageKillSwitch, ResetKillSwitch, SetPaused, vars
  <2> QED BY <2>1, DispatchKeeps, OthersKeep DEF Next
<1> QED BY <1>1, <1>2, HandlerInvariant, PTL DEF Spec

(* The comment on _pending_entries is right: however many bars close at    *)
(* once and however polls and entries interleave, the bot never holds more *)
(* than max_open_positions, provided every entry is rejected or confirmed  *)
(* within the TTL and a poll's answer is applied within a tick.            *)
THEOREM NeverOverMaxOpen == Delays = {} => (Spec => []WithinMaxOpen)
<1> SUFFICES ASSUME Delays = {} PROVE Spec => []WithinMaxOpen
  OBVIOUS
<1>1. TypeOK /\ EntryInv => WithinMaxOpen
  <2> SUFFICES ASSUME TypeOK, EntryInv PROVE WithinMaxOpen
    OBVIOUS
  <2>1. Held \subseteq Slots
    <3>1. ASSUME NEW s \in Held \ watched PROVE s \in PendingSet(pending)
      BY <3>1, EntryAssumption DEF EntryInv, SymbolInv, Held, PendingSet, Absent
    <3> QED BY <3>1 DEF Slots
  <2>2. IsFiniteSet(Slots)
    <3>1. Slots \subseteq Symbols
      BY DEF Slots, PendingSet, TypeOK
    <3> QED BY <3>1, FS_Subset, EntryAssumption
  <2>3. /\ Cardinality(Held) <= Cardinality(Slots)
        /\ Cardinality(Held) \in Nat /\ Cardinality(Slots) \in Nat
    BY <2>1, <2>2, FS_Subset, FS_CardinalityType
  <2> QED BY <2>3, EntryAssumption DEF EntryInv, SlotInv, WithinMaxOpen
<1> QED BY <1>1, EntryInvariant, TypeCorrect, PTL

(* Under the same proviso no symbol is entered twice: its first entry      *)
(* keeps the slot reserved until the monitor reports the position, and a   *)
(* stale poll cannot hide it.                                              *)
THEOREM NeverEnteredTwice == Delays = {} => (Spec => []NoDoubleEntry)
<1>1. EntryInv => NoDoubleEntry
  BY DEF EntryInv, SymbolInv, NoDoubleEntry
<1> QED BY <1>1, EntryInvariant, PTL
=============================================================================
