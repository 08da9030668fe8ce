------------------------ MODULE OrderLifecycleProofs ------------------------
(***************************************************************************)
(* What holds of OrderLifecycle for any number of orders and legs, any     *)
(* quantity and any length of the stream and of the event queue.           *)
(***************************************************************************)
EXTENDS OrderLifecycle, TLAPS

-----------------------------------------------------------------------------
(* A message becomes an event of the same order.                           *)
LEMMA EventOfType ==
    ASSUME NEW m \in Messages
    PROVE  EventOf(m) \in Events /\ EventOf(m).id = m.c
<1>1. CASE m.x = "TRADE"
  BY <1>1, OrderAssumption
  DEF Messages, EventOf, ExecutionEvent, Events, ExStatus, ExWorking, ExTerminal
<1>2. CASE m.x # "TRADE" /\ m.X = "REJECTED"
  BY <1>2 DEF Messages, EventOf, RejectEvent, Events
<1>3. CASE m.x # "TRADE" /\ m.X # "REJECTED"
  BY <1>3 DEF Messages, EventOf, AckEvent, Events, ORDER_STATUS_MAP, Terminal,
              Open, ExStatus, ExWorking, ExTerminal
<1> QED
  BY <1>1, <1>2, <1>3

(* Emit keeps the types of what it writes.                                 *)
LEMMA EmitType ==
    ASSUME TypeOK, NEW m \in Messages, Emit(m)
    PROVE  stream' \in Seq(Messages) /\ missed' \subseteq Orders
<1>1. m.c \in Orders
  BY DEF Messages
<1>2. CASE connected
  <2>1. stream' = Append(stream, m) /\ missed' = missed
    BY <1>2, Zenon DEF Emit
  <2> QED
    BY <2>1 DEF TypeOK
<1>3. CASE ~connected
  <2>1. stream' = stream /\ missed' = missed \cup {m.c}
    BY <1>3, Zenon DEF Emit
  <2> QED
    BY <1>1, <2>1 DEF TypeOK
<1> QED
  BY <1>2, <1>3

(* So does a cancel at the exchange.                                       *)
LEMMA CancelAtExchangeType ==
    ASSUME TypeOK, NEW o \in Orders, CancelAtExchange(o)
    PROVE  /\ ex' \in [Orders -> ExStatus]
           /\ done' \in [Orders -> 0 .. Lots]
           /\ stream' \in Seq(Messages)
           /\ missed' \subseteq Orders
<1>1. CASE UNCHANGED exchange
  BY <1>1 DEF exchange, TypeOK
<1>2. CASE /\ ex' = [ex EXCEPT ![o] = "CANCELED"]
           /\ Emit(Message(o, "OTHER", "CANCELED", 0, done[o]))
           /\ UNCHANGED done
  <2>1. Message(o, "OTHER", "CANCELED", 0, done[o]) \in Messages
    BY OrderAssumption
    DEF TypeOK, Messages, Message, ExStatus, ExWorking, ExTerminal
  <2>2. ex' \in [Orders -> ExStatus]
    BY <1>2 DEF TypeOK, ExStatus, ExTerminal
  <2> QED
    BY <1>2, <2>1, <2>2, EmitType DEF TypeOK
<1> QED
  BY <1>1, <1>2 DEF CancelAtExchange

(* Every reachable state is well typed: in particular no sequence of       *)
(* partial fills takes ManagedOrder.filled_quantity past the order's size. *)
THEOREM OrderTypes == Spec => []TypeOK
<1>1. Init => TypeOK
  BY OrderAssumption DEF Init, TypeOK, Calls, ExStatus
<1>2. TypeOK /\ [Next]_vars => TypeOK'
  <2> SUFFICES ASSUME TypeOK, [Next]_vars PROVE TypeOK'
    OBVIOUS
  <2>1. ASSUME NEW o \in Orders, OrderNext(o) PROVE TypeOK'
    <3>1. CASE Submit(o)
      BY <3>1 DEF Submit, TypeOK, exchange, Calls, Open
    <3>2. CASE SubmitBelowMinQty(o)
      <4>1. RejectEvent(o) \in Events
        BY DEF RejectEvent, Events
      <4> QED
        BY <3>2, <4>1 DEF SubmitBelowMinQty, TypeOK, exchange, Calls, Open
    <3>3. CASE SubmitRaises(o)
      BY <3>3 DEF SubmitRaises, TypeOK, exchange, Calls, Open
    <3>4. CASE ExchangeAccepts(o)
      <4>1. Message(o, "OTHER", "NEW", 0, 0) \in Messages
        BY OrderAssumption DEF Message, Messages, ExStatus, ExWorking
      <4>2. stream' \in Seq(Messages) /\ missed' \subseteq Orders
        BY <3>4, <4>1, EmitType DEF ExchangeAccepts
      <4> QED
        BY <3>4, <4>2 DEF ExchangeAccepts, TypeOK, manager, Calls, ExStatus,
                          ExWorking
    <3>5. CASE ExchangeRefuses(o)
      BY <3>5 DEF ExchangeRefuses, TypeOK, exchange, manager, Calls
    <3>6. CASE Trade(o)
      <4>1. PICK l \in 1 .. Lots - done[o] :
                LET z == done[o] + l
                    st == IF z = Lots THEN "FILLED" ELSE "PARTIALLY_FILLED"
                IN  /\ ex' = [ex EXCEPT ![o] = st]
                    /\ done' = [done EXCEPT ![o] = z]
                    /\ Emit(Message(o, "TRADE", st, l, z))
        BY <3>6 DEF Trade
      <4> DEFINE z == done[o] + l
                 st == IF z = Lots THEN "FILLED" ELSE "PARTIALLY_FILLED"
      <4>2. z \in 0 .. Lots /\ l \in 0 .. Lots
        BY OrderAssumption DEF TypeOK
      <4>3. st \in ExStatus \ {"none"}
        BY DEF ExStatus, ExWorking, ExTerminal
      <4>4. Message(o, "TRADE", st, l, z) \in Messages
        BY <4>2, <4>3 DEF Message, Messages
      <4>5. stream' \in Seq(Messages) /\ missed' \subseteq Orders
        BY <4>1, <4>4, EmitType
      <4>6. ex' \in [Orders -> ExStatus] /\ done' \in [Orders -> 0 .. Lots]
        BY <4>1, <4>2, <4>3 DEF TypeOK
      <4> QED
        BY <3>6, <4>5, <4>6 DEF Trade, TypeOK, broker, manager
    <3>7. CASE ExchangeEnds(o)
      <4>1. PICK st \in {"EXPIRED", "REJECTED"} :
                /\ ex' = [ex EXCEPT ![o] = st]
                /\ Emit(Message(o, "OTHER", st, 0, done[o]))
        BY <3>7 DEF ExchangeEnds
      <4>2. Message(o, "OTHER", st, 0, done[o]) \in Messages
        BY OrderAssumption
        DEF TypeOK, Message, Messages, ExStatus, ExWorking, ExTerminal
      <4>3. stream' \in Seq(Messages) /\ missed' \subseteq Orders
        BY <4>1, <4>2, EmitType
      <4>4. ex' \in [Orders -> ExStatus]
        BY <4>1 DEF TypeOK, ExStatus, ExTerminal
      <4> QED
        BY <3>7, <4>3, <4>4 DEF ExchangeEnds, TypeOK, broker, manager
    <3>8. CASE PlaceReturns(o)
      BY <3>8 DEF PlaceReturns, TypeOK, exchange, manager, Calls
    <3>9. CASE PlaceFails(o)
      <4>1. RejectEvent(o) \in Events
        BY DEF RejectEvent, Events
      <4> QED
        BY <3>9, <4>1 DEF PlaceFails, TypeOK, exchange, manager, Calls
    <3>10. CASE Cancel(o)
      BY <3>10 DEF Cancel, TypeOK, exchange, Open
    <3>11. CASE CancelRequest(o)
      BY <3>11, CancelAtExchangeType DEF CancelRequest, TypeOK, manager
    <3>12. CASE CancelSibling(o)
      BY <3>12, CancelAtExchangeType DEF CancelSibling, TypeOK, manager
    <3> QED
      BY <2>1, <3>1, <3>2, <3>3, <3>4, <3>5, <3>6, <3>7, <3>8, <3>9, <3>10,
         <3>11, <3>12 DEF OrderNext
  <2>2. CASE UserStreamMessage
    <3> DEFINE m == Head(stream)
    <3>1. m \in Messages /\ stream' \in Seq(Messages)
      BY <2>2 DEF UserStreamMessage, TypeOK
    <3>2. evq' \in Seq(Events)
      BY <2>2, <3>1, EventOfType DEF UserStreamMessage, TypeOK
    <3>3. siblings' = NotBusy \/ siblings' \subseteq OcoLegs
      BY <2>2 DEF UserStreamMessage, TypeOK, OcaSiblings
    <3> QED
      BY <2>2, <3>1, <3>2, <3>3 DEF UserStreamMessage, TypeOK, manager
  <2>3. CASE ClearGroup
    BY <2>3 DEF ClearGroup, TypeOK, exchange, manager
  <2>4. CASE Disconnect
    <3>1. \A i \in 1 .. Len(stream) : stream[i] \in Messages
      BY DEF TypeOK
    <3>2. {stream[i].c : i \in 1 .. Len(stream)} \subseteq Orders
      BY <3>1 DEF Messages
    <3>3. missed' \subseteq Orders /\ stream' \in Seq(Messages)
      BY <2>4, <3>2 DEF Disconnect, TypeOK
    <3>4. connected' \in BOOLEAN
      BY <2>4, Zenon DEF Disconnect
    <3> QED
      BY <2>4, <3>3, <3>4 DEF Disconnect, TypeOK, broker, manager
  <2>5. CASE Reconnect
    BY <2>5 DEF Reconnect, TypeOK, exchange, broker, manager
  <2>6. CASE ConsumeEvent
    <3> DEFINE e == Head(evq)
    <3>1. e \in Events /\ evq' \in Seq(Events)
      BY <2>6 DEF ConsumeEvent, TypeOK
    <3>2. e.id \in Orders /\ e.status \in Terminal \cup Open
      BY <3>1 DEF Events, Terminal, Open
    <3>3. status' \in [Orders -> {"absent"} \cup Open \cup Terminal]
      BY <2>6, <3>2 DEF ConsumeEvent, ApplyEvent, TypeOK
    <3>4. /\ filled' \in [Orders -> 0 .. Lots]
          /\ published' \in [Orders -> Nat]
      <4>1. CASE e.kind = "execution"
        <5>1. e.l \in 0 .. Lots /\ e.z \in 0 .. Lots
          BY <3>1, <4>1 DEF Events
        <5>2. published[e.id] + e.l \in Nat
          BY <5>1, <3>2, OrderAssumption DEF TypeOK
        <5>3. /\ filled' = [filled EXCEPT ![e.id] = e.z]
              /\ published' = [published EXCEPT ![e.id] = published[e.id] + e.l]
          BY <2>6, <4>1 DEF ConsumeEvent, ApplyEvent
        <5> HIDE DEF e
        <5> QED
          BY <5>1, <5>2, <5>3, <3>2 DEF TypeOK
      <4>2. CASE e.kind # "execution"
        BY <2>6, <4>2 DEF ConsumeEvent, ApplyEvent, TypeOK
      <4> QED
        BY <4>1, <4>2
    <3> QED
      BY <2>6, <3>1, <3>3, <3>4 DEF ConsumeEvent, TypeOK, exchange, broker
  <2>7. CASE UNCHANGED vars
    BY <2>7 DEF vars, exchange, broker, manager, TypeOK
  <2> QED
    BY <2>1, <2>2, <2>3, <2>4, <2>5, <2>6, <2>7 DEF Next
<1> QED
  BY <1>1, <1>2, PTL DEF Spec

-----------------------------------------------------------------------------
(* The argument for TerminalIsOver and TerminalStays: an order's messages  *)
(* and events stand in one line, from the exchange over the stream and the *)
(* event queue to the manager, and only the last one can be terminal.      *)

(* A trade is reported as FILLED exactly when it completes the order.      *)
Sound(m) ==
    m.x = "TRADE" => /\ m.X \in {"FILLED", "PARTIALLY_FILLED"}
                     /\ m.X = "FILLED" <=> m.z = Lots

(* A terminal message is about an order that is over, and is its last one. *)
StreamInv ==
    /\ \A i \in 1 .. Len(stream) :
           /\ Sound(stream[i])
           /\ stream[i].X \in ExTerminal => Over(stream[i].c)
    /\ \A i, j \in 1 .. Len(stream) :
           i < j /\ stream[i].c = stream[j].c => stream[i].X \notin ExTerminal

(* So is a terminal event ...                                              *)
EvqInv ==
    /\ \A i \in 1 .. Len(evq) : evq[i].status \in Terminal => Over(evq[i].id)
    /\ \A i, j \in 1 .. Len(evq) :
           i < j /\ evq[i].id = evq[j].id => evq[i].status \notin Terminal

(* ... and no message of its order is behind it.                           *)
CrossInv ==
    \A i \in 1 .. Len(evq), j \in 1 .. Len(stream) :
        evq[i].id = stream[j].c => evq[i].status \notin Terminal

(* Nothing is on its way to an order in a terminal status.                 *)
StatusInv ==
    \A o \in Orders : status[o] \in Terminal =>
        /\ Over(o)
        /\ \A i \in 1 .. Len(stream) : stream[i].c # o
        /\ \A i \in 1 .. Len(evq) : evq[i].id # o

(* An order that no answer has been given to is unknown to the exchange,   *)
(* and nothing has been reported about it.                                 *)
CallInv ==
    \A o \in Orders :
        /\ status[o] = "absent" => call[o] = "none"
        /\ call[o] \in {"none", "sent", "refused"} =>
               /\ ex[o] = "none"
               /\ status[o] \notin Terminal
               /\ \A i \in 1 .. Len(stream) : stream[i].c # o
               /\ \A i \in 1 .. Len(evq) : evq[i].id # o

LineInv == StreamInv /\ EvqInv /\ CrossInv /\ StatusInv /\ CallInv

(* Nothing terminal has been said of the order so far.                     *)
Fresh(o) ==
    /\ status[o] \notin Terminal
    /\ \A i \in 1 .. Len(stream) :
           stream[i].c = o => stream[i].X \notin ExTerminal
    /\ \A i \in 1 .. Len(evq) : evq[i].id = o => evq[i].status \notin Terminal

(* No step brings an order back to life.                                   *)
OverStays == \A p \in Orders : Over(p) => Over(p)'

(* A working order is not over, so nothing terminal is under way.          *)
LEMMA WorkingIsFresh ==
    ASSUME TypeOK, LineInv, NEW o \in Orders, ex[o] \in ExWorking
    PROVE  Fresh(o)
<1>1. ~Over(o)
  BY DEF Over, ExWorking, ExTerminal
<1> QED
  BY <1>1 DEF LineInv, StreamInv, EvqInv, StatusInv, Fresh

(* An order without an answer is fresh too.                                *)
LEMMA UnansweredIsFresh ==
    ASSUME LineInv, NEW o \in Orders, call[o] \in {"none", "sent", "refused"}
    PROVE  Fresh(o)
BY DEF LineInv, CallInv, Fresh

(* The types of the elements of the two queues.                            *)
LEMMA QueueTypes ==
    ASSUME TypeOK
    PROVE  /\ \A i \in 1 .. Len(stream) :
                  stream[i] \in Messages /\ stream[i].c \in Orders
           /\ \A i \in 1 .. Len(evq) :
                  evq[i] \in Events /\ evq[i].id \in Orders
<1>1. \A i \in 1 .. Len(stream) : stream[i] \in Messages
  BY DEF TypeOK
<1>2. \A i \in 1 .. Len(evq) : evq[i] \in Events
  BY DEF TypeOK
<1>3. \A m \in Messages : m.c \in Orders
  BY DEF Messages
<1>4. \A e \in Events : e.id \in Orders
  BY DEF Events
<1> QED
  BY <1>1, <1>2, <1>3, <1>4

(* Emit writes to the stream or not at all.                                *)
LEMMA EmitStream ==
    ASSUME NEW m, Emit(m)
    PROVE  stream' = Append(stream, m) \/ stream' = stream
BY Zenon DEF Emit

(* A message about a fresh order keeps the line in order.                  *)
LEMMA EmitKeepsLine ==
    ASSUME TypeOK, LineInv, NEW o \in Orders, NEW m \in Messages, m.c = o,
           Sound(m), Emit(m), UNCHANGED <<evq, status>>, Fresh(o), OverStays,
           m.X \in ExTerminal => Over(o)'
    PROVE  StreamInv' /\ EvqInv' /\ CrossInv' /\ StatusInv'
<1>1. CASE stream' = stream
  BY <1>1, QueueTypes DEF LineInv, StreamInv, EvqInv, CrossInv, StatusInv,
                          OverStays, Over, Sound
<1>2. CASE stream' = Append(stream, m)
  <2>1. /\ Len(stream) \in Nat
        /\ Len(stream') = Len(stream) + 1
        /\ stream'[Len(stream) + 1] = m
        /\ \A i \in 1 .. Len(stream) : stream'[i] = stream[i]
    BY <1>2 DEF TypeOK
  <2>2. \A i \in 1 .. Len(stream') : i \in 1 .. Len(stream) \/ i = Len(stream) + 1
    BY <2>1
  <2>3. StreamInv'
    <3>1. ASSUME NEW i \in 1 .. Len(stream')
          PROVE  /\ Sound(stream'[i])
                 /\ stream'[i].X \in ExTerminal => Over(stream[i].c)'
      <4>1. CASE i \in 1 .. Len(stream)
        BY <2>1, <4>1, QueueTypes DEF LineInv, StreamInv, OverStays, Over, Sound
      <4>2. CASE i = Len(stream) + 1
        BY <2>1, <4>2 DEF Over
      <4> QED
        BY <2>2, <4>1, <4>2
    <3>2. ASSUME NEW i \in 1 .. Len(stream'), NEW j \in 1 .. Len(stream'),
                 i < j, stream'[i].c = stream'[j].c
          PROVE  stream'[i].X \notin ExTerminal
      <4>1. i \in 1 .. Len(stream)
        BY <2>1, <3>2
      <4>2. CASE j \in 1 .. Len(stream)
        BY <2>1, <3>2, <4>1, <4>2 DEF LineInv, StreamInv
      <4>3. CASE j = Len(stream) + 1
        BY <2>1, <3>2, <4>1, <4>3 DEF Fresh
      <4> QED
        BY <2>2, <4>2, <4>3
    <3> QED
      BY <3>1, <3>2 DEF StreamInv, Sound, Over
  <2>4. EvqInv'
    BY QueueTypes DEF LineInv, EvqInv, OverStays, Over
  <2>5. CrossInv'
    BY <2>1, <2>2 DEF LineInv, CrossInv, Fresh
  <2>6. StatusInv'
    BY <2>1, <2>2 DEF LineInv, StatusInv, Fresh, OverStays, Over
  <2> QED
    BY <2>3, <2>4, <2>5, <2>6
<1> QED
  BY <1>1, <1>2, EmitStream

(* So does a reject event for an order of which nothing is under way.      *)
LEMMA RejectKeepsLine ==
    ASSUME TypeOK, LineInv, NEW o \in Orders, UNCHANGED stream,
           evq' = Append(evq, RejectEvent(o)),
           status' = status \/ status' = [status EXCEPT ![o] = "SUBMITTED"],
           call[o] \in {"none", "sent", "refused"}, OverStays, Over(o)'
    PROVE  StreamInv' /\ EvqInv' /\ CrossInv' /\ StatusInv'
<1>1. /\ Len(evq) \in Nat
      /\ Len(evq') = Len(evq) + 1
      /\ evq'[Len(evq) + 1].id = o
      /\ evq'[Len(evq) + 1].status = "REJECTED"
      /\ \A i \in 1 .. Len(evq) : evq'[i] = evq[i]
  BY DEF TypeOK, RejectEvent
<1>2. \A i \in 1 .. Len(evq') : i \in 1 .. Len(evq) \/ i = Len(evq) + 1
  BY <1>1
<1>3. /\ status[o] \notin Terminal /\ status'[o] \notin Terminal
      /\ \A i \in 1 .. Len(stream) : stream[i].c # o
      /\ \A i \in 1 .. Len(evq) : evq[i].id # o
      /\ \A p \in Orders : p # o => status'[p] = status[p]
  BY DEF LineInv, CallInv, TypeOK, Terminal
<1>4. StreamInv'
  BY QueueTypes DEF LineInv, StreamInv, OverStays, Over, Sound
<1>5. EvqInv'
  <2>1. ASSUME NEW i \in 1 .. Len(evq'), evq'[i].status \in Terminal
        PROVE  Over(evq[i].id)'
    <3>1. CASE i \in 1 .. Len(evq)
      BY <1>1, <2>1, <3>1, QueueTypes DEF LineInv, EvqInv, OverStays, Over
    <3>2. CASE i = Len(evq) + 1
      BY <1>1, <3>2 DEF Over
    <3> QED
      BY <1>2, <3>1, <3>2
  <2>2. ASSUME NEW i \in 1 .. Len(evq'), NEW j \in 1 .. Len(evq'), i < j,
               evq'[i].id = evq'[j].id
        PROVE  evq'[i].status \notin Terminal
    <3>1. i \in 1 .. Len(evq)
      BY <1>1, <2>2
    <3>2. CASE j \in 1 .. Len(evq)
      BY <1>1, <2>2, <3>1, <3>2 DEF LineInv, EvqInv
    <3>3. CASE j = Len(evq) + 1
      BY <1>1, <1>3, <2>2, <3>1, <3>3
    <3> QED
      BY <1>2, <3>2, <3>3
  <2> QED
    BY <2>1, <2>2 DEF EvqInv, Over
<1>6. CrossInv'
  BY <1>1, <1>2, <1>3 DEF LineInv, CrossInv
<1>7. StatusInv'
  BY <1>1, <1>2, <1>3 DEF LineInv, StatusInv, OverStays, Over
<1> QED
  BY <1>4, <1>5, <1>6, <1>7

(* The broker's event is terminal exactly when the message is.             *)
LEMMA EventOfTerminal ==
    ASSUME NEW m \in Messages, Sound(m)
    PROVE  EventOf(m).status \in Terminal <=> m.X \in ExTerminal
<1>1. CASE m.x = "TRADE"
  <2>1. /\ EventOf(m).status = IF Lots - m.z = 0 THEN "FILLED" ELSE "PARTIALLY_FILLED"
        /\ m.z \in 0 .. Lots
    BY <1>1 DEF EventOf, ExecutionEvent, Messages
  <2>2. m.X = "FILLED" <=> m.z = Lots
    BY <1>1 DEF Sound
  <2>3. m.X \in {"FILLED", "PARTIALLY_FILLED"}
    BY <1>1 DEF Sound
  <2>4. Lots - m.z = 0 <=> m.z = Lots
    BY <2>1, OrderAssumption
  <2> QED
    BY <2>1, <2>2, <2>3, <2>4 DEF Terminal, ExTerminal
<1>2. CASE m.x # "TRADE"
  BY <1>2 DEF EventOf, RejectEvent, AckEvent, Messages, ORDER_STATUS_MAP,
              Terminal, ExStatus, ExWorking, ExTerminal
<1> QED
  BY <1>1, <1>2

(* Moving the first message to the end of the event queue keeps the line.  *)
LEMMA MessageKeepsLine ==
    ASSUME TypeOK, LineInv, UserStreamMessage
    PROVE  LineInv'
<1> DEFINE m == Head(stream)
           e == EventOf(m)
<1>1. /\ stream # <<>> /\ stream' = Tail(stream) /\ evq' = Append(evq, e)
      /\ UNCHANGED <<ex, call, status>>
  BY DEF UserStreamMessage, manager
<1>2. /\ Len(stream) \in Nat \ {0} /\ m = stream[1] /\ m \in Messages
      /\ Len(stream') = Len(stream) - 1
      /\ \A i \in 1 .. Len(stream') :
             i + 1 \in 1 .. Len(stream) /\ stream'[i] = stream[i + 1]
  BY <1>1 DEF TypeOK
<1>3. /\ e.id = m.c
      /\ e.status \in Terminal <=> m.X \in ExTerminal
      /\ e \in Events
  BY <1>2, EventOfType, EventOfTerminal DEF LineInv, StreamInv
<1> HIDE DEF m, e
<1>4. /\ Len(evq) \in Nat
      /\ Len(evq') = Len(evq) + 1
      /\ evq'[Len(evq) + 1] = e
      /\ \A i \in 1 .. Len(evq) : evq'[i] = evq[i]
  BY <1>1, <1>3 DEF TypeOK
<1>5. \A i \in 1 .. Len(evq') : i \in 1 .. Len(evq) \/ i = Len(evq) + 1
  BY <1>4
<1>6. StreamInv'
  BY <1>1, <1>2 DEF LineInv, StreamInv, Sound, Over
<1>7. EvqInv'
  <2>1. ASSUME NEW i \in 1 .. Len(evq'), evq'[i].status \in Terminal
        PROVE  Over(evq[i].id)'
    <3>1. CASE i \in 1 .. Len(evq)
      BY <1>1, <1>4, <2>1, <3>1 DEF LineInv, EvqInv, Over
    <3>2. CASE i = Len(evq) + 1
      BY <1>1, <1>2, <1>3, <1>4, <2>1, <3>2 DEF LineInv, StreamInv, Over
    <3> QED
      BY <1>5, <3>1, <3>2
  <2>2. ASSUME NEW i \in 1 .. Len(evq'), NEW j \in 1 .. Len(evq'), i < j,
               evq'[i].id = evq'[j].id
        PROVE  evq'[i].status \notin Terminal
    <3>1. i \in 1 .. Len(evq)
      BY <1>4, <2>2
    <3>2. CASE j \in 1 .. Len(evq)
      BY <1>4, <2>2, <3>1, <3>2 DEF LineInv, EvqInv
    <3>3. CASE j = Len(evq) + 1
      BY <1>2, <1>3, <1>4, <2>2, <3>1, <3>3 DEF LineInv, CrossInv
    <3> QED
      BY <1>5, <3>2, <3>3
  <2> QED
    BY <2>1, <2>2 DEF EvqInv, Over
<1>8. CrossInv'
  <2> SUFFICES ASSUME NEW i \in 1 .. Len(evq'), NEW j \in 1 .. Len(stream'),
                      evq'[i].id = stream'[j].c
               PROVE  evq'[i].status \notin Terminal
    BY DEF CrossInv
  <2>1. CASE i \in 1 .. Len(evq)
    BY <1>2, <1>4, <2>1 DEF LineInv, CrossInv
  <2>2. CASE i = Len(evq) + 1
    BY <1>2, <1>3, <1>4, <2>2 DEF LineInv, StreamInv
  <2> QED
    BY <1>5, <2>1, <2>2
<1>9. StatusInv'
  BY <1>1, <1>2, <1>3, <1>4, <1>5 DEF LineInv, StatusInv, Over
<1>10. CallInv'
  BY <1>1, <1>2, <1>3, <1>4, <1>5 DEF LineInv, CallInv
<1> QED
  BY <1>6, <1>7, <1>8, <1>9, <1>10 DEF LineInv

(* Applying the first event keeps the line, and finds an order that is not *)
(* in a terminal status.                                                   *)
LEMMA ConsumeKeepsLine ==
    ASSUME TypeOK, LineInv, ConsumeEvent
    PROVE  /\ LineInv'
           /\ \A o \in Orders : status[o] \in Terminal => status'[o] = status[o]
<1> DEFINE e == Head(evq)
<1>1. /\ evq # <<>> /\ evq' = Tail(evq)
      /\ status' = [status EXCEPT ![e.id] = e.status]
      /\ UNCHANGED <<ex, call, stream>>
  BY DEF ConsumeEvent, ApplyEvent, exchange, broker
<1>2. /\ Len(evq) \in Nat \ {0} /\ e = evq[1] /\ e \in Events
      /\ Len(evq') = Len(evq) - 1
      /\ \A i \in 1 .. Len(evq') :
             i + 1 \in 1 .. Len(evq) /\ evq'[i] = evq[i + 1]
  BY <1>1 DEF TypeOK
<1>3. e.id \in Orders /\ e.status \in Terminal \cup Open
  BY <1>2 DEF Events, Terminal, Open
<1> HIDE DEF e
<1>4. /\ status'[e.id] = e.status
      /\ \A o \in Orders : o # e.id => status'[o] = status[o]
  BY <1>1, <1>3 DEF TypeOK
<1>5. status[e.id] \notin Terminal
  BY <1>2, <1>3 DEF LineInv, StatusInv
<1>6. StreamInv'
  BY <1>1 DEF LineInv, StreamInv, Sound, Over
<1>7. EvqInv'
  BY <1>1, <1>2 DEF LineInv, EvqInv, Over
<1>8. CrossInv'
  BY <1>1, <1>2 DEF LineInv, CrossInv
<1>9. StatusInv'
  <2> SUFFICES ASSUME NEW o \in Orders, status'[o] \in Terminal
               PROVE  /\ Over(o)'
                      /\ \A i \in 1 .. Len(stream') : stream'[i].c # o
                      /\ \A i \in 1 .. Len(evq') : evq'[i].id # o
    BY DEF StatusInv
  <2>1. CASE o = e.id
    <3>1. Over(o)'
      BY <1>1, <1>2, <1>4, <2>1 DEF LineInv, EvqInv, Over
    <3>2. \A i \in 1 .. Len(stream') : stream'[i].c # o
      BY <1>1, <1>2, <1>4, <2>1 DEF LineInv, CrossInv
    <3>3. \A i \in 1 .. Len(evq') : evq'[i].id # o
      BY <1>2, <1>4, <2>1 DEF LineInv, EvqInv
    <3> QED
      BY <3>1, <3>2, <3>3
  <2>2. CASE o # e.id
    BY <1>1, <1>2, <1>4, <2>2 DEF LineInv, StatusInv, Over
  <2> QED
    BY <2>1, <2>2
<1>10. CallInv'
  <2>1. call[e.id] \notin {"none", "sent", "refused"}
    BY <1>2, <1>3 DEF LineInv, CallInv
  <2>2. status'[e.id] # "absent"
    BY <1>3, <1>4 DEF Terminal, Open
  <2> QED
    BY <1>1, <1>2, <1>4, <2>1, <2>2 DEF LineInv, CallInv
<1>11. \A o \in Orders : status[o] \in Terminal => status'[o] = status[o]
  BY <1>4, <1>5
<1> QED
  BY <1>6, <1>7, <1>8, <1>9, <1>10, <1>11 DEF LineInv

(* A message about an order that has been answered keeps CallInv.          *)
LEMMA EmitKeepsCalls ==
    ASSUME TypeOK, LineInv, NEW o \in Orders, NEW m \in Messages, m.c = o,
           Emit(m), UNCHANGED <<evq, status>>, call[o] # "none",
           call'[o] \notin {"none", "sent", "refused"},
           \A p \in Orders \ {o} : ex'[p] = ex[p] /\ call'[p] = call[p]
    PROVE  CallInv'
<1>1. CASE stream' = stream
  BY <1>1 DEF LineInv, CallInv
<1>2. CASE stream' = Append(stream, m)
  <2>1. \A i \in 1 .. Len(stream') :
            \/ i \in 1 .. Len(stream) /\ stream'[i] = stream[i]
            \/ stream'[i] = m
    BY <1>2 DEF TypeOK
  <2> QED
    BY <2>1 DEF LineInv, CallInv
<1> QED
  BY <1>1, <1>2, EmitStream

(* The exchange reports a change of a working order.                       *)
LEMMA WorkingKeepsLine ==
    ASSUME TypeOK, LineInv, NEW o \in Orders, ex[o] \in ExWorking,
           NEW st \in ExStatus \ {"none"}, ex' = [ex EXCEPT ![o] = st],
           NEW m \in Messages, m.c = o, m.X = st, Sound(m), Emit(m),
           UNCHANGED <<call, evq, status>>
    PROVE  LineInv'
<1>1. Fresh(o)
  BY WorkingIsFresh
<1>2. OverStays
  BY DEF OverStays, Over, TypeOK, ExWorking, ExTerminal
<1>3. m.X \in ExTerminal => Over(o)'
  BY DEF Over, TypeOK
<1>4. call[o] \notin {"none", "sent", "refused"}
  BY DEF LineInv, CallInv, ExWorking
<1>5. CallInv'
  BY <1>4, EmitKeepsCalls DEF TypeOK
<1> QED
  BY <1>1, <1>2, <1>3, <1>5, EmitKeepsLine DEF LineInv

(* A cancel at the exchange keeps the line, whether it succeeds or not.    *)
LEMMA CancelKeepsLine ==
    ASSUME TypeOK, LineInv, NEW o \in Orders, CancelAtExchange(o),
           UNCHANGED <<call, evq, status>>
    PROVE  LineInv'
<1>1. CASE UNCHANGED exchange
  BY <1>1 DEF exchange, LineInv, StreamInv, EvqInv, CrossInv, StatusInv, CallInv,
              Sound, Over
<1>2. CASE /\ ex[o] \in ExWorking
           /\ ex' = [ex EXCEPT ![o] = "CANCELED"]
           /\ Emit(Message(o, "OTHER", "CANCELED", 0, done[o]))
  <2> DEFINE m == Message(o, "OTHER", "CANCELED", 0, done[o])
  <2>1. m \in Messages /\ m.c = o /\ m.X = "CANCELED" /\ Sound(m)
    BY OrderAssumption
    DEF TypeOK, Messages, Message, Sound, ExStatus, ExWorking, ExTerminal
  <2>2. "CANCELED" \in ExStatus \ {"none"}
    BY DEF ExStatus, ExTerminal
  <2>3. Emit(m)
    BY <1>2
  <2> HIDE DEF m
  <2> QED
    BY <1>2, <2>1, <2>2, <2>3, WorkingKeepsLine
<1> QED
  BY <1>1, <1>2 DEF CancelAtExchange

(* Every step of an order's own keeps the line, if no answer of the        *)
(* exchange is lost.                                                       *)
LEMMA OrderNextKeepsLine ==
    ASSUME TypeOK, LineInv, "timeout" \notin Hazards,
           NEW o \in Orders, OrderNext(o)
    PROVE  LineInv'
<1>1. CASE Submit(o)
  <2>1. status[o] = "absent" /\ call[o] = "none"
    BY <1>1 DEF Submit, Submittable, LineInv, CallInv
  <2>2. OverStays
    BY <1>1, <2>1 DEF Submit, exchange, OverStays, Over, TypeOK
  <2>3. /\ \A p \in Orders \ {o} : status'[p] = status[p] /\ call'[p] = call[p]
        /\ status'[o] = "SUBMITTED" /\ call'[o] = "sent"
        /\ UNCHANGED <<ex, stream, evq>>
    BY <1>1 DEF Submit, exchange, TypeOK
  <2>4. StreamInv' /\ EvqInv' /\ CrossInv'
    BY <2>2, <2>3, QueueTypes
    DEF LineInv, StreamInv, EvqInv, CrossInv, OverStays, Over, Sound
  <2>5. StatusInv' /\ CallInv'
    BY <2>1, <2>2, <2>3 DEF LineInv, StatusInv, CallInv, OverStays, Over, Terminal
  <2> QED
    BY <2>4, <2>5 DEF LineInv
<1>2. CASE SubmitBelowMinQty(o)
  <2>1. status[o] = "absent" /\ call[o] = "none" /\ ex[o] = "none"
    BY <1>2 DEF SubmitBelowMinQty, Submittable, LineInv, CallInv
  <2>2. OverStays /\ Over(o)'
    BY <1>2, <2>1 DEF SubmitBelowMinQty, exchange, OverStays, Over, TypeOK
  <2>3. StreamInv' /\ EvqInv' /\ CrossInv' /\ StatusInv'
    BY <1>2, <2>1, <2>2, RejectKeepsLine DEF SubmitBelowMinQty, exchange
  <2>4. CallInv'
    <3>1. /\ \A p \in Orders \ {o} : status'[p] = status[p] /\ call'[p] = call[p]
          /\ status'[o] = "SUBMITTED" /\ call'[o] = "unsent"
          /\ UNCHANGED <<ex, stream>>
      BY <1>2 DEF SubmitBelowMinQty, exchange, TypeOK
    <3>2. \A i \in 1 .. Len(evq') :
              (i \in 1 .. Len(evq) /\ evq'[i] = evq[i]) \/ evq'[i].id = o
      BY <1>2 DEF SubmitBelowMinQty, TypeOK, RejectEvent
    <3> QED
      BY <3>1, <3>2 DEF LineInv, CallInv
  <2> QED
    BY <2>3, <2>4 DEF LineInv
<1>3. CASE SubmitRaises(o)
  <2>1. status[o] = "absent" /\ call[o] = "none"
    BY <1>3 DEF SubmitRaises, Submittable, LineInv, CallInv
  <2>2. OverStays
    BY <1>3, <2>1 DEF SubmitRaises, exchange, OverStays, Over, TypeOK
  <2>3. /\ \A p \in Orders \ {o} : status'[p] = status[p] /\ call'[p] = call[p]
        /\ status'[o] = "SUBMITTED" /\ call'[o] = "raised"
        /\ UNCHANGED <<ex, stream, evq>>
    BY <1>3 DEF SubmitRaises, exchange, TypeOK
  <2>4. StreamInv' /\ EvqInv' /\ CrossInv'
    BY <2>2, <2>3, QueueTypes
    DEF LineInv, StreamInv, EvqInv, CrossInv, OverStays, Over, Sound
  <2>5. StatusInv' /\ CallInv'
    BY <2>1, <2>2, <2>3 DEF LineInv, StatusInv, CallInv, OverStays, Over, Terminal
  <2> QED
    BY <2>4, <2>5 DEF LineInv
<1>4. CASE ExchangeAccepts(o)
  <2> DEFINE m == Message(o, "OTHER", "NEW", 0, 0)
  <2>1. m \in Messages /\ m.c = o /\ m.X \notin ExTerminal /\ Sound(m)
    BY OrderAssumption
    DEF Messages, Message, Sound, ExStatus, ExWorking, ExTerminal
  <2>2. /\ call[o] = "sent" /\ call' = [call EXCEPT ![o] = "accepted"]
        /\ ex' = [ex EXCEPT ![o] = "NEW"] /\ Emit(m)
        /\ UNCHANGED <<evq, status>>
    BY <1>4 DEF ExchangeAccepts, manager
  <2> HIDE DEF m
  <2>3. Fresh(o)
    BY <2>2, UnansweredIsFresh
  <2>4. OverStays
    BY <2>2 DEF OverStays, Over, LineInv, CallInv, TypeOK, ExTerminal
  <2>5. StreamInv' /\ EvqInv' /\ CrossInv' /\ StatusInv'
    BY <2>1, <2>2, <2>3, <2>4, EmitKeepsLine
  <2>6. CallInv'
    BY <2>1, <2>2, EmitKeepsCalls DEF TypeOK
  <2> QED
    BY <2>5, <2>6 DEF LineInv
<1>5. CASE ExchangeRefuses(o)
  <2>1. /\ call[o] = "sent" /\ call' = [call EXCEPT ![o] = "refused"]
        /\ UNCHANGED <<ex, stream, evq, status>>
    BY <1>5 DEF ExchangeRefuses, exchange, manager
  <2>2. OverStays
    BY <2>1 DEF OverStays, Over, TypeOK
  <2>3. StreamInv' /\ EvqInv' /\ CrossInv'
    BY <2>1, <2>2, QueueTypes
    DEF LineInv, StreamInv, EvqInv, CrossInv, OverStays, Over, Sound
  <2>4. StatusInv' /\ CallInv'
    BY <2>1, <2>2 DEF LineInv, StatusInv, CallInv, OverStays, Over, TypeOK
  <2> QED
    BY <2>3, <2>4 DEF LineInv
<1>6. CASE Trade(o)
  <2>1. PICK l \in 1 .. Lots - done[o] :
            LET z == done[o] + l
                st == IF z = Lots THEN "FILLED" ELSE "PARTIALLY_FILLED"
            IN  /\ ex' = [ex EXCEPT ![o] = st]
                /\ Emit(Message(o, "TRADE", st, l, z))
    BY <1>6 DEF Trade
  <2> DEFINE z == done[o] + l
             st == IF z = Lots THEN "FILLED" ELSE "PARTIALLY_FILLED"
             m == Message(o, "TRADE", st, l, z)
  <2>2. z \in 0 .. Lots /\ l \in 0 .. Lots
    BY OrderAssumption DEF TypeOK
  <2>3. /\ st \in ExStatus \ {"none"} /\ st \in {"FILLED", "PARTIALLY_FILLED"}
        /\ st = "FILLED" <=> z = Lots
    BY DEF ExStatus, ExWorking, ExTerminal
  <2>4. m.c = o /\ m.x = "TRADE" /\ m.X = st /\ m.z = z
    BY DEF Message
  <2>5. m \in Messages
    BY <2>2, <2>3 DEF Message, Messages
  <2>6. Emit(m) /\ ex' = [ex EXCEPT ![o] = st]
    BY <2>1
  <2> HIDE DEF m, st, z
  <2>7. Sound(m)
    BY <2>3, <2>4 DEF Sound
  <2>8. ex[o] \in ExWorking /\ UNCHANGED <<call, evq, status>>
    BY <1>6 DEF Trade, broker, manager
  <2> QED
    BY <2>3, <2>4, <2>5, <2>6, <2>7, <2>8, WorkingKeepsLine
<1>7. CASE ExchangeEnds(o)
  <2>1. PICK st \in {"EXPIRED", "REJECTED"} :
            /\ ex' = [ex EXCEPT ![o] = st]
            /\ Emit(Message(o, "OTHER", st, 0, done[o]))
    BY <1>7 DEF ExchangeEnds
  <2> DEFINE m == Message(o, "OTHER", st, 0, done[o])
  <2>2. m \in Messages /\ m.c = o /\ m.X = st /\ Sound(m)
    BY OrderAssumption
    DEF TypeOK, Messages, Message, Sound, ExStatus, ExWorking, ExTerminal
  <2>3. st \in ExStatus \ {"none"}
    BY DEF ExStatus, ExTerminal
  <2>4. Emit(m)
    BY <2>1
  <2>5. ex[o] \in ExWorking /\ UNCHANGED <<call, evq, status>>
    BY <1>7 DEF ExchangeEnds, broker, manager
  <2> HIDE DEF m
  <2> QED
    BY <2>1, <2>2, <2>3, <2>4, <2>5, WorkingKeepsLine
<1>8. CASE PlaceReturns(o)
  <2>1. /\ call[o] = "accepted" /\ call' = [call EXCEPT ![o] = "returned"]
        /\ UNCHANGED <<ex, stream, evq, status>>
    BY <1>8 DEF PlaceReturns, exchange, manager
  <2>2. OverStays
    BY <2>1 DEF OverStays, Over, TypeOK
  <2>3. StreamInv' /\ EvqInv' /\ CrossInv'
    BY <2>1, <2>2, QueueTypes
    DEF LineInv, StreamInv, EvqInv, CrossInv, OverStays, Over, Sound
  <2>4. StatusInv' /\ CallInv'
    BY <2>1, <2>2 DEF LineInv, StatusInv, CallInv, OverStays, Over, TypeOK
  <2> QED
    BY <2>3, <2>4 DEF LineInv
<1>9. CASE PlaceFails(o)
  <2>1. /\ call[o] = "refused" /\ call' = [call EXCEPT ![o] = "failed"]
        /\ evq' = Append(evq, RejectEvent(o))
        /\ UNCHANGED <<ex, stream, status>>
    BY <1>9 DEF PlaceFails, exchange, manager
  <2>2. OverStays /\ Over(o)'
    BY <2>1 DEF OverStays, Over, TypeOK, LineInv, CallInv
  <2>3. StreamInv' /\ EvqInv' /\ CrossInv' /\ StatusInv'
    BY <2>1, <2>2, RejectKeepsLine
  <2>4. CallInv'
    <3>1. \A i \in 1 .. Len(evq') :
              (i \in 1 .. Len(evq) /\ evq'[i] = evq[i]) \/ evq'[i].id = o
      BY <2>1 DEF TypeOK, RejectEvent
    <3> QED
      BY <2>1, <3>1 DEF LineInv, CallInv, TypeOK
  <2> QED
    BY <2>3, <2>4 DEF LineInv
<1>10. CASE Cancel(o)
  <2>1. /\ status[o] # "absent" /\ status' = [status EXCEPT ![o] = "CANCEL_PENDING"]
        /\ UNCHANGED <<ex, call, stream, evq>>
    BY <1>10 DEF Cancel, exchange
  <2>2. /\ \A p \in Orders \ {o} : status'[p] = status[p]
        /\ status'[o] = "CANCEL_PENDING"
    BY <2>1 DEF TypeOK
  <2>3. StreamInv' /\ EvqInv' /\ CrossInv'
    BY <2>1 DEF LineInv, StreamInv, EvqInv, CrossInv, Over, Sound
  <2>4. StatusInv' /\ CallInv'
    BY <2>1, <2>2 DEF LineInv, StatusInv, CallInv, Over, Terminal
  <2> QED
    BY <2>3, <2>4 DEF LineInv
<1>11. CASE CancelRequest(o)
  BY <1>11, CancelKeepsLine DEF CancelRequest, manager
<1>12. CASE CancelSibling(o)
  BY <1>12, CancelKeepsLine DEF CancelSibling, manager
<1> QED
  BY <1>1, <1>2, <1>3, <1>4, <1>5, <1>6, <1>7, <1>8, <1>9, <1>10, <1>11, <1>12
  DEF OrderNext

(* LineInv is inductive.                                                   *)
LEMMA LineInvariance ==
    ASSUME "timeout" \notin Hazards
    PROVE  Spec => []LineInv
<1>1. Init => LineInv
  BY DEF Init, LineInv, StreamInv, EvqInv, CrossInv, StatusInv, CallInv, Terminal
<1>2. TypeOK /\ LineInv /\ [Next]_vars => LineInv'
  <2> SUFFICES ASSUME TypeOK, LineInv, [Next]_vars PROVE LineInv'
    OBVIOUS
  <2>1. CASE \E o \in Orders : OrderNext(o)
    BY <2>1, OrderNextKeepsLine
  <2>2. CASE UserStreamMessage
    BY <2>2, MessageKeepsLine
  <2>3. CASE ClearGroup \/ Reconnect \/ UNCHANGED vars
    <3>1. UNCHANGED <<ex, call, stream, evq, status>>
      BY <2>3 DEF ClearGroup, Reconnect, vars, exchange, broker, manager
    <3> QED
      BY <3>1 DEF LineInv, StreamInv, EvqInv, CrossInv, StatusInv, CallInv,
                  Sound, Over
  <2>4. CASE Disconnect
    <3>1. Len(stream') = 0 /\ UNCHANGED <<ex, call, evq, status>>
      BY <2>4 DEF Disconnect, broker, manager
    <3> QED
      BY <3>1 DEF LineInv, StreamInv, EvqInv, CrossInv, StatusInv, CallInv,
                  Sound, Over
  <2>5. CASE ConsumeEvent
    BY <2>5, ConsumeKeepsLine
  <2> QED
    BY <2>1, <2>2, <2>3, <2>4, <2>5 DEF Next
<1> QED
  BY <1>1, <1>2, OrderTypes, PTL DEF Spec

(* As long as no answer of the exchange to place_order is lost, an order   *)
(* the manager counts as finished can no longer execute, whatever messages *)
(* the user-data stream loses.                                             *)
THEOREM OrderTerminalIsOver ==
    ASSUME "timeout" \notin Hazards
    PROVE  Spec => []TerminalIsOver
<1>1. LineInv => TerminalIsOver
  BY DEF LineInv, StatusInv, TerminalIsOver
<1> QED
  BY <1>1, LineInvariance, PTL

(* If moreover only open orders are cancelled, _handle_broker_event never  *)
(* moves an order out of a terminal status.                                *)
THEOREM OrderTerminalStays ==
    ASSUME "timeout" \notin Hazards, "blind" \notin Hazards
    PROVE  Spec => TerminalStays
<1> DEFINE Stays == \A o \in Orders : status[o] \in Terminal => status'[o] = status[o]
<1>1. TypeOK /\ LineInv /\ [Next]_vars => [Stays]_vars
  <2> SUFFICES ASSUME TypeOK, LineInv, Next PROVE Stays
    OBVIOUS
  <2>1. ASSUME NEW p \in Orders, OrderNext(p) PROVE Stays
    <3>1. CASE Submit(p) \/ SubmitBelowMinQty(p) \/ SubmitRaises(p)
      <4>1. status[p] = "absent" /\ status' = [status EXCEPT ![p] = "SUBMITTED"]
        BY <3>1 DEF Submit, SubmitBelowMinQty, SubmitRaises, Submittable
      <4> QED
        BY <4>1 DEF TypeOK, Terminal
    <3>2. CASE Cancel(p)
      <4>1. status[p] \in Open /\ status' = [status EXCEPT ![p] = "CANCEL_PENDING"]
        BY <3>2 DEF Cancel
      <4> QED
        BY <4>1 DEF TypeOK, Open, Terminal
    <3>3. CASE UNCHANGED status
      BY <3>3
    <3> QED
      BY <2>1, <3>1, <3>2, <3>3
      DEF OrderNext, ExchangeAccepts, ExchangeRefuses, Trade, ExchangeEnds,
          PlaceReturns, PlaceFails, CancelRequest, CancelSibling, manager
  <2>2. CASE UserStreamMessage \/ ClearGroup \/ Disconnect \/ Reconnect
    BY <2>2 DEF UserStreamMessage, ClearGroup, Disconnect, Reconnect, manager
  <2>3. CASE ConsumeEvent
    BY <2>3, ConsumeKeepsLine
  <2> QED
    BY <2>1, <2>2, <2>3 DEF Next
<1>2. Spec => [][Stays]_vars
  BY <1>1, OrderTypes, LineInvariance, PTL DEF Spec
<1> QED
  BY <1>2 DEF TerminalStays
-----------------------------------------------------------------------------
(* The argument for FillsAgree: the fills of an order that are on their    *)
(* way, on the stream or in the event queue, follow one another without    *)
(* overlap from what the manager knows to what has traded, and without a   *)
(* gap unless a message of the order was lost.                             *)

IsFill(e, o) == e.kind = "execution" /\ e.id = o

(* A fill of x, then one of y: y's trade starts where x's ended, or later. *)
Before(x, y) ==
    \A o \in Orders : IsFill(x, o) /\ IsFill(y, o) => x.z <= y.z - y.l

(* What is on its way, as the events it is or will be.                     *)
Pending ==
    {evq[i] : i \in 1 .. Len(evq)} \cup {EventOf(stream[i]) : i \in 1 .. Len(stream)}

FillOrder ==
    /\ \A i, j \in 1 .. Len(evq) : i < j => Before(evq[i], evq[j])
    /\ \A i, j \in 1 .. Len(stream) : i < j => Before(EventOf(stream[i]), EventOf(stream[j]))
    /\ \A i \in 1 .. Len(evq), j \in 1 .. Len(stream) : Before(evq[i], EventOf(stream[j]))

(* n lots: what the manager knows, or will when some fill has arrived.     *)
Reached(o, n) == n = filled[o] \/ \E e \in Pending : IsFill(e, o) /\ e.z = n

FillSpan(o) ==
    /\ published[o] <= filled[o] /\ filled[o] <= done[o]
    /\ \A e \in Pending : IsFill(e, o) =>
           /\ e.l >= 1 /\ filled[o] <= e.z - e.l /\ e.z <= done[o]
           /\ o \notin missed => Reached(o, e.z - e.l)
    /\ o \notin missed => published[o] = filled[o] /\ Reached(o, done[o])

FillInv == FillOrder /\ \A o \in Orders : FillSpan(o)

(* A trade's message becomes a fill of the same lots, and nothing else     *)
(* becomes a fill.                                                         *)
LEMMA EventOfFill ==
    ASSUME NEW m \in Messages
    PROVE  /\ EventOf(m).kind = "execution" <=> m.x = "TRADE"
           /\ m.x = "TRADE" => /\ EventOf(m).id = m.c
                               /\ EventOf(m).l = m.l /\ EventOf(m).z = m.z
<1>1. CASE m.x = "TRADE"
  BY <1>1 DEF EventOf, ExecutionEvent
<1>2. CASE m.x # "TRADE"
  BY <1>2 DEF EventOf, RejectEvent, AckEvent
<1> QED BY <1>1, <1>2

(* The quantities of a fill on its way, and those of its order.            *)
LEMMA FillTypes ==
    ASSUME TypeOK
    PROVE  /\ Lots \in Nat
           /\ \A o \in Orders : filled[o] \in Nat /\ done[o] \in Nat /\ published[o] \in Nat
           /\ \A e \in Pending : e \in Events
           /\ \A e \in Events : e.kind = "execution" => e.id \in Orders /\ e.l \in Nat /\ e.z \in Nat
<1>1. \A e \in Events : e.kind = "execution" => e.id \in Orders /\ e.l \in Nat /\ e.z \in Nat
  BY OrderAssumption DEF Events
<1>2. \A e \in Pending : e \in Events
  BY QueueTypes, EventOfType DEF Pending
<1>3. \A o \in Orders : filled[o] \in Nat /\ done[o] \in Nat /\ published[o] \in Nat
  BY OrderAssumption DEF TypeOK
<1> QED BY <1>1, <1>2, <1>3, OrderAssumption

(* The exchange reports a trade, or something that is not one.             *)
LEMMA EmitKeepsFills ==
    ASSUME TypeOK, FillInv, NEW m \in Messages, Emit(m),
           UNCHANGED <<evq, filled, published>>,
           \/ m.x # "TRADE" /\ UNCHANGED done
           \/ /\ m.x = "TRADE" /\ m.l >= 1 /\ m.z = done[m.c] + m.l
              /\ done' = [done EXCEPT ![m.c] = m.z]
    PROVE  FillInv'
<1> DEFINE n == EventOf(m)
<1>1. /\ m.c \in Orders /\ m.l \in Nat /\ m.z \in Nat
      /\ n.kind = "execution" <=> m.x = "TRADE"
      /\ m.x = "TRADE" => n.id = m.c /\ n.l = m.l /\ n.z = m.z
  BY EventOfFill, OrderAssumption DEF Messages
<1>2. /\ \A o \in Orders : done'[o] >= done[o] /\ done'[o] \in Nat
      /\ \A o \in Orders : ~IsFill(n, o) => done'[o] = done[o]
      /\ \A o \in Orders : IsFill(n, o) =>
             /\ n.l >= 1 /\ n.z - n.l = done[o] /\ n.z = done'[o]
             /\ n.l \in Nat /\ n.z \in Nat
  <2>1. CASE m.x # "TRADE" /\ UNCHANGED done
    BY <1>1, <2>1, FillTypes DEF IsFill
  <2>2. CASE /\ m.x = "TRADE" /\ m.l >= 1 /\ m.z = done[m.c] + m.l
             /\ done' = [done EXCEPT ![m.c] = m.z]
    <3>1. done'[m.c] = m.z /\ \A o \in Orders \ {m.c} : done'[o] = done[o]
      BY <1>1, <2>2 DEF TypeOK
    <3> QED BY <1>1, <2>2, <3>1, FillTypes DEF IsFill
  <2> QED BY <2>1, <2>2
<1> HIDE DEF n
<1>3. \A e \in Pending : Before(e, n)
  <2> SUFFICES ASSUME NEW e \in Pending, NEW o \in Orders, IsFill(e, o), IsFill(n, o)
               PROVE  e.z <= n.z - n.l
    BY DEF Before
  <2> QED BY <1>2 DEF FillInv, FillSpan
<1>4. CASE stream' = Append(stream, m) /\ UNCHANGED missed
  <2>1. /\ Len(stream) \in Nat
        /\ Len(stream') = Len(stream) + 1
        /\ stream'[Len(stream) + 1] = m
        /\ \A i \in 1 .. Len(stream) : stream'[i] = stream[i]
    BY <1>4 DEF TypeOK
  <2>2. \A i \in 1 .. Len(stream') : i \in 1 .. Len(stream) \/ i = Len(stream) + 1
    BY <2>1
  <2>3. /\ \A i \in 1 .. Len(stream') :
              \/ i \in 1 .. Len(stream) /\ EventOf(stream'[i]) = EventOf(stream[i])
              \/ i = Len(stream) + 1 /\ EventOf(stream'[i]) = n
        /\ EventOf(stream'[Len(stream) + 1]) = n
        /\ \A i \in 1 .. Len(stream) : i \in 1 .. Len(stream') /\ EventOf(stream'[i]) = EventOf(stream[i])
    BY <2>1, <2>2 DEF n
  <2>4. Pending' = Pending \cup {n}
    <3>1. Pending' \subseteq Pending \cup {n}
      BY <2>3 DEF Pending
    <3>2. Pending \subseteq Pending'
      BY <2>3 DEF Pending
    <3>3. n \in Pending'
      BY <2>1, <2>3 DEF Pending
    <3> QED BY <3>1, <3>2, <3>3
  <2>5. FillOrder'
    <3>1. ASSUME NEW i \in 1 .. Len(stream'), NEW j \in 1 .. Len(stream'), i < j
          PROVE  Before(EventOf(stream'[i]), EventOf(stream'[j]))
      <4>1. i \in 1 .. Len(stream) /\ EventOf(stream'[i]) = EventOf(stream[i])
        BY <2>1, <2>3, <3>1
      <4>2. CASE j \in 1 .. Len(stream) /\ EventOf(stream'[j]) = EventOf(stream[j])
        BY <3>1, <4>1, <4>2 DEF FillInv, FillOrder
      <4>3. CASE EventOf(stream'[j]) = n
        BY <1>3, <4>1, <4>3 DEF Pending
      <4> QED BY <2>3, <4>2, <4>3
    <3>2. ASSUME NEW i \in 1 .. Len(evq), NEW j \in 1 .. Len(stream')
          PROVE  Before(evq[i], EventOf(stream'[j]))
      BY <1>3, <2>3 DEF FillInv, FillOrder, Pending
    <3> QED BY <3>1, <3>2 DEF FillInv, FillOrder, Before
  <2>6. ASSUME NEW o \in Orders PROVE FillSpan(o)'
    <3>1. FillSpan(o) /\ UNCHANGED <<filled, published, missed>>
      BY <1>4 DEF FillInv
    <3>2. \A k : Reached(o, k) => Reached(o, k)'
      BY <2>4, <3>1 DEF Reached
    <3>4. Reached(o, done[o])' \/ o \in missed
      <4>1. CASE IsFill(n, o)
        BY <1>2, <2>4, <4>1 DEF Reached
      <4>2. CASE ~IsFill(n, o)
        <5>1. done'[o] = done[o] /\ (o \notin missed => Reached(o, done[o]))
          BY <1>2, <4>2, <3>1 DEF FillSpan
        <5> QED BY <5>1, <2>4, <3>1 DEF Reached
      <4> QED BY <4>1, <4>2
    <3>5. ASSUME NEW e \in Pending', IsFill(e, o)
          PROVE  /\ e.l >= 1 /\ filled[o] <= e.z - e.l /\ e.z <= done'[o]
                 /\ o \notin missed => Reached(o, e.z - e.l)'
      <4>1. CASE e \in Pending
        <5>1. /\ e.l >= 1 /\ filled[o] <= e.z - e.l /\ e.z <= done[o]
              /\ o \notin missed => Reached(o, e.z - e.l)
          BY <3>1, <3>5, <4>1 DEF FillSpan
        <5>2. e.z \in Nat /\ done[o] \in Nat /\ done'[o] \in Nat /\ done'[o] >= done[o]
          BY <1>2, <3>5, <4>1, FillTypes DEF IsFill
        <5>3. o \notin missed => Reached(o, e.z - e.l)'
          BY <5>1, <2>4, <3>1 DEF Reached
        <5> QED BY <5>1, <5>2, <5>3
      <4>2. CASE e = n
        <5>1. e.l >= 1 /\ e.z - e.l = done[o] /\ e.z = done'[o] /\ filled[o] <= done[o]
          BY <1>2, <3>1, <3>5, <4>2 DEF FillSpan
        <5>2. o \notin missed => Reached(o, done[o])
          BY <3>1 DEF FillSpan
        <5>3. o \notin missed => Reached(o, e.z - e.l)'
          BY <5>1, <5>2, <2>4, <3>1 DEF Reached
        <5> QED BY <1>2, <5>1, <5>3
      <4> QED BY <2>4, <4>1, <4>2
    <3>6. published[o] <= filled[o] /\ filled[o] <= done'[o]
      BY <1>2, <3>1, FillTypes DEF FillSpan
    <3>7. o \notin missed => published[o] = filled[o]
      BY <3>1 DEF FillSpan
    <3> QED BY <3>1, <3>4, <3>5, <3>6, <3>7 DEF FillSpan
  <2> QED BY <2>5, <2>6 DEF FillInv
<1>5. CASE UNCHANGED stream /\ missed' = missed \cup {m.c}
  <2>1. Pending' = Pending
    BY <1>5 DEF Pending
  <2>2. FillOrder'
    BY <1>5 DEF FillInv, FillOrder, Before
  <2>3. ASSUME NEW o \in Orders PROVE FillSpan(o)'
    <3>1. FillSpan(o)
      BY DEF FillInv
    <3>2. o \notin missed' => o \notin missed /\ done'[o] = done[o]
      BY <1>1, <1>2, <1>5 DEF IsFill
    <3>3. filled[o] <= done'[o] /\ \A e \in Pending : IsFill(e, o) => e.z <= done'[o]
      <4>1. filled[o] <= done[o] /\ \A e \in Pending : IsFill(e, o) => e.z <= done[o]
        BY <3>1 DEF FillSpan
      <4>2. \A e \in Pending : IsFill(e, o) => e.z \in Nat
        BY FillTypes DEF IsFill
      <4>3. done[o] \in Nat /\ done'[o] \in Nat /\ filled[o] \in Nat /\ done'[o] >= done[o]
        BY <1>2, FillTypes
      <4> QED BY <4>1, <4>2, <4>3
    <3>4. \A k : Reached(o, k)' <=> Reached(o, k)
      BY <2>1 DEF Reached
    <3> QED BY <2>1, <3>1, <3>2, <3>3, <3>4 DEF FillSpan, Reached
  <2> QED BY <2>2, <2>3 DEF FillInv
<1> QED BY <1>4, <1>5, Zenon DEF Emit
(* Steps that touch neither fills nor what is on its way.                  *)
LEMMA IdleKeepsFills ==
    ASSUME FillInv, UNCHANGED <<done, stream, missed, evq, filled, published>>
    PROVE  FillInv'
<1>1. Pending' = Pending
  BY DEF Pending
<1> QED BY <1>1 DEF FillInv, FillOrder, Before, FillSpan, Reached

(* A local rejection enters the event queue: it is not a fill.             *)
LEMMA RejectKeepsFills ==
    ASSUME TypeOK, FillInv, NEW o \in Orders, evq' = Append(evq, RejectEvent(o)),
           UNCHANGED <<done, stream, missed, filled, published>>
    PROVE  FillInv'
<1> DEFINE n == RejectEvent(o)
<1>1. \A p \in Orders : ~IsFill(n, p)
  BY DEF RejectEvent, IsFill
<1>2. n \in Events
  BY DEF RejectEvent, Events
<1> HIDE DEF n
<1>3. /\ Len(evq) \in Nat
      /\ Len(evq') = Len(evq) + 1
      /\ evq'[Len(evq) + 1] = n
      /\ \A i \in 1 .. Len(evq) : evq'[i] = evq[i]
  BY <1>2 DEF TypeOK, n
<1>4. \A i \in 1 .. Len(evq') : i \in 1 .. Len(evq) \/ i = Len(evq) + 1
  BY <1>3
<1>5. \A i \in 1 .. Len(evq) : i \in 1 .. Len(evq')
  BY <1>3
<1>6. Pending \subseteq Pending' /\ Pending' \subseteq Pending \cup {n}
  BY <1>3, <1>4, <1>5 DEF Pending
<1>7. FillOrder'
  <2>1. \A x : Before(x, n) /\ Before(n, x)
    BY <1>1 DEF Before
  <2>2. ASSUME NEW i \in 1 .. Len(evq'), NEW j \in 1 .. Len(evq'), i < j
        PROVE  Before(evq'[i], evq'[j])
    <3>1. CASE i \in 1 .. Len(evq) /\ j \in 1 .. Len(evq)
      BY <1>3, <2>2, <3>1 DEF FillInv, FillOrder
    <3>2. CASE i = Len(evq) + 1 \/ j = Len(evq) + 1
      BY <1>3, <2>1, <3>2
    <3> QED BY <1>4, <3>1, <3>2
  <2>3. ASSUME NEW i \in 1 .. Len(evq'), NEW j \in 1 .. Len(stream)
        PROVE  Before(evq'[i], EventOf(stream[j]))
    BY <1>3, <1>4, <2>1 DEF FillInv, FillOrder
  <2> QED BY <2>2, <2>3 DEF FillInv, FillOrder, Before
<1>8. ASSUME NEW p \in Orders PROVE FillSpan(p)'
  <2>1. \A k : Reached(p, k) <=> Reached(p, k)'
    BY <1>1, <1>6 DEF Reached
  <2>2. FillSpan(p)
    BY DEF FillInv
  <2> QED BY <1>1, <1>6, <2>1, <2>2 DEF FillSpan, Reached
<1> QED BY <1>7, <1>8 DEF FillInv

(* A message passes from the stream into the event queue: what is on its   *)
(* way stays the same, and in the same order.                              *)
LEMMA MessageKeepsFills ==
    ASSUME TypeOK, FillInv, UserStreamMessage
    PROVE  FillInv'
<1> DEFINE m == Head(stream)
           e == EventOf(m)
<1>1. /\ stream # <<>> /\ stream' = Tail(stream) /\ evq' = Append(evq, e)
      /\ UNCHANGED <<done, missed, filled, published>>
  BY DEF UserStreamMessage, manager
<1>2. /\ Len(stream) \in Nat \ {0} /\ m = stream[1] /\ m \in Messages
      /\ Len(stream') = Len(stream) - 1
      /\ \A i \in 1 .. Len(stream') :
             i + 1 \in 1 .. Len(stream) /\ stream'[i] = stream[i + 1]
  BY <1>1 DEF TypeOK
<1>3. e \in Events
  BY <1>2, EventOfType
<1>4. e = EventOf(stream[1])
  BY <1>2
<1> HIDE DEF m, e
<1>5. /\ Len(evq) \in Nat
      /\ Len(evq') = Len(evq) + 1
      /\ evq'[Len(evq) + 1] = e
      /\ \A i \in 1 .. Len(evq) : evq'[i] = evq[i]
  BY <1>1, <1>3 DEF TypeOK
<1>6. \A i \in 1 .. Len(evq') : i \in 1 .. Len(evq) \/ i = Len(evq) + 1
  BY <1>5
<1>7. \A i \in 1 .. Len(evq) : i \in 1 .. Len(evq')
  BY <1>5
<1>8. Pending' = Pending
  <2>1. \A i \in 1 .. Len(stream) : i = 1 \/ (i - 1 \in 1 .. Len(stream') /\ stream'[i - 1] = stream[i])
    BY <1>2
  <2>2. 1 \in 1 .. Len(stream) /\ Len(evq) + 1 \in 1 .. Len(evq')
    BY <1>2, <1>5
  <2>3. Pending' \subseteq Pending
    BY <1>2, <1>4, <1>5, <1>6, <2>2 DEF Pending
  <2>4. ASSUME NEW i \in 1 .. Len(stream) PROVE EventOf(stream[i]) \in Pending'
    <3>1. CASE i = 1
      <4>1. evq'[Len(evq) + 1] = EventOf(stream[i]) /\ Len(evq) + 1 \in 1 .. Len(evq')
        BY <1>4, <1>5, <2>2, <3>1
      <4> QED BY <4>1 DEF Pending
    <3>2. CASE i - 1 \in 1 .. Len(stream') /\ stream'[i - 1] = stream[i]
      BY <3>2 DEF Pending
    <3> QED BY <2>1, <3>1, <3>2
  <2>5. ASSUME NEW i \in 1 .. Len(evq) PROVE evq[i] \in Pending'
    BY <1>5, <1>7 DEF Pending
  <2>6. Pending \subseteq Pending'
    BY <2>4, <2>5 DEF Pending
  <2> QED BY <2>3, <2>6
<1>9. FillOrder'
  <2>1. ASSUME NEW i \in 1 .. Len(evq'), NEW j \in 1 .. Len(evq'), i < j
        PROVE  Before(evq'[i], evq'[j])
    <3>1. i \in 1 .. Len(evq)
      BY <1>5, <2>1
    <3>2. CASE j \in 1 .. Len(evq)
      BY <1>5, <2>1, <3>1, <3>2 DEF FillInv, FillOrder
    <3>3. CASE j = Len(evq) + 1
      <4>1. 1 \in 1 .. Len(stream)
        BY <1>2
      <4> QED BY <1>4, <1>5, <3>1, <3>3, <4>1 DEF FillInv, FillOrder
    <3> QED BY <1>6, <3>2, <3>3
  <2>2. ASSUME NEW i \in 1 .. Len(stream'), NEW j \in 1 .. Len(stream'), i < j
        PROVE  Before(EventOf(stream'[i]), EventOf(stream'[j]))
    BY <1>2, <2>2 DEF FillInv, FillOrder
  <2>3. ASSUME NEW i \in 1 .. Len(evq'), NEW j \in 1 .. Len(stream')
        PROVE  Before(evq'[i], EventOf(stream'[j]))
    <3>1. CASE i \in 1 .. Len(evq)
      BY <1>2, <1>5, <3>1 DEF FillInv, FillOrder
    <3>2. CASE i = Len(evq) + 1
      <4>1. 1 \in 1 .. Len(stream) /\ 1 < j + 1
        BY <1>2
      <4> QED BY <1>2, <1>4, <1>5, <3>2, <4>1 DEF FillInv, FillOrder
    <3> QED BY <1>6, <3>1, <3>2
  <2> QED BY <2>1, <2>2, <2>3 DEF FillOrder, Before
<1> QED BY <1>1, <1>8, <1>9 DEF FillInv, FillSpan, Reached

(* The socket breaks: what it held is lost, and noted as such.             *)
LEMMA DisconnectKeepsFills ==
    ASSUME TypeOK, FillInv, Disconnect
    PROVE  FillInv'
<1>1. /\ Len(stream') = 0 /\ UNCHANGED <<done, evq, filled, published>>
      /\ missed' = missed \cup {stream[i].c : i \in 1 .. Len(stream)}
  BY DEF Disconnect, manager
<1>2. FillOrder'
  BY <1>1 DEF FillInv, FillOrder, Before
<1>3. Pending' \subseteq Pending
  BY <1>1 DEF Pending
<1>4. \A o \in Orders : o \notin missed' =>
         o \notin missed /\ \A e \in Pending : IsFill(e, o) => e \in Pending'
  <2> SUFFICES ASSUME NEW o \in Orders, o \notin missed', NEW e \in Pending, IsFill(e, o)
               PROVE  e \in Pending'
    BY <1>1
  <2>1. CASE \E i \in 1 .. Len(evq) : e = evq[i]
    BY <1>1, <2>1 DEF Pending
  <2>2. ASSUME NEW i \in 1 .. Len(stream), e = EventOf(stream[i]) PROVE FALSE
    <3>1. e.id = stream[i].c
      BY <2>2, QueueTypes, EventOfType
    <3> QED BY <1>1, <3>1 DEF IsFill
  <2> QED BY <2>1, <2>2 DEF Pending
<1>5. ASSUME NEW o \in Orders PROVE FillSpan(o)'
  <2>1. FillSpan(o)
    BY DEF FillInv
  <2>2. o \notin missed' => \A k : Reached(o, k) => Reached(o, k)'
    BY <1>1, <1>4 DEF Reached
  <2>3. ASSUME NEW e \in Pending', IsFill(e, o)
        PROVE  /\ e.l >= 1 /\ filled[o] <= e.z - e.l /\ e.z <= done[o]
               /\ o \notin missed' => Reached(o, e.z - e.l)
    BY <1>1, <1>3, <2>1, <2>3 DEF FillSpan
  <2>4. ASSUME NEW e \in Pending', IsFill(e, o)
        PROVE  o \notin missed' => Reached(o, e.z - e.l)'
    BY <1>1, <1>4, <2>3, <2>4 DEF Reached
  <2>5. o \notin missed' => published[o] = filled[o] /\ Reached(o, done[o])'
    BY <1>1, <1>4, <2>1 DEF FillSpan, Reached
  <2> QED BY <1>1, <2>1, <2>3, <2>4, <2>5 DEF FillSpan
<1> QED BY <1>2, <1>5 DEF FillInv
(* The manager consumes the next event.  If it is a fill, it is the first  *)
(* of its order, so the one that starts where the manager's count ends.    *)
LEMMA ConsumeKeepsFills ==
    ASSUME TypeOK, FillInv, ConsumeEvent
    PROVE  FillInv'
<1> DEFINE e == Head(evq)
<1>1. /\ evq # <<>> /\ evq' = Tail(evq) /\ ApplyEvent(e)
      /\ UNCHANGED <<done, stream, missed>>
  BY DEF ConsumeEvent, exchange
<1>2. /\ Len(evq) \in Nat \ {0} /\ e = evq[1] /\ e \in Events
      /\ Len(evq') = Len(evq) - 1
      /\ \A i \in 1 .. Len(evq') :
             i + 1 \in 1 .. Len(evq) /\ evq'[i] = evq[i + 1]
  BY <1>1 DEF TypeOK
<1> HIDE DEF e
<1>3. 1 \in 1 .. Len(evq) /\ e \in Pending
  BY <1>2 DEF Pending
<1>4. /\ Pending' \subseteq Pending
      /\ Pending \subseteq Pending' \cup {e}
  <2>1. \A i \in 1 .. Len(evq) : i = 1 \/ (i - 1 \in 1 .. Len(evq') /\ evq'[i - 1] = evq[i])
    BY <1>2
  <2>2. ASSUME NEW i \in 1 .. Len(evq) PROVE evq[i] \in Pending' \cup {e}
    BY <1>2, <2>1 DEF Pending
  <2>3. Pending \subseteq Pending' \cup {e}
    BY <1>1, <2>2 DEF Pending
  <2>4. Pending' \subseteq Pending
    BY <1>1, <1>2 DEF Pending
  <2> QED BY <2>3, <2>4
<1>5. \A x \in Pending' : Before(e, x)
  <2>1. ASSUME NEW i \in 1 .. Len(evq') PROVE Before(e, evq'[i])
    <3>1. 1 < i + 1
      BY <1>2
    <3> QED BY <1>2, <1>3, <3>1 DEF FillInv, FillOrder
  <2>2. ASSUME NEW i \in 1 .. Len(stream') PROVE Before(e, EventOf(stream'[i]))
    BY <1>1, <1>2, <1>3 DEF FillInv, FillOrder
  <2> QED BY <2>1, <2>2 DEF Pending
<1>6. FillOrder'
  <2>1. ASSUME NEW i \in 1 .. Len(evq'), NEW j \in 1 .. Len(evq'), i < j
        PROVE  Before(evq'[i], evq'[j])
    BY <1>2, <2>1 DEF FillInv, FillOrder
  <2>2. ASSUME NEW i \in 1 .. Len(evq'), NEW j \in 1 .. Len(stream)
        PROVE  Before(evq'[i], EventOf(stream[j]))
    BY <1>2 DEF FillInv, FillOrder
  <2> QED BY <1>1, <2>1, <2>2 DEF FillInv, FillOrder, Before
<1>7. ASSUME NEW o \in Orders PROVE FillSpan(o)'
  <2>1. FillSpan(o)
    BY DEF FillInv
  <2>2. CASE ~IsFill(e, o)
    <3>1. filled'[o] = filled[o] /\ published'[o] = published[o]
      <4>1. CASE e.kind = "execution"
        BY <1>1, <2>2, <4>1 DEF ApplyEvent, IsFill, TypeOK
      <4>2. CASE e.kind # "execution"
        BY <1>1, <4>2 DEF ApplyEvent
      <4> QED BY <4>1, <4>2
    <3>2. \A x : x \in Pending /\ IsFill(x, o) <=> x \in Pending' /\ IsFill(x, o)
      BY <1>4, <2>2
    <3>3. \A k : Reached(o, k)' <=> Reached(o, k)
      BY <3>1, <3>2 DEF Reached
    <3> QED BY <1>1, <2>1, <3>1, <3>2, <3>3 DEF FillSpan, Reached
  <2>3. CASE IsFill(e, o)
    <3>1. filled'[o] = e.z /\ published'[o] = published[o] + e.l
      BY <1>1, <2>3 DEF ApplyEvent, IsFill, TypeOK
    <3>2. /\ e.l \in Nat /\ e.z \in Nat /\ filled[o] \in Nat /\ published[o] \in Nat
          /\ done[o] \in Nat
      BY <1>2, <2>3, FillTypes DEF IsFill
    <3>3. /\ published[o] <= filled[o] /\ e.l >= 1
          /\ filled[o] <= e.z - e.l /\ e.z <= done[o]
      BY <1>3, <2>1, <2>3 DEF FillSpan
    <3>4. published'[o] <= filled'[o] /\ filled'[o] <= done'[o]
      BY <1>1, <3>1, <3>2, <3>3
    <3>5. ASSUME NEW x \in Pending', IsFill(x, o)
          PROVE  /\ x.l >= 1 /\ x.l \in Nat /\ x.z \in Nat
                 /\ e.z <= x.z - x.l /\ x.z <= done[o]
      <4>1. x \in Pending /\ Before(e, x)
        BY <1>4, <1>5
      <4> QED BY <2>1, <2>3, <3>5, <4>1, FillTypes DEF FillSpan, Before, IsFill
    <3>6. \A k \in Int : Reached(o, k) /\ k >= e.z => Reached(o, k)'
      <4> SUFFICES ASSUME NEW k \in Int, Reached(o, k), k >= e.z PROVE Reached(o, k)'
        OBVIOUS
      <4>1. k # filled[o]
        BY <3>2, <3>3
      <4>2. PICK x \in Pending : IsFill(x, o) /\ x.z = k
        BY <4>1 DEF Reached
      <4>3. CASE x = e
        BY <3>1, <4>2, <4>3 DEF Reached
      <4>4. CASE x # e
        BY <1>4, <4>2, <4>4 DEF Reached
      <4> QED BY <4>3, <4>4
    <3>7. ASSUME o \notin missed PROVE published'[o] = filled'[o] /\ Reached(o, done[o])'
      <4>1. published[o] = filled[o] /\ Reached(o, done[o]) /\ Reached(o, e.z - e.l)
        BY <1>3, <2>1, <2>3, <3>7 DEF FillSpan
      <4>2. e.z - e.l = filled[o]
        <5>1. ASSUME NEW x \in Pending, IsFill(x, o), x.z = e.z - e.l PROVE FALSE
          <6>1. x # e
            BY <3>2, <3>3, <5>1
          <6>2. x \in Pending'
            BY <1>4, <6>1
          <6> QED BY <3>2, <3>3, <3>5, <5>1, <6>2
        <5> QED BY <4>1, <5>1 DEF Reached
      <4>3. published'[o] = filled'[o]
        BY <3>1, <3>2, <4>1, <4>2
      <4> QED BY <1>1, <3>2, <3>3, <3>6, <4>1, <4>3 DEF Reached
    <3>8. ASSUME NEW x \in Pending', IsFill(x, o), o \notin missed
          PROVE  Reached(o, x.z - x.l)'
      <4>1. Reached(o, x.z - x.l)
        BY <1>4, <2>1, <3>8 DEF FillSpan
      <4>2. x.z - x.l \in Int /\ x.z - x.l >= e.z
        BY <3>2, <3>5, <3>8
      <4> QED BY <3>6, <4>1, <4>2
    <3>9. ASSUME NEW x \in Pending', IsFill(x, o)
          PROVE  x.l >= 1 /\ filled'[o] <= x.z - x.l /\ x.z <= done[o]
      BY <3>1, <3>5, <3>9
    <3> QED BY <1>1, <3>4, <3>7, <3>8, <3>9 DEF FillSpan
  <2> QED BY <2>2, <2>3
<1> QED BY <1>6, <1>7 DEF FillInv

(* Every step keeps the fills in line.                                     *)
LEMMA OrderNextKeepsFills ==
    ASSUME TypeOK, FillInv, NEW o \in Orders, OrderNext(o)
    PROVE  FillInv'
<1>1. CASE Submit(o) \/ SubmitRaises(o) \/ ExchangeRefuses(o) \/ PlaceReturns(o) \/ Cancel(o)
  BY <1>1, IdleKeepsFills
  DEF Submit, SubmitRaises, ExchangeRefuses, PlaceReturns, Cancel, exchange, manager
<1>2. CASE SubmitBelowMinQty(o) \/ PlaceFails(o)
  BY <1>2, RejectKeepsFills DEF SubmitBelowMinQty, PlaceFails, exchange, manager
<1>3. CASE ExchangeAccepts(o)
  <2> DEFINE m == Message(o, "OTHER", "NEW", 0, 0)
  <2>1. m \in Messages /\ m.x # "TRADE"
    BY OrderAssumption DEF Message, Messages, ExStatus, ExWorking
  <2>2. Emit(m) /\ UNCHANGED <<evq, filled, published, done>>
    BY <1>3 DEF ExchangeAccepts, manager
  <2> QED BY <2>1, <2>2, EmitKeepsFills
<1>4. CASE Trade(o)
  <2>1. PICK l \in 1 .. Lots - done[o] :
            LET z == done[o] + l
                st == IF z = Lots THEN "FILLED" ELSE "PARTIALLY_FILLED"
            IN  /\ ex' = [ex EXCEPT ![o] = st]
                /\ done' = [done EXCEPT ![o] = z]
                /\ Emit(Message(o, "TRADE", st, l, z))
    BY <1>4 DEF Trade
  <2> DEFINE z == done[o] + l
             st == IF z = Lots THEN "FILLED" ELSE "PARTIALLY_FILLED"
             m == Message(o, "TRADE", st, l, z)
  <2>2. z \in 0 .. Lots /\ l \in 0 .. Lots /\ l >= 1
    BY OrderAssumption DEF TypeOK
  <2>3. st \in ExStatus \ {"none"}
    BY DEF ExStatus, ExWorking, ExTerminal
  <2>4. m \in Messages
    BY <2>2, <2>3 DEF Message, Messages
  <2>5. m.x = "TRADE" /\ m.c = o /\ m.l = l /\ m.z = done[o] + l
    BY DEF Message
  <2>6. Emit(m) /\ done' = [done EXCEPT ![o] = m.z]
    BY <2>1, <2>5
  <2>7. UNCHANGED <<evq, filled, published>>
    BY <1>4 DEF Trade, manager
  <2> HIDE DEF m
  <2> QED BY <2>2, <2>4, <2>5, <2>6, <2>7, EmitKeepsFills
<1>5. CASE ExchangeEnds(o)
  <2>1. PICK st \in {"EXPIRED", "REJECTED"} : Emit(Message(o, "OTHER", st, 0, done[o]))
    BY <1>5 DEF ExchangeEnds
  <2>2. /\ Message(o, "OTHER", st, 0, done[o]) \in Messages
        /\ Message(o, "OTHER", st, 0, done[o]).x # "TRADE"
    BY OrderAssumption DEF TypeOK, Message, Messages, ExStatus, ExWorking, ExTerminal
  <2>3. UNCHANGED <<evq, filled, published, done>>
    BY <1>5 DEF ExchangeEnds, manager
  <2> QED BY <2>1, <2>2, <2>3, EmitKeepsFills
<1>6. CASE CancelRequest(o) \/ CancelSibling(o)
  <2>1. CancelAtExchange(o) /\ UNCHANGED <<evq, filled, published>>
    BY <1>6 DEF CancelRequest, CancelSibling, manager
  <2>2. CASE UNCHANGED exchange
    BY <2>1, <2>2, IdleKeepsFills DEF exchange
  <2>3. CASE /\ Emit(Message(o, "OTHER", "CANCELED", 0, done[o]))
             /\ UNCHANGED done
    <3>1. /\ Message(o, "OTHER", "CANCELED", 0, done[o]) \in Messages
          /\ Message(o, "OTHER", "CANCELED", 0, done[o]).x # "TRADE"
      BY OrderAssumption DEF TypeOK, Message, Messages, ExStatus, ExWorking, ExTerminal
    <3> QED BY <2>1, <2>3, <3>1, EmitKeepsFills
  <2> QED BY <2>1, <2>2, <2>3 DEF CancelAtExchange
<1> QED BY <1>1, <1>2, <1>3, <1>4, <1>5, <1>6 DEF OrderNext

(* The manager and the bus never know of more lots than have traded, and   *)
(* of exactly those once the stream and the event queue are drained,       *)
(* whatever times out, is cancelled or is refused, for every order no      *)
(* message of which was lost with a broken socket.                         *)
THEOREM OrderFillsAgree == Spec => []FillsAgree
<1>1. Init => FillInv
  <2> SUFFICES ASSUME Init PROVE FillInv
    OBVIOUS
  <2>1. Len(evq) = 0 /\ Len(stream) = 0
    BY DEF Init
  <2>2. Pending = {}
    BY <2>1 DEF Pending
  <2> QED BY <2>1, <2>2 DEF Init, FillInv, FillOrder, FillSpan, Reached
<1>2. TypeOK /\ FillInv /\ [Next]_vars => FillInv'
  <2> SUFFICES ASSUME TypeOK, FillInv, [Next]_vars PROVE FillInv'
    OBVIOUS
  <2>1. CASE ClearGroup \/ Reconnect \/ UNCHANGED vars
    BY <2>1, IdleKeepsFills DEF ClearGroup, Reconnect, vars, exchange, manager
  <2> QED
    BY <2>1, OrderNextKeepsFills, MessageKeepsFills, DisconnectKeepsFills,
       ConsumeKeepsFills DEF Next
<1>3. TypeOK /\ FillInv => FillsAgree
  <2> SUFFICES ASSUME TypeOK, FillInv, NEW o \in Orders
               PROVE  /\ filled[o] <= done[o] /\ published[o] <= done[o]
                      /\ stream = <<>> /\ evq = <<>> /\ o \notin missed =>
                            filled[o] = done[o] /\ published[o] = done[o]
    BY DEF FillsAgree
  <2>1. FillSpan(o)
    BY DEF FillInv
  <2>2. filled[o] <= done[o] /\ published[o] <= done[o]
    BY <2>1, FillTypes DEF FillSpan
  <2>3. ASSUME stream = <<>>, evq = <<>>, o \notin missed
        PROVE  filled[o] = done[o] /\ published[o] = done[o]
    <3>1. Pending = {}
      BY <2>3 DEF Pending
    <3> QED BY <2>1, <2>3, <3>1 DEF FillSpan, Reached
  <2> QED BY <2>2, <2>3
<1> QED BY <1>1, <1>2, <1>3, OrderTypes, PTL DEF Spec
=============================================================================
