---------------------------- MODULE OrderLifecycle ----------------------------
(***************************************************************************)
(* An order from submission to its last event:                             *)
(*   execution/order_manager.py   submit, submit_oco, cancel,              *)
(*                                _handle_broker_event                     *)
(*   execution/binance_broker.py  place_order, cancel_order, the user-data *)
(*                                stream, the emulated OCA groups          *)
(* between the exchange, which accepts, fills and ends orders on its own   *)
(* and reports each change on the user-data stream, and the event bus, on  *)
(* which the manager republishes what it has applied.                      *)
(*                                                                         *)
(* Quantities are lots; prices, symbols and sides are data.  Messages that *)
(* change nothing are left out: other event types, unknown statuses, and   *)
(* updates of orders that are not in _orders (the native stops), which     *)
(* _handle_broker_event drops without republishing them.                   *)
(*                                                                         *)
(* A definition M_X that stands before a definition is a faulty variant of *)
(* it: replacing it must break a property (see the README).                *)
(***************************************************************************)
EXTENDS Integers, Sequences, FiniteSets

CONSTANTS
    Orders,   \* order ids that may be submitted
    Oco,      \* the legs of the one OCO group, in the order of submit_oco
    Lots,     \* quantity of every order
    Hazards   \* subset of {"timeout", "fast", "cancel", "blind"}, see below

OcoLegs == {Oco[i] : i \in 1 .. Len(Oco)}

ASSUME OrderAssumption ==
    /\ Oco \in Seq(Orders)
    /\ Lots \in Nat \ {0}
    /\ Hazards \subseteq {"timeout", "fast", "cancel", "blind"}

VARIABLES
    ex,         \* the exchange: the order's status
    done,       \* the exchange: the order's executed lots
    stream,     \* the user-data stream: messages sent and not received
    connected,  \* the user-data socket is open
    missed,     \* history: orders with a message sent to no open socket
    call,       \* place_order's request for the order
    group,      \* _OcaGroup.order_ids
    siblings,   \* what _handle_oca_fill has still to cancel, or NotBusy
    cancelling, \* cancel()'s requests on their way
    evq,        \* BinanceFuturesBroker._event_queue
    status,     \* ManagedOrder.status, or "absent" from _orders
    filled,     \* ManagedOrder.filled_quantity
    published   \* lots in the execution events put on the bus

exchange == <<ex, done, stream, missed>>
broker == <<call, group, siblings, cancelling>>
manager == <<status, filled, published>>
vars == <<exchange, connected, broker, evq, manager>>

-----------------------------------------------------------------------------
NotBusy == {"not busy"}

ExWorking == {"NEW", "PARTIALLY_FILLED"}
ExTerminal == {"FILLED", "CANCELED", "EXPIRED", "REJECTED"}
ExStatus == {"none"} \cup ExWorking \cup ExTerminal

(* OrderStatus, and its is_terminal.                                       *)
Terminal == {"FILLED", "CANCELLED", "REJECTED", "EXPIRED"}
Open == {"SUBMITTED", "ACKNOWLEDGED", "PARTIALLY_FILLED", "CANCEL_PENDING"}

(* The life of place_order's request.  "unsent": below the minimum         *)
(* quantity; "raised": place_order raised before it sent anything.         *)
Calls == {"none", "unsent", "raised", "sent", "accepted", "refused",
          "returned", "failed"}

(* _ORDER_STATUS_MAP                                                       *)
ORDER_STATUS_MAP ==
    [NEW |-> "ACKNOWLEDGED", PARTIALLY_FILLED |-> "PARTIALLY_FILLED",
     FILLED |-> "FILLED", CANCELED |-> "CANCELLED", EXPIRED |-> "EXPIRED",
     REJECTED |-> "REJECTED"]

(* A message of the stream: exec_type x, order_status X, the lots of this  *)
(* trade l and of all trades z.                                            *)
Message(o, x, st, l, z) == [c |-> o, x |-> x, X |-> st, l |-> l, z |-> z]
Messages == [c : Orders, x : {"TRADE", "OTHER"}, X : ExStatus \ {"none"},
             l : 0 .. Lots, z : 0 .. Lots]

AckEvent(o, st) == [kind |-> "ack", id |-> o, status |-> st]
RejectEvent(o) == [kind |-> "reject", id |-> o, status |-> "REJECTED"]
ExecutionEvent(o, l, z, rem) ==
    [kind |-> "execution", id |-> o, status |->
        IF rem = 0 THEN "FILLED" ELSE "PARTIALLY_FILLED", l |-> l, z |-> z]
Events ==
    [kind : {"ack"}, id : Orders, status : Terminal \cup Open]
    \cup [kind : {"reject"}, id : Orders, status : {"REJECTED"}]
    \cup [kind : {"execution"}, id : Orders,
          status : {"FILLED", "PARTIALLY_FILLED"}, l : 0 .. Lots, z : 0 .. Lots]

(* The order can no longer execute: the exchange ended it, or it never     *)
(* reached the exchange and never will.                                    *)
Over(o) ==
    \/ ex[o] \in ExTerminal
    \/ ex[o] = "none" /\ call[o] \in {"unsent", "raised", "refused", "failed"}

-----------------------------------------------------------------------------
Init ==
    /\ ex = [o \in Orders |-> "none"]
    /\ done = [o \in Orders |-> 0]
    /\ stream = <<>>
    /\ connected = TRUE
    /\ missed = {}
    /\ call = [o \in Orders |-> "none"]
    /\ group = {}
    /\ siblings = NotBusy
    /\ cancelling = {}
    /\ evq = <<>>
    /\ status = [o \in Orders |-> "absent"]
    /\ filled = [o \in Orders |-> 0]
    /\ published = [o \in Orders |-> 0]

-----------------------------------------------------------------------------
(* The exchange.                                                           *)

(* It sends its message to the open socket, or to nobody.                  *)
Emit(m) ==
    IF connected
    THEN stream' = Append(stream, m) /\ UNCHANGED missed
    ELSE missed' = missed \cup {m.c} /\ UNCHANGED stream

ExchangeAccepts(o) ==
    /\ call[o] = "sent"
    /\ call' = [call EXCEPT ![o] = "accepted"]
    /\ ex' = [ex EXCEPT ![o] = "NEW"]
    /\ Emit(Message(o, "OTHER", "NEW", 0, 0))
    /\ UNCHANGED <<done, connected, group, siblings, cancelling, evq, manager>>

ExchangeRefuses(o) ==
    /\ call[o] = "sent"
    /\ call' = [call EXCEPT ![o] = "refused"]
    /\ UNCHANGED <<exchange, connected, group, siblings, cancelling, evq,
                   manager>>

(* submit_oco has ended: every leg is placed or rejected, or one raised.   *)
OcoSubmitted ==
    \/ \A l \in OcoLegs : call[l] \in {"unsent", "returned", "failed"}
    \/ \E l \in OcoLegs : call[l] = "raised"

(* Some of the open quantity trades.  Without hazard "fast" no leg of an   *)
(* OCO group trades while submit_oco is placing the others.                *)
Trade(o) ==
    /\ ex[o] \in ExWorking
    /\ "fast" \in Hazards \/ o \notin OcoLegs \/ OcoSubmitted
    /\ \E l \in 1 .. Lots - done[o] :
           LET z == done[o] + l
               st == IF z = Lots THEN "FILLED" ELSE "PARTIALLY_FILLED"
           IN  /\ ex' = [ex EXCEPT ![o] = st]
               /\ done' = [done EXCEPT ![o] = z]
               /\ Emit(Message(o, "TRADE", st, l, z))
    /\ UNCHANGED <<connected, broker, evq, manager>>

(* The order expires, or the matching engine rejects it after all.         *)
ExchangeEnds(o) ==
    /\ ex[o] \in ExWorking
    /\ \E st \in {"EXPIRED", "REJECTED"} :
           /\ st = "REJECTED" => done[o] = 0
           /\ ex' = [ex EXCEPT ![o] = st]
           /\ Emit(Message(o, "OTHER", st, 0, done[o]))
    /\ UNCHANGED <<done, connected, broker, evq, manager>>

(* futures_cancel_order reaches the exchange: an order that is not working *)
(* makes it fail, which cancel_order only logs.  With hazard "cancel" any  *)
(* request may fail.                                                       *)
CancelAtExchange(o) ==
    \/ /\ ex[o] \in ExWorking
       /\ ex' = [ex EXCEPT ![o] = "CANCELED"]
       /\ Emit(Message(o, "OTHER", "CANCELED", 0, done[o]))
       /\ UNCHANGED done
    \/ /\ ex[o] \notin ExWorking \/ "cancel" \in Hazards
       /\ UNCHANGED exchange

-----------------------------------------------------------------------------
(* submit, submit_oco and place_order                                      *)

(* A single signal, or the next leg of submit_oco, which awaits one leg    *)
(* after the other.                                                        *)
Submittable(o) ==
    /\ status[o] = "absent"
    /\ \A i \in 1 .. Len(Oco) : Oco[i] = o =>
           \A j \in 1 .. i - 1 : call[Oco[j]] \in {"unsent", "returned", "failed"}

(* submit: the order is registered, its ids and its group recorded, and    *)
(* the request sent, all before the first await.                           *)
Submit(o) ==
    /\ Submittable(o)
    /\ status' = [status EXCEPT ![o] = "SUBMITTED"]
    /\ call' = [call EXCEPT ![o] = "sent"]
    /\ group' = IF o \in OcoLegs THEN group \cup {o} ELSE group
    /\ UNCHANGED <<exchange, connected, siblings, cancelling, evq, filled,
                   published>>

M_SubmitBelowMinQtySilent(o) ==
    /\ Submittable(o)
    /\ status' = [status EXCEPT ![o] = "SUBMITTED"]
    /\ call' = [call EXCEPT ![o] = "unsent"]
    /\ UNCHANGED <<exchange, connected, group, siblings, cancelling, evq,
                   filled, published>>
(* The quantity is below the exchange's minimum: rejected locally.         *)
SubmitBelowMinQty(o) ==
    /\ Submittable(o)
    /\ status' = [status EXCEPT ![o] = "SUBMITTED"]
    /\ call' = [call EXCEPT ![o] = "unsent"]
    /\ evq' = Append(evq, RejectEvent(o))
    /\ UNCHANGED <<exchange, connected, group, siblings, cancelling, filled,
                   published>>

(* No filters for the symbol, or a LIMIT order without a price: submit     *)
(* raises with the order registered, and submit_oco with it.               *)
SubmitRaises(o) ==
    /\ Submittable(o)
    /\ status' = [status EXCEPT ![o] = "SUBMITTED"]
    /\ call' = [call EXCEPT ![o] = "raised"]
    /\ UNCHANGED <<exchange, connected, group, siblings, cancelling, evq,
                   filled, published>>

M_PlaceReturnsAcks(o) ==
    /\ call[o] = "accepted"
    /\ call' = [call EXCEPT ![o] = "returned"]
    /\ evq' = Append(evq, AckEvent(o, "ACKNOWLEDGED"))
    /\ UNCHANGED <<exchange, connected, group, siblings, cancelling, manager>>
(* The REST response is only logged: acks come from the stream.            *)
PlaceReturns(o) ==
    /\ call[o] = "accepted"
    /\ call' = [call EXCEPT ![o] = "returned"]
    /\ UNCHANGED <<exchange, connected, group, siblings, cancelling, evq,
                   manager>>

(* Any exception of the request counts as a rejection.  With hazard        *)
(* "timeout" that includes an answer lost after the exchange has accepted. *)
PlaceFails(o) ==
    /\ call[o] = "refused" \/ ("timeout" \in Hazards /\ call[o] = "accepted")
    /\ call' = [call EXCEPT ![o] = "failed"]
    /\ evq' = Append(evq, RejectEvent(o))
    /\ UNCHANGED <<exchange, connected, group, siblings, cancelling, manager>>

-----------------------------------------------------------------------------
(* cancel and cancel_order                                                 *)

M_CancelConcludes(o) ==
    /\ status[o] # "absent"
    /\ status[o] \in Open \/ "blind" \in Hazards
    /\ status' = [status EXCEPT ![o] = "CANCELLED"]
    /\ cancelling' = IF call[o] \in {"unsent", "raised"}
                     THEN cancelling ELSE cancelling \cup {o}
    /\ UNCHANGED <<exchange, connected, call, group, siblings, evq, filled,
                   published>>
(* cancel: the status is set whatever it was, and the request sent if      *)
(* place_order has recorded the order's symbol.  Callers are taken to      *)
(* cancel what open_orders lists; with hazard "blind" any known order.     *)
Cancel(o) ==
    /\ status[o] # "absent"
    /\ status[o] \in Open \/ "blind" \in Hazards
    /\ status' = [status EXCEPT ![o] = "CANCEL_PENDING"]
    /\ cancelling' = IF call[o] \in {"unsent", "raised"}
                     THEN cancelling ELSE cancelling \cup {o}
    /\ UNCHANGED <<exchange, connected, call, group, siblings, evq, filled,
                   published>>

CancelRequest(o) ==
    /\ o \in cancelling
    /\ cancelling' = cancelling \ {o}
    /\ CancelAtExchange(o)
    /\ UNCHANGED <<connected, call, group, siblings, evq, manager>>

-----------------------------------------------------------------------------
(* _consume_user_stream                                                    *)

M_EventOfMergesTrades(m) ==
    IF m.x = "TRADE" THEN ExecutionEvent(m.c, m.l, m.l, Lots - m.l)
    ELSE IF m.X = "REJECTED" THEN RejectEvent(m.c)
    ELSE AckEvent(m.c, ORDER_STATUS_MAP[m.X])
(* What _handle_user_stream_message puts on the event queue.               *)
EventOf(m) ==
    IF m.x = "TRADE" THEN ExecutionEvent(m.c, m.l, m.z, Lots - m.z)
    ELSE IF m.X = "REJECTED" THEN RejectEvent(m.c)
    ELSE AckEvent(m.c, ORDER_STATUS_MAP[m.X])

M_OcaSiblingsOfClearedGroup(o) == IF o \in OcoLegs THEN {} ELSE NotBusy
(* _handle_oca_fill: the members of the filled order's group, if any.      *)
OcaSiblings(o) == IF o \in OcoLegs THEN group \ {o} ELSE NotBusy

UserStreamMessage ==
    /\ stream # <<>>
    /\ siblings = NotBusy
    /\ LET m == Head(stream)
       IN  /\ stream' = Tail(stream)
           /\ evq' = Append(evq, EventOf(m))
           /\ siblings' = IF m.x = "TRADE" /\ m.X = "FILLED"
                          THEN OcaSiblings(m.c) ELSE NotBusy
    /\ UNCHANGED <<ex, done, missed, connected, call, group, cancelling, manager>>

(* One await of _handle_oca_fill: the cancel of a sibling.                 *)
CancelSibling(o) ==
    /\ siblings # NotBusy
    /\ o \in siblings
    /\ siblings' = siblings \ {o}
    /\ CancelAtExchange(o)
    /\ UNCHANGED <<connected, call, group, cancelling, evq, manager>>

(* The end of _handle_oca_fill: order_ids.clear().                         *)
ClearGroup ==
    /\ siblings = {}
    /\ siblings' = NotBusy
    /\ group' = {}
    /\ UNCHANGED <<exchange, connected, call, cancelling, evq, manager>>

(* The socket breaks; what it had not delivered is gone.                   *)
Disconnect ==
    /\ connected
    /\ connected' = FALSE
    /\ missed' = missed \cup {stream[i].c : i \in 1 .. Len(stream)}
    /\ stream' = <<>>
    /\ UNCHANGED <<ex, done, broker, evq, manager>>

(* After the backoff a new socket is opened; nothing is asked again.       *)
Reconnect ==
    /\ ~connected
    /\ siblings = NotBusy
    /\ connected' = TRUE
    /\ UNCHANGED <<exchange, broker, evq, manager>>

-----------------------------------------------------------------------------
(* _handle_broker_event                                                    *)

(* The event is applied to its order and republished on the bus.           *)
ApplyEvent(e) ==
    /\ status' = [status EXCEPT ![e.id] = e.status]
    /\ IF e.kind = "execution"
       THEN /\ filled' = [filled EXCEPT ![e.id] = e.z]
            /\ published' = [published EXCEPT ![e.id] = @ + e.l]
       ELSE UNCHANGED <<filled, published>>

ConsumeEvent ==
    /\ evq # <<>>
    /\ evq' = Tail(evq)
    /\ ApplyEvent(Head(evq))
    /\ UNCHANGED <<exchange, connected, broker>>

-----------------------------------------------------------------------------
OrderNext(o) ==
    \/ Submit(o)
    \/ SubmitBelowMinQty(o)
    \/ SubmitRaises(o)
    \/ ExchangeAccepts(o)
    \/ ExchangeRefuses(o)
    \/ Trade(o)
    \/ ExchangeEnds(o)
    \/ PlaceReturns(o)
    \/ PlaceFails(o)
    \/ Cancel(o)
    \/ CancelRequest(o)
    \/ CancelSibling(o)

Next ==
    \/ \E o \in Orders : OrderNext(o)
    \/ UserStreamMessage
    \/ ClearGroup
    \/ Disconnect
    \/ Reconnect
    \/ ConsumeEvent

Spec == Init /\ [][Next]_vars

(* Requests are answered, the two consuming tasks run and the socket is    *)
(* reopened.  Nothing makes an order trade or a socket break, and a socket *)
(* that breaks over and over still delivers what it has not lost.          *)
Fairness ==
    /\ \A o \in Orders :
           /\ WF_vars(ExchangeAccepts(o) \/ ExchangeRefuses(o))
           /\ WF_vars(PlaceReturns(o) \/ PlaceFails(o))
           /\ WF_vars(CancelRequest(o))
           /\ WF_vars(CancelSibling(o))
    /\ WF_vars(UserStreamMessage)
    /\ WF_vars(ClearGroup)
    /\ WF_vars(Reconnect)
    /\ WF_vars(ConsumeEvent)

FairSpec == Spec /\ Fairness

-----------------------------------------------------------------------------
(* Every variable has its type; in particular an order's executed quantity *)
(* never passes its size.                                                  *)
TypeOK ==
    /\ ex \in [Orders -> ExStatus]
    /\ done \in [Orders -> 0 .. Lots]
    /\ stream \in Seq(Messages)
    /\ connected \in BOOLEAN
    /\ missed \subseteq Orders
    /\ call \in [Orders -> Calls]
    /\ group \subseteq OcoLegs
    /\ siblings = NotBusy \/ siblings \subseteq OcoLegs
    /\ cancelling \subseteq Orders
    /\ evq \in Seq(Events)
    /\ status \in [Orders -> {"absent"} \cup Open \cup Terminal]
    /\ filled \in [Orders -> 0 .. Lots]
    /\ published \in [Orders -> Nat]

(* What the manager's is_terminal statuses mean: an order it counts as     *)
(* finished (and leaves out of open_orders) can no longer execute on the   *)
(* exchange, whatever messages were lost and whatever was cancelled.       *)
TerminalIsOver ==
    \A o \in Orders : status[o] \in Terminal => Over(o)

(* No late ack, cancel or fill moves an order out of a terminal status:    *)
(* _handle_broker_event assigns the status of each event unconditionally,  *)
(* so this rests on the order in which the broker queues them.             *)
TerminalStays ==
    [][\A o \in Orders : status[o] \in Terminal => status'[o] = status[o]]_vars

(* The manager and the bus never know of more executed lots than traded,   *)
(* and once the stream and the event queue are drained they know of        *)
(* exactly those, for every order no message of which went to a broken     *)
(* socket.                                                                 *)
FillsAgree ==
    \A o \in Orders :
        /\ filled[o] <= done[o]
        /\ published[o] <= done[o]
        /\ stream = <<>> /\ evq = <<>> /\ o \notin missed =>
               filled[o] = done[o] /\ published[o] = done[o]

(* submit_oco: the fill of any leg cancels all remaining legs, so once a   *)
(* leg has filled every other leg ends, unless the fill's message went to  *)
(* a broken socket.                                                        *)
OcoResolves ==
    \A o, l \in OcoLegs :
        o # l => (ex[o] = "FILLED" ~>
                     (o \in missed \/ ex[l] \notin ExWorking))

(* An order that can no longer execute leaves open_orders, with two        *)
(* exceptions: a message of it went to a broken socket; or place_order     *)
(* raised.  Then the caller of submit has the exception, but the order was *)
(* registered before (order_manager.py:95-118), no event will ever come    *)
(* for it, and it stays in open_orders for good.                           *)
Settles ==
    \A o \in Orders :
        Over(o) ~> (o \in missed \/ call[o] = "raised" \/ status[o] \in Terminal)
=============================================================================
