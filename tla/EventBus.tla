------------------------------ MODULE EventBus ------------------------------
(***************************************************************************)
(* core/event_bus.py: the in-process bus that carries ticks, bars, signals *)
(* and order events.  publish, publish_and_wait, _dispatch_loop, _dispatch, *)
(* join, start and stop, on top of an asyncio.Queue, whose unfinished-task *)
(* counter and "finished" event are what join() waits for.                 *)
(*                                                                         *)
(* An event is the number of the publish call that made it.  Every event   *)
(* goes through Handlers handlers one after the other: the subscribers of  *)
(* its type, the global ones, the Redis publication.  A waiter of the      *)
(* finished event is scheduled when the counter reaches zero and resumes   *)
(* later, whatever the counter is by then.                                 *)
(*                                                                         *)
(* A definition M_X that stands before a definition is a faulty variant of *)
(* it: replacing it must break a property (see the README).                *)
(***************************************************************************)
EXTENDS Naturals, Sequences, FiniteSets

CONSTANTS
    MaxSize,   \* queue_maxsize
    Handlers,  \* how many handlers an event goes through
    MaxCalls,  \* bound: calls of publish and publish_and_wait
    Raises     \* TRUE: a handler may raise

ASSUME BusAssumption ==
    /\ MaxSize \in Nat \ {0}
    /\ Handlers \in Nat \ {0}
    /\ MaxCalls \in Nat
    /\ Raises \in BOOLEAN

VARIABLES
    queue,       \* _queue's items
    unfinished,  \* _queue's unfinished tasks
    putters,     \* publish_and_wait calls that wait for room
    running,     \* _running
    loop,        \* _dispatch_loop: "off", "getting", "handling", "exited"
    cur,         \* the event being dispatched
    step,        \* the handler it is at
    joiner,      \* a caller of join(): "no", "waiting", "woken"
    mark,        \* how many events were accepted when it called
    stopper,     \* a caller of stop(): "no", "waiting", "woken", "done"
    calls,       \* history: publish calls so far
    accepted,    \* history: events put into the queue
    handled      \* history: events whose dispatch is over

bus == <<queue, unfinished, putters, running, loop, cur, step>>
waiters == <<joiner, mark, stopper>>
history == <<calls, accepted, handled>>
vars == <<bus, waiters, history>>

-----------------------------------------------------------------------------
Init ==
    /\ queue = <<>> /\ unfinished = 0 /\ putters = {}
    /\ running = FALSE /\ loop = "off" /\ cur = 0 /\ step = 0
    /\ joiner = "no" /\ mark = 0 /\ stopper = "no"
    /\ calls = 0 /\ accepted = <<>> /\ handled = <<>>

(* asyncio.Queue: put_nowait once there is room.                           *)
Put(e) ==
    /\ queue' = Append(queue, e)
    /\ unfinished' = unfinished + 1
    /\ accepted' = Append(accepted, e)

Full == Len(queue) >= MaxSize

Start ==
    /\ loop = "off"
    /\ running' = TRUE
    /\ loop' = "getting"
    /\ UNCHANGED <<queue, unfinished, putters, cur, step, waiters, history>>

-----------------------------------------------------------------------------
(* Publishers: feeds, the order manager, strategies inside a handler.      *)

M_PublishOvertakes ==
    /\ calls < MaxCalls
    /\ calls' = calls + 1
    /\ \/ /\ ~Full
          /\ queue' = <<calls'>> \o queue
          /\ unfinished' = unfinished + 1
          /\ accepted' = Append(accepted, calls')
       \/ Full /\ UNCHANGED <<queue, unfinished, accepted>>
    /\ UNCHANGED <<putters, running, loop, cur, step, waiters, handled>>
(* publish: a full queue drops the event.                                  *)
Publish ==
    /\ calls < MaxCalls
    /\ calls' = calls + 1
    /\ \/ ~Full /\ Put(calls')
       \/ Full /\ UNCHANGED <<queue, unfinished, accepted>>
    /\ UNCHANGED <<putters, running, loop, cur, step, waiters, handled>>

(* publish_and_wait: a full queue makes the caller wait ...                *)
PublishAndWait ==
    /\ calls < MaxCalls
    /\ calls' = calls + 1
    /\ \/ ~Full /\ Put(calls') /\ UNCHANGED putters
       \/ /\ Full
          /\ putters' = putters \cup {calls'}
          /\ UNCHANGED <<queue, unfinished, accepted>>
    /\ UNCHANGED <<running, loop, cur, step, waiters, handled>>

(* ... and it goes on when it finds room (somebody else may have taken it). *)
PutterResumes(e) ==
    /\ e \in putters
    /\ ~Full
    /\ Put(e)
    /\ putters' = putters \ {e}
    /\ UNCHANGED <<running, loop, cur, step, waiters, calls, handled>>

-----------------------------------------------------------------------------
(* _dispatch_loop                                                          *)

Get ==
    /\ loop = "getting"
    /\ queue # <<>>
    /\ cur' = Head(queue)
    /\ queue' = Tail(queue)
    /\ step' = 1
    /\ loop' = "handling"
    /\ UNCHANGED <<unfinished, putters, running, waiters, history>>

Wake(w) == IF w = "waiting" THEN "woken" ELSE w

M_TaskDoneWakesEarly ==
    /\ unfinished' = unfinished - 1
    /\ joiner' = Wake(joiner)
    /\ stopper' = Wake(stopper)
    /\ handled' = Append(handled, cur)
    /\ loop' = IF running THEN "getting" ELSE "exited"
(* The finally clause and the loop's condition: task_done() wakes whoever  *)
(* waits when it reaches zero.                                             *)
TaskDone ==
    /\ unfinished' = unfinished - 1
    /\ joiner' = IF unfinished' = 0 THEN Wake(joiner) ELSE joiner
    /\ stopper' = IF unfinished' = 0 THEN Wake(stopper) ELSE stopper
    /\ handled' = Append(handled, cur)
    /\ loop' = IF running THEN "getting" ELSE "exited"

(* A handler is called and returns.                                        *)
HandlerReturns ==
    /\ loop = "handling"
    /\ \/ /\ step < Handlers
          /\ step' = step + 1
          /\ UNCHANGED <<loop, unfinished, joiner, stopper, handled>>
       \/ /\ step = Handlers
          /\ step' = 0
          /\ TaskDone
    /\ UNCHANGED <<queue, putters, running, cur, mark, calls, accepted>>

M_HandlerRaisesEndsLoop ==
    /\ Raises
    /\ loop = "handling"
    /\ step' = 0
    /\ loop' = "exited"
    /\ UNCHANGED <<queue, unfinished, putters, running, cur, waiters, calls, accepted, handled>>
(* A handler is called and raises: the remaining ones are skipped.         *)
HandlerRaises ==
    /\ Raises
    /\ loop = "handling"
    /\ step' = 0
    /\ TaskDone
    /\ UNCHANGED <<queue, putters, running, cur, mark, calls, accepted>>

-----------------------------------------------------------------------------
(* join and stop                                                           *)

(* join() on an idle bus returns at once and changes nothing.              *)
Join ==
    /\ joiner = "no"
    /\ unfinished > 0
    /\ joiner' = "waiting"
    /\ mark' = Len(accepted)
    /\ UNCHANGED <<bus, stopper, history>>

JoinReturns ==
    /\ joiner = "woken"
    /\ joiner' = "no"
    /\ UNCHANGED <<bus, mark, stopper, history>>

(* The dispatch task is cancelled and awaited.                             *)
CancelLoop == loop' = "exited" /\ stopper' = "done"

M_StopWithoutJoin ==
    /\ stopper = "no"
    /\ loop # "off"
    /\ running' = FALSE
    /\ CancelLoop
    /\ UNCHANGED <<queue, unfinished, putters, cur, step, joiner, mark, history>>
Stop ==
    /\ stopper = "no"
    /\ loop # "off"
    /\ running' = FALSE
    /\ \/ unfinished = 0 /\ CancelLoop
       \/ unfinished > 0 /\ stopper' = "waiting" /\ UNCHANGED loop
    /\ UNCHANGED <<queue, unfinished, putters, cur, step, joiner, mark, history>>

StopResumes ==
    /\ stopper = "woken"
    /\ CancelLoop
    /\ UNCHANGED <<queue, unfinished, putters, running, cur, step, joiner, mark, history>>

-----------------------------------------------------------------------------
LoopStep == Get \/ HandlerReturns \/ HandlerRaises

Next ==
    \/ Start
    \/ Publish
    \/ PublishAndWait
    \/ \E e \in putters : PutterResumes(e)
    \/ LoopStep
    \/ Join
    \/ JoinReturns
    \/ Stop
    \/ StopResumes

Spec == Init /\ [][Next]_vars

(* asyncio runs every ready task: the dispatch loop, the callers whose     *)
(* wait is over, and the putters that find room.                           *)
Fairness ==
    /\ WF_vars(Start)
    /\ WF_vars(LoopStep)
    /\ WF_vars(JoinReturns)
    /\ WF_vars(StopResumes)
    /\ WF_vars(\E e \in putters : PutterResumes(e))

FairSpec == Spec /\ Fairness

-----------------------------------------------------------------------------
InHand == IF loop = "handling" THEN 1 ELSE 0
InSeq(e, s) == \E i \in 1 .. Len(s) : s[i] = e

(* Type invariant; the queue never outgrows its size.                      *)
TypeOK ==
    /\ queue \in Seq(1 .. MaxCalls) /\ Len(queue) <= MaxSize
    /\ unfinished \in Nat
    /\ putters \subseteq 1 .. MaxCalls
    /\ running \in BOOLEAN
    /\ loop \in {"off", "getting", "handling", "exited"}
    /\ cur \in 0 .. MaxCalls
    /\ step \in 0 .. Handlers
    /\ joiner \in {"no", "waiting", "woken"}
    /\ mark \in Nat
    /\ stopper \in {"no", "waiting", "woken", "done"}
    /\ calls \in 0 .. MaxCalls
    /\ accepted \in Seq(1 .. MaxCalls)
    /\ handled \in Seq(1 .. MaxCalls)

(* The bus implements ordered, exactly-once dispatch (module docstring:    *)
(* "deterministic and race-free").                                         *)
Ordered == INSTANCE OrderedDispatch WITH Events <- 1 .. MaxCalls
OrderedSpec == Ordered!Spec

(* When join() returns, everything accepted before the call has been       *)
(* dispatched ("Block until every event published so far ... has been      *)
(* fully dispatched"), although it may have slept through the instant at   *)
(* which the counter was zero.                                             *)
JoinSettles == [][joiner = "woken" /\ joiner' = "no" => Len(handled) >= mark]_vars

(* stop() never cancels the dispatch loop in the middle of a handler, such *)
(* as one that is placing an order.                                        *)
StopCutsNoHandler == [][stopper # "done" /\ stopper' = "done" => loop # "handling"]_vars

(* As long as the bus is not stopped, every accepted event, and every      *)
(* caller of publish_and_wait, gets through.                               *)
Delivered ==
    \A e \in 1 .. MaxCalls :
        (InSeq(e, accepted) \/ e \in putters) ~> (InSeq(e, handled) \/ stopper # "no")

(* stop() returns, so that the steps of the shutdown after it are reached  *)
(* (run_live_binance_scanner.py: broker.disconnect(), store.close(),       *)
(* "shutdown.complete").  The code does not keep this when an event is     *)
(* queued behind the one in hand.                                          *)
StopReturns == (stopper # "no") ~> (stopper = "done")
=============================================================================
