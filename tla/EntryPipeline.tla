---------------------------- MODULE EntryPipeline ----------------------------
(***************************************************************************)
(* The entry side of the live scanner, from a closed bar to a filled order: *)
(*   strategies/funding_momentum_scanner.py  on_bar, _prune_pending_entries *)
(*   strategies/base_strategy.py             _dispatch_bar, emit_signal,   *)
(*                                           pause, resume                 *)
(*   scripts/run_live_binance_scanner.py     on_signal                     *)
(*   core/event_bus.py                       one event at a time, in order *)
(* with the position monitor's view of what is open (open_symbols) and the *)
(* operator's switches, which run in other tasks and take effect at any    *)
(* await of the pipeline.                                                  *)
(*                                                                         *)
(* Prices, funding, equity and the limits of the risk engine are data: a   *)
(* bar qualifies or not, an order that is not halted passes or is rejected. *)
(* Time is counted in ticks, TTL of them being _PENDING_ENTRY_TTL_S.       *)
(*                                                                         *)
(* A definition M_X that stands before a definition is a faulty variant of *)
(* it: replacing it must break a property (see the README).                *)
(***************************************************************************)
EXTENDS Integers, Sequences, FiniteSets

CONSTANTS
    Symbols,     \* the scanned universe
    MaxOpen,     \* params.max_open_positions
    TTL,         \* _PENDING_ENTRY_TTL_S in ticks
    QueueBound,  \* bound: bars are published only to a shorter queue
    MaxUnits,    \* bound: entries of one symbol that may be held at a time
    Delays       \* subset of {"entry", "poll"}: what may take too long

ASSUME EntryAssumption ==
    /\ IsFiniteSet(Symbols)
    /\ MaxOpen \in Nat \ {0}
    /\ TTL \in Nat
    /\ QueueBound \in Nat
    /\ MaxUnits \in Nat
    /\ Delays \subseteq {"entry", "poll"}

VARIABLES
    held,     \* the exchange: entries that make up the symbol's position
    watched,  \* PositionMonitor._positions' keys
    polled,   \* the positions a poll has read and not applied, or NoPoll
    pending,  \* _pending_entries: the entry's age, or Absent
    queue,    \* the event bus's queue
    stage,    \* where the dispatched handler is suspended
    cur,      \* the symbol of the event being handled
    paused,   \* not scanner._active
    halted,   \* circuit_breaker.is_halted
    slipped   \* history: entries submitted since the breaker was halted

market == <<held, watched, polled>>
handler == <<queue, stage, cur>>
switches == <<paused, halted, slipped>>
vars == <<market, pending, handler, switches>>

-----------------------------------------------------------------------------
Absent == -1
NoPoll == {"no poll"}
NoSymbol == "none"

Bar(s) == [kind |-> "bar", symbol |-> s]
Signal(s) == [kind |-> "signal", symbol |-> s]

Held == {s \in Symbols : held[s] > 0}
PendingSet(p) == {s \in Symbols : p[s] # Absent}

(* The symbol has an entry under way that no poll has confirmed yet.       *)
Unconfirmed(s) ==
    \/ \E i \in 1 .. Len(queue) : queue[i] = Signal(s)
    \/ stage \in {"reading", "approved", "placing"} /\ cur = s
    \/ s \in Held \ watched

-----------------------------------------------------------------------------
(* funding_momentum_scanner.py                                             *)

M_PruneTooEarly(p) ==
    [s \in Symbols |-> IF s \in watched \/ p[s] > 0 THEN Absent ELSE p[s]]
M_PruneConfirmedOnly(p) ==
    [s \in Symbols |-> IF s \in watched THEN Absent ELSE p[s]]
(* _prune_pending_entries: confirmed or stale entries are forgotten.       *)
PrunePendingEntries(p) ==
    [s \in Symbols |-> IF s \in watched \/ p[s] > TTL THEN Absent ELSE p[s]]

M_MayEnterCountsWatched(s, p) ==
    s \notin watched \cup PendingSet(p) /\ Cardinality(watched) < MaxOpen
(* on_bar's two early returns.                                             *)
MayEnter(s, p) ==
    LET open == watched \cup PendingSet(p)
    IN  s \notin open /\ Cardinality(open) < MaxOpen

-----------------------------------------------------------------------------
Init ==
    /\ held = [s \in Symbols |-> 0]
    /\ watched = {}
    /\ polled = NoPoll
    /\ pending = [s \in Symbols |-> Absent]
    /\ queue = <<>>
    /\ stage = "idle"
    /\ cur = NoSymbol
    /\ paused = FALSE
    /\ halted = FALSE
    /\ slipped = 0

-----------------------------------------------------------------------------
(* Bars, and the dispatch of one event after the other.                    *)

(* on_tick publishes the bar that its tick completed.                      *)
BarCloses(s) ==
    /\ Len(queue) < QueueBound
    /\ queue' = Append(queue, Bar(s))
    /\ UNCHANGED <<market, pending, stage, cur, switches>>

IsNext(kind) == stage = "idle" /\ queue # <<>> /\ Head(queue).kind = kind

(* A bar while the scanner is paused is not looked at.                     *)
SkipBar ==
    /\ IsNext("bar")
    /\ paused
    /\ queue' = Tail(queue)
    /\ UNCHANGED <<market, pending, stage, cur, switches>>

(* on_bar up to the await of the equity: either one of the early returns,  *)
(* or a setup that qualifies.                                              *)
OnBar ==
    /\ IsNext("bar")
    /\ ~paused
    /\ queue' = Tail(queue)
    /\ pending' = PrunePendingEntries(pending)
    /\ \/ UNCHANGED <<stage, cur>>
       \/ /\ MayEnter(Head(queue).symbol, pending')
          /\ stage' = "sizing"
          /\ cur' = Head(queue).symbol
    /\ UNCHANGED <<market, switches>>

HandlerEnds == stage' = "idle" /\ cur' = NoSymbol

(* The equity is there and buys at least one lot.                          *)
EmitSignal ==
    /\ stage = "sizing"
    /\ pending' = [pending EXCEPT ![cur] = 0]
    /\ queue' = Append(queue, Signal(cur))
    /\ HandlerEnds
    /\ UNCHANGED <<market, switches>>

(* The equity request fails, or buys less than one lot.                    *)
SizingFails ==
    /\ stage = "sizing"
    /\ HandlerEnds
    /\ UNCHANGED <<market, pending, queue, switches>>

(* on_signal asks for the equity, the positions and the margin in use.     *)
OnSignal ==
    /\ IsNext("signal")
    /\ queue' = Tail(queue)
    /\ stage' = "reading"
    /\ cur' = Head(queue).symbol
    /\ UNCHANGED <<market, pending, switches>>

M_CheckOrderPassesIgnoresHalt ==
    /\ stage = "reading"
    /\ stage' = "approved"
    /\ UNCHANGED <<market, pending, queue, cur, switches>>
(* check_order passes: the breaker is looked at first.                     *)
CheckOrderPasses ==
    /\ stage = "reading"
    /\ ~halted
    /\ stage' = "approved"
    /\ UNCHANGED <<market, pending, queue, cur, switches>>

(* One of the requests raises, or check_order rejects.                     *)
CheckOrderRejects ==
    /\ stage = "reading"
    /\ HandlerEnds
    /\ UNCHANGED <<market, pending, queue, switches>>

(* The audit line is out, leverage and margin type are set, and the order  *)
(* is submitted.                                                           *)
SubmitEntry ==
    /\ stage = "approved"
    /\ held[cur] < MaxUnits
    /\ stage' = "placing"
    /\ slipped' = IF halted THEN slipped + 1 ELSE slipped
    /\ UNCHANGED <<market, pending, queue, cur, paused, halted>>

(* push_audit or ensure_symbol_ready raises.                               *)
SubmitFails ==
    /\ stage = "approved"
    /\ HandlerEnds
    /\ UNCHANGED <<market, pending, queue, switches>>

(* futures_create_order is answered: the market order has filled, or was   *)
(* refused.                                                                *)
OrderAnswered ==
    /\ stage = "placing"
    /\ \/ held' = [held EXCEPT ![cur] = @ + 1]
       \/ UNCHANGED held
    /\ HandlerEnds
    /\ UNCHANGED <<watched, polled, pending, queue, switches>>

-----------------------------------------------------------------------------
(* Other tasks.                                                            *)

(* get_position_details reads the exchange; the monitor gets the answer    *)
(* later.                                                                  *)
PollRead ==
    /\ polled = NoPoll
    /\ polled' = Held
    /\ UNCHANGED <<held, watched, pending, handler, switches>>

PollApply ==
    /\ polled # NoPoll
    /\ watched' = polled
    /\ polled' = NoPoll
    /\ UNCHANGED <<held, pending, handler, switches>>

(* The monitor, a native stop or the operator closes a position.           *)
ClosePosition(s) ==
    /\ held[s] > 0
    /\ held' = [held EXCEPT ![s] = 0]
    /\ UNCHANGED <<watched, polled, pending, handler, switches>>

(* Unless delayed, an entry is rejected, or filled and polled, within the  *)
(* TTL, and a poll's answer is applied before the next tick.               *)
Tick ==
    /\ PendingSet(pending) # {}
    /\ "poll" \in Delays \/ polled = NoPoll
    /\ "entry" \in Delays \/ \A s \in PendingSet(pending) : Unconfirmed(s) => pending[s] < TTL
    /\ pending' = [s \in Symbols |->
                      IF pending[s] \in 0 .. TTL THEN pending[s] + 1 ELSE pending[s]]
    /\ UNCHANGED <<market, handler, switches>>

(* The drawdown limit trips the breaker; the scanner is not paused.        *)
Trip ==
    /\ ~halted
    /\ halted' = TRUE
    /\ slipped' = 0
    /\ UNCHANGED <<market, pending, handler, paused>>

EngageKillSwitch ==
    /\ paused' = TRUE
    /\ halted' = TRUE
    /\ slipped' = IF halted THEN slipped ELSE 0
    /\ UNCHANGED <<market, pending, handler>>

ResetKillSwitch ==
    /\ paused' = FALSE
    /\ halted' = FALSE
    /\ slipped' = 0
    /\ UNCHANGED <<market, pending, handler>>

SetPaused(b) ==
    /\ paused' = b
    /\ UNCHANGED <<market, pending, handler, halted, slipped>>

-----------------------------------------------------------------------------
Dispatch ==
    \/ SkipBar
    \/ OnBar
    \/ EmitSignal
    \/ SizingFails
    \/ OnSignal
    \/ CheckOrderPasses
    \/ CheckOrderRejects
    \/ SubmitEntry
    \/ SubmitFails
    \/ OrderAnswered

Polling == PollRead \/ PollApply
AnyBar == \E s \in Symbols : BarCloses(s)

Next ==
    \/ AnyBar
    \/ Dispatch
    \/ Polling
    \/ \E s \in Symbols : ClosePosition(s)
    \/ Tick
    \/ Trip
    \/ EngageKillSwitch
    \/ ResetKillSwitch
    \/ \E b \in BOOLEAN : SetPaused(b)

Spec == Init /\ [][Next]_vars

(* Bars keep closing, the dispatch loop and the poll keep running, and     *)
(* time passes: the guards of Tick say only what is over before it does.   *)
(* Nothing is assumed of the operator or of the market.                    *)
Fairness == WF_vars(AnyBar) /\ WF_vars(Dispatch) /\ WF_vars(Polling) /\ SF_vars(Tick)

FairSpec == Spec /\ Fairness

-----------------------------------------------------------------------------
(* Type invariant of the pipeline.                                         *)
TypeOK ==
    /\ held \in [Symbols -> 0 .. MaxUnits]
    /\ watched \subseteq Symbols
    /\ polled = NoPoll \/ polled \subseteq Symbols
    /\ pending \in [Symbols -> Absent .. TTL + 1]
    /\ queue \in Seq([kind : {"bar", "signal"}, symbol : Symbols])
    /\ stage \in {"idle", "sizing", "reading", "approved", "placing"}
    /\ cur \in Symbols \cup {NoSymbol}
    /\ paused \in BOOLEAN
    /\ halted \in BOOLEAN
    /\ slipped \in Nat

(* However many bars close at once, the bot never holds more positions     *)
(* than max_open_positions (on _pending_entries: "Guards against briefly   *)
(* overshooting max_open_positions ... This closes that gap").             *)
WithinMaxOpen == Cardinality(Held) <= MaxOpen

(* A symbol that is held is not entered again ("don't double-enter a       *)
(* symbol already held").                                                  *)
NoDoubleEntry == \A s \in Symbols : held[s] <= 1

(* Dispatch is sequential, so of all the bars and signals on their way     *)
(* when the breaker halts at most one still becomes an order.              *)
AtMostOneSlips == halted => slipped <= 1

(* A slot taken by an entry that came to nothing is free again in the end, *)
(* unless the scanner is paused and takes no entries anyway                *)
(* (_prune_pending_entries).                                               *)
SlotsReturn == \A s \in Symbols : (pending[s] # Absent) ~> (pending[s] = Absent \/ paused)
=============================================================================
