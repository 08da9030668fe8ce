------------------------------ MODULE RiskEngine ------------------------------
(***************************************************************************)
(* The pre-trade gate of the live scanner: on_signal from the account      *)
(* queries to the order, with everything it consults.                      *)
(*   risk/risk_engine.py            check_order and its seven checks       *)
(*   risk/margin.py                 MarginCalculator.check_order           *)
(*   execution/binance_broker.py    ensure_symbol_ready, get_positions     *)
(*   scripts/run_live_binance_scanner.py  on_tick, on_signal, monitor_loop *)
(*                                                                         *)
(* The bus runs one handler at a time, so prices (on_tick) stand still     *)
(* while on_signal is suspended; the account, the exchange positions and   *)
(* the breaker do not.  Quantities are lots, prices are per lot times      *)
(* Mult[s], the symbol's step size.  A market order is executed, or        *)
(* refused, before its answer comes back.                                  *)
(***************************************************************************)
EXTENDS RateLimiter, Contracts, PositionSizing

CONSTANTS
    Prices,         \* prices that the feed may report
    Equities,       \* equities that the account may report
    Sizes,          \* quantities a signal may ask for
    MaxNotional, MaxGross,                  \* settings.risk
    InitialBuffer, MaintenanceBuffer,       \* settings.risk, in percent
    Leverage,       \* settings.scanner.leverage
    MaxLeverageOf,  \* the exchange's cap for each symbol
    MarginTypeFails \* whether setting a margin type may really fail

(* The defaults of settings.py satisfy all of this; the order limit being  *)
(* no larger than the symbol limit is what WithinSymbolLimit rests on.     *)
ASSUME RiskAssumption ==
    /\ Prices \subseteq Nat \ {0} /\ Equities \subseteq Int /\ Sizes \subseteq Nat
    /\ {MaxNotional, MaxGross, InitialBuffer, MaintenanceBuffer} \subseteq Nat
    /\ MaxPerOrder <= MaxPerSymbol
    /\ Leverage \in Nat \ {0}
    /\ MaxLeverageOf \in [Symbols -> Nat \ {0}]
    /\ MarginTypeFails \in BOOLEAN

VARIABLES
    held,        \* the account's positions, in lots; what get_positions() reads
    equity,      \* the account's equity
    exLeverage,  \* the leverage set on the exchange for each symbol
    exMargin,    \* symbols whose margin type is the configured one
    known,       \* RiskEngine._positions
    polled,      \* positions monitor_loop has read and not yet applied
    price,       \* RiskEngine._prices, last_price and the margin schedule; 0: no tick yet
    halted,      \* circuit_breaker.is_halted
    configured,  \* _configured_leverage_margin: the leverage, 0: not yet
    call         \* the on_signal in progress

accountVars == <<held, equity>>
setupVars == <<exLeverage, exMargin, configured>>
vars == <<limiterVars, accountVars, setupVars, known, polled, price, halted, call>>

Stages == {"idle", "equity", "positions", "approved", "leverage", "bracket", "placing"}
Idle == [stage |-> "idle"]

TypeOK ==
    /\ LimiterTypeOK
    /\ held \in [Symbols -> Int] /\ known \in [Symbols -> Int]
    /\ \A p \in polled : p \in [Symbols -> Int]
    /\ Cardinality(polled) <= 1
    /\ equity \in Equities
    /\ exLeverage \in [Symbols -> Nat] /\ configured \in [Symbols -> Nat]
    /\ exMargin \subseteq Symbols
    /\ price \in [Symbols -> Prices \cup {0}]
    /\ halted \in BOOLEAN
    /\ call.stage \in Stages
    /\ call.stage # "idle" => /\ call.symbol \in Symbols
                              /\ call.side \in {1, -1} /\ call.qty \in Sizes
                              /\ call.equity \in Equities

-----------------------------------------------------------------------------
(* The checks of check_order.                                              *)

Signed(c) == c.side * c.qty
Projected(c) == Abs(known[c.symbol] + Signed(c))
Notional(c) == c.qty * price[c.symbol] * Mult[c.symbol]
GrossExposure(h) == SumOver([s \in Symbols |-> Abs(h[s]) * price[s] * Mult[s]])

M_FatFingerUnchecked(c) == c.qty > 0
FatFingerOK(c) == c.qty > 0 /\ c.qty <= MaxPerOrder

PositionLimitOK(c) == Projected(c) <= MaxPerSymbol

NotionalOK(c) == price[c.symbol] > 0 /\ Notional(c) <= MaxNotional

M_LeverageOfOrderOnly(c) == c.equity > 0 /\ Notional(c) <= MaxGross * c.equity
LeverageOK(c) ==
    /\ c.equity > 0
    /\ c.gross + Notional(c) <= MaxGross * c.equity

(* The schedule holds price * step / leverage per lot and 0.8 of that; the *)
(* margin already in use is computed for the report only.                  *)
MarginOK(c) ==
    LET lots == Projected(c) * price[c.symbol] * Mult[c.symbol]
    IN  /\ price[c.symbol] > 0
        /\ c.equity * 100 * Leverage >= lots * (100 + InitialBuffer)
        /\ c.equity * 1000 * Leverage >= lots * 8 * (100 + MaintenanceBuffer)

WithinLimits(c) ==
    PositionLimitOK(c) /\ NotionalOK(c) /\ LeverageOK(c) /\ MarginOK(c)

-----------------------------------------------------------------------------
(* on_signal, split at its awaits.                                         *)

(* The scanner signals only a symbol that it believes flat and that no     *)
(* other entry is under way for (EntryPipeline.NoDoubleEntry).             *)
OnSignal(s, side, q) ==
    /\ call.stage = "idle"
    /\ held[s] = 0
    /\ call' = [stage |-> "equity", symbol |-> s, side |-> side, qty |-> q, equity |-> equity]
    /\ UNCHANGED <<limiterVars, accountVars, setupVars, known, polled, price, halted>>

ReadPositions ==
    /\ call.stage = "equity"
    /\ call' = [stage |-> "positions", symbol |-> call.symbol, side |-> call.side,
                qty |-> call.qty, equity |-> call.equity, gross |-> GrossExposure(held)]
    /\ UNCHANGED <<limiterVars, accountVars, setupVars, known, polled, price, halted>>

(* A token is taken before the limits are looked at, and is not given back. *)
CheckOrder ==
    /\ call.stage = "positions"
    /\ \/ /\ halted \/ ~FatFingerOK(call)
          /\ call' = Idle
          /\ UNCHANGED limiterVars
       \/ /\ ~halted /\ FatFingerOK(call)
          /\ Refuse
          /\ call' = Idle
       \/ /\ ~halted /\ FatFingerOK(call)
          /\ Acquire
          /\ call' = IF WithinLimits(call) THEN [call EXCEPT !.stage = "approved"] ELSE Idle
    /\ UNCHANGED <<accountVars, setupVars, known, polled, price, halted>>

(* ensure_symbol_ready: nothing to do for a symbol that is configured.     *)
AlreadyConfigured ==
    /\ call.stage = "approved"
    /\ configured[call.symbol] # 0
    /\ call' = [call EXCEPT !.stage = "placing"]
    /\ UNCHANGED <<limiterVars, accountVars, setupVars, known, polled, price, halted>>

(* An error of this request is taken to mean that the type was set before. *)
ChangeMarginType ==
    /\ call.stage = "approved"
    /\ configured[call.symbol] = 0
    /\ exMargin' \in {exMargin \cup {call.symbol}} \cup (IF MarginTypeFails THEN {exMargin} ELSE {})
    /\ call' = [call EXCEPT !.stage = "leverage"]
    /\ UNCHANGED <<limiterVars, accountVars, exLeverage, configured, known, polled, price, halted>>

SetLeverage(l) ==
    /\ exLeverage' = [exLeverage EXCEPT ![call.symbol] = l]
    /\ configured' = [configured EXCEPT ![call.symbol] = l]
    /\ call' = [call EXCEPT !.stage = "placing"]
    /\ UNCHANGED <<limiterVars, accountVars, exMargin, known, polled, price, halted>>

ChangeLeverage ==
    /\ call.stage = "leverage"
    /\ Leverage <= MaxLeverageOf[call.symbol]
    /\ SetLeverage(Leverage)

(* Refused because of the symbol's cap, or failed before or after it took  *)
(* effect: the code cannot tell and asks for the bracket.                  *)
ChangeLeverageFails ==
    /\ call.stage = "leverage"
    /\ exLeverage' \in {exLeverage} \cup
           {[exLeverage EXCEPT ![call.symbol] = l] :
                l \in {Leverage} \cap 1 .. MaxLeverageOf[call.symbol]}
    /\ call' = [call EXCEPT !.stage = "bracket"]
    /\ UNCHANGED <<limiterVars, accountVars, exMargin, configured, known, polled, price, halted>>

M_CapNotRemembered ==
    /\ call.stage = "bracket"
    /\ MaxLeverageOf[call.symbol] < Leverage
    /\ exLeverage' = [exLeverage EXCEPT ![call.symbol] = MaxLeverageOf[call.symbol]]
    /\ configured' = [configured EXCEPT ![call.symbol] = Leverage]
    /\ call' = [call EXCEPT !.stage = "placing"]
    /\ UNCHANGED <<limiterVars, accountVars, exMargin, known, polled, price, halted>>
UseLeverageCap ==
    /\ call.stage = "bracket"
    /\ MaxLeverageOf[call.symbol] < Leverage
    /\ SetLeverage(MaxLeverageOf[call.symbol])

(* The audit line or the set-up raises; the bus drops the signal.          *)
SetupFails ==
    /\ call.stage \in {"approved", "bracket"}
    /\ call' = Idle
    /\ UNCHANGED <<limiterVars, accountVars, setupVars, known, polled, price, halted>>

(* order_manager.submit: executed or refused.                              *)
PlaceOrder ==
    /\ call.stage = "placing"
    /\ held' \in {held, [held EXCEPT ![call.symbol] = @ + Signed(call)]}
    /\ call' = Idle
    /\ UNCHANGED <<limiterVars, equity, setupVars, known, polled, price, halted>>

-----------------------------------------------------------------------------
(* Everything else.                                                        *)

OnTick(s, p) ==
    /\ call.stage = "idle"
    /\ price' = [price EXCEPT ![s] = p]
    /\ UNCHANGED <<limiterVars, accountVars, setupVars, known, polled, halted, call>>

(* Stop-loss, trailing exit, native stop or flatten: closes are not        *)
(* checked by the risk engine.                                             *)
Close(s) ==
    /\ held[s] # 0
    /\ held' = [held EXCEPT ![s] = 0]
    /\ UNCHANGED <<limiterVars, equity, setupVars, known, polled, price, halted, call>>

EquityMoves(e) ==
    /\ equity' = e
    /\ UNCHANGED <<limiterVars, held, setupVars, known, polled, price, halted, call>>

(* monitor_loop: the answer of get_positions() lists open positions only,  *)
(* so a position that was closed keeps its last quantity in known.         *)
MonitorReads ==
    /\ polled = {}
    /\ polled' = {held}
    /\ UNCHANGED <<limiterVars, accountVars, setupVars, known, price, halted, call>>

MonitorApplies(p) ==
    /\ p \in polled
    /\ known' = [s \in Symbols |-> IF p[s] # 0 THEN p[s] ELSE known[s]]
    /\ polled' = {}
    /\ UNCHANGED <<limiterVars, accountVars, setupVars, price, halted, call>>

Breaker(b) ==
    /\ halted' = b
    /\ UNCHANGED <<limiterVars, accountVars, setupVars, known, polled, price, call>>

TimePasses ==
    /\ Clock
    /\ UNCHANGED <<accountVars, setupVars, known, polled, price, halted, call>>

Init ==
    /\ LimiterInit
    /\ held = [s \in Symbols |-> 0]
    /\ equity \in Equities
    /\ exLeverage = [s \in Symbols |-> 1]
    /\ exMargin = {}
    /\ known = [s \in Symbols |-> 0]
    /\ polled = {}
    /\ price = [s \in Symbols |-> 0]
    /\ halted = FALSE
    /\ configured = [s \in Symbols |-> 0]
    /\ call = Idle

Next ==
    \/ \E s \in Symbols, side \in {1, -1}, q \in Sizes : OnSignal(s, side, q)
    \/ ReadPositions \/ CheckOrder
    \/ AlreadyConfigured \/ ChangeMarginType
    \/ ChangeLeverage \/ ChangeLeverageFails \/ UseLeverageCap \/ SetupFails
    \/ PlaceOrder
    \/ \E s \in Symbols, p \in Prices : OnTick(s, p)
    \/ \E s \in Symbols : Close(s)
    \/ \E e \in Equities : EquityMoves(e)
    \/ MonitorReads \/ \E p \in polled : MonitorApplies(p)
    \/ \E b \in BOOLEAN : Breaker(b)
    \/ TimePasses

Spec == Init /\ [][Next]_vars

-----------------------------------------------------------------------------
(* The whole book, not only the new order, is within the leverage limit    *)
(* for the equity that was read, whenever an entry is executed: what       *)
(* on_signal read before its awaits still covers what the account holds.   *)
WithinLeverage ==
    [][\A s \in Symbols :
          held[s] = 0 /\ held'[s] # 0 => GrossExposure(held') <= MaxGross * call.equity]_vars

(* No position exceeds max_contracts_per_symbol, although the quantities   *)
(* the check adds to are up to a poll old, or those of a position closed   *)
(* long ago.                                                               *)
WithinSymbolLimit == \A s \in Symbols : Abs(held[s]) <= MaxPerSymbol

(* What _configured_leverage_margin remembers is what is set on the        *)
(* exchange, and no order is placed for a symbol that is not set up,       *)
(* however requests fail on the way.                                       *)
SetUpAsRemembered ==
    /\ \A s \in Symbols :
           configured[s] # 0 => exLeverage[s] = configured[s] /\ s \in exMargin
    /\ call.stage = "placing" => configured[call.symbol] # 0

(* When a signal arrives, the functions that size signals satisfy their    *)
(* contract: over all probabilities, caps, volatilities and prices they    *)
(* give the largest count that passes no limit, never rounded up, also     *)
(* where two ceilings coincide (position_sizing.py:3).                     *)
SizesWithinIntent == [][call = Idle /\ call' # Idle => SizesAreLargest]_vars
=============================================================================
