------------------------------- MODULE Backtest -------------------------------
(***************************************************************************)
(* The event-driven backtester: BacktestEngine.run and _on_signal          *)
(* (backtest/engine.py) over MarketSimulatorBroker                         *)
(* (backtest/market_simulator.py), with the risk engine's position table.  *)
(*                                                                         *)
(* A bar is replayed in three parts, which run() keeps apart by joining    *)
(* the bus: ProcessBar and one ResolveOrder for each pending order of the  *)
(* symbol (a synchronous call: nothing else is enabled until its loop is   *)
(* over), Decide, which shows the bar to a strategy that may send one      *)
(* order, and Settle, which refreshes the risk engine's positions and the  *)
(* breaker.  Money is in units in which average prices come out whole      *)
(* (see the README).                                                       *)
(***************************************************************************)
EXTENDS Contracts, Sequences

CONSTANTS
    Bars,           \* the bars given to run(): records of ts, day and symbol
    Levels,         \* prices: opens, lows, highs and limits
    Cost,           \* spread and impact cost of a fill, per contract
    Commission,     \* commission_per_contract
    StartEquity, MaxDrawdownPct,
    Kinds,          \* order types and times in force a strategy may use
    Available,      \* contracts that a limit order may take from one bar
    MaxOrders,      \* bound: orders of one behaviour
    CrossSymbol     \* whether a strategy may trade another symbol than the bar's

(* Symbols are numbered in the order of their names; there is one bar of a *)
(* symbol and a time, and the day is that of the time.                     *)
ASSUME BacktestAssumption ==
    /\ Symbols \subseteq Nat
    /\ Bars \subseteq [ts : Nat, day : Nat, symbol : Symbols] /\ Bars # {}
    /\ \A a, b \in Bars : a.ts = b.ts => a.day = b.day
    /\ Levels \subseteq Nat
    /\ {Cost, Commission, StartEquity, MaxDrawdownPct, MaxOrders} \subseteq Nat
    /\ Available \in Nat \ {0}
    /\ Kinds \subseteq [type : {"MARKET", "LIMIT", "STOP_LIMIT", "STOP"},
                        tif : {"DAY", "GTC", "IOC", "FOK"}]
    /\ CrossSymbol \in BOOLEAN

VARIABLES
    bar,      \* the bar of this turn of run()'s loop
    ahead,    \* the bars after it
    phase,    \* "bar", "decide", "settle" or "done"
    todo,     \* orders that _resolve_pending_orders has still to look at
    book,     \* the simulator's _positions, _avg_entry_price, _open_trades, _equity
    pending,  \* _pending_orders, per symbol
    refreshed, \* RiskEngine._positions
    session,  \* the breaker: day, starting and peak equity, halted
    sent,     \* number of orders placed
    lags,     \* history: time from decision to execution, over all fills
    cash,     \* history: money paid and received, commissions included
    passive   \* history: contracts that limit orders executed, per symbol

replayVars == <<bar, ahead, phase, todo, book, pending, refreshed, session, sent,
                lags, cash, passive>>

Sign(x) == IF x > 0 THEN 1 ELSE IF x < 0 THEN -1 ELSE 0
Flat == [side |-> 0, peak |-> 0, pnl |-> 0]   \* no _OpenTrade
Limits == {"LIMIT", "STOP_LIMIT"}

M_NewestFirst(a, b) == a.ts > b.ts \/ (a.ts = b.ts /\ a.symbol < b.symbol)
(* sorted(bars, key=lambda b: (b.ts, b.symbol))                            *)
Before(a, b) == a.ts < b.ts \/ (a.ts = b.ts /\ a.symbol < b.symbol)
First(S) == {b \in S : \A c \in S \ {b} : Before(b, c)}

-----------------------------------------------------------------------------
(* market_simulator.py                                                     *)

(* Market orders take all they want: the cap on participation is the       *)
(* larger of the cap and the order.  Stops are not triggered, they fill.   *)
FillQuantity(o, lo, hi) ==
    IF o.type \notin Limits THEN o.left
    ELSE IF lo <= o.limit /\ o.limit <= hi
         THEN IF o.left <= Available THEN o.left ELSE Available
         ELSE 0

FillPrice(o, open) == (IF o.type = "LIMIT" THEN o.limit ELSE open) + o.side * Cost

(* What the bar does to each order; that does not depend on the others.    *)
Matched(orders, open, lo, hi) ==
    [i \in 1 .. Len(orders) |-> [order |-> orders[i], qty |-> FillQuantity(orders[i], lo, hi),
                                 price |-> FillPrice(orders[i], open)]]

(* A fill of q (signed) against a position p.                              *)
Reduces(p, q) == p # 0 /\ (p > 0) # (q > 0)
Flips(p, q) == p # 0 /\ p + q # 0 /\ (p > 0) # (p + q > 0)

M_AverageKeptOnFlip(b, s, q, price) ==
    IF b.pos[s] + q = 0 THEN 0
    ELSE IF Reduces(b.pos[s], q) THEN b.avg[s]
         ELSE (b.avg[s] * Abs(b.pos[s]) + price * Abs(q)) \div (Abs(b.pos[s]) + Abs(q))
(* A fill that adds averages, one that reduces keeps, and one that crosses *)
(* zero starts again at its own price.                                     *)
AverageEntry(b, s, q, price) ==
    IF b.pos[s] + q = 0 THEN 0
    ELSE IF Flips(b.pos[s], q) THEN price
    ELSE IF Reduces(b.pos[s], q) THEN b.avg[s]
    ELSE (b.avg[s] * Abs(b.pos[s]) + price * Abs(q)) \div (Abs(b.pos[s]) + Abs(q))

(* Profit realized by the part of the fill that closes existing exposure.  *)
ClosingPnl(b, s, q, price) ==
    IF Reduces(b.pos[s], q)
    THEN Sign(b.pos[s]) * (price - b.avg[s]) * Mult[s] *
             (IF Abs(q) <= Abs(b.pos[s]) THEN Abs(q) ELSE Abs(b.pos[s]))
    ELSE 0

(* The trade that the fill belongs to, opened by it if the symbol was flat. *)
CurrentTrade(b, s, q, gain) ==
    LET new == b.pos[s] + q
        t == IF b.pos[s] = 0 THEN [Flat EXCEPT !.side = Sign(new)] ELSE b.trade[s]
    IN  [t EXCEPT !.peak = IF Abs(new) >= @ THEN Abs(new) ELSE @, !.pnl = @ + gain]

M_FlipKeepsTrade(b, s, q, t) == IF b.pos[s] + q = 0 THEN Flat ELSE t
(* What is left open: a flip finalizes the trade and opens the next one.   *)
TradeAfter(b, s, q, t) ==
    LET new == b.pos[s] + q
    IN  IF new = 0 THEN Flat
        ELSE IF Flips(b.pos[s], q) THEN [side |-> Sign(new), peak |-> Abs(new), pnl |-> 0]
        ELSE t

(* _apply_fill with _finalize_trade.  The whole commission of a fill goes  *)
(* to the trade that was open before it, also when the fill flips.         *)
ApplyFill(b, s, q, price) ==
    LET gain == ClosingPnl(b, s, q, price) - Commission * Abs(q)
        t == CurrentTrade(b, s, q, gain)
        after == TradeAfter(b, s, q, t)
    IN  [pos    |-> [b.pos EXCEPT ![s] = @ + q],
         avg    |-> [b.avg EXCEPT ![s] = AverageEntry(b, s, q, price)],
         trade  |-> [b.trade EXCEPT ![s] = after],
         closed |-> IF after = t THEN b.closed ELSE b.closed + t.pnl,
         equity |-> b.equity + gain]

(* What is left of an order is carried to the next bar unless it is IOC or *)
(* FOK; nothing is reported when such a remainder is dropped.              *)
Carried(o, qty) ==
    IF o.left > qty /\ o.tif \notin {"IOC", "FOK"}
    THEN <<[o EXCEPT !.left = @ - qty]>> ELSE <<>>

-----------------------------------------------------------------------------
(* engine.py                                                               *)

NewSession(day, e) == [day |-> day, start |-> e, peak |-> e, halted |-> FALSE]

ReplayInit ==
    /\ bar \in First(Bars)
    /\ ahead = Bars \ {bar}
    /\ phase = "bar"
    /\ todo = <<>>
    /\ book = [pos |-> [s \in Symbols |-> 0], avg |-> [s \in Symbols |-> 0],
               trade |-> [s \in Symbols |-> Flat], closed |-> 0, equity |-> StartEquity]
    /\ pending = [s \in Symbols |-> <<>>]
    /\ refreshed = [s \in Symbols |-> 0]
    /\ session = NewSession(bar.day, StartEquity)
    /\ sent = 0
    /\ lags = {}
    /\ cash = 0
    /\ passive = [s \in Symbols |-> 0]

(* A new simulated day starts a new session from the equity before the bar *)
(* is processed.                                                           *)
ProcessBar(open, lo, hi) ==
    /\ phase = "bar"
    /\ lo <= open /\ open <= hi
    /\ session' = IF bar.day # session.day THEN NewSession(bar.day, book.equity) ELSE session
    /\ todo' = Matched(pending[bar.symbol], open, lo, hi)
    /\ pending' = [pending EXCEPT ![bar.symbol] = <<>>]
    /\ phase' = "decide"
    /\ UNCHANGED <<bar, ahead, book, refreshed, sent, lags, cash, passive>>

(* One turn of _resolve_pending_orders.                                    *)
Resolve(o, qty, price) ==
    /\ book' = IF qty > 0 THEN ApplyFill(book, bar.symbol, o.side * qty, price) ELSE book
    /\ pending' = [pending EXCEPT ![bar.symbol] = @ \o Carried(o, qty)]
    /\ lags' = IF qty > 0 THEN lags \cup {bar.ts - o.decided} ELSE lags
    /\ cash' = cash - o.side * qty * price * Mult[bar.symbol] - Commission * qty
    /\ passive' = IF o.type \in Limits
                  THEN [passive EXCEPT ![bar.symbol] = @ + qty] ELSE passive

ResolveOrder ==
    /\ phase = "decide"
    /\ todo # <<>>
    /\ Resolve(Head(todo).order, Head(todo).qty, Head(todo).price)
    /\ todo' = Tail(todo)
    /\ UNCHANGED <<bar, ahead, phase, refreshed, session, sent>>

(* _on_signal: the position limit of check_order sees the positions as     *)
(* they were after the previous bar, and no pending order.                 *)
WithinPositionLimit(s, side, q) ==
    /\ q <= MaxPerOrder
    /\ Abs(refreshed[s] + side * q) <= MaxPerSymbol

(* place_order; the broker's acknowledgement changes nothing here.         *)
Decide(s, side, q, kind, limit) ==
    /\ phase = "decide" /\ todo = <<>>
    /\ sent < MaxOrders
    /\ CrossSymbol \/ s = bar.symbol
    /\ WithinPositionLimit(s, side, q)
    /\ pending' = [pending EXCEPT ![s] = Append(@,
           [side |-> side, left |-> q, type |-> kind.type, tif |-> kind.tif,
            limit |-> limit, decided |-> bar.ts])]
    /\ sent' = sent + 1
    /\ phase' = "settle"
    /\ UNCHANGED <<bar, ahead, todo, book, refreshed, session, lags, cash, passive>>

(* No signal, or one that the other checks of check_order reject.          *)
NoOrder ==
    /\ phase = "decide" /\ todo = <<>>
    /\ phase' = "settle"
    /\ UNCHANGED <<bar, ahead, todo, book, pending, refreshed, session, sent, lags, cash, passive>>

Breached(c, e) ==
    \/ (c.start - e) * 100 >= MaxDrawdownPct * c.start
    \/ (c.peak - e) * 100 >= MaxDrawdownPct * c.peak

M_SettleForgetsPositions ==
    /\ phase = "settle"
    /\ IF ahead = {} THEN phase' = "done" /\ UNCHANGED <<bar, ahead>>
       ELSE phase' = "bar" /\ bar' \in First(ahead) /\ ahead' = ahead \ {bar'}
    /\ UNCHANGED <<todo, book, pending, refreshed, session, sent, lags, cash, passive>>
(* Positions to the risk engine, equity to the breaker; a breach ends the  *)
(* run, and so does the last bar.                                          *)
Settle ==
    /\ phase = "settle"
    /\ refreshed' = book.pos
    /\ LET c == [session EXCEPT !.peak = IF book.equity >= @ THEN book.equity ELSE @]
           halt == Breached(c, book.equity)
       IN  /\ session' = [c EXCEPT !.halted = halt]
           /\ IF halt \/ ahead = {}
              THEN phase' = "done" /\ UNCHANGED <<bar, ahead>>
              ELSE /\ phase' = "bar"
                   /\ bar' \in First(ahead)
                   /\ ahead' = ahead \ {bar'}
    /\ UNCHANGED <<todo, book, pending, sent, lags, cash, passive>>

ReplayNext ==
    \/ \E open, lo, hi \in Levels : ProcessBar(open, lo, hi)
    \/ ResolveOrder
    \/ \E s \in Symbols, side \in {1, -1}, q \in 1 .. MaxPerOrder, kind \in Kinds :
           \E l \in IF kind.type \in Limits THEN Levels ELSE {0} :
               Decide(s, side, q, kind, l)
    \/ NoOrder \/ Settle

ReplaySpec == ReplayInit /\ [][ReplayNext]_replayVars

-----------------------------------------------------------------------------
PendingOrders ==
    [side : {1, -1}, left : 1 .. MaxPerOrder, type : {"MARKET", "LIMIT", "STOP_LIMIT", "STOP"},
     tif : {"DAY", "GTC", "IOC", "FOK"}, limit : Nat, decided : Nat]
Trades == [side : {-1, 0, 1}, peak : Nat, pnl : Int]

ReplayTypeOK ==
    /\ bar \in Bars /\ ahead \subseteq Bars
    /\ phase \in {"bar", "decide", "settle", "done"}
    /\ todo \in Seq([order : PendingOrders, qty : Nat, price : Int])
    /\ book.pos \in [Symbols -> Int] /\ book.avg \in [Symbols -> Int]
    /\ book.trade \in [Symbols -> Trades]
    /\ book.closed \in Int /\ book.equity \in Int
    /\ pending \in [Symbols -> Seq(PendingOrders)]
    /\ refreshed \in [Symbols -> Int]
    /\ session \in [day : Nat, start : Int, peak : Int, halted : BOOLEAN]
    /\ sent \in 0 .. MaxOrders
    /\ lags \subseteq Int /\ cash \in Int
    /\ passive \in [Symbols -> Nat]

(* An order is never executed on a bar of the time it was decided at, or   *)
(* of an earlier one (engine.py:7-13), when strategies trade the symbol    *)
(* whose bar they are shown.                                               *)
NoLookahead == \A lag \in lags : lag > 0

(* The ledger agrees with the fills: equity is what was started with, plus *)
(* all money received and paid, plus the open positions at their average   *)
(* entry price, over any sequence of adding, reducing, closing and         *)
(* flipping fills of several symbols.                                      *)
CashIdentity ==
    book.equity = StartEquity + cash
                  + SumOver([s \in Symbols |-> book.pos[s] * book.avg[s] * Mult[s]])

(* The trade records account for every change of equity, and a record is   *)
(* open exactly while there is a position, on its side.                    *)
TradesAddUp ==
    /\ book.equity = StartEquity + book.closed
                     + SumOver([s \in Symbols |-> book.trade[s].pnl])
    /\ \A s \in Symbols : /\ book.trade[s].side = Sign(book.pos[s])
                          /\ book.trade[s].peak >= Abs(book.pos[s])

(* The position limit is checked against positions that lag one bar (they  *)
(* are refreshed after the strategies have run, engine.py:110) and leaves  *)
(* out pending orders; it is overshot by at most one order and by what     *)
(* limit orders executed.                                                  *)
OvershootBounded ==
    \A s \in Symbols : Abs(book.pos[s]) <= MaxPerSymbol + MaxPerOrder + passive[s]
=============================================================================
