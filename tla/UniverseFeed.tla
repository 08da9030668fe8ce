----------------------------- MODULE UniverseFeed -----------------------------
(***************************************************************************)
(* From the exchange's mark prices to an entry decision, for one symbol:   *)
(* BinanceUniverseFeed (data/binance_universe_feed.py) with its backfill,  *)
(* stream and rolling windows, the BarAggregator that the runner's on_tick *)
(* drives, and what on_bar reads and evaluates.                            *)
(*                                                                         *)
(* A sample has the time it is stored under, ts, and the time its price is *)
(* of, at, which the code does not know: a kline is stored under its       *)
(* opening time with its closing price.  Symbols do not influence each     *)
(* other except through the bounded bus, which drops what it has no room   *)
(* for.                                                                    *)
(***************************************************************************)
EXTENDS Integers, Sequences

CONSTANTS
    Timeframe,      \* length of a bar and of a kline
    PriceWindow, FundingWindow,
    JumpPct,        \* price_jump_pct
    Prices, Rates,  \* mark prices and funding rates
    BaseBackoff, MaxBackoff,
    QueueBound,     \* room in the event bus
    FirstTime, MaxNow    \* bounds: the process starts and ends between them

ASSUME FeedAssumption ==
    /\ {Timeframe, PriceWindow, FundingWindow, BaseBackoff, QueueBound} \subseteq Nat \ {0}
    /\ {FirstTime, JumpPct} \subseteq Nat
    /\ Prices \subseteq Nat \ {0} /\ Rates \subseteq Int
    /\ MaxBackoff \in Nat /\ BaseBackoff <= MaxBackoff
    /\ MaxNow \in Nat /\ FirstTime <= MaxNow

VARIABLES
    now,
    link,      \* "backfill", then of the stream: "down", "up" or "asleep"
    backoff,   \* seconds that the next failure will sleep
    price,     \* _price_history of the symbol
    rate,      \* _funding_history of the symbol
    queue,     \* its events on the bus: ticks and bars
    bar,       \* the aggregator's open bar; start = -1 stands for none
    heard,     \* history: the ticks aggregated into the open bar
    closed,    \* history: the last bar completed, with its ticks
    decided    \* history: what the last decision was based on

vars == <<now, link, backoff, price, rate, queue, bar, heard, closed, decided>>

NoBar == [start |-> -1, open |-> 0, high |-> 0, low |-> 0, close |-> 0]

-----------------------------------------------------------------------------
(* binance_universe_feed.py                                                *)

(* The popleft loop of _append_trimmed: what is older than the cutoff      *)
(* leaves from the front.                                                  *)
FirstKept(h, cutoff) ==
    CHOOSE k \in 1 .. Len(h) + 1 :
        /\ \A j \in 1 .. k - 1 : h[j].ts < cutoff
        /\ k <= Len(h) => h[k].ts >= cutoff
PopOlder(h, cutoff) == SubSeq(h, FirstKept(h, cutoff), Len(h))

Sample(ts, at, v) == [ts |-> ts, at |-> at, v |-> v]

M_AppendThinned(h, ts, at, v, window) ==
    IF h # <<>> /\ ts < h[Len(h)].ts + Timeframe THEN h
    ELSE PopOlder(Append(h, Sample(ts, at, v)), ts - window)
AppendTrimmed(h, ts, at, v, window) == PopOlder(Append(h, Sample(ts, at, v)), ts - window)

(* Rows of a kline request: max(2, ceil(window / minute) + 1).             *)
KlineLimit(window) ==
    LET n == (window + Timeframe - 1) \div Timeframe + 1 IN IF n >= 2 THEN n ELSE 2

(* The rows of a request answered at t: they end with the kline that is    *)
(* still open, and have their closing prices.                              *)
Opened(i, n, t) == (t \div Timeframe - (n - i)) * Timeframe
Row(values, i, t) ==
    LET n == Len(values)
    IN  Sample(Opened(i, n, t), IF i = n THEN t ELSE Opened(i, n, t) + Timeframe, values[i])

(* They are appended and trimmed one by one.  Their times rise, and the    *)
(* cutoff with them, so that the last one decides what is left (checked by *)
(* MCUniverseFeed!TrimmedOnce).                                            *)
Seeded(values, window, t) ==
    LET n == Len(values)
    IN  PopOlder([i \in 1 .. n |-> Row(values, i, t)], Opened(n, n, t) - window)

M_AnyWindow(h, window) == Len(h) >= 2
(* A window counts once its samples span nine tenths of it.                *)
FullWindow(h, window) ==
    Len(h) >= 2 /\ (h[Len(h)].ts - h[1].ts) * 10 >= window * 9

Unknown == [known |-> FALSE, first |-> 0, last |-> 0]
Ends(h, window) ==
    IF FullWindow(h, window)
    THEN [known |-> TRUE, first |-> h[1].v, last |-> h[Len(h)].v] ELSE Unknown

PriceChange == Ends(price, PriceWindow)
FundingTrend == Ends(rate, FundingWindow)

-----------------------------------------------------------------------------
(* bar_aggregator.py                                                       *)

BucketStart(ts) == (ts \div Timeframe) * Timeframe

M_UpdateKeepsLow(b, p) == [b EXCEPT !.high = IF p > @ THEN p ELSE @, !.close = p]
Update(b, p) ==
    [b EXCEPT !.high = IF p > @ THEN p ELSE @, !.low = IF p < @ THEN p ELSE @, !.close = p]

NewBar(ts, p) == [start |-> BucketStart(ts), open |-> p, high |-> p, low |-> p, close |-> p]

Completes(b, ts) == b.start >= 0 /\ b.start # BucketStart(ts)

-----------------------------------------------------------------------------
(* evaluate_entry                                                          *)

EvaluateEntry(p, f) ==
    LET change == (p.last - p.first) * 100
        known == p.known /\ f.known
        jump == change >= JumpPct * p.first
        fall == ~jump /\ change <= -JumpPct * p.first
    IN  CASE known /\ jump /\ f.last < f.first -> "BUY"
          [] known /\ fall /\ f.first < 0 /\ f.last > f.first -> "SELL"
          [] OTHER -> "none"

-----------------------------------------------------------------------------
Init ==
    /\ now = FirstTime
    /\ link = "backfill"
    /\ backoff = BaseBackoff
    /\ price = <<>> /\ rate = <<>>
    /\ queue = <<>>
    /\ bar = NoBar
    /\ heard = <<>>
    /\ closed = [bar |-> NoBar, ticks |-> <<>>, before |-> -1]
    /\ decided = [side |-> "none"]

(* backfill_one: both requests are answered, by a new contract with fewer  *)
(* rows, or one fails and neither is used.  start() follows.               *)
Backfill(ps, rs) ==
    /\ link = "backfill"
    /\ price' = Seeded(ps, PriceWindow, now)
    /\ rate' = Seeded(rs, FundingWindow, now)
    /\ link' = "down"
    /\ UNCHANGED <<now, backoff, queue, bar, heard, closed, decided>>

BackfillFails ==
    /\ link = "backfill"
    /\ link' = "down"
    /\ UNCHANGED <<now, backoff, price, rate, queue, bar, heard, closed, decided>>

(* _stream                                                                 *)
Connect ==
    /\ link = "down"
    /\ link' = "up"
    /\ backoff' = BaseBackoff
    /\ UNCHANGED <<now, price, rate, queue, bar, heard, closed, decided>>

NextBackoff(b) == IF b * 2 <= MaxBackoff THEN b * 2 ELSE MaxBackoff

StreamFails ==
    /\ link \in {"down", "up"}
    /\ link' = "asleep"
    /\ backoff' = NextBackoff(backoff)
    /\ UNCHANGED <<now, price, rate, queue, bar, heard, closed, decided>>

WakeUp ==
    /\ link = "asleep"
    /\ link' = "down"
    /\ UNCHANGED <<now, backoff, price, rate, queue, bar, heard, closed, decided>>

Publish(q, e) == IF Len(q) < QueueBound THEN Append(q, e) ELSE q

(* _handle_message with an item for the symbol.  The stream sends about    *)
(* one message per unit of time.                                           *)
HandleMessage(p, r) ==
    /\ link = "up"
    /\ \A i \in DOMAIN price : price[i].ts < now
    /\ price' = AppendTrimmed(price, now, now, p, PriceWindow)
    /\ rate' = AppendTrimmed(rate, now, now, r, FundingWindow)
    /\ queue' = Publish(queue, [kind |-> "tick", ts |-> now, price |-> p])
    /\ UNCHANGED <<now, link, backoff, bar, heard, closed, decided>>

(* The runner's on_tick.                                                   *)
OnTick ==
    /\ queue # <<>> /\ Head(queue).kind = "tick"
    /\ LET e == Head(queue)
           done == Completes(bar, e.ts)
       IN  /\ bar' = Update(IF done \/ bar = NoBar THEN NewBar(e.ts, e.price) ELSE bar, e.price)
           /\ heard' = IF done THEN <<e>> ELSE Append(heard, e)
           /\ closed' = IF done THEN [bar |-> bar, ticks |-> heard, before |-> closed.bar.start]
                        ELSE closed
           /\ queue' = IF done THEN Publish(Tail(queue), [kind |-> "bar", ts |-> bar.start, price |-> bar.close])
                       ELSE Tail(queue)
    /\ UNCHANGED <<now, link, backoff, price, rate, decided>>

(* on_bar reads the windows as they are when the bar is dispatched.        *)
OnBar ==
    /\ queue # <<>> /\ Head(queue).kind = "bar"
    /\ queue' = Tail(queue)
    /\ LET side == EvaluateEntry(PriceChange, FundingTrend)
       IN  decided' = IF side = "none" THEN [side |-> "none"]
                      ELSE [side |-> side, bar |-> Head(queue).ts, to |-> price[Len(price)].at]
    /\ UNCHANGED <<now, link, backoff, price, rate, bar, heard, closed>>

Clock ==
    /\ now < MaxNow
    /\ now' = now + 1
    /\ UNCHANGED <<link, backoff, price, rate, queue, bar, heard, closed, decided>>

Rows(S, window) == UNION {[1 .. n -> S] : n \in 0 .. KlineLimit(window)}

Next ==
    \/ \E ps \in Rows(Prices, PriceWindow), rs \in Rows(Rates, FundingWindow) : Backfill(ps, rs)
    \/ \E p \in Prices, r \in Rates : HandleMessage(p, r)
    \/ BackfillFails \/ Connect \/ StreamFails \/ WakeUp
    \/ OnTick \/ OnBar \/ Clock

Spec == Init /\ [][Next]_vars

-----------------------------------------------------------------------------
(* Samples may be dated before the process, and before the epoch of the    *)
(* model: a backfill reaches back.                                         *)
Samples(S) == [ts : Int, at : Int, v : S]
TickEvents == [kind : {"tick"}, ts : FirstTime .. MaxNow, price : Prices]
BarEvents == [kind : {"bar"}, ts : 0 .. MaxNow, price : Prices]
Bars == [start : 0 .. MaxNow, open : Prices, high : Prices, low : Prices, close : Prices]
Decisions == [side : {"none"}] \cup [side : {"BUY", "SELL"}, bar : 0 .. MaxNow, to : Int]

(* Type invariant of the feed, the aggregator and the decisions.           *)
TypeOK ==
    /\ now \in FirstTime .. MaxNow
    /\ link \in {"backfill", "down", "up", "asleep"}
    /\ backoff \in BaseBackoff .. MaxBackoff
    /\ price \in Seq(Samples(Prices))
    /\ rate \in Seq(Samples(Rates))
    /\ queue \in Seq(TickEvents \cup BarEvents) /\ Len(queue) <= QueueBound
    /\ bar \in Bars \cup {NoBar}
    /\ heard \in Seq(TickEvents)
    /\ closed \in [bar : Bars \cup {NoBar}, ticks : Seq(TickEvents), before : -1 .. MaxNow]
    /\ decided \in Decisions

(* A price change is never taken over partial or stale data                *)
(* (binance_universe_feed.py:147-149), also after a backfill, a gap of any *)
(* length and several reconnects: the prices compared are in order, at     *)
(* most one window apart and at least nine tenths of it, less the one      *)
(* kline by which the backfill misdates its samples.                       *)
SpanHonest ==
    PriceChange.known =>
        LET span == price[Len(price)].at - price[1].at
        IN  /\ span <= PriceWindow
            /\ span * 10 >= PriceWindow * 9 - Timeframe * 10
            /\ \A i \in 1 .. Len(price) - 1 :
                   price[i].ts <= price[i + 1].ts /\ price[i].at <= price[i + 1].at

(* An entry is decided on prices that reach beyond the end of the bar that *)
(* triggers it, however long the bar waited on the bus and whatever was    *)
(* dropped: the sample is stored before its tick is published              *)
(* (binance_universe_feed.py:200-204), and the tick completes the bar.     *)
DecisionFresh ==
    decided.side # "none" => decided.to >= decided.bar + Timeframe

(* Completed bars come in increasing order, and each tells of exactly the  *)
(* ticks dispatched within its bucket: none is counted twice, moved to     *)
(* another bar or lost, through gaps and drops.                            *)
BarsTrue ==
    LET b == closed.bar
        ps == {closed.ticks[i].price : i \in DOMAIN closed.ticks}
    IN  closed.ticks # <<>> =>
            /\ closed.before < b.start
            /\ \A i \in DOMAIN closed.ticks : closed.ticks[i].ts \in b.start .. b.start + Timeframe - 1
            /\ b.open = closed.ticks[1].price /\ b.close = closed.ticks[Len(closed.ticks)].price
            /\ b.high \in ps /\ b.low \in ps
            /\ \A p \in ps : b.low <= p /\ p <= b.high
=============================================================================
