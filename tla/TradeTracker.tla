----------------------------- MODULE TradeTracker -----------------------------
(***************************************************************************)
(* TradeTracker.on_execution (execution/trade_tracker.py): round trips     *)
(* from the stream of fills of one symbol.  A fill has a signed quantity q *)
(* and a price; a trade has the signed quantity held, the average entry,   *)
(* the quantity closed so far and the profit realized so far.              *)
(***************************************************************************)
EXTENDS Integers, Sequences, SequencesExt

CONSTANTS
    Mult,   \* real units per lot, contract_multiplier_lookup
    Fee     \* commission of a fill

ASSUME TrackerAssumption == Mult \in Nat \ {0} /\ Fee \in Nat

Size(x) == IF x < 0 THEN -x ELSE x
NoTrade == [held |-> 0, avg |-> 0, exited |-> 0, pnl |-> 0]

OpenTrade(q, price) == [held |-> q, avg |-> price, exited |-> 0, pnl |-> -Fee]

M_ScaleInKeepsPrice(t, q, price) == [t EXCEPT !.held = @ + q, !.pnl = @ - Fee]
(* A fill on the same side extends the average entry price.                *)
ScaleIn(t, q, price) ==
    [t EXCEPT !.held = @ + q, !.pnl = @ - Fee,
              !.avg = (t.avg * Size(t.held) + price * Size(q)) \div Size(t.held + q)]

(* A fill on the other side closes no more than is held; the rest of a     *)
(* fill that is larger is dropped.                                         *)
CloseSome(t, q, price) ==
    LET closing == IF Size(q) <= Size(t.held) THEN Size(q) ELSE Size(t.held)
        side == IF t.held > 0 THEN 1 ELSE -1
    IN  [held |-> t.held - side * closing, avg |-> t.avg, exited |-> t.exited + closing,
         pnl |-> t.pnl + side * (price - t.avg) * closing * Mult - Fee]

(* The trade after a fill; with held = 0 it is the record of a closed one. *)
OnExecution(t, q, price) ==
    IF t.held = 0 THEN OpenTrade(q, price)
    ELSE IF q > 0 <=> t.held > 0 THEN ScaleIn(t, q, price)
    ELSE CloseSome(t, q, price)

-----------------------------------------------------------------------------
(* All fills of a sequence: the trade, what is recorded of closed trades,  *)
(* and, independently of the tracker, position and money.                  *)
Replay(fills) ==
    FoldLeft(LAMBDA a, f :
                 LET t == OnExecution(a.trade, f.q, f.price)
                 IN  [trade |-> IF t.held = 0 THEN NoTrade ELSE t,
                      pnl   |-> IF t.held = 0 THEN a.pnl + t.pnl ELSE a.pnl,
                      lots  |-> IF t.held = 0 THEN a.lots + t.exited ELSE a.lots,
                      pos   |-> a.pos + f.q,
                      sold  |-> IF a.pos * f.q < 0 THEN a.sold + Size(f.q) ELSE a.sold,
                      cash  |-> a.cash - f.q * f.price * Mult - Fee,
                      legal |-> a.legal /\ Size(a.pos + f.q) <= 2
                                /\ (a.pos * f.q >= 0 \/ Size(f.q) <= Size(a.pos))],
             [trade |-> NoTrade, pnl |-> 0, lots |-> 0, pos |-> 0, sold |-> 0, cash |-> 0,
              legal |-> TRUE], fills)

(* For every sequence of fills that scale in, reduce and close, on either  *)
(* side and without crossing zero (trade_tracker.py:6-11): profits of the  *)
(* records and of the open trade are the money paid and received plus the  *)
(* position at its average entry, and the records hold every lot closed.   *)
FillsAddUp ==
    \A n \in 0 .. 4 : \A fills \in [1 .. n -> [q : {-2, -1, 1, 2}, price : {8, 16}]] :
        LET r == Replay(fills)
        IN  r.legal => /\ r.trade.held = r.pos
                       /\ r.pnl + r.trade.pnl = r.cash + r.pos * r.trade.avg * Mult
                       /\ r.lots + r.trade.exited = r.sold
=============================================================================
