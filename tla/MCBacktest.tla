------------------------------ MODULE MCBacktest ------------------------------
(* Two symbols over two days; the second symbol misses some bars.          *)
EXTENDS Backtest

MCBars == {[ts |-> t, day |-> t \div 3, symbol |-> s] : t \in 1 .. 4, s \in {1}}
              \cup {[ts |-> t, day |-> t \div 3, symbol |-> 2] : t \in {1, 3}}
MCMult == [s \in Symbols |-> s]
MCKinds == {[type |-> "MARKET", tif |-> "DAY"], [type |-> "LIMIT", tif |-> "IOC"],
            [type |-> "STOP_LIMIT", tif |-> "DAY"]}
=============================================================================
