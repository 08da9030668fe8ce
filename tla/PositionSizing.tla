---------------------------- MODULE PositionSizing ----------------------------
(***************************************************************************)
(* The sizing functions: kelly_position_size and                           *)
(* target_volatility_position_size of risk/position_sizing.py, and         *)
(* compute_lots of strategies/funding_momentum_scanner.py.  Ratios of the  *)
(* code are percentages here, so that floor of a quotient is \div.         *)
(***************************************************************************)
EXTENDS Integers

CONSTANTS
    Percents,    \* percentages: probabilities, caps, volatilities, leverages
    Budgets,     \* equities and order notionals
    Notionals    \* price times multiplier of one contract

ASSUME SizingAssumption ==
    /\ Percents \subseteq Nat \ {0}
    /\ Budgets \subseteq Nat \ {0} /\ Notionals \subseteq Nat \ {0}

Lesser(a, b) == IF a <= b THEN a ELSE b
Greater(a, b) == IF a >= b THEN a ELSE b

(* f* = p - (1 - p) / b with p and b in percent: Edge / (100 * b).         *)
Edge(p, b) == Greater(p * b - 100 * (100 - p), 0)

(* Fraction of the equity, as a pair of numerator and denominator.         *)
M_KellyUncapped(p, b, cap, lev) == <<Edge(p, b) * cap, 10000 * b>>
KellyFraction(p, b, cap, lev) ==
    IF Edge(p, b) * cap <= lev * 100 * b THEN <<Edge(p, b) * cap, 10000 * b>> ELSE <<lev, 100>>

KellyPositionSize(p, b, capital, unit, cap, lev) ==
    LET f == KellyFraction(p, b, cap, lev) IN (f[1] * capital) \div (f[2] * unit)

TargetVolatilitySize(capital, target, vol, unit, lev) ==
    Lesser((capital * target) \div (unit * vol), (capital * lev) \div (100 * unit))

ComputeLots(notional, unit) == notional \div unit

-----------------------------------------------------------------------------
(* What the limits allow: the capped edge and the leverage for Kelly, the  *)
(* dollar volatility and the leverage for target volatility.               *)
WithinLeverageOf(n, e, u, lev) == n * u * 100 <= lev * e
KellyAllows(n, p, b, e, u, cap, lev) ==
    /\ WithinLeverageOf(n, e, u, lev)
    /\ n = 0 \/ n * u * 10000 * b <= (p * b - 100 * (100 - p)) * cap * e
VolatilityAllows(n, e, target, vol, u, lev) ==
    WithinLeverageOf(n, e, u, lev) /\ n * u * vol <= e * target

(* Every size is the largest whole number of contracts that exceeds none   *)
(* of its limits: "rounded down (never up)" (position_sizing.py:3).        *)
SizesAreLargest ==
    \A e \in Budgets, u \in Notionals :
        /\ LET n == ComputeLots(e, u) IN n >= 0 /\ n * u <= e /\ (n + 1) * u > e
        /\ \A p \in Percents, b \in Percents, cap \in Percents, lev \in Percents :
               /\ p < 100 =>
                    LET n == KellyPositionSize(p, b, e, u, cap, lev)
                    IN  /\ n >= 0 /\ KellyAllows(n, p, b, e, u, cap, lev)
                        /\ ~KellyAllows(n + 1, p, b, e, u, cap, lev)
               /\ LET n == TargetVolatilitySize(e, p, b, u, lev)
                  IN  /\ n >= 0 /\ VolatilityAllows(n, e, p, b, u, lev)
                      /\ ~VolatilityAllows(n + 1, e, p, b, u, lev)
=============================================================================
