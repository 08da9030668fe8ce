------------------------------ MODULE Contracts ------------------------------
(***************************************************************************)
(* What the live gate (RiskEngine) and the replay (Backtest) have in       *)
(* common: the contracts and the limits on their number in settings.risk.  *)
(***************************************************************************)
EXTENDS Integers, FiniteSets, FiniteSetsExt

CONSTANTS
    Symbols,        \* the universe
    Mult,           \* contract multipliers
    MaxPerOrder,    \* max_contracts_per_order
    MaxPerSymbol    \* max_contracts_per_symbol

ASSUME ContractsAssumption ==
    /\ IsFiniteSet(Symbols)
    /\ Mult \in [Symbols -> Nat \ {0}]
    /\ {MaxPerOrder, MaxPerSymbol} \subseteq Nat

Abs(x) == IF x < 0 THEN -x ELSE x
SumOver(f) == MapThenSumSet(LAMBDA s : f[s], Symbols)
=============================================================================
