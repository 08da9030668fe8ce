SPECIFICATION ReplaySpec
CONSTANTS
    Bars <- MCBars
    Symbols = {1, 2}
    Mult <- MCMult
    Levels = {360, 1080}
    Cost = 360
    Commission = 1
    StartEquity = 10000
    MaxDrawdownPct = 30
    Kinds <- MCKinds
    MaxPerOrder = 2
    MaxPerSymbol = 2
    Available = 1
    MaxOrders = 3
    CrossSymbol = FALSE
INVARIANTS NoLookahead CashIdentity TradesAddUp OvershootBounded
CHECK_DEADLOCK FALSE
