SPECIFICATION Spec
CONSTANTS
    btc = btc
    eth = eth
    Symbols = {btc, eth}
    Mult <- MCMult
    Prices = {1, 2}
    Equities = {0, 3}
    Sizes = {2, 3}
    MaxPerOrder = 2
    MaxPerSymbol = 2
    MaxNotional = 4
    MaxGross = 2
    InitialBuffer = 25
    MaintenanceBuffer = 10
    Leverage = 3
    MaxLeverageOf <- MCMaxLeverageOf
    MarginTypeFails = FALSE
    Second = 1
    Minute = 3
    MaxPerSecond = 1
    MaxPerMinute = 2
    MaxNow = 4
    Percents = {20, 60, 150, 300}
    Budgets = {7, 50, 100}
    Notionals = {1, 9, 250}
INVARIANTS RateBound WithinSymbolLimit SetUpAsRemembered
PROPERTIES WithinLeverage SizesWithinIntent
