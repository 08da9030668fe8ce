SPECIFICATION Spec
CONSTANTS
    c1 = c1
    c2 = c2
    Conns = {c1, c2}
    Prices = {8}
    MaxHeld = 1
    Mult = 3
    Fee = 1
    MaxRecentAudit = 4
    MaxRecentTrades = 2
    TabAudit = 3
    TabTrades = 2
    DaysBack = 1
    DiskFaults = {"torn"}
    MaxFills = 2
    MaxNotes = 1
    MaxDay = 1
    MaxMishaps = 2
SYMMETRY Interchangeable
INVARIANTS NothingMissed TradesOnce NothingForgotten TrackerFollows
PROPERTIES TrackerAddsUp
CHECK_DEADLOCK FALSE
