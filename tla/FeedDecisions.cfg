SPECIFICATION Spec
CONSTANTS
    Timeframe = 2
    PriceWindow = 4
    FundingWindow = 4
    JumpPct = 5
    Prices = {100, 110}
    Rates <- MCRates
    BaseBackoff = 1
    MaxBackoff = 3
    QueueBound = 2
    FirstTime = 7
    MaxNow = 12
INVARIANTS SpanHonest DecisionFresh BarsTrue
CHECK_DEADLOCK FALSE
