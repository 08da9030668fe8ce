SPECIFICATION FairSpec
CONSTANTS
    btc = btc
    eth = eth
    Symbols = {btc, eth}
    MaxLives = 2
    Sides <- BothSides
    Rois <- Loss
    LossLimits = {20}
    ArmPct = 30
    BasePct = 20
    StepPct = 2
    StepIncrementPct = 5
    HardCapPct = 80
    Hazards = {"crash", "equity", "refuse", "audit"}
PROPERTY ClosingCompletes
INVARIANT OnlyReduces
