SPECIFICATION Spec
CONSTANTS
    btc = btc
    eth = eth
    Symbols = {btc}
    MaxLives = 1
    Sides = {1}
    Rois <- LossAndGain
    LossLimits = {20}
    ArmPct = 30
    BasePct = 20
    StepPct = 2
    StepIncrementPct = 5
    HardCapPct = 80
    Hazards = {"native"}
INVARIANT OnlyReduces
