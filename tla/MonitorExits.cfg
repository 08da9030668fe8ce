SPECIFICATION Spec
CONSTANTS
    btc = btc
    eth = eth
    Symbols = {btc}
    MaxLives = 2
    Sides <- BothSides
    Rois <- EveryExit
    LossLimits = {10, 20}
    ArmPct = 30
    BasePct = 20
    StepPct = 2
    StepIncrementPct = 5
    HardCapPct = 80
    Hazards = {"audit", "refuse", "answer", "cancel", "native", "flatten"}
INVARIANT StopLossFrozen
INVARIANT HeldWithinExits
INVARIANT PeakIsOwn
INVARIANT NoOrphanStop
