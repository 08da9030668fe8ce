SPECIFICATION FairSpec
CONSTANTS
    live = live
    testnet = testnet
    Envs = {live}
    EquityOf <- OneAccount
    MaxDay = 2
    MaxDrawdownPct = 20
    DiskFaults = {}
INVARIANT HaltStands
INVARIANT WithinBudget
PROPERTY NewDayStartsNewSession
