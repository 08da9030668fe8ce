SPECIFICATION Spec
CONSTANTS
    live = live
    testnet = testnet
    Envs = {live, testnet}
    EquityOf <- TwoAccounts
    MaxDay = 1
    MaxDrawdownPct = 20
    DiskFaults = {"crash", "full"}
INVARIANT BaselineIsOwn
