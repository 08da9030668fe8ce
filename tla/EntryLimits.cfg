SPECIFICATION FairSpec
CONSTANTS
    btc = btc
    eth = eth
    sol = sol
    Symbols = {btc, eth, sol}
    MaxOpen = 2
    TTL = 1
    QueueBound = 2
    MaxUnits = 2
    Delays = {}
INVARIANT WithinMaxOpen
INVARIANT NoDoubleEntry
INVARIANT AtMostOneSlips
PROPERTY SlotsReturn
