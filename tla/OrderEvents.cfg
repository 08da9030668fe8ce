SPECIFICATION FairSpec
CONSTANTS
    target = target
    stop = stop
    Orders <- MCOrders
    Oco <- MCOco
    Lots = 2
    Hazards = {}
INVARIANTS TerminalIsOver FillsAgree
PROPERTIES TerminalStays OcoResolves Settles
CHECK_DEADLOCK FALSE
