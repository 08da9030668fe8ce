SPECIFICATION FairSpec
CONSTANTS
    MaxSize = 2
    Handlers = 2
    MaxCalls = 5
    Raises = TRUE
CHECK_DEADLOCK FALSE
PROPERTY OrderedSpec
PROPERTY JoinSettles
PROPERTY StopCutsNoHandler
PROPERTY Delivered
