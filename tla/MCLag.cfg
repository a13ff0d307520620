SPECIFICATION LagFairSpec
CONSTANTS
    NumPorts = 2
    LoopPorts <- MCLoopPorts
    Handlers <- MCHandlers
    Slots = 2
    NULL = NULL
    NumLags = 1
    MaxMembers = 8
    LagHandler = "lag"
INVARIANTS
    StatusAgrees
    ToldCurrent
    NeverToldTwice
    HwWithinConfig
    LagFollows
PROPERTIES
    EventuallyTold
