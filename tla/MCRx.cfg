CONSTANTS
    snoop = snoop
    monitor = monitor
    watcher = watcher
    Callbacks <- MCCallbacks
    Priority <- MCPriority
    Owners <- MCOwners
    Slots = 3
    Bufs = {b1}
SPECIFICATION RxFairSpec
INVARIANTS
    BuffersKept
    InPriorityOrder
PROPERTIES
    KeepsReceiving
