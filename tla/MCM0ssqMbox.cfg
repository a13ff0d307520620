SPECIFICATION FairSpec
CONSTANTS
    Ids <- MCIds
    DataWords <- MCDataWords
    RespWords <- MCRespWords
    MemSize = 48
    MaxRxMsgs = 2
INVARIANTS
    HandledInOrder
PROPERTIES
    SyncResult
    OwnWords
    EventuallyHandled
CHECK_DEADLOCK FALSE
