CONSTANTS
    Sync = {s1, s2}
    Async = {a1}
    MaxSpkts = 3
SPECIFICATION FairSpec
INVARIANTS
    OwnStatus
    CarriedOnce
    SpktsAccounted
PROPERTY
    SyncReturnsAlone
