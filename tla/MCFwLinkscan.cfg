SPECIFICATION FairSpec
CONSTANTS
    Ports <- MCPorts
    Configs <- MCConfigs
    MayTimeout = TRUE
    MaxInbox = 2
    MaxOutbox = 2
    MaxChanges = 4
INVARIANTS
    CacheCurrent
    OwnPorts
PROPERTIES
    EventuallyCurrent
