SPECIFICATION IgmpFairSpec
CONSTANTS
    Groups <- MCGroups
    Macs <- MCMacs
    Mac <- MCMac
    Ports <- MCPorts
    V2Ports <- MCV2Ports
    RouterPorts <- MCRouterPorts
    NumGroups = 2
    MaxLeaves = 2
    LeaveTimeout = 1
    MaxTimeout = 2
    Membership = 3
    RouterInterval = 2
    MaxNodes = 2
    RxSlots = 1
    NOGROUP = NOGROUP
INVARIANTS
    OnePioneer
    ForwardsMembers
    Served
PROPERTIES
    AgesOut
