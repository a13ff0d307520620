SPECIFICATION FairSpec
CONSTANTS
    Timers <- MCTimers
    Interval <- MCInterval
    Slots = 3
    MaxAge = 2
    Nested <- MCNested
    Removes <- MCRemoves
    MaxDepth = 3
INVARIANTS
    NoReentrance
    MarkIsRunning
PROPERTIES
    NeverEarly
    KeepsRunning
