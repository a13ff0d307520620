SPECIFICATION BgFairSpec
CONSTANTS
    Tasks <- MCTasks
    TaskSlots = 3
    Polling <- MCPolling
    Removed <- MCTasks
    Suspendable <- MCTasks
    MaxNesting = 3
INVARIANTS
    SuspendFollowsTask
PROPERTIES
    TasksKeepRunning
