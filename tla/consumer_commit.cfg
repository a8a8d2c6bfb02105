SPECIFICATION LiveSpec
CONSTANTS
    p1 = p1
    p2 = p2
    Partitions <- MCPartitions
    LogEnd = 2
    WaveSize = 2
    Concurrency = 2
    CommitMode = "commit"
    BatchMode = FALSE
    Cooperative = TRUE
    AsyncCallbacks = TRUE
    MaxGeneration = 2
    MaxFaults = 2
INVARIANTS TypeOK NoSkip NothingPassedOver PendingOnlyOwned
PROPERTY EventuallyCommitted
CHECK_DEADLOCK FALSE
