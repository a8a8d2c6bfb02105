SPECIFICATION Spec
CONSTANTS
    p1 = p1
    p2 = p2
    Partitions <- MCPartitions
    LogEnd = 3
    WaveSize = 2
    Concurrency = 2
    CommitMode = "before"
    BatchMode = FALSE
    Cooperative = TRUE
    AsyncCallbacks = FALSE
    MaxGeneration = 2
    MaxFaults = 2
SYMMETRY Symmetry
CHECK_DEADLOCK FALSE
INVARIANTS AtMostOnce NoSilentLoss
