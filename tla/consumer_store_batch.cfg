SPECIFICATION Spec
CONSTANTS
    p1 = p1
    p2 = p2
    Partitions <- MCPartitions
    LogEnd = 2
    WaveSize = 2
    Concurrency = 2
    CommitMode = "store"
    BatchMode = TRUE
    Cooperative = FALSE
    AsyncCallbacks = FALSE
    MaxGeneration = 3
    MaxFaults = 2
SYMMETRY Symmetry
CHECK_DEADLOCK FALSE

PROPERTIES CommitsMoveForward ImplementsGroupProgress
