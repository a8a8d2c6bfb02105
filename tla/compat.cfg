SPECIFICATION Spec
CONSTANTS
    Partitions = {"p"}
    LogEnd = 3
    MaxRecords = 2
    Modes = {"auto", "after", "before", "finalizer", "redeliver"}
    Batches = {TRUE, FALSE}
    FromBeginning = FALSE
    MaxFaults = 3
INVARIANTS FetchedNeverLost CommitsCoverSettled AtMostOnceDelivery
CHECK_DEADLOCK FALSE
