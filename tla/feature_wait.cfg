SPECIFICATION LiveSpec
CONSTANTS
    a1 = a1
    a2 = a2
    k1 = k1
    w1 = w1
    Attributes <- MCAttributes
    DefaultAttributes = a1
    Keys <- MCKeys
    EdgeStates <- MCOneState
    Waiters <- MCWaiters
    Absent = Absent
    MaxRevision = 2
    MaxFaults = 1
INVARIANT WaitOkMeansCurrent
PROPERTY WaitsEnd
CHECK_DEADLOCK FALSE
