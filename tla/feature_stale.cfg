SPECIFICATION Spec
CONSTANTS
    a1 = a1
    a2 = a2
    k1 = k1
    w1 = w1
    Attributes <- MCAttributes
    DefaultAttributes = a1
    Keys <- MCKeys
    EdgeStates <- MCEdgeStates
    Waiters = {}
    Absent = Absent
    MaxRevision = 3
    MaxFaults = 3
INVARIANTS ReadyMeansCurrent StaleIsBounded
CHECK_DEADLOCK FALSE
