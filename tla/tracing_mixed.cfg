SPECIFICATION Spec
CONSTANTS
    Threads <- MCThreads
    Programs <- MCPrograms
    Replaceable = {}
    MaxOwners = 3
INVARIANT NoClosedProvider
CHECK_DEADLOCK FALSE
