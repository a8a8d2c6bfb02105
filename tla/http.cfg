SPECIFICATION Spec
CONSTANTS
    Configs <- MCServerConfigs
    Requests <- MCHTTPRequests
    Callers = {1, 2}
    MaxServers = 2
INVARIANT ProbesAreOwned
CHECK_DEADLOCK FALSE
