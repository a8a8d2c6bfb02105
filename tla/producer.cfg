SPECIFICATION LiveSpec
CONSTANTS
    c1 = c1
    c2 = c2
    k1 = k1
    k2 = k2
    all = all
    Calls <- MCCalls
    Closers <- MCClosers
    Acks <- MCOneAck
    ConfiguredAcks = all
    NoRefresh = NoRefresh
    Messages = 1
    Policies = {"flush", "await", "disconnect"}
    NeedsMetadata = TRUE
    MaxFaults = 1
INVARIANTS DriverNotInUse OkIsTruthful
PROPERTY ProducerCompletes
CHECK_DEADLOCK FALSE
