SPECIFICATION MCSpec
CONSTANTS
    MaxOwners = 4
    Replaceable = TRUE
    HealthCallers = {"p", "q"}
    Dependencies = {"redis", "mongo"}
    SkippedChecks = {"mongo"}
    MaxLoops = 2
    MaxStops = 2
    Hooks = {"http", "kafka", "db"}
    HookNames = {"http", "h", "kafka", "db", "sql"}
    NamesOfHook <- MCNamesOfHook
    DefaultHooks = {"http"}
    HookRequests <- MCHookRequests
    MaxInits = 3
    ConfiguredPools <- MCConfiguredPools
    GRPCCallers = {1, 2, 3}
    RPCs = {"r"}
    HandlerChains <- MCHandlerChains
    NextCalls = {0, 1, 2}
    MaxStarts = 2
    Peers = {1, 2}
    ThisPeer = 1
    CacheKeys = {"k"}
    GroupNames = {"g"}
    DiscoveryLoops = {"l", "m"}
    MaxPeerServers = 3
    MaxGroups = 3
    MaxVersion = 3
    RedisNodes = {"a", "b"}
    Slots = {"s1", "s2"}
    Seeds <- MCSeeds
    ClusterCommands <- MCClusterCommands
    MaxRedirects = 2
    MaxMoves = 3
    Attributes = {"x", "y"}
    DefaultAttributes = "x"
    Builders = {1, 2}
    KeySetters = {"s"}
    MaxRevision = 3
    MeterProviders = {"a", "b"}
    Instruments = {"i"}
    Observables = {"o"}
    Inline = {"w"}
    Callbacks = {"c", "d"}
    MaxSwitches = 2
    Fetchers = {"f", "g"}
    MaxFetches = 4
    MaxCrashes = 2
    TracingThreads = {1, 2}
    TracingPrograms <- MCTracingPrograms
    ReplaceableGlobals = {"provider", "propagator"}
    MaxTracerOwners = 3
INVARIANTS NoReleasedDefault HealthStopsHold StartsAreUndone GRPCAnswersHold  ClusterIsHonest ContextIsCurrent OneProviderPerCallback ContractsSurvive GlobalTracerIsLive RolloutsAreSticky 
PROPERTIES ContractsStay
CHECK_DEADLOCK FALSE
