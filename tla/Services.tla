------------------------------ MODULE Services ------------------------------
(* The small parts of a service that run beside the message, migration,      *)
(* redis and feature clients.  They share no state, so a behaviour is one of *)
(* one part: ServicesInit chooses it and only its actions are taken; the     *)
(* variables of the others hold NotUsed.  Every part is an instance of its   *)
(* own module, with its variables and constants under the same names or,     *)
(* where two parts agree on one, under a name that says whose it is.         *)
EXTENDS OwnerChain, Sequences

CONSTANTS
    HealthCallers, Dependencies, SkippedChecks, MaxLoops, MaxStops,
    Hooks, HookNames, NamesOfHook, DefaultHooks, HookRequests,
    MaxInits,
    ConfiguredPools,
    GRPCCallers, RPCs, HandlerChains, NextCalls, MaxStarts,
    Peers, ThisPeer, CacheKeys, GroupNames, DiscoveryLoops, MaxPeerServers,
    MaxGroups, MaxVersion,
    RedisNodes, Slots, Seeds, ClusterCommands, MaxRedirects, MaxMoves,
    Attributes, DefaultAttributes, Builders, KeySetters, MaxRevision,
    MeterProviders, Instruments, Observables, Inline, Callbacks, MaxSwitches,
    Fetchers, MaxFetches, MaxCrashes

VARIABLES
    part,
    checks, generation, healthStarted, loop, healthStopped, dones, startMu,
    healthCall, file, cleanups, requestGen, quiet,
    ordered, byName, registryPhase, candidates, extra, pending,
    registryStarted, registryFailed, calls,
    mode, doing, fitStage, fields, undo, fitLive, defaults, retired, inits,
    driver, dbPc, attempt, job, results, errs, opened, installed,
    dbRegistered, verified,
    advanced, proto, grpcRegistered, healthy, running, stopping, grpcStopped,
    done, forced, transport, broken, drain, starts, grpcCall, rpc,
    pool, asked, discovery, groups, objects, reader, source, servers, threads,
    server, cacheStopped, closed, begun,
    owner, importing, moves, clusterKind, clusterPc, seed, clusterTodo,
    nodes, slots, first, open, clusterStopped, closing, signalled, cmds,
    clusterStage, clusterTarget, redirects, ran, result,
    contextKind, attributes, revision, built, snapshot, building, key, flags,
    refreshing, contextStopped, ready,
    routerTarget, route, routerPhase, routerTodo, switches, registration,
    routerCurrent, listed, routerLive, routerRefused, routerFailed,
    disk, past, fetch, lock, fetches, crashes

healthState == <<checks, generation, healthStarted, loop, healthStopped,
                 dones, startMu, healthCall, file, cleanups, requestGen,
                 quiet>>
registryState == <<ordered, byName, registryPhase, candidates, extra, pending,
                   registryStarted, registryFailed, calls>>
fitState == <<mode, doing, fitStage, fields, undo, fitLive, defaults,
              retired, inits>>
databasesState == <<driver, dbPc, attempt, job, results, errs, opened,
                    installed, dbRegistered, verified>>
grpcState == <<advanced, proto, grpcRegistered, healthy, running, stopping,
               grpcStopped, done, forced, transport, broken, drain, starts,
               grpcCall, rpc>>
cacheState == <<pool, asked, discovery, groups, objects, reader, source,
                servers, threads, server, cacheStopped, closed, begun>>
clusterState == <<owner, importing, moves, clusterKind, clusterPc, seed,
                  clusterTodo, nodes, slots, first, open, clusterStopped,
                  closing, signalled, cmds, clusterStage, clusterTarget,
                  redirects, ran, result>>
contextState == <<contextKind, attributes, revision, built, snapshot,
                  building, key, flags, refreshing, contextStopped, ready>>
routerState == <<routerTarget, route, routerPhase, routerTodo, switches,
                 registration, routerCurrent, listed, routerLive, routerRefused,
                 routerFailed>>
protosState == <<disk, past, fetch, lock, fetches, crashes>>

Health == INSTANCE HealthChecker WITH
    Callers <- HealthCallers, Deps <- Dependencies, Skipped <- SkippedChecks,
    MaxGen <- MaxStops, started <- healthStarted, stopped <- healthStopped,
    call <- healthCall

Registry == INSTANCE InstrumentationRegistry WITH
    Items <- Hooks, Names <- HookNames, NamesOf <- NamesOfHook,
    Defaults <- DefaultHooks, Requests <- HookRequests,
    phase <- registryPhase, started <- registryStarted,
    failed <- registryFailed

Fit == INSTANCE FitLifecycle WITH
    stage <- fitStage, live <- fitLive

Databases == INSTANCE DatabaseClients WITH
    Configured <- ConfiguredPools, pc <- dbPc, registered <- dbRegistered

GRPC == INSTANCE GRPCServer WITH
    Callers <- GRPCCallers, Chains <- HandlerChains,
    registered <- grpcRegistered, stopped <- grpcStopped, call <- grpcCall

Cache == INSTANCE PeerCache WITH
    Nodes <- Peers, Self <- ThisPeer, Keys <- CacheKeys, Names <- GroupNames,
    Loops <- DiscoveryLoops, MaxServers <- MaxPeerServers,
    stopped <- cacheStopped

Cluster == INSTANCE ClusterTransport WITH
    Nodes <- RedisNodes, Commands <- ClusterCommands, kind <- clusterKind,
    pc <- clusterPc, todo <- clusterTodo, stopped <- clusterStopped,
    stage <- clusterStage, target <- clusterTarget

Context == INSTANCE EvaluationContext WITH
    Defaults <- DefaultAttributes, Setters <- KeySetters,
    kind <- contextKind, stopped <- contextStopped

Router == INSTANCE MetricRouter WITH
    Targets <- MeterProviders, target <- routerTarget, phase <- routerPhase,
    todo <- routerTodo, current <- routerCurrent, live <- routerLive,
    refused <- routerRefused, failed <- routerFailed

Protos == INSTANCE ProtoFetch

(* Bounds are numbers, and the name that stands for "no process holds the     *)
(* lock" is no process.                                                       *)
ASSUME LoopBound == MaxLoops \in Nat
ASSUME FetcherNames == Protos!Nobody \notin Fetchers

(* An observable's own callback is no registration of RegisterCallback.      *)
ASSUME InlineApart == Inline \cap Callbacks = {}

(* A chain that a gRPC service registers has authorizations, middleware and   *)
(* handlers in any order; each calls next a number of times.                  *)
ASSUME ChainKinds ==
    /\ HandlerChains \subseteq Seq({"authorize", "middleware", "handler"})
    /\ NextCalls \subseteq Nat

(* A hook has a canonical name and perhaps aliases; a request lists names in  *)
(* order and has a set of configured ones.                                    *)
ASSUME HookTypes ==
    /\ NamesOfHook \in [Hooks -> Seq(HookNames) \ {<<>>}]
    /\ HookRequests \subseteq [extra : Seq(HookNames), config : SUBSET HookNames]
    /\ Registry!Unregistered \notin Hooks

(* What a client submits to a Redis cluster is a sequence of commands, each   *)
(* with the slots of its keys.                                                *)
ASSUME BatchesAreSequences ==
    ClusterCommands \subseteq
        Seq([rule : {"wide", "node", "allKeys", "firstKey"}, keys : Seq(Slots)])

-----------------------------------------------------------------------------
NotUsed == "not used"
HealthUnused ==
    checks = NotUsed /\ generation = NotUsed /\ healthStarted = NotUsed /\
    loop = NotUsed /\ healthStopped = NotUsed /\ dones = NotUsed /\ startMu =
    NotUsed /\ healthCall = NotUsed /\ file = NotUsed /\ cleanups = NotUsed
    /\ requestGen = NotUsed /\ quiet = NotUsed
RegistryUnused ==
    ordered = NotUsed /\ byName = NotUsed /\ registryPhase = NotUsed /\
    candidates = NotUsed /\ extra = NotUsed /\ pending = NotUsed /\
    registryStarted = NotUsed /\ registryFailed = NotUsed /\ calls = NotUsed
FitUnused ==
    mode = NotUsed /\ doing = NotUsed /\ fitStage = NotUsed /\ fields =
    NotUsed /\ undo = NotUsed /\ fitLive = NotUsed /\ defaults = NotUsed /\
    retired = NotUsed /\ inits = NotUsed
DatabasesUnused ==
    driver = NotUsed /\ dbPc = NotUsed /\ attempt = NotUsed /\ job = NotUsed
    /\ results = NotUsed /\ errs = NotUsed /\ opened = NotUsed /\ installed =
    NotUsed /\ dbRegistered = NotUsed /\ verified = NotUsed
GRPCUnused ==
    advanced = NotUsed /\ proto = NotUsed /\ grpcRegistered = NotUsed /\
    healthy = NotUsed /\ running = NotUsed /\ stopping = NotUsed /\
    grpcStopped = NotUsed /\ done = NotUsed /\ forced = NotUsed /\ transport
    = NotUsed /\ broken = NotUsed /\ drain = NotUsed /\ starts = NotUsed /\
    grpcCall = NotUsed /\ rpc = NotUsed
CacheUnused ==
    pool = NotUsed /\ asked = NotUsed /\ discovery = NotUsed /\ groups =
    NotUsed /\ objects = NotUsed /\ reader = NotUsed /\ source = NotUsed /\
    servers = NotUsed /\ threads = NotUsed /\ server = NotUsed /\
    cacheStopped = NotUsed /\ closed = NotUsed /\ begun = NotUsed
ClusterUnused ==
    owner = NotUsed /\ importing = NotUsed /\ moves = NotUsed /\ clusterKind
    = NotUsed /\ clusterPc = NotUsed /\ seed = NotUsed /\ clusterTodo =
    NotUsed /\ nodes = NotUsed /\ slots = NotUsed /\ first = NotUsed /\ open
    = NotUsed /\ clusterStopped = NotUsed /\ closing = NotUsed /\ signalled =
    NotUsed /\ cmds = NotUsed /\ clusterStage = NotUsed /\ clusterTarget =
    NotUsed /\ redirects = NotUsed /\ ran = NotUsed /\ result = NotUsed
ContextUnused ==
    contextKind = NotUsed /\ attributes = NotUsed /\ revision = NotUsed /\
    built = NotUsed /\ snapshot = NotUsed /\ building = NotUsed /\ key =
    NotUsed /\ flags = NotUsed /\ refreshing = NotUsed /\ contextStopped =
    NotUsed /\ ready = NotUsed
RouterUnused ==
    routerTarget = NotUsed /\ route = NotUsed /\ routerPhase = NotUsed /\
    routerTodo = NotUsed /\ switches = NotUsed /\ registration = NotUsed /\
    routerCurrent = NotUsed /\ listed = NotUsed /\ routerLive = NotUsed /\
    routerRefused = NotUsed /\ routerFailed = NotUsed
ProtosUnused ==
    disk = NotUsed /\ past = NotUsed /\ fetch = NotUsed /\ lock = NotUsed /\
    fetches = NotUsed /\ crashes = NotUsed

HealthInit ==
    /\ part = "health" /\ Health!Init
    /\ RegistryUnused /\ FitUnused /\ DatabasesUnused /\ GRPCUnused /\
       CacheUnused /\ ClusterUnused /\ ContextUnused /\ RouterUnused /\
       ProtosUnused
RegistryInit ==
    /\ part = "registry" /\ Registry!Init
    /\ HealthUnused /\ FitUnused /\ DatabasesUnused /\ GRPCUnused /\
       CacheUnused /\ ClusterUnused /\ ContextUnused /\ RouterUnused /\
       ProtosUnused
FitInit ==
    /\ part = "fit" /\ Fit!Init
    /\ HealthUnused /\ RegistryUnused /\ DatabasesUnused /\ GRPCUnused /\
       CacheUnused /\ ClusterUnused /\ ContextUnused /\ RouterUnused /\
       ProtosUnused
DatabasesInit ==
    /\ part = "databases" /\ Databases!Init
    /\ HealthUnused /\ RegistryUnused /\ FitUnused /\ GRPCUnused /\
       CacheUnused /\ ClusterUnused /\ ContextUnused /\ RouterUnused /\
       ProtosUnused
GRPCInit ==
    /\ part = "grpc" /\ GRPC!Init
    /\ HealthUnused /\ RegistryUnused /\ FitUnused /\ DatabasesUnused /\
       CacheUnused /\ ClusterUnused /\ ContextUnused /\ RouterUnused /\
       ProtosUnused
CacheInit ==
    /\ part = "cache" /\ Cache!Init
    /\ HealthUnused /\ RegistryUnused /\ FitUnused /\ DatabasesUnused /\
       GRPCUnused /\ ClusterUnused /\ ContextUnused /\ RouterUnused /\
       ProtosUnused
ClusterInit ==
    /\ part = "cluster" /\ Cluster!Init
    /\ HealthUnused /\ RegistryUnused /\ FitUnused /\ DatabasesUnused /\
       GRPCUnused /\ CacheUnused /\ ContextUnused /\ RouterUnused /\
       ProtosUnused
ContextInit ==
    /\ part = "context" /\ Context!Init
    /\ HealthUnused /\ RegistryUnused /\ FitUnused /\ DatabasesUnused /\
       GRPCUnused /\ CacheUnused /\ ClusterUnused /\ RouterUnused /\
       ProtosUnused
RouterInit ==
    /\ part = "router" /\ Router!Init
    /\ HealthUnused /\ RegistryUnused /\ FitUnused /\ DatabasesUnused /\
       GRPCUnused /\ CacheUnused /\ ClusterUnused /\ ContextUnused /\
       ProtosUnused
ProtosInit ==
    /\ part = "protos" /\ Protos!Init
    /\ HealthUnused /\ RegistryUnused /\ FitUnused /\ DatabasesUnused /\
       GRPCUnused /\ CacheUnused /\ ClusterUnused /\ ContextUnused /\
       RouterUnused
ChainInit ==
    /\ part = "chain"
    /\ HealthUnused /\ RegistryUnused /\ FitUnused /\ DatabasesUnused /\
       GRPCUnused /\ CacheUnused /\ ClusterUnused /\ ContextUnused /\
       RouterUnused /\ ProtosUnused

ServicesInit ==
    /\ Init
    /\ \/ ChainInit
       \/ HealthInit \/ RegistryInit \/ FitInit \/ DatabasesInit
       \/ GRPCInit \/ CacheInit \/ ClusterInit \/ ContextInit
       \/ RouterInit \/ ProtosInit

HealthStep ==
    /\ part = "health" /\ Health!Next
    /\ UNCHANGED <<part, chainVars, registryState, fitState, databasesState,
                   grpcState, cacheState, clusterState, contextState, routerState,
                   protosState>>
RegistryStep ==
    /\ part = "registry" /\ Registry!Next
    /\ UNCHANGED <<part, chainVars, healthState, fitState, databasesState,
                   grpcState, cacheState, clusterState, contextState, routerState,
                   protosState>>
FitStep ==
    /\ part = "fit" /\ Fit!Next
    /\ UNCHANGED <<part, chainVars, healthState, registryState,
                   databasesState, grpcState, cacheState, clusterState, contextState,
                   routerState, protosState>>
DatabasesStep ==
    /\ part = "databases" /\ Databases!Next
    /\ UNCHANGED <<part, chainVars, healthState, registryState, fitState,
                   grpcState, cacheState, clusterState, contextState, routerState,
                   protosState>>
GRPCStep ==
    /\ part = "grpc" /\ GRPC!Next
    /\ UNCHANGED <<part, chainVars, healthState, registryState, fitState,
                   databasesState, cacheState, clusterState, contextState, routerState,
                   protosState>>
CacheStep ==
    /\ part = "cache" /\ Cache!Next
    /\ UNCHANGED <<part, chainVars, healthState, registryState, fitState,
                   databasesState, grpcState, clusterState, contextState, routerState,
                   protosState>>
ClusterStep ==
    /\ part = "cluster" /\ Cluster!Next
    /\ UNCHANGED <<part, chainVars, healthState, registryState, fitState,
                   databasesState, grpcState, cacheState, contextState, routerState,
                   protosState>>
ContextStep ==
    /\ part = "context" /\ Context!Next
    /\ UNCHANGED <<part, chainVars, healthState, registryState, fitState,
                   databasesState, grpcState, cacheState, clusterState, routerState,
                   protosState>>
RouterStep ==
    /\ part = "router" /\ Router!Next
    /\ UNCHANGED <<part, chainVars, healthState, registryState, fitState,
                   databasesState, grpcState, cacheState, clusterState, contextState,
                   protosState>>
ProtosStep ==
    /\ part = "protos" /\ Protos!Next
    /\ UNCHANGED <<part, chainVars, healthState, registryState, fitState,
                   databasesState, grpcState, cacheState, clusterState, contextState,
                   routerState>>
ChainStep ==
    /\ part = "chain" /\ Next
    /\ UNCHANGED <<part, healthState, registryState, fitState,
                   databasesState, grpcState, cacheState, clusterState, contextState,
                   routerState, protosState>>

ServicesNext ==
    \/ ChainStep
    \/ HealthStep \/ RegistryStep \/ FitStep \/ DatabasesStep
    \/ GRPCStep \/ CacheStep \/ ClusterStep \/ ContextStep
    \/ RouterStep \/ ProtosStep

servicesVars ==
    <<part, chainVars, healthState, registryState, fitState, databasesState,
      grpcState, cacheState, clusterState, contextState, routerState, protosState>>

ServicesSpec == ServicesInit /\ [][ServicesNext]_servicesVars
-----------------------------------------------------------------------------
(* health.Checker: a stop overtakes every start that was queued before it,   *)
(* an unbounded Reset leaves no liveness file behind, and a loop that can    *)
(* still write is never forgotten by those who must join it.                 *)
HealthStopsHold ==
    part = "health" =>
        Health!StopOvertakesQueuedStart /\ Health!ResetLeavesNoFile /\ Health!UnfinishedAreKept

(* A start that fails half way is undone: the instrumentation hooks, shut    *)
(* down once each and in reverse order, the parts of the framework object    *)
(* (fit.go) and the pools of the database clients.                           *)
StartsAreUndone ==
    /\ part = "registry" => Registry!HooksBalanced
    /\ part = "fit" => Fit!NothingLeftBehind /\ Fit!DefaultsAreReachable
    /\ part = "databases" => Databases!NothingStaysOpen

(* grpc.Server: a graceful shutdown that returned nil left no call running,  *)
(* and a call is answered with the first result reported for it, which is no *)
(* handler's unless the authorizations in front of the handlers passed it.   *)
GRPCAnswersHold ==
    part = "grpc" => GRPC!NilMeansDrained /\ GRPC!AnswersAreFirst

(* groupcache.Client: Close stops the peer server although its goroutine may *)
(* listen late, the pool is empty only when a caller asked for it, and a     *)
(* group that was created again answers nothing older than itself.           *)
CacheIsConsistent ==
    part = "cache" => Cache!ClosedForGood /\ Cache!EmptyOnlyWhenAsked /\ Cache!NewGroupsAreFresh

(* The cluster transport: Close and a failed Connect leave no connection     *)
(* open, and no exchange runs a command twice or misreports what it ran.     *)
ClusterIsHonest ==
    part = "cluster" => Cluster!NoConnectionLeft /\ Cluster!OutcomeIsTruthful

(* feature.EvaluationContext: what a built context answers was evaluated for *)
(* the attributes it has now.                                                *)
ContextIsCurrent == part = "context" => Context!BuiltForCurrentAttributes

(* otelmetrics: a callback is registered with one provider, or with none once *)
(* unregistered, although the global provider changes, but for registrations  *)
(* that a provider reported it could not withdraw.                            *)
OneProviderPerCallback == part = "router" => Router!CallbackAtOneTarget

(* protofetch: at every moment, and after every crash, the contracts are     *)
(* complete under one of the two names the next fetch looks at.              *)
ContractsSurvive == part = "protos" => Protos!ContractsNeverLost

(* protofetch: a set that is durably installed is replaced, never lost: no   *)
(* step, kill or power failure after it leaves neither output nor backup.    *)
ContractsStay == [][part = "protos" => Protos!KeepsContracts]_servicesVars
=============================================================================
