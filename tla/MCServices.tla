----------------------------- MODULE MCServices -----------------------------
(* The values of the constants of Services that a configuration file cannot  *)
(* write, and two more parts that no theorem is about, added to it in the    *)
(* same way: the tracing globals, whose chains are walked by recursion, and  *)
(* the questions of MCDecisions, which have no steps.                        *)
EXTENDS Services, SequencesExt, TLC

MCNamesOfHook == "http" :> <<"http", "h">> @@ "kafka" :> <<"kafka", "h">> @@ "db" :> <<"db", "sql">>
MCHookRequests == [extra : {<<>>, <<"h", "http">>, <<"sql", "db", "kafka">>},
                   config : {{}, {"h"}, {"sql", "db"}}]

MCHandlerChains == {<<"handler", "authorize">>, <<"middleware", "authorize", "handler">>}

MCSeeds == <<"a", "b">>
MCCommand(rule, keys) == [rule |-> rule, keys |-> keys]
MCClusterCommands ==
    LET one == MCCommand("firstKey", <<"s1">>) IN
    {<<one>>, <<one, MCCommand("allKeys", <<"s2", "s2">>)>>,
     <<MCCommand("node", <<>>)>>, <<MCCommand("wide", <<>>)>>,
     <<MCCommand("firstKey", <<"s1", "s2">>)>>, <<MCCommand("allKeys", <<"s1", "s2">>)>>}

MCReleased == [upstream |-> TRUE, provider |-> TRUE]
MCAdvanced == [upstream |-> FALSE, provider |-> TRUE]
MCDisabled == [upstream |-> FALSE, provider |-> FALSE]
MCTracingPrograms == {<<MCReleased, MCDisabled, MCReleased>>, <<MCReleased, MCAdvanced>>,
                      <<MCAdvanced, MCReleased>>, <<MCReleased, MCReleased>>}

MCConfiguredPools == {<<"a", "read">>, <<"a", "write">>, <<"b", "write">>}

-----------------------------------------------------------------------------
CONSTANTS
    TracingThreads, TracingPrograms, ReplaceableGlobals, MaxTracerOwners

VARIABLES
    tracersBuilt, tracersClosed, lifecycle, otelOwners, otelCurrent, provider,
    propagator, globalOwners, globalCurrent, globalTracer, retiredTracer,
    initFailed, implicitLog, tracingCall, handles,
    question

tracingState ==
    <<tracersBuilt, tracersClosed, lifecycle, otelOwners, otelCurrent, provider,
      propagator, globalOwners, globalCurrent, globalTracer, retiredTracer,
      initFailed, implicitLog, tracingCall, handles>>

Tracing == INSTANCE TracingGlobals WITH
    Threads <- TracingThreads, Programs <- TracingPrograms,
    Replaceable <- ReplaceableGlobals, MaxOwners <- MaxTracerOwners,
    built <- tracersBuilt, closed <- tracersClosed, retired <- retiredTracer,
    running <- tracingCall

Decisions == INSTANCE MCDecisions

ServicesUnused ==
    /\ Init
    /\ HealthUnused /\ RegistryUnused /\ FitUnused /\ DatabasesUnused
    /\ GRPCUnused /\ CacheUnused /\ ClusterUnused /\ ContextUnused
    /\ RouterUnused /\ ProtosUnused
TracingUnused ==
    /\ tracersBuilt = NotUsed /\ tracersClosed = NotUsed /\ lifecycle = NotUsed
    /\ otelOwners = NotUsed /\ otelCurrent = NotUsed /\ provider = NotUsed
    /\ propagator = NotUsed /\ globalOwners = NotUsed /\ globalCurrent = NotUsed
    /\ globalTracer = NotUsed /\ retiredTracer = NotUsed /\ initFailed = NotUsed
    /\ implicitLog = NotUsed /\ tracingCall = NotUsed /\ handles = NotUsed

(* Two goroutines race with two tracers; one goroutine nests three and never *)
(* clears the global tracer; and one goroutine with two runs beside a        *)
(* library that replaces the OTel globals.                                   *)
TracingQuestions == {"racing", "nested", "replaced"}
TracersOf(q) ==
    CASE q = "racing" -> {p \in MCTracingPrograms : Len(p) = 2}
      [] q = "nested" -> {p \in MCTracingPrograms : Len(p) = 3}
      [] q = "replaced" -> {<<MCReleased, MCAdvanced>>}
AsksOneOfTracing ==
    /\ \E p \in TracersOf(question) : IsPrefix(tracersBuilt', p)
    /\ question # "replaced" => provider' # Tracing!External /\ propagator' # Tracing!External
    /\ question # "racing" => tracingCall'[2] = tracingCall[2]
    /\ question = "nested" => ~Tracing!GlobalCleared'
    /\ Tracing!Taken(otelOwners, "setOTel")' < 3
    /\ question # "nested" => Tracing!Taken(globalOwners, "setGlobal")' < 3

TracingInit ==
    part = "tracing" /\ Tracing!Init /\ ServicesUnused /\ question \in TracingQuestions
DecisionsInit == part = "decisions" /\ Decisions!Init /\ ServicesUnused /\ TracingUnused

TracingStep ==
    /\ part = "tracing" /\ Tracing!Next /\ AsksOneOfTracing
    /\ UNCHANGED <<servicesVars, question>>
DecisionsStep ==
    part = "decisions" /\ Decisions!Next /\ UNCHANGED <<servicesVars, tracingState>>

(* The cache client's server, peers and groups share no state either: a      *)
(* behaviour of the client is about one of them.                             *)
CacheQuestions == {"server", "peers", "groups"}
AsksOneThing ==
    part = "cache" =>
        /\ question # "server" => UNCHANGED Cache!serverVars
        /\ question # "peers" => UNCHANGED Cache!peerVars
        /\ question # "groups" => UNCHANGED Cache!groupVars

(* The callers of the gRPC server are alike, so they call in their order.     *)
CallersInOrder ==
    part = "grpc" => \A c, d \in GRPCCallers :
        c < d /\ grpcCall'[d].at # "idle" => grpcCall'[c].at # "idle"

MCInit ==
    \/ /\ ServicesInit /\ TracingUnused
       /\ question \in IF part = "cache" THEN CacheQuestions ELSE {NotUsed}
    \/ TracingInit \/ DecisionsInit
MCNext ==
    \/ ServicesNext /\ AsksOneThing /\ CallersInOrder /\ UNCHANGED <<tracingState, question>>
    \/ TracingStep \/ DecisionsStep
MCSpec == MCInit /\ [][MCNext]_<<servicesVars, tracingState, question>>

-----------------------------------------------------------------------------
(* tracing.go: when every call has returned, the global tracer is not one    *)
(* that was shut down, the heads of both chains are active nodes, the        *)
(* released entry points built one exporter at most, and the log flag is     *)
(* current.                                                                  *)
GlobalTracerIsLive ==
    part = "tracing" =>
        /\ Tracing!NoClosedGlobalTracer /\ Tracing!HeadsAreActive
        /\ Tracing!OneReleasedLifecycle /\ Tracing!ImplicitFlagCurrent

(* feature/strategy.go: raising the percentage of one strategy takes the     *)
(* value from no user who had it, and a negated condition is the complement  *)
(* of the plain one.                                                         *)
RolloutsAreSticky ==
    part = "decisions" => Decisions!RolloutHolds /\ Decisions!NegationHolds

(* Where the code has two versions of a decision they agree as they must.  A *)
(* strict datastore client that is given TLS material, or a redis URI that   *)
(* asks for TLS, connects verified or not at all, except exactly where the   *)
(* mysql or postgres connection string or the DSN hook says otherwise; a     *)
(* postgres pool configured for the original initialiser is the same in the  *)
(* strict one; the advanced token verifier admits no object token that the   *)
(* released one refuses; and HTTP admits the object tokens that gRPC does,   *)
(* and gRPC those of HTTP but for a request with an empty company.           *)
VersionsAgree ==
    part = "decisions" =>
        Decisions!TLSHolds /\ Decisions!PoolsHold /\ Decisions!TokensHold
=============================================================================
