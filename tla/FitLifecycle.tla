---------------------------- MODULE FitLifecycle ----------------------------
(* The framework object of fit.go: Init (the original lifecycle),            *)
(* InitAdvanced and Shutdown, which start the parts of a service in order,   *)
(* undo what was started when one of them fails, and stop everything once.   *)
(* Every operation holds f.mu, but the parts and the process globals are     *)
(* visible to others at each step, so a stage is a step of its own.  Whether *)
(* a part is configured and whether it starts is up to the environment.      *)
(* Left out: the error registry of the original Init (fit.go:136-141), whose *)
(* failure is ignored, and the health checker, which Shutdown resets         *)
(* (570-574) and replaces (637): its rules are those of HealthChecker.       *)
EXTENDS Naturals, Sequences, SequencesExt

CONSTANTS MaxInits      \* bound: initialisations

VARIABLES
    mode,        \* off, legacy (legacyInitialized) or advanced (initialized)
    doing,       \* none, init, clean or shutdown: the call holding f.mu
    stage,       \* its next stage
    fields,      \* the parts whose field of Fit is set
    undo,        \* the parts whose restore function is stored in lifecycle
    live,        \* the parts started and not stopped
    defaults,    \* the parts installed as process default by Fit
    retired,     \* the original lifecycle's tracer was shut down
    inits        \* initialisations so far

fitVars == <<mode, doing, stage, fields, undo, live, defaults, retired, inits>>

Pipeline == <<"feature", "logger", "errors", "tracer", "otel", "hooks",
              "postgres", "metrics", "profiler">>
Parts == ToSet(Pipeline)
Optional == Parts \ {"logger"}
Tolerated == {"tracer", "otel", "metrics"}
CannotFail == {"profiler"}
WithDefault == {"logger", "tracer", "otel", "metrics", "profiler"}
LegacyParts == {"tracer", "metrics"}

Init ==
    /\ mode = "off" /\ doing = "none" /\ stage = 1
    /\ fields = {} /\ undo = {} /\ live = {} /\ defaults = {}
    /\ retired = FALSE /\ inits = 0

(* Init: refused while the advanced lifecycle is active; a tracer or metrics  *)
(* registry that does not start is only logged.  The tracer is the process    *)
(* global of the tracing package, which is built once: after a shutdown the   *)
(* retired one is returned.  A second Init in a row replaces the registry     *)
(* without stopping the first; the part counts as live once.                  *)
LegacyInit(configured) ==
    /\ doing = "none" /\ mode # "advanced" /\ inits < MaxInits
    /\ configured \subseteq LegacyParts
    /\ mode' = "legacy" /\ inits' = inits + 1
    /\ fields' = fields \cup {"logger"} \cup configured
    /\ live' = live \cup (IF retired THEN configured \ {"tracer"} ELSE configured)
    /\ UNCHANGED <<doing, stage, undo, defaults, retired>>

(* InitAdvanced: refused while either lifecycle is active, and when the       *)
(* health checker of the last one cannot be reset in time; every field then   *)
(* starts empty.  A configuration that does not load ends it at once.         *)
BeginInit ==
    /\ doing = "none" /\ mode = "off" /\ inits < MaxInits
    /\ inits' = inits + 1
    /\ fields' = {}
    /\ \/ doing' = "init" /\ stage' = 1
       \/ UNCHANGED <<doing, stage>>
    /\ UNCHANGED <<mode, undo, live, defaults, retired>>

Part == Pipeline[stage]

SkipStage ==
    /\ doing = "init" /\ stage <= Len(Pipeline)
    /\ Part \in Optional
    /\ stage' = stage + 1
    /\ UNCHANGED <<mode, doing, fields, undo, live, defaults, retired, inits>>

(* A part starts: its field is set, and those with a process default install  *)
(* it and keep the restore function.                                         *)
StartStage ==
    /\ doing = "init" /\ stage <= Len(Pipeline)
    /\ fields' = fields \cup {Part} /\ live' = live \cup {Part}
    /\ undo' = undo \cup ({Part} \cap WithDefault)
    /\ defaults' = defaults \cup ({Part} \cap WithDefault)
    /\ stage' = stage + 1
    /\ UNCHANGED <<mode, doing, retired, inits>>

TolerateFailure ==
    /\ doing = "init" /\ stage <= Len(Pipeline)
    /\ Part \in Tolerated
    /\ stage' = stage + 1
    /\ UNCHANGED <<mode, doing, fields, undo, live, defaults, retired, inits>>

(* What each failing stage cleans up before it returns the error: the first   *)
(* three by hand, the later ones through cleanupFailedInit.                   *)
CleanedBy ==
    [p \in Parts |->
        CASE p = "feature" -> {}
          [] p = "logger" -> {"feature"}
          [] p = "errors" -> {"logger", "feature"}
          [] OTHER -> {"postgres", "hooks", "otel", "tracer", "logger", "errors", "feature"}]

FailStage ==
    /\ doing = "init" /\ stage <= Len(Pipeline)
    /\ Part \notin Tolerated \cup CannotFail
    /\ LET cleaned == CleanedBy[Part] IN
       /\ fields' = fields \ cleaned /\ live' = live \ cleaned
       /\ undo' = undo \ cleaned
       /\ defaults' = defaults \ (cleaned \cap undo)
    /\ doing' = "none" /\ stage' = 1
    /\ UNCHANGED <<mode, retired, inits>>

FinishInit ==
    /\ doing = "init" /\ stage > Len(Pipeline)
    /\ doing' = "none" /\ stage' = 1 /\ mode' = "advanced"
    /\ UNCHANGED <<fields, undo, live, defaults, retired, inits>>

(* Shutdown of the original lifecycle stops its two parts and leaves the      *)
(* fields as they are.                                                       *)
LegacyShutdown ==
    /\ doing = "none" /\ mode # "advanced"
    /\ live' = live \ (fields \cap LegacyParts)
    /\ retired' = (retired \/ "tracer" \in fields)
    /\ mode' = "off"
    /\ UNCHANGED <<doing, stage, fields, undo, defaults, inits>>

(* Shutdown of the advanced lifecycle, in its order: a stop is guarded by the *)
(* field, a restore by the stored function, and an error stops nothing.       *)
ShutdownOrder ==
    << <<"stop", "hooks">>, <<"stop", "postgres">>, <<"stop", "feature">>,
       <<"stop", "profiler">>, <<"undo", "profiler">>, <<"undo", "tracer">>,
       <<"stop", "otel">>, <<"undo", "otel">>, <<"stop", "tracer">>,
       <<"undo", "metrics">>, <<"stop", "metrics">>, <<"undo", "logger">>,
       <<"stop", "logger">>, <<"stop", "errors">> >>

BeginShutdown ==
    /\ doing = "none" /\ mode = "advanced"
    /\ doing' = "shutdown" /\ stage' = 1
    /\ UNCHANGED <<mode, fields, undo, live, defaults, retired, inits>>

ShutdownStep ==
    /\ doing = "shutdown" /\ stage <= Len(ShutdownOrder)
    /\ LET p == ShutdownOrder[stage][2] IN
       IF ShutdownOrder[stage][1] = "stop"
       THEN /\ live' = IF p \in fields THEN live \ {p} ELSE live
            /\ fields' = fields \ {p}
            /\ UNCHANGED <<undo, defaults>>
       ELSE /\ defaults' = IF p \in undo THEN defaults \ {p} ELSE defaults
            /\ undo' = undo \ {p}
            /\ UNCHANGED <<live, fields>>
    /\ stage' = stage + 1
    /\ UNCHANGED <<mode, doing, retired, inits>>

FinishShutdown ==
    /\ doing = "shutdown" /\ stage > Len(ShutdownOrder)
    /\ doing' = "none" /\ stage' = 1 /\ mode' = "off"
    /\ UNCHANGED <<fields, undo, live, defaults, retired, inits>>

Next ==
    \/ \E configured \in SUBSET LegacyParts : LegacyInit(configured)
    \/ BeginInit \/ SkipStage \/ StartStage \/ TolerateFailure \/ FailStage
    \/ FinishInit \/ LegacyShutdown \/ BeginShutdown \/ ShutdownStep \/ FinishShutdown

Spec == Init /\ [][Next]_fitVars

-----------------------------------------------------------------------------
(* InitAdvanced, cleanupFailedInit and Shutdown: whenever no lifecycle is      *)
(* active and no call is running, nothing that was started is still running,   *)
(* no process default is Fit's and no restore function is left to be called,   *)
(* at whatever stage an initialisation failed.                                 *)
NothingLeftBehind ==
    doing = "none" /\ mode = "off" => live = {} /\ defaults = {} /\ undo = {}

(* Shutdown's order: a process default is never left pointing at a part that   *)
(* no field reaches any more, except for the profiler and the meter provider,  *)
(* whose own stop comes first.                                                 *)
DefaultsAreReachable == defaults \subseteq fields \cup {"profiler", "otel"}
=============================================================================
