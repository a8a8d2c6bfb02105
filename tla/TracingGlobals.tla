--------------------------- MODULE TracingGlobals ---------------------------
(* The process globals of tracing/tracing.go: the OTel tracer provider and   *)
(* text-map propagator (one chain of owners under otelOwners) and fit's own  *)
(* global tracer (a second chain under globalTracerMu).  New, Init,          *)
(* SetGlobal, its restore function and Shutdown each touch both chains, one  *)
(* lock at a time, so calls on different goroutines interleave between them. *)
(* A call is the sequence of its locked steps.  Exporters and spans are      *)
(* external; the previousTP/previousOwner copies kept in a tracer for old    *)
(* callers are derived from the chain and left out, and so is the text of    *)
(* globalInitErr.  Tracers are numbered in the order they are built; one     *)
(* that was disabled, or whose exporter failed, has no provider.             *)
EXTENDS Integers, Sequences, FiniteSets

CONSTANTS
    Threads,       \* goroutines calling the package
    Programs,      \* the kinds of tracers a program builds, in order: by a
                   \* released constructor (upstream) or not, with a provider or not
    Replaceable,   \* the OTel globals another library may replace
    MaxOwners      \* bound: ownership nodes of each chain

VARIABLES
    built,                           \* the kinds of the tracers built so far
    closed, lifecycle,               \* tracers that were shut down; made by Init
    otelOwners, otelCurrent,         \* nodes of the OTel chain; its head or 0
    provider, propagator,            \* the OTel globals
    globalOwners, globalCurrent,     \* nodes of the tracer chain; its head or 0
    globalTracer, retired,           \* globalTracer, retiredGlobalTracer
    initFailed,                      \* globalInitFailed
    implicitLog,                     \* logging.SetImplicitTraceEnabled
    running,                         \* per thread: the rest of its call
    handles                          \* restore functions not called yet

tracingVars == <<built, closed, lifecycle, otelOwners, otelCurrent, provider,
                 propagator, globalOwners, globalCurrent, globalTracer, retired,
                 initFailed, implicitLog, running, handles>>

None == 0                     \* no tracer; SetGlobal(nil) installs it
DefaultProvider == 0          \* a tracer's provider is its number,
DefaultPropagator == 0        \* an owner's propagator that of its node
External == -1

Tracers == DOMAIN built
Upstream == {t \in Tracers : built[t].upstream}
HasProvider == {t \in Tracers : built[t].provider}
Implicit == Tracers \ Upstream      \* implicitLogContext

NoCall == [todo |-> <<>>, tracer |-> None, otel |-> 0, global |-> 0]

Init ==
    /\ built = <<>> /\ closed = {} /\ lifecycle = {}
    /\ otelOwners = <<>> /\ otelCurrent = 0
    /\ provider = DefaultProvider /\ propagator = DefaultPropagator
    /\ globalOwners = <<>> /\ globalCurrent = 0
    /\ globalTracer = None /\ retired = None /\ initFailed = FALSE
    /\ implicitLog = FALSE
    /\ running = [h \in Threads |-> NoCall] /\ handles = {}

otelState == <<otelOwners, otelCurrent, provider, propagator>>
globalState == <<globalOwners, globalCurrent, globalTracer, retired>>

Idle(h) == running[h].todo = <<>>
At(h, step) == ~Idle(h) /\ Head(running[h].todo) = step
Done(h) == running' = [running EXCEPT ![h] = IF Len(@.todo) = 1 THEN NoCall
                                             ELSE [@ EXCEPT !.todo = Tail(@)]]
\* The nodes of a chain, those that a running SetGlobal will add included.
Taken(owners, step) ==
    Len(owners) + Cardinality({h \in Threads :
                     \E i \in DOMAIN running[h].todo : running[h].todo[i] = step})
RoomOTel == Taken(otelOwners, "setOTel") < MaxOwners
RoomGlobal == Taken(globalOwners, "setGlobal") < MaxOwners
Begin(h, c) == Idle(h) /\ running' = [running EXCEPT ![h] = c]

-----------------------------------------------------------------------------
\* Mutant: the walk does not pass owners that ended before.
SkipsNone(os, i) == FALSE

(* The chains.  The walk over inactive predecessors stops at the newest      *)
(* active one; the fallback is the baseline of the last node it passed.      *)
Skips(os, i) == os[i].prev # 0 /\ ~os[os[i].prev].active

LastPassed(os) ==
    LET last[i \in DOMAIN os] == IF Skips(os, i) THEN last[os[i].prev] ELSE i IN last

(* effectiveOTelPredecessor, for the node i: the active predecessor or 0.    *)
Predecessor(os, i) == os[LastPassed(os)[i]].prev
Fallback(os, i) == os[LastPassed(os)[i]]

(* effectiveGlobalTracerPredecessor keeps the nearest shut-down lifecycle    *)
(* tracer it passes, so that a late Global cannot start a second exporter.   *)
FallbackRetired(os, i) ==
    LET keep[j \in DOMAIN os] ==
            IF ~Skips(os, j) THEN os[j].baseRetired
            ELSE LET t == os[os[j].prev].tracer IN
                 IF t \in lifecycle \cap closed THEN t ELSE keep[os[j].prev]
    IN keep[i]

(* installOTelGlobals under the lock: link to the present head only if both  *)
(* globals are still its own, otherwise start a new chain from what is there.*)
StillInstalled(i) == i # 0 /\ provider = otelOwners[i].tracer /\ propagator = i

InstallOTel(t) ==
    LET node == [tracer |-> t, active |-> TRUE,
                 prev |-> IF StillInstalled(otelCurrent) THEN otelCurrent ELSE 0,
                 baseTP |-> provider, basePR |-> propagator]
    IN /\ otelOwners' = Append(otelOwners, node)
       /\ otelCurrent' = Len(otelOwners) + 1
       /\ provider' = t /\ propagator' = Len(otelOwners) + 1

(* restoreOTelOwnerGlobalsLocked for the head of the chain: unlink it, and   *)
(* put back whichever of the two globals is still its own and not preserved. *)
RestoreOTel(os, i, keepProvider, keepPropagator) ==
    LET p == Predecessor(os, i)
    IN /\ otelCurrent' = p
       /\ provider' = IF keepProvider \/ provider # os[i].tracer THEN provider
                      ELSE IF p # 0 THEN os[p].tracer ELSE Fallback(os, i).baseTP
       /\ propagator' = IF keepPropagator \/ propagator # i THEN propagator
                        ELSE IF p # 0 THEN p ELSE Fallback(os, i).basePR

(* deactivateOTelOwner: a restore function ends its own node.                *)
DeactivateOTel(i) ==
    IF i = 0 \/ ~otelOwners[i].active THEN UNCHANGED otelState
    ELSE LET os == [otelOwners EXCEPT ![i].active = FALSE] IN
         /\ otelOwners' = os
         /\ IF otelCurrent = i THEN RestoreOTel(os, i, FALSE, FALSE)
            ELSE UNCHANGED <<otelCurrent, provider, propagator>>

(* relinquishOTelGlobals: Shutdown ends every node of t, keeps the propagator*)
(* for the drain and, for a released constructor, the provider too.          *)
RelinquishOTel(t) ==
    LET os == [i \in DOMAIN otelOwners |->
                 IF otelOwners[i].tracer = t THEN [otelOwners[i] EXCEPT !.active = FALSE]
                 ELSE otelOwners[i]]
    IN /\ otelOwners' = os
       /\ IF otelCurrent # 0 /\ ~os[otelCurrent].active
          THEN RestoreOTel(os, otelCurrent, t \in Upstream, TRUE)
          ELSE UNCHANGED <<otelCurrent, provider, propagator>>

(* installGlobalTracerLocked.                                                *)
InstallGlobal(t) ==
    LET linked == globalCurrent # 0 /\ globalTracer = globalOwners[globalCurrent].tracer
        node == [tracer |-> t, active |-> TRUE,
                 prev |-> IF linked THEN globalCurrent ELSE 0,
                 base |-> globalTracer, baseRetired |-> retired]
    IN /\ globalOwners' = Append(globalOwners, node)
       /\ globalCurrent' = Len(globalOwners) + 1
       /\ globalTracer' = t /\ retired' = None

(* restoreGlobalTracerOwnerLocked for the head of the chain, given what      *)
(* becomes of the retired tracer otherwise.                                  *)
RestoreGlobal(os, i) ==
    LET p == Predecessor(os, i)
    IN /\ globalCurrent' = p
       /\ IF globalTracer # os[i].tracer THEN UNCHANGED <<globalTracer, retired>>
          ELSE IF p # 0 THEN globalTracer' = os[p].tracer /\ retired' = os[p].baseRetired
          ELSE globalTracer' = Fallback(os, i).base /\ retired' = FallbackRetired(os, i)

(* deactivateGlobalTracerOwner.                                              *)
DeactivateGlobal(i) ==
    IF i = 0 \/ ~globalOwners[i].active THEN UNCHANGED globalState
    ELSE LET os == [globalOwners EXCEPT ![i].active = FALSE] IN
         /\ globalOwners' = os
         /\ IF globalCurrent = i THEN RestoreGlobal(os, i)
            ELSE UNCHANGED <<globalCurrent, globalTracer, retired>>

(* relinquishGlobalTracer: a tracer made by Init is remembered as retired.   *)
RelinquishGlobal(t) ==
    LET os == [i \in DOMAIN globalOwners |->
                 IF globalOwners[i].tracer = t THEN [globalOwners[i] EXCEPT !.active = FALSE]
                 ELSE globalOwners[i]]
        restores == globalCurrent # 0 /\ ~os[globalCurrent].active
        p == Predecessor(os, globalCurrent)
        owned == restores /\ globalTracer = os[globalCurrent].tracer
    IN /\ globalOwners' = os
       /\ globalCurrent' = IF restores THEN p ELSE globalCurrent
       /\ globalTracer' = IF owned THEN (IF p # 0 THEN os[p].tracer
                                         ELSE Fallback(os, globalCurrent).base)
                          ELSE IF globalCurrent = 0 /\ globalTracer = t THEN None
                          ELSE globalTracer
       /\ retired' = IF t \in lifecycle THEN t
                     ELSE IF ~owned THEN retired
                     ELSE IF p # 0 THEN os[p].baseRetired
                     ELSE FallbackRetired(os, globalCurrent)

(* refreshImplicitTraceEnabled reads both chains and publishes the flag.     *)
Stamps ==
    \/ globalTracer \in (Implicit \cap HasProvider) \ closed
    \/ /\ otelCurrent # 0 /\ otelOwners[otelCurrent].active
       /\ otelOwners[otelCurrent].tracer \in Implicit \ closed

-----------------------------------------------------------------------------
(* newTracer: the next tracer of the program; only one with a provider takes *)
(* the OTel globals.                                                         *)
Builds(kind) ==
    /\ built' = Append(built, kind)
    /\ \E p \in Programs : Len(p) > Len(built) /\ built' = SubSeq(p, 1, Len(built) + 1)
    /\ IF kind.provider THEN RoomOTel /\ InstallOTel(Len(built) + 1) ELSE UNCHANGED otelState

(* New and NewAdvanced: nobody else knows the tracer yet.                    *)
New(h, kind) ==
    /\ Begin(h, [NoCall EXCEPT !.todo = IF kind.provider THEN <<"refresh">> ELSE <<>>])
    /\ Builds(kind)
    /\ UNCHANGED <<closed, lifecycle, globalState, initFailed, implicitLog, handles>>

(* initWithOptions, holding globalTracerMu: the present tracer, a retired one*)
(* or an earlier failure answers the released entry points.                  *)
NeedsTracer(upstream) ==
    globalTracer = None /\ (upstream => retired = None /\ ~initFailed)

InitGlobal(h, kind) ==
    /\ NeedsTracer(kind.upstream) /\ RoomGlobal
    /\ Begin(h, [NoCall EXCEPT !.todo = <<"refresh">>])
    /\ Builds(kind) /\ InstallGlobal(Len(built) + 1)
    /\ lifecycle' = lifecycle \cup {Len(built) + 1}
    /\ initFailed' = FALSE
    /\ UNCHANGED <<closed, implicitLog, handles>>

InitFails(upstream) ==
    /\ NeedsTracer(upstream) /\ ~initFailed
    /\ initFailed' = TRUE
    /\ UNCHANGED <<built, closed, lifecycle, otelState, globalState, implicitLog,
                   running, handles>>

(* SetGlobal, of nil too, reads the closed flag before it takes the first    *)
(* lock; installOTelGlobals does nothing for nil or without a provider.      *)
BeginSetGlobal(h, t) ==
    /\ t \in Tracers \cup {None}
    /\ RoomGlobal /\ (t \in HasProvider => RoomOTel)
    /\ Begin(h, [NoCall EXCEPT !.todo = IF t \in HasProvider \ closed
                                        THEN <<"setOTel", "setGlobal", "refresh">>
                                        ELSE <<"setGlobal", "refresh">>,
                               !.tracer = t])
    /\ UNCHANGED <<built, closed, lifecycle, otelState, globalState, initFailed,
                   implicitLog, handles>>

SetOTel(h) ==
    /\ At(h, "setOTel")
    /\ InstallOTel(running[h].tracer)
    /\ running' = [running EXCEPT ![h].todo = Tail(@), ![h].otel = Len(otelOwners) + 1]
    /\ UNCHANGED <<built, closed, lifecycle, globalState, initFailed, implicitLog, handles>>

SetGlobal(h) ==
    /\ At(h, "setGlobal")
    /\ IF running[h].tracer \in closed
       THEN /\ running' = [running EXCEPT ![h].todo = <<"dropOTel", "refresh">>]
            /\ UNCHANGED <<globalState, handles>>
       ELSE /\ InstallGlobal(running[h].tracer)
            /\ handles' = handles \cup {[global |-> Len(globalOwners) + 1,
                                         otel |-> running[h].otel]}
            /\ Done(h)
    /\ UNCHANGED <<built, closed, lifecycle, otelState, initFailed, implicitLog>>

(* The function SetGlobal returned, called once.                             *)
BeginRestore(h, r) ==
    /\ r \in handles
    /\ handles' = handles \ {r}
    /\ Begin(h, [NoCall EXCEPT !.otel = r.otel, !.global = r.global,
                 !.todo = <<"dropGlobal", "refresh", "dropOTel", "refresh">>])
    /\ UNCHANGED <<built, closed, lifecycle, otelState, globalState, initFailed, implicitLog>>

DropGlobal(h) ==
    /\ At(h, "dropGlobal")
    /\ DeactivateGlobal(running[h].global) /\ Done(h)
    /\ UNCHANGED <<built, closed, lifecycle, otelState, initFailed, implicitLog, handles>>

DropOTel(h) ==
    /\ At(h, "dropOTel")
    /\ DeactivateOTel(running[h].otel) /\ Done(h)
    /\ UNCHANGED <<built, closed, lifecycle, globalState, initFailed, implicitLog, handles>>

(* Tracer.Shutdown, whose body runs once.                                    *)
BeginShutdown(h, t) ==
    /\ t \in Tracers \ closed
    /\ closed' = closed \cup {t}
    /\ Begin(h, [NoCall EXCEPT !.tracer = t,
                 !.todo = <<"endGlobal", "refresh", "endOTel", "refresh">>])
    /\ UNCHANGED <<built, lifecycle, otelState, globalState, initFailed, implicitLog, handles>>

EndGlobal(h) ==
    /\ At(h, "endGlobal")
    /\ RelinquishGlobal(running[h].tracer) /\ Done(h)
    /\ UNCHANGED <<built, closed, lifecycle, otelState, initFailed, implicitLog, handles>>

EndOTel(h) ==
    /\ At(h, "endOTel")
    /\ RelinquishOTel(running[h].tracer) /\ Done(h)
    /\ UNCHANGED <<built, closed, lifecycle, globalState, initFailed, implicitLog, handles>>

Refresh(h) ==
    /\ At(h, "refresh")
    /\ implicitLog' = Stamps /\ Done(h)
    /\ UNCHANGED <<built, closed, lifecycle, otelState, globalState, initFailed, handles>>

(* Another library replaces one of the OTel globals.                         *)
ReplaceProvider ==
    /\ "provider" \in Replaceable /\ provider # External
    /\ provider' = External
    /\ UNCHANGED <<built, closed, lifecycle, otelOwners, otelCurrent, propagator,
                   globalState, initFailed, implicitLog, running, handles>>

ReplacePropagator ==
    /\ "propagator" \in Replaceable /\ propagator # External
    /\ propagator' = External
    /\ UNCHANGED <<built, closed, lifecycle, otelOwners, otelCurrent, provider,
                   globalState, initFailed, implicitLog, running, handles>>

Next ==
    \/ \E h \in Threads :
          \/ \E kind \in [upstream : BOOLEAN, provider : BOOLEAN] :
                New(h, kind) \/ InitGlobal(h, kind)
          \/ \E t \in Tracers \cup {None} : BeginSetGlobal(h, t) \/ BeginShutdown(h, t)
          \/ SetOTel(h) \/ SetGlobal(h) \/ DropGlobal(h) \/ DropOTel(h)
          \/ EndGlobal(h) \/ EndOTel(h) \/ Refresh(h)
          \/ \E r \in handles : BeginRestore(h, r)
    \/ \E upstream \in BOOLEAN : InitFails(upstream)
    \/ ReplaceProvider \/ ReplacePropagator

Spec == Init /\ [][Next]_tracingVars

-----------------------------------------------------------------------------
Quiescent == \A h \in Threads : Idle(h)

(* Shutdown and SetGlobal's closed check: once every call has returned the    *)
(* global tracer is never one that was shut down, whatever the order in which *)
(* nested owners ended.                                                       *)
NoClosedGlobalTracer == Quiescent => globalTracer \notin closed

(* SetGlobal's restore: once every call has returned the head of each chain   *)
(* is the newest node of that chain still active, and the global tracer is    *)
(* the head's.                                                                *)
HeadsAreActive ==
    Quiescent =>
        /\ otelCurrent # 0 => otelOwners[otelCurrent].active
        /\ globalCurrent # 0 => /\ globalOwners[globalCurrent].active
                                /\ globalTracer = globalOwners[globalCurrent].tracer

(* initWithOptions: a lifecycle tracer that was shut down keeps answering     *)
(* Global, through nested owners that end in any order, so the released entry *)
(* points never build a second exporter, unless the program itself cleared    *)
(* the global with SetGlobal(nil).                                            *)
GlobalCleared == \E i \in DOMAIN globalOwners : globalOwners[i].tracer = None
OneReleasedLifecycle ==
    GlobalCleared \/ \A t, u \in lifecycle \cap Upstream : t = u

(* refreshImplicitTraceEnabled: the flag published last agrees with the state *)
(* both chains are left in.                                                   *)
ImplicitFlagCurrent == Quiescent => (implicitLog = Stamps)

(* installOTelGlobals: "either lifecycle can end out of order without         *)
(* reviving an already-shut-down owner", for the provider of tracers whose    *)
(* Shutdown removes it.                                                       *)
NoClosedProvider == Quiescent => provider \notin closed \ Upstream
=============================================================================
