---------------------- MODULE InstrumentationRegistry ----------------------
(* instrumentation/registry.go: hooks registered under a name and aliases,   *)
(* selected by default or by request, started in order and rolled back in    *)
(* reverse when one of them fails.  Factories and hooks are the callers'     *)
(* code; their failures are nondeterministic.                                *)
EXTENDS Naturals, Sequences, SequencesExt

CONSTANTS
    Items,        \* registrations a program may attempt
    Names,        \* canonical names and aliases
    NamesOf,      \* [Items -> sequence of names], the canonical one first
    Defaults,     \* items enabled by default
    Requests      \* the option sets a program may start with: [extra, config]

VARIABLES
    ordered,      \* items in registration order
    byName,       \* the item each registered name or alias belongs to
    phase,        \* idle, selecting, starting, running, stopping or ended
    candidates,   \* registered items the selection has still to look at
    extra,        \* requested names it has still to look at
    pending,      \* items selected and still to be created and started
    started,      \* Manager.started
    failed,       \* Start returned an error
    calls         \* history: hooks whose Start, and whose Shutdown, was called

registryVars == <<ordered, byName, phase, candidates, extra, pending, started,
                  failed, calls>>

Unregistered == "unregistered"

Init ==
    /\ ordered = <<>> /\ byName = [n \in Names |-> Unregistered]
    /\ phase = "idle" /\ candidates = <<>> /\ extra = <<>>
    /\ pending = <<>> /\ started = <<>> /\ failed = FALSE
    /\ calls = [start |-> <<>>, stop |-> <<>>]

(* Register: all names are free, or none is taken.                           *)
Register(i) ==
    /\ phase = "idle"
    /\ IsInjective(NamesOf[i])
    /\ \A n \in ToSet(NamesOf[i]) : byName[n] = Unregistered
    /\ ordered' = Append(ordered, i)
    /\ byName' = [n \in Names |-> IF n \in ToSet(NamesOf[i]) THEN i ELSE byName[n]]
    /\ UNCHANGED <<phase, candidates, extra, pending, started, failed, calls>>

(* Unknown names, and two config keys for one item, are refused before any    *)
(* hook runs.                                                                *)
Valid(r) ==
    /\ \A n \in ToSet(r.extra) \cup r.config : byName[n] # Unregistered
    /\ \A m, n \in r.config : byName[m] = byName[n] => m = n

Start(r) ==
    /\ phase = "idle"
    /\ IF Valid(r)
       THEN phase' = "selecting" /\ candidates' = ordered /\ extra' = r.extra /\ UNCHANGED failed
       ELSE phase' = "ended" /\ failed' = TRUE /\ UNCHANGED <<candidates, extra>>
    /\ UNCHANGED <<ordered, byName, pending, started, calls>>

(* The selection of Start: defaults in registration order, then each          *)
(* requested item that is not selected yet.                                  *)
SelectDefault ==
    /\ phase = "selecting" /\ candidates # <<>>
    /\ candidates' = Tail(candidates)
    /\ pending' = IF Head(candidates) \in Defaults THEN Append(pending, Head(candidates)) ELSE pending
    /\ UNCHANGED <<ordered, byName, phase, extra, started, failed, calls>>

SelectRequested ==
    /\ phase = "selecting" /\ candidates = <<>> /\ extra # <<>>
    /\ extra' = Tail(extra)
    /\ pending' = IF byName[Head(extra)] \in ToSet(pending) THEN pending
                  ELSE Append(pending, byName[Head(extra)])
    /\ UNCHANGED <<ordered, byName, phase, candidates, started, failed, calls>>

AllSelected ==
    /\ phase = "selecting" /\ candidates = <<>> /\ extra = <<>>
    /\ phase' = "starting"
    /\ UNCHANGED <<ordered, byName, candidates, extra, pending, started, failed, calls>>

(* Factory and hook.Start succeed.                                           *)
StartHook ==
    /\ phase = "starting" /\ pending # <<>>
    /\ started' = Append(started, Head(pending))
    /\ calls' = [calls EXCEPT !.start = Append(@, Head(pending))]
    /\ pending' = Tail(pending)
    /\ UNCHANGED <<ordered, byName, phase, candidates, extra, failed>>

AllStarted ==
    /\ phase = "starting" /\ pending = <<>>
    /\ phase' = "running"
    /\ UNCHANGED <<ordered, byName, candidates, extra, pending, started, failed, calls>>

(* The factory fails or returns no hook: nothing of this item to undo.        *)
CreateFails ==
    /\ phase = "starting" /\ pending # <<>>
    /\ phase' = "stopping" /\ failed' = TRUE
    /\ UNCHANGED <<ordered, byName, candidates, extra, pending, started, calls>>

(* hook.Start fails: this hook is shut down first, then the others.           *)
StartFails ==
    /\ phase = "starting" /\ pending # <<>>
    /\ phase' = "stopping" /\ failed' = TRUE
    /\ calls' = [start |-> Append(calls.start, Head(pending)),
                 stop |-> Append(calls.stop, Head(pending))]
    /\ UNCHANGED <<ordered, byName, candidates, extra, pending, started>>

(* Manager.Shutdown, once, newest first; a failing hook does not stop it.     *)
Shutdown ==
    /\ phase = "running"
    /\ phase' = "stopping"
    /\ UNCHANGED <<ordered, byName, candidates, extra, pending, started, failed, calls>>

StopNext ==
    /\ phase = "stopping" /\ started # <<>>
    /\ calls' = [calls EXCEPT !.stop = Append(@, Last(started))]
    /\ started' = Front(started)
    /\ UNCHANGED <<ordered, byName, phase, candidates, extra, pending, failed>>

Stopped ==
    /\ phase = "stopping" /\ started = <<>>
    /\ phase' = "ended"
    /\ UNCHANGED <<ordered, byName, candidates, extra, pending, started, failed, calls>>

Next ==
    \/ \E i \in Items : Register(i)
    \/ \E r \in Requests : Start(r)
    \/ SelectDefault \/ SelectRequested \/ AllSelected
    \/ StartHook \/ AllStarted \/ CreateFails \/ StartFails
    \/ Shutdown \/ StopNext \/ Stopped

Spec == Init /\ [][Next]_registryVars

-----------------------------------------------------------------------------
(* Start and Manager.Shutdown: when a start failed or the manager was shut     *)
(* down, every hook whose Start was called was shut down exactly once, and in  *)
(* the reverse order; no hook is ever started twice, however it was requested. *)
HooksBalanced ==
    /\ IsInjective(calls.start)
    /\ phase = "ended" => calls.stop = Reverse(calls.start)
=============================================================================
