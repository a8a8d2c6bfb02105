---------------------------- MODULE MetricRouter ----------------------------
(* The routing meter provider of otelmetrics/routing.go: installed once as  *)
(* the global OpenTelemetry provider, it redirects the meters, instruments  *)
(* and callbacks it handed out whenever its target changes.  One meter is   *)
(* modelled; setTarget holds its mutex from the first rebind to the last,   *)
(* while Unregister and measurements need only the lock of one registration *)
(* or instrument and run in between.  The targets' SDK is external: it may  *)
(* refuse an instrument or a callback, and may fail to unregister one, in   *)
(* which case the callback is taken to stay where it is.                    *)
EXTENDS Integers

CONSTANTS
    Targets,        \* meter providers that are installed one after the other
    Instruments,    \* keys of synchronous instruments
    Observables,    \* keys of observable instruments
    Inline,         \* observables made with a callback of their own: never cached,
                    \* so each stands for one call, not for a key
    Callbacks,      \* registrations: a callback over every observable
    MaxSwitches     \* bound: calls of setTarget

VARIABLES
    target,         \* provider.target, and the meter's once it holds its lock
    route,          \* per instrument: where it records, None before it exists
    phase,          \* of setTarget: "idle", "instruments", "registrations"
    todo,           \* what the running setTarget has not rebound yet
    switches,
    registration,   \* per callback: "new", "active", "ending" or "off"
    current,        \* per callback: the SDK's registration it holds, or None
    listed,         \* meter.registrations
    live,           \* registrations at the SDKs: <<callback, target, switch>>
    refused,        \* those whose Unregister the SDK answered with an error
    failed          \* a rebind of the running or the last setTarget failed

routerVars == <<target, route, phase, todo, switches, registration, current, listed,
                live, refused, failed>>

None == "none"
All == Instruments \cup Observables \cup Inline
Existing == {i \in All : route[i] # None}
Unlocked == phase = "idle"      \* the meter's mutex is free

(* newRoutingMeterProvider and the first Meter call.                        *)
Init ==
    /\ target \in Targets /\ route = [i \in All |-> None]
    /\ phase = "idle" /\ todo = {} /\ switches = 0
    /\ registration = [c \in Callbacks |-> "new"] /\ current = [c \in Callbacks |-> None]
    /\ listed = {} /\ live = {} /\ refused = {} /\ failed = FALSE

(* What the SDK of the target hands out for callback c, at this switch.     *)
Here(c) == <<c, target, switches>>

(* Binding an observable with its own callback registers that with the SDK. *)
LiveWith(i) == IF i \in Inline THEN live \cup {Here(i)} ELSE live

(* Int64Counter and its siblings: a key that exists returns the same        *)
(* instrument, a new one is bound to the target; the SDK may refuse it.     *)
Create(i) ==
    /\ Unlocked /\ route[i] = None
    /\ route' = [route EXCEPT ![i] = target] /\ live' = LiveWith(i)
    /\ UNCHANGED <<target, phase, todo, switches, registration, current, listed,
                   refused, failed>>
CreateInstrument == \E i \in Instruments : Create(i)
CreateObservable == \E i \in Observables \cup Inline : Create(i)

(* RegisterCallback: its instruments come from this meter, and the target   *)
(* takes them only if each is bound to that target.                         *)
BoundHere == \A o \in Observables : route[o] = target
RegisterCallback(c) ==
    /\ Unlocked /\ registration[c] = "new" /\ Observables \subseteq Existing /\ BoundHere
    /\ registration' = [registration EXCEPT ![c] = "active"]
    /\ current' = [current EXCEPT ![c] = Here(c)]
    /\ listed' = listed \cup {c} /\ live' = live \cup {Here(c)}
    /\ UNCHANGED <<target, route, phase, todo, switches, refused, failed>>

(* setTarget of the provider, then of the meter: instruments, then          *)
(* registrations, under both locks.                                         *)
SetTarget(t) ==
    /\ Unlocked /\ switches < MaxSwitches /\ switches' = switches + 1
    /\ target' = t /\ phase' = "instruments" /\ todo' = Existing /\ failed' = FALSE
    /\ UNCHANGED <<route, registration, current, listed, live, refused>>

(* instrumentRoute.rebind: an instrument the new target refuses stays.  An  *)
(* observable's own callback is registered anew and never leaves the old    *)
(* SDK, which offers no way to take it back.                                *)
RebindInstrument(i) ==
    /\ phase = "instruments" /\ i \in todo /\ todo' = todo \ {i}
    /\ \/ route' = [route EXCEPT ![i] = target] /\ live' = LiveWith(i) /\ UNCHANGED failed
       \/ failed' = TRUE /\ UNCHANGED <<route, live>>
    /\ UNCHANGED <<target, phase, switches, registration, current, listed, refused>>

EndInstruments ==
    /\ phase = "instruments" /\ todo = {}
    /\ phase' = "registrations" /\ todo' = listed
    /\ UNCHANGED <<target, route, switches, registration, current, listed, live, refused,
                   failed>>

(* routingRegistration.rebind: the new target is asked first; once it took  *)
(* the callback the old registration is given up, and if the SDK does not   *)
(* let go of it the rebind reports that.                                    *)
Moved(c) ==
    /\ BoundHere /\ current' = [current EXCEPT ![c] = Here(c)]
    /\ \/ live' = (live \ {current[c]}) \cup {Here(c)} /\ UNCHANGED <<refused, failed>>
       \/ /\ live' = live \cup {Here(c)}
          /\ refused' = refused \cup {current[c]} /\ failed' = TRUE
NotMoved == failed' = TRUE /\ UNCHANGED <<current, live, refused>>

\* Mutant: the rebind does not look whether the registration is still active.
RebindAnyRegistration(c) ==
    /\ phase = "registrations" /\ c \in todo /\ todo' = todo \ {c}
    /\ Moved(c) \/ NotMoved
    /\ UNCHANGED <<target, route, phase, switches, registration, listed>>

RebindRegistration(c) ==
    /\ phase = "registrations" /\ c \in todo /\ todo' = todo \ {c}
    /\ IF registration[c] # "active" THEN UNCHANGED <<current, live, refused, failed>>
       ELSE Moved(c) \/ NotMoved
    /\ UNCHANGED <<target, route, phase, switches, registration, listed>>

EndSetTarget ==
    /\ phase = "registrations" /\ todo = {} /\ phase' = "idle"
    /\ UNCHANGED <<target, route, todo, switches, registration, current, listed, live,
                   refused, failed>>

(* Unregister: deactivated under its own lock, whatever the SDK answers,    *)
(* and taken off the meter's list only when the meter's lock is free.       *)
Unregister(c) ==
    /\ registration[c] = "active" /\ registration' = [registration EXCEPT ![c] = "ending"]
    /\ current' = [current EXCEPT ![c] = None]
    /\ \/ live' = live \ {current[c]} /\ UNCHANGED refused
       \/ refused' = refused \cup {current[c]} /\ UNCHANGED live
    /\ UNCHANGED <<target, route, phase, todo, switches, listed, failed>>
RemoveRegistration(c) ==
    /\ Unlocked /\ registration[c] = "ending"
    /\ registration' = [registration EXCEPT ![c] = "off"] /\ listed' = listed \ {c}
    /\ UNCHANGED <<target, route, phase, todo, switches, current, live, refused, failed>>

Next ==
    \/ CreateInstrument \/ CreateObservable
    \/ \E c \in Callbacks : RegisterCallback(c) \/ RebindRegistration(c)
                              \/ Unregister(c) \/ RemoveRegistration(c)
    \/ \E t \in Targets : SetTarget(t)
    \/ \E i \in All : RebindInstrument(i)
    \/ EndInstruments \/ EndSetTarget

Spec == Init /\ [][Next]_routerVars

(* However Unregister interleaves with a change of the target, an active    *)
(* callback is registered with one SDK and an unregistered one with none,   *)
(* but for the registrations an SDK reported it could not withdraw; and     *)
(* after a change that reported no failure everything the program holds,    *)
(* an observable's own callback included, reports to the current target.    *)
Registered(c) == {r \in live : r[1] = c}
CallbackAtOneTarget ==
    /\ \A c \in Callbacks :
        IF registration[c] = "active"
        THEN current[c] \in live /\ Registered(c) \subseteq refused \cup {current[c]}
        ELSE Registered(c) \subseteq refused
    /\ \A i \in Inline : route[i] # None => \E r \in Registered(i) : r[2] = route[i]
    /\ phase = "idle" /\ ~failed =>
        /\ \A i \in Existing : route[i] = target
        /\ \A c \in Callbacks : registration[c] = "active" => current[c][2] = target
=============================================================================
