--------------------------- MODULE FeatureClient ---------------------------
(***************************************************************************)
(* The streaming client of feature/flags.go for a server-evaluated key: a  *)
(* loop keeps one stream to the edge server open, a context change cancels *)
(* it and asks again with the new attributes, the edge may call itself     *)
(* stale or fail, and callers read the values, wait for readiness and stop *)
(* the client meanwhile.                                                   *)
(*                                                                         *)
(* Time is left out: a delay, a stale window or a retention period ends at *)
(* any moment after it began.                                              *)
(***************************************************************************)
EXTENDS Naturals

CONSTANTS
    Attributes,        \* the evaluation contexts callers set
    DefaultAttributes, \* defaults
    Keys,              \* feature keys
    EdgeStates,        \* records of id and version the edge may send
    Waiters,           \* WaitReady calls, each made once
    Absent,            \* a key without a feature
    MaxRevision,       \* bound on context changes
    MaxFaults          \* bound on failed, ended and stale streams

ASSUME FeatureAssumption ==
    /\ DefaultAttributes \in Attributes
    /\ EdgeStates \subseteq [id : Nat, version : Nat]
    /\ MaxRevision \in Nat \ {0} /\ MaxFaults \in Nat

VARIABLES
    \* the repository, guarded by mu, and the lock-free readiness
    attributes, contextRevision,
    features,         \* per key, its state and the context it was evaluated for
    namespace,        \* featureContextRevision
    ready, readyRevision,
    setter,           \* the caller that changes the context; "locked" holds mu
    refresh,          \* the refresh channel holds a token
    waiter,           \* the WaitReady calls
    \* run and the stream it waits for
    pc, revision,
    refreshed,        \* the stream was cancelled for a context change
    received,         \* a feature event was applied since the request
    retrying,         \* retryAttempt > 0
    window,           \* staleWindowEnd: zero, in the future, or past
    regime,           \* staleRegimeDelay > 0
    interrupted,      \* staleInterrupted
    stale,            \* isStale of the result waited after
    stream,           \* the stream; "served" once it delivered a full set
    sent, result,
    terminal,         \* terminalFailure is closed
    stop,             \* how far Stop is
    timer,            \* staleTimer; "firing" once its callback has begun
    late,             \* a callback of an older staleGeneration has begun
    \* history
    kept,             \* the snapshot was kept ready after a stale reply, and no
                      \* feature event was applied since
    requests,         \* requests begun inside the open stale window
    faults            \* faults so far

repository == <<features, namespace>>
readiness == <<ready, readyRevision>>
callers == <<attributes, contextRevision, setter>>
pacing == <<retrying, window, regime, interrupted, stale>>
streamVars == <<stream, sent, result>>
retention == <<timer, late, kept>>
loopVars == <<pc, revision, refreshed>>
vars == <<repository, readiness, callers, refresh, waiter, loopVars, received, pacing,
          streamVars, terminal, stop, retention, requests, faults>>

Feature == [context : Attributes, id : Nat, version : Nat]
Waiting == {"ready", "revision", "subscribe", "readyAgain", "revisionAgain", "wait"}
Waiter == [pc : Waiting \cup {"idle", "ok", "error"}, target : 0 .. MaxRevision,
           signalled : BOOLEAN]

FlagsOK ==
    /\ ready \in BOOLEAN /\ refresh \in BOOLEAN /\ refreshed \in BOOLEAN
    /\ received \in BOOLEAN /\ retrying \in BOOLEAN /\ regime \in BOOLEAN
    /\ interrupted \in BOOLEAN /\ stale \in BOOLEAN /\ terminal \in BOOLEAN
    /\ late \in BOOLEAN /\ kept \in BOOLEAN

ValuesOK ==
    /\ attributes \in Attributes /\ sent \in Attributes
    /\ contextRevision \in 1 .. MaxRevision /\ revision \in 0 .. MaxRevision
    /\ namespace \in 0 .. MaxRevision /\ readyRevision \in 0 .. MaxRevision
    /\ features \in [Keys -> Feature \cup {Absent}]
    /\ setter \in {"idle", "locked", "notify"}
    /\ waiter \in [Waiters -> Waiter]
    /\ pc \in {"start", "select", "cancel", "stopping", "settle", "classify", "wait", "done"}
    /\ window \in {"none", "open", "ended"}
    /\ stream \in {"none", "new", "open", "signal", "served", "ended"}
    /\ result \in {"none", "cancelled", "error", "stale", "permanent"}
    /\ stop \in {"no", "cancelled", "cleared", "returned"}
    /\ timer \in {"off", "armed", "firing"}
    /\ requests \in Nat /\ faults \in 0 .. MaxFaults

TypeOK == FlagsOK /\ ValuesOK

(* InitWithOptions                                                         *)
Init ==
    /\ attributes = DefaultAttributes /\ contextRevision = 1
    /\ features = [k \in Keys |-> Absent] /\ namespace = 0
    /\ ready = FALSE /\ readyRevision = 0
    /\ setter = "idle" /\ refresh = FALSE
    /\ waiter = [w \in Waiters |-> [pc |-> "idle", target |-> 0, signalled |-> FALSE]]
    /\ pc = "start" /\ revision = 0 /\ refreshed = FALSE /\ received = FALSE
    /\ retrying = FALSE /\ window = "none" /\ regime = FALSE
    /\ interrupted = FALSE /\ stale = FALSE
    /\ stream = "none" /\ sent = DefaultAttributes /\ result = "none"
    /\ terminal = FALSE /\ stop = "no" /\ timer = "off" /\ late = FALSE
    /\ kept = FALSE /\ requests = 0 /\ faults = 0

Stopping == stop # "no"
----------------------------------------------------------------------------
(* Callers that change the context                                         *)

Bumped == contextRevision + 1

(* setAttributeValues, replaceAttributes: under mu, first the attributes   *)
(* and the revision ...                                                    *)
SetAttributes(a) ==
    /\ setter = "idle" /\ a # attributes /\ contextRevision < MaxRevision
    /\ attributes' = a /\ contextRevision' = Bumped
    /\ setter' = "locked"
    /\ UNCHANGED <<repository, readiness, refresh, waiter, loopVars, received, pacing,
                   streamVars, terminal, stop, retention, requests, faults>>

(* ... then the readiness, which WaitReady reads without the lock.         *)
Invalidate ==
    /\ setter = "locked"
    /\ ready' = FALSE /\ kept' = FALSE /\ setter' = "notify"
    /\ UNCHANGED <<repository, readyRevision, attributes, contextRevision, refresh, waiter,
                   loopVars, received, pacing, streamVars, terminal, stop, timer, late,
                   requests, faults>>

(* notifyContextChanged, after the unlock.                                 *)
NotifyContextChanged ==
    /\ setter = "notify"
    /\ refresh' = TRUE /\ setter' = "idle"
    /\ UNCHANGED <<repository, readiness, attributes, contextRevision, waiter, loopVars,
                   received, pacing, streamVars, terminal, stop, retention, requests,
                   faults>>
----------------------------------------------------------------------------
(* WaitReady                                                               *)

SetWaiter(w, new) ==
    /\ waiter' = [waiter EXCEPT ![w] = new]
    /\ UNCHANGED <<repository, readiness, callers, refresh, loopVars, received, pacing,
                   streamVars, terminal, stop, retention, requests, faults>>

At(w, where) == [waiter[w] EXCEPT !.pc = where]

WaitReady(w) ==
    /\ waiter[w].pc = "idle"
    /\ SetWaiter(w, [pc |-> "ready", target |-> contextRevision, signalled |-> FALSE])

(* Two loads: first ready, then readyRevision; before and after the        *)
(* waiter has taken the current signal.                                    *)
LoadReady(w) ==
    \/ /\ waiter[w].pc = "ready"
       /\ SetWaiter(w, At(w, IF ready THEN "revision" ELSE "subscribe"))
    \/ /\ waiter[w].pc = "readyAgain"
       /\ SetWaiter(w, At(w, IF ready THEN "revisionAgain" ELSE "wait"))

(* Mutant: readiness of any context will do.                               *)
AnyRevision(w) == TRUE

RevisionReached(w) == readyRevision >= waiter[w].target

LoadRevision(w) ==
    \/ /\ waiter[w].pc = "revision"
       /\ SetWaiter(w, At(w, IF RevisionReached(w) THEN "ok" ELSE "subscribe"))
    \/ /\ waiter[w].pc = "revisionAgain"
       /\ SetWaiter(w, [waiter[w] EXCEPT !.pc = IF RevisionReached(w) THEN "ok" ELSE "wait",
                                         !.signalled = @ /\ ~RevisionReached(w)])

(* Mutant: no second look after taking the signal.                         *)
SubscribeAndWait(w) ==
    /\ waiter[w].pc = "subscribe"
    /\ SetWaiter(w, [waiter[w] EXCEPT !.pc = "wait"])

(* currentReadySignal                                                      *)
Subscribe(w) ==
    /\ waiter[w].pc = "subscribe"
    /\ SetWaiter(w, [waiter[w] EXCEPT !.pc = "readyAgain"])

Wake(w) ==
    /\ waiter[w].pc = "wait" /\ waiter[w].signalled
    /\ SetWaiter(w, [waiter[w] EXCEPT !.pc = "ready", !.signalled = FALSE])

(* The stream failed for good, the caller's context ended, or Stop.        *)
GiveUp(w) ==
    /\ waiter[w].pc = "wait"
    /\ SetWaiter(w, [pc |-> "error", target |-> 0, signalled |-> FALSE])

(* signalReadyChange closes the signal every subscribed waiter holds.      *)
Signalled ==
    [w \in Waiters |->
        IF waiter[w].pc \in {"readyAgain", "revisionAgain", "wait"}
        THEN [waiter[w] EXCEPT !.signalled = TRUE] ELSE waiter[w]]
----------------------------------------------------------------------------
(* The retention of a ready snapshot while the edge is stale               *)

(* clearStaleRetention: a callback that has begun is of an old generation. *)
ClearStaleRetention ==
    /\ timer' = "off"
    /\ late' = (late \/ timer = "firing")

MayArm == timer = "off" /\ ~Stopping

Elapse ==
    /\ timer = "armed"
    /\ timer' = "firing"
    /\ UNCHANGED <<repository, readiness, callers, refresh, waiter, loopVars, received,
                   pacing, streamVars, terminal, stop, late, kept, requests, faults>>

(* A callback of an older generation or after Stop does nothing.           *)
Expires(old) == ~old /\ ~Stopping

(* The callback of the timer.                                              *)
RetentionEnds(old) ==
    /\ IF old THEN late ELSE timer = "firing"
    /\ late' = IF old THEN FALSE ELSE late
    /\ timer' = IF ~old /\ Expires(old) THEN "off" ELSE timer
    /\ ready' = (ready /\ ~Expires(old)) /\ kept' = (kept /\ ~Expires(old))
    /\ waiter' = IF Expires(old) THEN Signalled ELSE waiter
    /\ UNCHANGED <<repository, readyRevision, callers, refresh, loopVars, received, pacing,
                   streamVars, terminal, stop, requests, faults>>
----------------------------------------------------------------------------
(* consumeStream                                                           *)

(* newStreamRequest reads the attributes under mu.                         *)
Request ==
    /\ stream = "new" /\ setter # "locked"
    /\ sent' = attributes /\ stream' = "open"
    /\ UNCHANGED <<repository, readiness, callers, refresh, waiter, loopVars, received,
                   pacing, result, terminal, stop, retention, requests, faults>>

(* Mutant: events of a stream for an older context are applied.            *)
AnyContext == TRUE

(* Events of an older revision are dropped.                                *)
CurrentContext == contextRevision = revision

(* prepareFeatureNamespaceLocked                                           *)
Namespace == IF namespace = revision THEN features ELSE [k \in Keys |-> Absent]

(* featureIdentityChanged: two ids, 0 being none, tell a recreated feature. *)
IdentityChanged(new, old) == new.id # 0 /\ old.id # 0 /\ new.id # old.id

(* A recreated feature replaces the old one, otherwise the version decides. *)
Replaces(new, old) ==
    old = Absent \/ IdentityChanged(new, old) \/ new.version >= old.version

Evaluated(e) == [context |-> sent, id |-> e.id, version |-> e.version]

(* What every applied feature event does.                                  *)
Apply(new) ==
    /\ stream \in {"open", "served"} /\ setter # "locked" /\ CurrentContext
    /\ features' = new /\ namespace' = revision
    /\ ClearStaleRetention
    /\ received' = TRUE /\ kept' = FALSE
    /\ UNCHANGED <<callers, refresh, waiter, loopVars, pacing, sent, result, terminal,
                   stop, requests, faults>>

ApplyFullFeatureSet(snapshot) ==
    /\ Apply([k \in Keys |->
          IF snapshot[k] = Absent THEN Absent
          ELSE IF Replaces(Evaluated(snapshot[k]), Namespace[k]) THEN Evaluated(snapshot[k])
          ELSE Namespace[k]])
    /\ readyRevision' = revision /\ ready' = TRUE
    /\ stream' = "signal"

ApplyFeature(k, e) ==
    /\ Apply(IF Replaces(Evaluated(e), Namespace[k])
             THEN [Namespace EXCEPT ![k] = Evaluated(e)] ELSE Namespace)
    /\ UNCHANGED <<readiness, stream>>

(* A delete of another incarnation of the key is ignored.                  *)
DeleteFeature(k, e) ==
    /\ Apply(IF Namespace[k] # Absent /\ ~IdentityChanged(e, Namespace[k])
                /\ (e.version = 0 \/ e.version >= Namespace[k].version)
             THEN [Namespace EXCEPT ![k] = Absent] ELSE Namespace)
    /\ UNCHANGED <<readiness, stream>>

(* signalReadyChange, after the unlock.                                    *)
SignalReadyChange ==
    /\ stream = "signal"
    /\ stream' = "served" /\ waiter' = Signalled
    /\ UNCHANGED <<repository, readiness, callers, refresh, loopVars, received, pacing,
                   sent, result, terminal, stop, retention, requests, faults>>

EndStream(r) ==
    /\ stream' = "ended" /\ result' = r /\ sent' = DefaultAttributes
    /\ UNCHANGED <<repository, readiness, callers, refresh, waiter, loopVars, received,
                   pacing, terminal, stop, retention, requests>>

(* The request fails, the edge refuses it for good, ends the stream or     *)
(* declares itself stale.                                                  *)
StreamFails ==
    /\ faults < MaxFaults /\ faults' = faults + 1
    /\ \/ stream = "new" /\ \E r \in {"error", "permanent"} : EndStream(r)
       \/ stream \in {"open", "served"} /\ \E r \in {"error", "stale"} : EndStream(r)

(* The context of the stream was cancelled; buffered events may still be   *)
(* applied before it ends.                                                 *)
StreamCancelled ==
    /\ stream \in {"new", "open", "served"}
    /\ pc \in {"cancel", "stopping"} \/ Stopping
    /\ EndStream("cancelled")
    /\ UNCHANGED faults
----------------------------------------------------------------------------
(* run                                                                     *)

BeginRequest ==
    /\ pc = "start"
    /\ pc' = "select" /\ revision' = contextRevision /\ stream' = "new"
    /\ requests' = IF window = "open" THEN requests + 1 ELSE requests
    /\ UNCHANGED <<repository, readiness, callers, refresh, waiter, refreshed, received,
                   pacing, sent, result, terminal, stop, retention, faults>>

(* select: the stream ended, the context changed, or Stop.                 *)
AwaitStream ==
    /\ pc = "select"
    /\ \/ stream = "ended" /\ pc' = "settle" /\ UNCHANGED <<refreshed, refresh>>
       \/ refresh /\ refresh' = FALSE /\ refreshed' = TRUE /\ pc' = "cancel"
       \/ Stopping /\ pc' = "stopping" /\ UNCHANGED <<refreshed, refresh>>
    /\ UNCHANGED <<repository, readiness, callers, waiter, revision, received, pacing,
                   streamVars, terminal, stop, retention, requests, faults>>

(* The cancelled stream has ended; pending refreshes are drained.          *)
AwaitCancelled ==
    /\ pc \in {"cancel", "stopping"} /\ stream = "ended"
    /\ pc' = IF pc = "cancel" THEN "settle" ELSE "done"
    /\ refresh' = (refresh /\ pc # "cancel")
    /\ UNCHANGED <<repository, readiness, callers, waiter, revision, refreshed, received,
                   pacing, streamVars, terminal, stop, retention, requests, faults>>

(* Feature events end the backoff and the stale window.                    *)
Settle ==
    /\ pc = "settle"
    /\ pc' = IF Stopping THEN "done" ELSE "classify"
    /\ stream' = "none"
    /\ retrying' = (retrying /\ ~received) /\ regime' = (regime /\ ~received)
    /\ interrupted' = (interrupted /\ ~received)
    /\ window' = IF received THEN "none" ELSE window
    /\ requests' = IF received THEN 0 ELSE requests
    /\ UNCHANGED <<repository, readiness, callers, refresh, waiter, revision, refreshed,
                   received, stale, sent, result, terminal, stop, retention, faults>>

(* The variables of the iteration go out of scope.                         *)
EndIteration ==
    /\ revision' = 0 /\ refreshed' = FALSE /\ received' = FALSE /\ result' = "none"
    /\ UNCHANGED <<repository, readyRevision, callers, refresh, waiter, stream, sent, stop,
                   late, faults>>

(* Inside a stale window one context change asks again at once.            *)
MayAskAgain == ~retrying /\ (~regime \/ window # "open" \/ ~interrupted)

AskAgain ==
    /\ pc = "classify" /\ refreshed /\ MayAskAgain
    /\ pc' = "start" /\ interrupted' = regime
    /\ window' = IF regime THEN "open" ELSE window
    /\ EndIteration
    /\ UNCHANGED <<ready, retrying, regime, stale, terminal, timer, kept, requests>>

(* A refresh that has to wait changes neither readiness nor backoff.       *)
AskLater ==
    /\ pc = "classify" /\ refreshed /\ ~MayAskAgain
    /\ pc' = "wait" /\ stale' = FALSE
    /\ EndIteration
    /\ UNCHANGED <<ready, retrying, window, regime, interrupted, terminal, timer, kept,
                   requests>>

(* retainReadyDuringStaleWindow: a ready snapshot stays ready, until a     *)
(* deadline that the first stale reply fixes.                              *)
StaleReply ==
    /\ pc = "classify" /\ ~refreshed /\ result = "stale"
    /\ pc' = "wait" /\ stale' = TRUE /\ regime' = TRUE
    /\ window' = "open"
    /\ interrupted' = (interrupted /\ window = "open")
    /\ kept' = ready
    /\ timer' = IF ready /\ MayArm THEN "armed" ELSE timer
    /\ EndIteration
    /\ UNCHANGED <<ready, retrying, terminal, requests>>

(* Any other end: not ready, and after a permanent refusal never again.    *)
StreamLost ==
    /\ pc = "classify" /\ ~refreshed /\ result # "stale"
    /\ ready' = FALSE /\ kept' = FALSE /\ requests' = 0
    /\ window' = "none" /\ regime' = FALSE /\ interrupted' = FALSE /\ stale' = FALSE
    /\ terminal' = (result = "permanent")
    /\ pc' = IF result = "permanent" THEN "done" ELSE "wait"
    /\ retrying' = (retrying \/ (result # "permanent" /\ ~received))
    /\ EndIteration
    /\ UNCHANGED timer

(* Mutant: every context change interrupts a stale wait.                   *)
InterruptsAlways == stale

InterruptsWait == stale /\ ~interrupted

(* The delay before the next request.  Stale delays last until the window  *)
(* has ended; a context change cuts one short, once.                       *)
Delay ==
    /\ pc = "wait"
    /\ \/ /\ refresh /\ refresh' = FALSE
          /\ interrupted' = (interrupted \/ InterruptsWait)
          /\ pc' = IF InterruptsWait THEN "start" ELSE "wait"
       \/ /\ stale \/ interrupted => window # "open"
          /\ pc' = "start" /\ UNCHANGED <<refresh, interrupted>>
       \/ /\ Stopping
          /\ pc' = "done" /\ UNCHANGED <<refresh, interrupted>>
    /\ UNCHANGED <<repository, readiness, callers, waiter, revision, refreshed, received,
                   retrying, window, regime, stale, streamVars, terminal, stop, retention,
                   requests, faults>>

WindowEnds ==
    /\ window = "open"
    /\ window' = "ended" /\ requests' = 0
    /\ UNCHANGED <<repository, readiness, callers, refresh, waiter, loopVars, received,
                   retrying, regime, interrupted, stale, streamVars, terminal, stop,
                   retention, faults>>
----------------------------------------------------------------------------
(* Stop cancels, clears the retention and waits for run to be done.        *)
Stop ==
    /\ \/ stop = "no" /\ stop' = "cancelled" /\ UNCHANGED <<timer, late>>
       \/ stop = "cancelled" /\ stop' = "cleared" /\ ClearStaleRetention
       \/ stop = "cleared" /\ pc = "done" /\ stop' = "returned" /\ UNCHANGED <<timer, late>>
    /\ UNCHANGED <<repository, readiness, callers, refresh, waiter, loopVars, received,
                   pacing, streamVars, terminal, kept, requests, faults>>

Run ==
    \/ BeginRequest \/ AwaitStream \/ AwaitCancelled \/ Settle \/ AskAgain \/ AskLater
    \/ StaleReply \/ StreamLost \/ Delay

Snapshots == [Keys -> EdgeStates \cup {Absent}]

WaitStep(w) == LoadReady(w) \/ LoadRevision(w) \/ Subscribe(w) \/ Wake(w)

Next ==
    \/ \E a \in Attributes : SetAttributes(a)
    \/ Invalidate \/ NotifyContextChanged
    \/ \E w \in Waiters : WaitReady(w) \/ WaitStep(w) \/ GiveUp(w)
    \/ Elapse \/ \E old \in BOOLEAN : RetentionEnds(old)
    \/ Request \/ SignalReadyChange \/ StreamFails \/ StreamCancelled
    \/ \E s \in Snapshots : ApplyFullFeatureSet(s)
    \/ \E k \in Keys, e \in EdgeStates : ApplyFeature(k, e) \/ DeleteFeature(k, e)
    \/ Run \/ WindowEnds \/ Stop

Spec == Init /\ [][Next]_vars
----------------------------------------------------------------------------
ValuesCurrent ==
    /\ namespace = contextRevision
    /\ \A k \in Keys : features[k] = Absent \/ features[k].context = attributes

(* While the client is ready, every cached value was evaluated by the edge *)
(* for the attributes now set, whatever streams of older contexts still    *)
(* deliver ("publish stale values for the new server-evaluated context").  *)
ReadyMeansCurrent == ready /\ setter # "locked" => ValuesCurrent

(* After WaitReady returned nil and until the next context change, every   *)
(* value a caller reads was evaluated for the context it had set, although *)
(* WaitReady reads readiness and revisions without the lock.               *)
WaitOkMeansCurrent ==
    \A w \in Waiters :
        waiter[w].pc = "ok" /\ waiter[w].target = contextRevision => ValuesCurrent

(* "A server-directed stale window allows one immediate context-change     *)
(* interrupt": at most one request is begun inside a stale window.         *)
OneRequestPerWindow == requests <= 1

(* "a continuously stale edge cannot keep a snapshot ready for longer than *)
(* the retention bound": while one is kept ready the timer runs, and none  *)
(* is armed once Stop has cleared it.                                      *)
RetentionBounded ==
    /\ ready /\ kept /\ ~Stopping => timer # "off"
    /\ stop \in {"cleared", "returned"} => timer = "off"
(* A stale edge is asked once per window and tolerated for a bounded time. *)
StaleIsBounded == OneRequestPerWindow /\ RetentionBounded
----------------------------------------------------------------------------
(* Fairness: goroutines are scheduled, timers run, the edge answers a      *)
(* request with one full set of features, and a waiter is told of a        *)
(* permanent failure or of Stop.  Failures are bounded by MaxFaults.       *)
Fairness ==
    /\ WF_vars(Run) /\ WF_vars(Request) /\ WF_vars(SignalReadyChange)
    /\ WF_vars(StreamCancelled) /\ WF_vars(WindowEnds)
    /\ WF_vars(Invalidate) /\ WF_vars(NotifyContextChanged)
    /\ WF_vars(stream = "open" /\ \E s \in Snapshots : ApplyFullFeatureSet(s))
    /\ \A w \in Waiters : /\ WF_vars(WaitStep(w))
                          /\ WF_vars((terminal \/ Stopping) /\ GiveUp(w))

LiveSpec == Spec /\ Fairness

(* WaitReady always returns: no context change, signal or expiry is lost   *)
(* that would leave it waiting for a context nobody asks for.              *)
WaitsEnd == \A w \in Waiters : waiter[w].pc \in Waiting ~> waiter[w].pc \in {"ok", "error"}
============================================================================
