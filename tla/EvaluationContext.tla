------------------------- MODULE EvaluationContext -------------------------
(* The request contexts of feature/context.go and the polling client that   *)
(* Init of feature/flags.go still returns.  Build reads the attributes,     *)
(* asks the edge without holding the lock, and publishes the answer only if *)
(* nothing changed meanwhile; goroutines share one context.  A snapshot is  *)
(* the attributes it was evaluated for.  The edge server is external.       *)
EXTENDS Integers

CONSTANTS
    Attributes,     \* the attribute maps callers set
    Defaults,       \* the client's defaults, restored by Clear
    Builders,       \* goroutines that call Build
    Setters,        \* goroutines that set the polling client's keys
    MaxRevision     \* bound: changes of the context

VARIABLES
    kind,           \* "legacy" polling, "client" or "server" evaluated
    attributes, revision, built,
    snapshot,       \* features or legacyValues, Unset when nil
    building,       \* per builder: pc and what it read
    key, flags,     \* legacyClient: the context and what flags belong to
    refreshing,     \* per goroutine that refreshes: pc and the key it read
    stopped,        \* legacyClient.stopped
    ready           \* the shared repository is ready

contextVars == <<attributes, revision, built, snapshot, building>>
legacyVars == <<key, flags, refreshing, stopped>>
evalVars == <<kind, contextVars, legacyVars, ready>>

Unset == "unset"
Poller == "poller"
Refreshers == Setters \cup {Poller}
Idle == [pc |-> "idle", read |-> Defaults, revision |-> 0]

(* Init fetches once before it returns; NewContext copies the defaults.     *)
Init ==
    /\ kind \in {"legacy", "client", "server"}
    /\ attributes = Defaults /\ revision = 0 /\ built = FALSE /\ snapshot = Unset
    /\ building = [b \in Builders |-> Idle]
    /\ key = Defaults /\ flags = Defaults
    /\ refreshing = [r \in Refreshers |-> [pc |-> "idle", read |-> Defaults]]
    /\ stopped = FALSE /\ ready = FALSE

(* AttributeValues and the setters over it; Clear restores the defaults.    *)
Change(to) ==
    /\ revision < MaxRevision /\ revision' = revision + 1
    /\ attributes' = to /\ snapshot' = Unset /\ built' = FALSE
    /\ UNCHANGED <<kind, building, legacyVars, ready>>
AttributeValues == \E a \in Attributes : Change(a)
Clear == Change(Defaults)

(* Build, first half: attributes and revision in one critical section.      *)
BeginBuild(b) ==
    /\ building[b].pc = "idle"
    /\ building' = [building EXCEPT ![b] = [pc |-> "asking", read |-> attributes, revision |-> revision]]
    /\ UNCHANGED <<kind, attributes, revision, built, snapshot, legacyVars, ready>>

(* snapshotFor, WaitReady or evaluatedFeaturesForContext ends.              *)
Answered(b) ==
    /\ building[b].pc = "asking"
    /\ \/ kind # "client" /\ building' = [building EXCEPT ![b].pc = "answered"]
       \/ kind = "client" /\ ready /\ building' = [building EXCEPT ![b].pc = "answered"]
       \/ building' = [building EXCEPT ![b] = Idle]         \* error or timeout
    /\ UNCHANGED <<kind, attributes, revision, built, snapshot, legacyVars, ready>>

\* Mutant: the answer is published whatever happened to the context meanwhile.
PublishLate(b) ==
    /\ building[b].pc = "answered"
    /\ building' = [building EXCEPT ![b] = Idle]
    /\ built' = TRUE /\ snapshot' = IF kind = "client" THEN snapshot ELSE building[b].read
    /\ UNCHANGED <<kind, attributes, revision, legacyVars, ready>>

(* Build, second half: a changed context refuses the answer.                *)
Publish(b) ==
    /\ building[b].pc = "answered"
    /\ building' = [building EXCEPT ![b] = Idle]
    /\ IF building[b].revision = revision
       THEN /\ built' = TRUE
            /\ snapshot' = IF kind = "client" THEN snapshot ELSE building[b].read
       ELSE UNCHANGED <<built, snapshot>>
    /\ UNCHANGED <<kind, attributes, revision, legacyVars, ready>>

(* evaluatedValue: the context a value of this context is evaluated for.    *)
EvaluatedFor ==
    IF kind = "client" THEN attributes
    ELSE IF built THEN snapshot ELSE Unset

RepositoryReady ==
    /\ kind = "client" /\ ~ready /\ ready' = TRUE
    /\ UNCHANGED <<kind, contextVars, legacyVars>>

-----------------------------------------------------------------------------
(* The polling client: setUserKey, setSessionKey and resetContext store the *)
(* key and refresh; so does every tick.                                     *)
SetKey(s) ==
    /\ kind = "legacy" /\ refreshing[s].pc = "idle"
    /\ \E k \in Attributes : key' = k
    /\ refreshing' = [refreshing EXCEPT ![s].pc = "begin"]
    /\ UNCHANGED <<kind, contextVars, flags, stopped, ready>>

Tick ==
    /\ kind = "legacy" /\ ~stopped /\ refreshing[Poller].pc = "idle"
    /\ refreshing' = [refreshing EXCEPT ![Poller].pc = "begin"]
    /\ UNCHANGED <<kind, contextVars, key, flags, stopped, ready>>

(* refresh: read the key, fetch without the lock, store.                    *)
ReadKey(r) ==
    /\ refreshing[r].pc = "begin"
    /\ refreshing' = [refreshing EXCEPT ![r] = [pc |-> "fetch", read |-> key]]
    /\ UNCHANGED <<kind, contextVars, key, flags, stopped, ready>>

Fetched(r) ==
    /\ refreshing[r].pc = "fetch"
    /\ flags' \in {flags, refreshing[r].read}       \* a failed fetch keeps the flags
    /\ refreshing' = [refreshing EXCEPT ![r].pc = "idle"]
    /\ UNCHANGED <<kind, contextVars, key, stopped, ready>>

StopPolling ==
    /\ kind = "legacy" /\ ~stopped /\ stopped' = TRUE
    /\ UNCHANGED <<kind, contextVars, key, flags, refreshing, ready>>

Next ==
    \/ AttributeValues \/ Clear \/ RepositoryReady
    \/ \E b \in Builders : BeginBuild(b) \/ Answered(b) \/ Publish(b)
    \/ \E s \in Setters : SetKey(s)
    \/ Tick \/ StopPolling
    \/ \E r \in Refreshers : ReadKey(r) \/ Fetched(r)

Spec == Init /\ [][Next]_evalVars

-----------------------------------------------------------------------------
(* Properties.                                                              *)

(* A value read from a built context was evaluated for the attributes the   *)
(* context has now, whatever Builds and setters ran side by side.           *)
BuiltForCurrentAttributes ==
    built => (EvaluatedFor = attributes)
=============================================================================
