------------------------- MODULE ConfluentProducer -------------------------
(***************************************************************************)
(* The advanced producer of kafka/confluent.go: concurrent Produce calls   *)
(* over one driver per acknowledgement level, delivery reports drained in  *)
(* the background, shared metadata refreshes, and the three Close          *)
(* policies with their deadline.                                           *)
(***************************************************************************)
EXTENDS Integers, FiniteSets

CONSTANTS
    Calls,           \* Produce and ProduceBatch calls, each made once
    Closers,         \* Close calls, each made once
    Acks,            \* acknowledgement levels: one driver each
    ConfiguredAcks,  \* the level Connect creates its driver for
    NoRefresh,       \* no level
    Messages,        \* messages per call
    Policies,        \* the close policies producers are created with
    NeedsMetadata,   \* TRUE: keyless messages with the KafkaJS partitioner
    MaxFaults        \* bound on enqueue, delivery, flush and metadata errors

ClosePolicies == {"flush", "disconnect", "await"}

ASSUME ProducerAssumption ==
    /\ ConfiguredAcks \in Acks /\ NoRefresh \notin Acks
    /\ Messages \in Nat
    /\ Policies \subseteq ClosePolicies
    /\ NeedsMetadata \in BOOLEAN
    /\ MaxFaults \in Nat
    /\ IsFiniteSet(Calls)

VARIABLES
    policy,      \* closePolicy
    connected,   \* producer # nil
    closed,      \* admission has stopped
    driver,      \* per level: "none", "open", "closed"
    call,        \* the Produce calls and their drainers
    inFlight,    \* the WaitGroup
    pending,     \* pendingReports
    cached,      \* metadataCache holds a fresh entry
    refresh,     \* level of the driver a metadata refresh uses, or NoRefresh
    shutdown,    \* progress of the goroutine that closes the drivers
    unique,      \* levels whose drivers the shutdown flushes and closes
    flushing,    \* those of them whose Flush has not returned
    remaining,   \* messages the shutdown found undelivered
    closeErr,    \* closeErr, "none" until closeDone is closed
    closer,      \* the Close calls: "idle", "waiting" or what they returned
    faults       \* faults so far

vars == <<policy, connected, closed, driver, call, inFlight, pending, cached,
          refresh, shutdown, unique, flushing, remaining, closeErr, closer, faults>>

(* A call.  owed counts accepted messages whose report the driver has not  *)
(* delivered, queued the reports in the delivery channel.  meta is what    *)
(* the refresh the call waits for has returned, stopped says that the      *)
(* driver refused a message, failed that a report or an unsent message     *)
(* makes the drained result an error.                                      *)
PCs == {"idle", "metadata", "enqueue", "wait", "returned"}
Call == [pc : PCs, acks : Acks, meta : {"none", "waiting", "ok", "error"},
         left : 0 .. Messages, accepted : 0 .. Messages,
         owed : 0 .. Messages, queued : 0 .. Messages,
         draining : BOOLEAN, stopped : BOOLEAN, failed : BOOLEAN,
         cancelled : BOOLEAN, result : {"none", "ok", "error"}]

IdleCall == [pc |-> "idle", acks |-> ConfiguredAcks, meta |-> "none",
             left |-> Messages, accepted |-> 0, owed |-> 0, queued |-> 0,
             draining |-> FALSE, stopped |-> FALSE, failed |-> FALSE,
             cancelled |-> FALSE, result |-> "none"]

Results == {"ok", "undelivered", "timeout"}

TypeOK ==
    /\ policy \in Policies
    /\ connected \in BOOLEAN /\ closed \in BOOLEAN /\ cached \in BOOLEAN
    /\ driver \in [Acks -> {"none", "open", "closed"}]
    /\ call \in [Calls -> Call]
    /\ inFlight \in Nat /\ pending \in Nat /\ remaining \in Nat /\ faults \in Nat
    /\ refresh \in Acks \cup {NoRefresh}
    /\ shutdown \in {"none", "running", "done"}
    /\ unique \subseteq Acks /\ flushing \subseteq unique
    /\ closeErr \in Results \cup {"none"}
    /\ closer \in [Closers -> Results \cup {"idle", "leading", "waiting"}]

Init ==
    /\ policy \in Policies
    /\ connected = FALSE /\ closed = FALSE /\ cached = FALSE
    /\ driver = [a \in Acks |-> "none"]
    /\ call = [c \in Calls |-> IdleCall]
    /\ inFlight = 0 /\ pending = 0 /\ remaining = 0 /\ faults = 0
    /\ refresh = NoRefresh
    /\ shutdown = "none" /\ unique = {} /\ flushing = {} /\ closeErr = "none"
    /\ closer = [k \in Closers |-> "idle"]
----------------------------------------------------------------------------
shutdownVars == <<shutdown, unique, flushing, remaining>>
closeVars == <<closed, shutdownVars, closeErr, closer>>
metaVars == <<cached, refresh>>

Fault == faults < MaxFaults /\ faults' = faults + 1

SetCall(c, k) == call' = [call EXCEPT ![c] = k]
Returned(k, r) == [k EXCEPT !.pc = "returned", !.result = r]

(* Connect: the driver is created and checked under mu.                    *)
Connect ==
    /\ ~closed /\ ~connected
    /\ connected' = TRUE
    /\ driver' = [driver EXCEPT ![ConfiguredAcks] = "open"]
    /\ UNCHANGED <<policy, call, inFlight, pending, metaVars, closeVars, faults>>

(* producerForAcksLocked                                                   *)
Admitted == ~closed /\ connected

(* beginProduce: the call is in flight from here on, and a driver for its  *)
(* level exists.  A level the options forbid, or a driver that cannot be   *)
(* created, is an error.                                                   *)
BeginProduce(c, a) ==
    /\ call[c].pc = "idle"
    /\ \/ /\ Admitted
          /\ driver' = [driver EXCEPT ![a] = IF @ = "none" THEN "open" ELSE @]
          /\ inFlight' = inFlight + 1
          /\ SetCall(c, [call[c] EXCEPT !.acks = a,
                           !.pc = IF NeedsMetadata THEN "metadata" ELSE "enqueue"])
          /\ UNCHANGED faults
       \/ /\ IF Admitted THEN driver[a] = "none" /\ Fault ELSE UNCHANGED faults
          /\ SetCall(c, Returned(call[c], "error"))
          /\ UNCHANGED <<driver, inFlight>>
    /\ UNCHANGED <<policy, connected, pending, metaVars, closeVars>>

(* Mutant: a call that gives up early keeps its in-flight mark.            *)
AbandonInFlight(c) ==
    /\ UNCHANGED inFlight
    /\ SetCall(c, Returned(call[c], "error"))

(* done() and an error, before anything was accepted.                      *)
Abandon(c) ==
    /\ inFlight' = inFlight - 1
    /\ SetCall(c, Returned(call[c], "error"))

(* Mutant: a refresh is not counted as in flight by itself.                *)
RefreshUncounted(c) ==
    /\ refresh' = call[c].acks
    /\ SetCall(c, [call[c] EXCEPT !.meta = "waiting"])
    /\ UNCHANGED inFlight

(* The call becomes the one that refreshes the topic's metadata; the       *)
(* refresh is in flight on its own.                                        *)
StartRefresh(c) ==
    /\ refresh' = call[c].acks
    /\ inFlight' = inFlight + 1
    /\ SetCall(c, [call[c] EXCEPT !.meta = "waiting"])

(* kafkaJSPartitionMetadata: the cache, a running refresh, or a new one.   *)
AskMetadata(c) ==
    LET k == call[c] IN
    /\ k.pc = "metadata" /\ k.meta = "none"
    /\ \/ k.cancelled /\ Abandon(c) /\ UNCHANGED refresh
       \/ /\ ~k.cancelled /\ cached
          /\ SetCall(c, [k EXCEPT !.pc = "enqueue"])
          /\ UNCHANGED <<inFlight, refresh>>
       \/ /\ ~k.cancelled /\ ~cached /\ refresh # NoRefresh
          /\ SetCall(c, [k EXCEPT !.meta = "waiting"])
          /\ UNCHANGED <<inFlight, refresh>>
       \/ ~k.cancelled /\ ~cached /\ refresh = NoRefresh /\ StartRefresh(c)
    /\ UNCHANGED <<policy, connected, driver, pending, cached, closeVars, faults>>

(* waitForKafkaJSMetadata                                                  *)
GotMetadata(c) ==
    LET k == call[c] IN
    /\ k.pc = "metadata" /\ k.meta # "none"
    /\ \/ /\ k.cancelled \/ k.meta = "error"
          /\ Abandon(c)
       \/ /\ ~k.cancelled /\ k.meta = "ok"
          /\ SetCall(c, [k EXCEPT !.pc = "enqueue"])
          /\ UNCHANGED inFlight
    /\ UNCHANGED <<policy, connected, driver, pending, metaVars, closeVars, faults>>

(* refresh.done is closed: every waiting call has the answer.              *)
Refreshed(ok) ==
    [c \in Calls |-> IF call[c].meta = "waiting"
                     THEN [call[c] EXCEPT !.meta = IF ok THEN "ok" ELSE "error"]
                     ELSE call[c]]

(* refreshKafkaJSPartitionMetadata: the driver has answered.               *)
EndRefresh ==
    /\ refresh # NoRefresh
    /\ \E ok \in BOOLEAN :
          /\ IF ok THEN UNCHANGED faults ELSE Fault
          /\ cached' = (cached \/ ok)
          /\ call' = Refreshed(ok)
    /\ refresh' = NoRefresh
    /\ inFlight' = inFlight - 1
    /\ UNCHANGED <<policy, connected, driver, pending, closeVars>>

(* The cache entry expires, or a topology error invalidates it.            *)
DropMetadata ==
    /\ cached
    /\ cached' = FALSE
    /\ UNCHANGED <<policy, connected, driver, call, inFlight, pending, refresh, closeVars, faults>>
----------------------------------------------------------------------------
(* produceAndDrain: the driver accepts the next message or refuses it.     *)
Enqueue(c) ==
    LET k == call[c] IN
    /\ k.pc = "enqueue" /\ ~k.stopped /\ ~k.cancelled
    /\ k.left > 0
    /\ \/ /\ SetCall(c, [k EXCEPT !.left = @ - 1, !.accepted = @ + 1, !.owed = @ + 1])
          /\ pending' = pending + 1
          /\ UNCHANGED faults
       \/ Fault /\ SetCall(c, [k EXCEPT !.stopped = TRUE]) /\ UNCHANGED pending
    /\ UNCHANGED <<policy, connected, driver, inFlight, metaVars, closeVars>>

EnqueueEnds(k) == k.pc = "enqueue" /\ (k.stopped \/ k.cancelled \/ k.left = 0)

(* The drainer starts; a caller that is cancelled by now does not wait.    *)
Drainer(k) ==
    IF k.cancelled THEN [Returned(k, "error") EXCEPT !.draining = TRUE]
    ELSE [k EXCEPT !.pc = "wait", !.draining = TRUE, !.failed = @ \/ k.left > 0]

(* The end of the enqueue loop: without an accepted message the call is    *)
(* over, otherwise the drainer takes over the in-flight mark.              *)
StartDrain(c) ==
    LET k == call[c] IN
    /\ EnqueueEnds(k)
    /\ IF k.accepted = 0
       THEN /\ inFlight' = inFlight - 1
            /\ SetCall(c, Returned(k, IF k.left > 0 THEN "error" ELSE "ok"))
       ELSE /\ SetCall(c, Drainer(k))
            /\ UNCHANGED inFlight
    /\ UNCHANGED <<policy, connected, driver, pending, metaVars, closeVars, faults>>

(* The driver delivers one report, of a success or of a failure.           *)
Report(c) ==
    LET k == call[c] IN
    /\ k.owed > 0
    /\ \/ SetCall(c, [k EXCEPT !.owed = @ - 1, !.queued = @ + 1]) /\ UNCHANGED faults
       \/ Fault /\ SetCall(c, [k EXCEPT !.owed = @ - 1, !.queued = @ + 1, !.failed = TRUE])
    /\ UNCHANGED <<policy, connected, driver, inFlight, pending, metaVars, closeVars>>

(* The drainer takes one report from the channel, and after the last one   *)
(* marks the call as no longer in flight.                                  *)
Drain(c) ==
    LET k == call[c]
        last == k.owed = 0 /\ k.queued = 1
    IN
    /\ k.draining /\ k.queued > 0
    /\ pending' = pending - 1
    /\ SetCall(c, [k EXCEPT !.queued = @ - 1, !.draining = ~last])
    /\ inFlight' = IF last THEN inFlight - 1 ELSE inFlight
    /\ UNCHANGED <<policy, connected, driver, metaVars, closeVars, faults>>

(* The caller gets the drained result, or leaves when it is cancelled.     *)
Return(c) ==
    LET k == call[c] IN
    /\ k.pc = "wait"
    /\ \/ ~k.draining /\ SetCall(c, Returned(k, IF k.failed THEN "error" ELSE "ok"))
       \/ k.cancelled /\ SetCall(c, Returned(k, "error"))
    /\ UNCHANGED <<policy, connected, driver, inFlight, pending, metaVars, closeVars, faults>>

Cancel(c) ==
    /\ call[c].pc \in {"metadata", "enqueue", "wait"} /\ ~call[c].cancelled
    /\ SetCall(c, [call[c] EXCEPT !.cancelled = TRUE])
    /\ UNCHANGED <<policy, connected, driver, inFlight, pending, metaVars, closeVars, faults>>
----------------------------------------------------------------------------
(* Close: the first caller stops admission, collects the drivers and       *)
(* starts the shutdown, the others wait for it.  Disconnect reports        *)
(* success at once; awaited delivery closes without a Flush.               *)
Close(k) ==
    /\ closer[k] = "idle"
    /\ closed' = TRUE
    /\ IF closed
       THEN /\ closer' = [closer EXCEPT ![k] = "waiting"]
            /\ UNCHANGED <<shutdown, unique, flushing, closeErr>>
       ELSE /\ shutdown' = "running"
            /\ unique' = {a \in Acks : driver[a] = "open"}
            /\ flushing' = IF policy = "await" THEN {} ELSE unique'
            /\ closer' = [closer EXCEPT ![k] = IF policy = "disconnect" THEN "ok" ELSE "leading"]
            /\ closeErr' = IF policy = "disconnect" THEN "ok" ELSE "none"
    /\ UNCHANGED <<policy, connected, driver, call, inFlight, pending, metaVars, remaining, faults>>

(* How many reports the driver of level a owes, over all calls.            *)
Owed(a) == Cardinality({p \in Calls \X (1 .. Messages) :
                           call[p[1]].acks = a /\ p[2] <= call[p[1]].owed})

(* finishClose: the Flush of one driver returns, with the messages it      *)
(* could not get delivered within its timeout.                             *)
EndFlush(a) ==
    /\ a \in flushing
    /\ flushing' = flushing \ {a}
    /\ remaining' = remaining + Owed(a)
    /\ IF Owed(a) = 0 THEN UNCHANGED faults ELSE Fault
    /\ UNCHANGED <<policy, connected, closed, driver, call, inFlight, pending, metaVars,
                   shutdown, unique, closeErr, closer>>

(* Every Flush has returned and inFlight.Wait too.                         *)
Drained == flushing = {} /\ inFlight = 0

(* finishClose, finishKafkaJSAwaitedDelivery: every collected driver is    *)
(* closed.                                                                 *)
CloseDrivers ==
    /\ shutdown = "running" /\ Drained
    /\ shutdown' = "done"
    /\ remaining' = IF policy = "await" THEN pending ELSE remaining
    /\ driver' = [a \in Acks |-> IF a \in unique THEN "closed" ELSE driver[a]]
    /\ connected' = FALSE
    /\ UNCHANGED <<policy, closed, call, inFlight, pending, metaVars, unique, flushing,
                   closeErr, closer, faults>>

ShutdownResult == IF remaining > 0 THEN "undelivered" ELSE "ok"

TimeoutResult == "timeout"

(* The leading Close gets the result or runs into its deadline, and closes *)
(* closeDone.                                                              *)
EndClose(k) ==
    /\ closer[k] = "leading"
    /\ closeErr' \in {TimeoutResult} \cup (IF shutdown = "done" THEN {ShutdownResult} ELSE {})
    /\ closer' = [closer EXCEPT ![k] = closeErr']
    /\ UNCHANGED <<policy, connected, closed, driver, call, inFlight, pending, metaVars,
                   shutdownVars, faults>>

(* Mutant: a later Close does not wait for closeDone.                      *)
JoinCloseAtOnce(k) ==
    /\ closer[k] = "waiting"
    /\ closer' = [closer EXCEPT ![k] = IF closeErr = "none" THEN "ok" ELSE closeErr]
    /\ UNCHANGED <<policy, connected, closed, driver, call, inFlight, pending, metaVars,
                   shutdownVars, closeErr, faults>>

(* A later Close returns what the first one reported.                      *)
JoinClose(k) ==
    /\ closer[k] = "waiting" /\ closeErr # "none"
    /\ closer' = [closer EXCEPT ![k] = closeErr]
    /\ UNCHANGED <<policy, connected, closed, driver, call, inFlight, pending, metaVars,
                   shutdownVars, closeErr, faults>>

Progress(c) ==
    \/ AskMetadata(c) \/ GotMetadata(c) \/ Enqueue(c) \/ StartDrain(c) \/ Drain(c)
    \/ Return(c)

Next ==
    \/ Connect \/ EndRefresh \/ DropMetadata \/ CloseDrivers
    \/ \E a \in Acks : EndFlush(a)
    \/ \E c \in Calls : \/ \E a \in Acks : BeginProduce(c, a)
                        \/ Progress(c) \/ Report(c) \/ Cancel(c)
    \/ \E k \in Closers : Close(k) \/ EndClose(k) \/ JoinClose(k)

Spec == Init /\ [][Next]_vars

(* Fairness: goroutines run, librdkafka reports every accepted message     *)
(* within message.timeout.ms, and a metadata request has a timeout.        *)
Fairness ==
    /\ WF_vars(EndRefresh) /\ WF_vars(CloseDrivers)
    /\ \A a \in Acks : WF_vars(EndFlush(a))
    /\ \A c \in Calls : WF_vars(Progress(c)) /\ WF_vars(Report(c))
    /\ \A k \in Closers : WF_vars(EndClose(k)) /\ WF_vars(JoinClose(k))

LiveSpec == Spec /\ Fairness
----------------------------------------------------------------------------
InUse(a) ==
    \/ refresh = a
    \/ \E c \in Calls : /\ call[c].acks = a
                        /\ call[c].pc \in {"metadata", "enqueue"} \/ call[c].owed > 0

(* "a driver is never closed while an accepted delivery report is still    *)
(* being drained": once finishClose has closed a driver, no call can hand  *)
(* it a message, no report is owed and no metadata request runs on it,     *)
(* whatever was cancelled and however late.                                *)
DriverNotInUse == \A a \in Acks : driver[a] = "closed" => ~InUse(a)

(* A driver that a call creates for its own acknowledgement level is never *)
(* missed by the set Close collects: after the shutdown none is open.      *)
NoDriverLeaked ==
    shutdown = "done" => ~connected /\ \A a \in Acks : driver[a] # "open"

(* A Close that waited and returned nil, the first one or one that joined  *)
(* it, means that every accepted message has been reported and drained.    *)
CloseOkMeansDrained ==
    (policy # "disconnect" /\ \E k \in Closers : closer[k] = "ok") =>
        /\ shutdown = "done" /\ pending = 0
        /\ \A c \in Calls : call[c].owed = 0 /\ call[c].queued = 0 /\ ~call[c].draining

(* A Produce that returned nil had every message accepted and every report *)
(* drained without an error, whatever reports arrived during the enqueue   *)
(* loop.                                                                   *)
OkMeansDelivered ==
    \A c \in Calls : call[c].result = "ok" =>
        /\ call[c].accepted = Messages /\ call[c].owed = 0 /\ call[c].queued = 0
        /\ ~call[c].failed

(* nil is the truth, from Produce and from Close: the messages were        *)
(* delivered, the reports drained and every driver collected.              *)
OkIsTruthful == NoDriverLeaked /\ CloseOkMeansDrained /\ OkMeansDelivered

(* Every Close ends the shutdown: the drivers are closed in the end, also  *)
(* when the caller left at its deadline or disconnected at once.           *)
ShutdownCompletes == closed ~> shutdown = "done"

(* A call that got in always returns, whatever Close does meanwhile.       *)
CallsReturn ==
    \A c \in Calls : call[c].pc \in {"metadata", "enqueue", "wait"} ~> call[c].pc = "returned"

(* Neither waits for the other for ever: calls for the shutdown, or the    *)
(* shutdown for a call's drainer or a metadata refresh.                    *)
ProducerCompletes == ShutdownCompletes /\ CallsReturn
============================================================================
