--------------------------- MODULE IORedisClient ---------------------------
(***************************************************************************)
(* IORedisCompatClient of redis/ioredis_compat.go over the duplex RESP     *)
(* transport: one queue shared by all callers, a run loop that connects    *)
(* and reconnects, a session that writes ahead of the replies, and the     *)
(* decision, when a connection is lost, of what is replayed and what is    *)
(* not.  Quit and Disconnect may come at any time.                         *)
(*                                                                         *)
(* Failures are not counted: every one of them is charged to requests      *)
(* whose retry budget is bounded by MaxRetries.                            *)
(***************************************************************************)
EXTENDS Integers, Sequences, SequencesExt

CONSTANTS
    Direct,      \* requests of one command
    Pipelines,   \* pipelined requests of PipelineSize commands
    Exclusive,   \* bounded blocking commands, written alone
    QuitRequest, \* the request of the first Quit call
    NoRequest,   \* nil
    PipelineSize,
    MaxRetries   \* IORedisMaxRetriesPerRequest

Submitted == Direct \cup Pipelines \cup Exclusive
Requests == Submitted \cup {QuitRequest}

ASSUME ClientAssumption ==
    /\ Direct \cap Pipelines = {} /\ Direct \cap Exclusive = {}
    /\ Pipelines \cap Exclusive = {} /\ QuitRequest \notin Submitted
    /\ NoRequest \notin Requests
    /\ PipelineSize \in Nat \ {0}
    /\ MaxRetries \in Nat

Size(r) == IF r \in Pipelines THEN PipelineSize ELSE 1
IsExclusive(r) == r \in Exclusive \cup {QuitRequest}

VARIABLES
    \* the client
    queue,          \* accepted requests without a result, in order
    state,          \* what became of each request
    ambiguous,      \* ambiguousReplays
    failures,       \* retryFailures
    closing, disconnecting, closed, ready,
    cancelled,      \* the client context is cancelled
    pc,             \* where run stands
    \* the duplex session
    writing,        \* the request handed to the writer
    written,        \* what the writer has reported about it
    inFlight,       \* requests written, waiting for replies
    replies,        \* replies of the first of them
    reading,        \* the reader: idle, busy, or what it has reported
    \* the connection and the server
    up,             \* the connection is usable
    wire,           \* commands on their way to the server
    back,           \* replies on their way back, by request
    \* history
    executed,       \* how often the server executed each command
    arrival,        \* requests in the order they were accepted
    replied         \* requests with a reply the session has taken

queueVars == <<queue, state, ambiguous, failures>>
closeVars == <<closing, disconnecting, closed, cancelled>>
writerVars == <<writing, written>>
sessionVars == <<writerVars, reading, inFlight, replies>>
connVars == <<up, wire, back>>
history == <<executed, arrival, replied>>
vars == <<queueVars, closeVars, ready, pc, sessionVars, connVars, history>>

Results == {"answered", "aborted", "exhausted", "failed", "closed"}
Accepted(r) == state[r] \in Results \cup {"queued"}

TypeOK ==
    /\ queue \in Seq(Requests) /\ inFlight \in Seq(Requests)
    /\ state \in [Requests -> Results \cup {"new", "rejected", "queued"}]
    /\ ambiguous \in [Requests -> 0 .. MaxRetries + 1]
    /\ failures \in [Requests -> 0 .. MaxRetries + 1]
    /\ {closing, disconnecting, closed, ready, cancelled, up} \subseteq BOOLEAN
    /\ pc \in {"loop", "connect", "session", "lost", "exit", "done"}
    /\ writing \in Requests \cup {NoRequest}
    /\ written \in {"none", "busy", "ok", "unwritten", "partial"}
    /\ reading \in {"idle", "busy", "reply", "error", "terminal"}
    /\ replies \in 0 .. PipelineSize - 1
    /\ wire \in Seq(Requests \X (1 .. PipelineSize)) /\ back \in Seq(Requests)
    /\ executed \in [Requests -> [1 .. PipelineSize -> Nat]]
    /\ arrival \in Seq(Requests) /\ replied \subseteq Requests

Init ==
    /\ queue = <<>> /\ inFlight = <<>> /\ wire = <<>> /\ back = <<>> /\ arrival = <<>>
    /\ state = [r \in Requests |-> "new"]
    /\ ambiguous = [r \in Requests |-> 0] /\ failures = [r \in Requests |-> 0]
    /\ closing = FALSE /\ disconnecting = FALSE /\ closed = FALSE
    /\ ready = FALSE /\ cancelled = FALSE /\ up = FALSE
    /\ pc = "loop"
    /\ writing = NoRequest /\ written = "none" /\ reading = "idle" /\ replies = 0
    /\ executed = [r \in Requests |-> [i \in 1 .. PipelineSize |-> 0]]
    /\ replied = {}
----------------------------------------------------------------------------
(* Callers                                                                 *)

(* submit: refused once the client is closing.                             *)
Submit(r) ==
    /\ state[r] = "new"
    /\ IF closed \/ closing \/ disconnecting
       THEN /\ state' = [state EXCEPT ![r] = "rejected"]
            /\ UNCHANGED <<queue, arrival>>
       ELSE /\ state' = [state EXCEPT ![r] = "queued"]
            /\ queue' = Append(queue, r) /\ arrival' = Append(arrival, r)
    /\ UNCHANGED <<ambiguous, failures, closeVars, ready, pc, sessionVars, connVars,
                   executed, replied>>

OfflineAndEmpty == queue = <<>> /\ ~ready

(* Quit: the first call closes admission and queues QUIT behind all that   *)
(* was accepted, or, offline and with nothing queued, resolves at once.    *)
(* Later calls only wait.                                                  *)
Quit ==
    /\ ~closed /\ ~closing /\ ~disconnecting
    /\ closing' = TRUE
    /\ IF OfflineAndEmpty
       THEN /\ disconnecting' = TRUE /\ cancelled' = TRUE
            /\ state' = [state EXCEPT ![QuitRequest] = "answered"]
            /\ UNCHANGED queue
       ELSE /\ state' = [state EXCEPT ![QuitRequest] = "queued"]
            /\ queue' = Append(queue, QuitRequest)
            /\ UNCHANGED <<disconnecting, cancelled>>
    /\ UNCHANGED <<ambiguous, failures, closed, ready, pc, sessionVars, connVars, history>>

Disconnect ==
    /\ ~closed /\ ~disconnecting
    /\ disconnecting' = TRUE /\ cancelled' = TRUE
    /\ UNCHANGED <<queueVars, closing, closed, ready, pc, sessionVars, connVars, history>>
----------------------------------------------------------------------------
(* run                                                                     *)

(* shouldDisconnect, at the top of the loop.                               *)
Loop ==
    /\ pc = "loop"
    /\ pc' = IF disconnecting THEN "exit" ELSE "connect"
    /\ UNCHANGED <<queueVars, closeVars, ready, sessionVars, connVars, history>>

(* stopAfterQuitFailure: a client whose QUIT got no answer stops.          *)
StopAfterQuitFailure ==
    LET quitFailed == state'[QuitRequest] \in {"exhausted", "failed"} IN
    /\ disconnecting' = (disconnecting \/ quitFailed)
    /\ cancelled' = (cancelled \/ quitFailed)
    /\ UNCHANGED <<closing, closed>>

(* The loop that retains, of the first i requests of q, those not in S.    *)
Retained(q, S) ==
    LET retained[i \in 0 .. Len(q)] ==
            IF i = 0 THEN <<>>
            ELSE IF q[i] \in S THEN retained[i - 1] ELSE Append(retained[i - 1], q[i])
    IN  retained

Without(q, S) == Retained(q, S)[Len(q)]

Exhausted(S) == {r \in S : failures[r] = MaxRetries}

(* markRequestFailures: the requests S of the queue q are charged, and the *)
(* ones over their budget are given up.  outcome is what is settled apart  *)
(* from that.                                                              *)
Charge(S, q, outcome) ==
    /\ failures' = [r \in Requests |-> IF r \in S THEN failures[r] + 1 ELSE failures[r]]
    /\ queue' = Without(q, Exhausted(S))
    /\ state' = [r \in Requests |-> IF r \in Exhausted(S) THEN "exhausted" ELSE outcome[r]]
    /\ StopAfterQuitFailure

(* The factory returns a ready transport, or an error that every queued    *)
(* request is charged for; a cancelled wait ends the loop.                 *)
Connect ==
    /\ pc = "connect"
    /\ \/ /\ pc' = "session" /\ ready' = TRUE
          /\ up' = TRUE /\ wire' = <<>> /\ back' = <<>>
          /\ UNCHANGED <<queueVars, closeVars>>
       \/ /\ Charge(ToSet(queue), queue, state)
          /\ pc' = "loop"
          /\ UNCHANGED <<ambiguous, ready, connVars>>
       \/ /\ cancelled
          /\ pc' = "exit"
          /\ UNCHANGED <<queueVars, closeVars, ready, connVars>>
    /\ UNCHANGED <<sessionVars, history>>

(* The session has ended: setNotReady, connectionFailed.                   *)
Reconnect ==
    /\ pc = "lost"
    /\ pc' = "loop" /\ ready' = FALSE
    /\ UNCHANGED <<queueVars, closeVars, sessionVars, connVars, history>>

(* finishClosed, and done is closed.                                       *)
FinishClosed ==
    /\ pc = "exit"
    /\ pc' = "done" /\ closed' = TRUE /\ ready' = FALSE /\ up' = FALSE
    /\ state' = [r \in Requests |-> IF r \in ToSet(queue) THEN "closed" ELSE state[r]]
    /\ queue' = <<>>
    /\ UNCHANGED <<ambiguous, failures, closing, disconnecting, cancelled, sessionVars,
                   wire, back, history>>
----------------------------------------------------------------------------
(* runDuplexSession                                                        *)

Scheduled == ToSet(inFlight) \cup ({writing} \ {NoRequest})
Unscheduled == Without(queue, Scheduled)

(* Mutant: a blocking command waits until nothing else is queued.          *)
MayWriteLast(r) ==
    /\ \A s \in ToSet(inFlight) : ~IsExclusive(s)
    /\ IsExclusive(r) => Len(queue) = 1

(* A request is written behind the ones in flight, unless it or one of     *)
(* them must be alone.                                                     *)
MayWrite(r) ==
    /\ \A s \in ToSet(inFlight) : ~IsExclusive(s)
    /\ IsExclusive(r) => inFlight = <<>>

StartWrite ==
    /\ pc = "session" /\ written = "none"
    /\ Unscheduled # <<>> /\ MayWrite(Head(Unscheduled))
    /\ writing' = Head(Unscheduled) /\ written' = "busy"
    /\ UNCHANGED <<queueVars, closeVars, ready, pc, reading, inFlight, replies,
                   connVars, history>>

Commands(r, n) == [i \in 1 .. n |-> <<r, i>>]

(* writeCommands: everything was handed to the socket, nothing was, or an  *)
(* unknown part; a failed write closes the connection.                     *)
Write ==
    /\ written = "busy"
    /\ \/ /\ written' = "ok"
          /\ wire' = IF up THEN wire \o Commands(writing, Size(writing)) ELSE wire
          /\ UNCHANGED up
       \/ written' = "unwritten" /\ up' = FALSE /\ UNCHANGED wire
       \/ /\ written' = "partial" /\ up' = FALSE
          /\ \E n \in 0 .. Size(writing) :
                wire' = IF up THEN wire \o Commands(writing, n) ELSE wire
    /\ UNCHANGED <<queueVars, closeVars, ready, pc, writing, reading, inFlight,
                   replies, back, history>>

TakeWritten ==
    /\ pc = "session" /\ written = "ok"
    /\ inFlight' = Append(inFlight, writing)
    /\ writing' = NoRequest /\ written' = "none"
    /\ UNCHANGED <<queueVars, closeVars, ready, pc, reading, replies,
                   connVars, history>>

StartRead ==
    /\ pc = "session" /\ reading = "idle" /\ inFlight # <<>>
    /\ reading' = "busy"
    /\ UNCHANGED <<queueVars, closeVars, ready, pc, writerVars, inFlight,
                   replies, connVars, history>>

(* readReply: the next reply on the connection ...                         *)
ReadReply ==
    /\ reading = "busy" /\ back # <<>>
    /\ reading' = "reply"
    /\ UNCHANGED <<queueVars, closeVars, ready, pc, writerVars, inFlight, replies,
                   connVars, history>>

(* ... or none: the connection is lost, the socket timeout passes or the   *)
(* context ends; "terminal" is a violation of the protocol.                *)
ReadFails ==
    /\ reading = "busy"
    /\ reading' \in {"error", "terminal"} /\ up' = FALSE
    /\ UNCHANGED <<queueVars, closeVars, ready, pc, writerVars, inFlight,
                   replies, wire, back, history>>

(* pop takes a request off the head of the queue, and nowhere else.        *)
Popped(r) == IF queue # <<>> /\ Head(queue) = r THEN Tail(queue) ELSE queue

AllReplies(r, n) == n + 1 = Size(r)

(* applyDuplexReply: a reply belongs to the first request in flight, and   *)
(* the last one completes it.  QUIT may be refused; it ends the session    *)
(* and the loop either way.                                                *)
TakeReply ==
    /\ pc = "session" /\ reading = "reply"
    /\ reading' = "idle" /\ back' = Tail(back)
    /\ LET r == Head(inFlight) IN
       /\ replied' = replied \cup {r}
       /\ IF AllReplies(r, replies)
          THEN /\ inFlight' = Tail(inFlight) /\ replies' = 0
               /\ queue' = Popped(r)
               /\ \E result \in {"answered"} \cup (IF r = QuitRequest THEN {"failed"} ELSE {}) :
                     state' = [state EXCEPT ![r] = result]
               /\ pc' = IF r = QuitRequest THEN "exit" ELSE pc
          ELSE /\ replies' = replies + 1
               /\ UNCHANGED <<inFlight, queue, state, pc>>
    /\ UNCHANGED <<ambiguous, failures, closeVars, ready, writerVars, up, wire,
                   executed, arrival>>

EndSession(next) ==
    /\ pc' = next /\ up' = FALSE
    /\ inFlight' = <<>> /\ replies' = 0 /\ back' = <<>>
    /\ writing' = NoRequest /\ written' = "none" /\ reading' = "idle"
    /\ UNCHANGED <<wire, ready, history>>

(* settleDuplexTerminalFailure: the requests S fail for good.              *)
SettleAll(S) ==
    /\ state' = [r \in Requests |-> IF r \in S THEN "failed" ELSE state[r]]
    /\ queue' = Without(queue, S)
    /\ StopAfterQuitFailure
    /\ UNCHANGED <<ambiguous, failures>>

(* Mutant: a pipeline is replayed although some of its replies arrived.    *)
CutNothing == {}

(* The pipeline whose replies the loss cut short.                          *)
Cut == {r \in Pipelines : replies > 0 /\ inFlight # <<>> /\ r = Head(inFlight)}

(* Mutant: a partial write is not counted as a possible execution.         *)
UncertainInFlight(W) == ToSet(inFlight)

(* What may have been executed: all that was written, and a request whose  *)
(* write failed after some bytes.                                          *)
Uncertain(W) == ToSet(inFlight) \cup (IF written = "partial" THEN W ELSE {})

(* reconcileDuplexFailure: with the requests in flight and W, the one      *)
(* whose write failed.  A cut pipeline keeps its replies and the rest of   *)
(* it is aborted, QUIT fails, and everything else stays queued.            *)
Reconcile(W) ==
    LET quit == (ToSet(inFlight) \cup W) \cap {QuitRequest}
        retried == (ToSet(inFlight) \cup W) \ (Cut \cup quit)
        popped == IF queue # <<>> /\ Head(queue) \in Cut \cup quit THEN Tail(queue) ELSE queue
    IN  /\ ambiguous' = [r \in Requests |->
                           IF r \in retried \cap Uncertain(W) THEN ambiguous[r] + 1
                           ELSE ambiguous[r]]
        /\ Charge(retried, popped, [r \in Requests |-> IF r \in Cut THEN "aborted"
                                                      ELSE IF r \in quit THEN "failed"
                                                      ELSE state[r]])

(* The write failed.  A reply the reader already has is taken first.       *)
WriteFailed ==
    /\ pc = "session" /\ written \in {"unwritten", "partial"}
    /\ reading \notin {"busy", "reply"}
    /\ IF IsExclusive(writing) /\ written = "partial"
       THEN SettleAll(ToSet(inFlight) \cup {writing})
       ELSE Reconcile({writing})
    /\ EndSession("lost")

(* The read failed.  A write under way is awaited, and counts as in flight *)
(* when it succeeded.                                                      *)
ReadFailed ==
    /\ pc = "session" /\ reading \in {"error", "terminal"}
    /\ written \notin {"busy", "ok"}
    /\ LET W == {writing} \ {NoRequest} IN
       IF reading = "terminal" \/ (W = {} /\ IsExclusive(Head(inFlight)))
       THEN SettleAll(ToSet(inFlight) \cup W)
       ELSE Reconcile(W)
    /\ EndSession("lost")

(* An idle connection is closed by the server.                             *)
IdleClose ==
    /\ pc = "session" /\ written = "none" /\ reading = "idle" /\ inFlight = <<>> /\ ~up
    /\ EndSession("lost")
    /\ UNCHANGED <<queueVars, closeVars>>

(* c.ctx.Done()                                                            *)
StopSession ==
    /\ pc = "session" /\ cancelled
    /\ EndSession("exit")
    /\ UNCHANGED <<queueVars, closeVars>>
----------------------------------------------------------------------------
(* The network and the server                                              *)

(* The server executes the next command that reached it, also after the    *)
(* connection is gone, and until the next one replaces it.                 *)
Execute ==
    /\ wire # <<>>
    /\ LET c == Head(wire) IN
       /\ executed' = [executed EXCEPT ![c[1]][c[2]] = @ + 1]
       /\ back' = IF up THEN Append(back, c[1]) ELSE back
    /\ wire' = Tail(wire)
    /\ UNCHANGED <<queueVars, closeVars, ready, pc, sessionVars, up, arrival, replied>>

Drop ==
    /\ up
    /\ up' = FALSE
    /\ UNCHANGED <<queueVars, closeVars, ready, pc, sessionVars, wire, back, history>>

Session ==
    \/ StartWrite \/ TakeWritten \/ StartRead \/ TakeReply
    \/ WriteFailed \/ ReadFailed \/ IdleClose \/ StopSession

Next ==
    \/ \E r \in Submitted : Submit(r)
    \/ Quit \/ Disconnect
    \/ Loop \/ Connect \/ Reconnect \/ FinishClosed
    \/ Session \/ Write \/ ReadReply \/ ReadFails
    \/ Execute \/ Drop

Spec == Init /\ [][Next]_vars
----------------------------------------------------------------------------
(* The result tells the caller how often a command may have been executed: *)
(* never more often than once plus AmbiguousReplays, whatever was lost,    *)
(* written in part or replayed.                                            *)
ExposureReported ==
    \A r \in Requests : \A i \in 1 .. Size(r) : executed[r][i] <= 1 + ambiguous[r]

(* A bounded blocking command and QUIT are never executed twice.           *)
ExclusiveOnce == \A r \in Requests : IsExclusive(r) => executed[r][1] <= 1

(* Every accepted request is in the queue exactly once until it has its    *)
(* result, and never afterwards, so none can hang or be settled twice.     *)
NothingForgotten ==
    /\ ToSet(queue) = {r \in Requests : state[r] = "queued"}
    /\ \A i, j \in DOMAIN queue : queue[i] = queue[j] => i = j

(* "no replay of a pipeline suffix after one or more replies were          *)
(* received": a request of which a reply was taken is not written again.   *)
SuffixNotReplayed ==
    [][written = "none" /\ written' = "busy" => writing' \notin replied]_vars

(* "unacknowledged commands replay before the later FIFO item": a command  *)
(* is executed only after the requests accepted before it have been        *)
(* executed, or got their result.                                          *)
InOrder ==
    \A i, j \in DOMAIN arrival :
        i < j /\ executed[arrival[j]][1] > 0 =>
            executed[arrival[i]][1] > 0 \/ state[arrival[i]] # "queued"

(* QUIT is answered only after every request accepted before it has its    *)
(* result, and none of them is dropped by the close.                       *)
QuitDrains ==
    state[QuitRequest] = "answered" =>
        \A r \in Submitted : state[r] \notin {"queued", "closed"}
(* What callers are told of their requests accounts for everything the     *)
(* server did with them, in the order they came and up to the QUIT.        *)
RepliesAccounted ==
    ExposureReported /\ ExclusiveOnce /\ NothingForgotten /\ InOrder /\ QuitDrains
----------------------------------------------------------------------------
(* Fairness: run and its goroutines are scheduled, a connection attempt    *)
(* ends, the server executes and answers what it received or the           *)
(* connection ends, and the random choice of select does not prefer the    *)
(* close of an idle connection over a waiting request for ever.            *)
Fairness ==
    /\ WF_vars(Loop) /\ WF_vars(Connect) /\ WF_vars(Reconnect) /\ WF_vars(FinishClosed)
    /\ SF_vars(StartWrite) /\ SF_vars(StopSession)
    /\ WF_vars(Session) /\ WF_vars(Write)
    /\ WF_vars(ReadReply) /\ WF_vars(~up /\ ReadFails) /\ WF_vars(Execute)

LiveSpec == Spec /\ Fairness

(* Every accepted request gets a result, however often the connection is   *)
(* lost: the retry budget bounds the replays.                              *)
RequestsSettle == \A r \in Requests : state[r] = "queued" ~> state[r] # "queued"

(* Quit and Disconnect always end the loop, also when QUIT fails.          *)
CloseEnds == closing \/ disconnecting ~> pc = "done"

(* Nobody waits for ever: neither the caller of a request nor one of Quit  *)
(* or Disconnect.                                                          *)
ClientSettles == RequestsSettle /\ CloseEnds
============================================================================
