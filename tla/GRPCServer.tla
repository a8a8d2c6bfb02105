----------------------------- MODULE GRPCServer -----------------------------
(* The gRPC server of grpc/server.go and grpc/middleware.go: registration of *)
(* FIT handler chains, the life of the listener (Start, Shutdown,            *)
(* ShutdownContext, Stop from any number of goroutines), and dynamic unary   *)
(* calls that race with it.  grpc.Server itself is external: quit stops      *)
(* accepting, GracefulStop waits for handlers, Stop closes the transports    *)
(* (which cancels the calls' contexts) and waits for no handler.             *)
EXTENDS Naturals, Sequences

CONSTANTS
    Callers,      \* goroutines using the server
    RPCs,         \* unary calls clients make
    Chains,       \* handler chains a service may register: what each does
    NextCalls,    \* how often one middleware or handler may call next(nil)
    MaxStarts     \* bound: successful listens

VARIABLES
    advanced,     \* created by InitWithOptions rather than Init
    proto,        \* what compiling the configured proto file finds
    registered,   \* the chain of the dynamic service, or none
    healthy,      \* serving status of the health service
    running, stopping, stopped, done,   \* the Server's fields
    forced,       \* stopOnce has fired
    transport,    \* grpc.Server: fresh, serving, quit or closed
    broken,       \* the listener failed while serving
    drain,        \* the GracefulStop in progress: none, running or ended
    starts,       \* listens so far
    call,         \* per caller: where its call is and what it returned
    rpc           \* per unary call: its handler, its mailbox and its answer

lifeVars == <<running, stopping, stopped, done, forced>>
setupVars == <<advanced, proto, registered, healthy>>
wireVars == <<transport, broken, drain, starts>>
grpcVars == <<setupVars, lifeVars, wireVars, call, rpc>>

None == "none"
Idle == [at |-> "idle", active |-> FALSE, got |-> None]
Unsent == [at |-> "unsent", i |-> 0, nexts |-> 0, passed |-> {}, chain |-> <<>>,
           box |-> None, first |-> None, cancelled |-> FALSE, answer |-> None]

Protos == {"missing", "broken", "empty", "ambiguous", "streaming", "unary"}

(* initWithOptions: Init insists on the proto file, InitWithOptions does    *)
(* not look at it yet.                                                      *)
Init ==
    /\ advanced \in BOOLEAN /\ proto \in Protos
    /\ ~advanced => proto # "missing"
    /\ registered = <<>> /\ healthy = TRUE
    /\ running = FALSE /\ stopping = FALSE /\ stopped = FALSE /\ done = FALSE
    /\ forced = FALSE /\ transport = "fresh" /\ broken = FALSE
    /\ drain = None /\ starts = 0
    /\ call = [c \in Callers |-> Idle]
    /\ rpc = [r \in RPCs |-> Unsent]

-----------------------------------------------------------------------------
(* Registration.                                                            *)

(* compileDynamicService followed by the search for streaming methods.      *)
Compiles == proto = "unary"

(* syncHealthStatus: whatever the fit checker finds now.                    *)
SyncHealth == healthy' \in BOOLEAN

(* AddServiceDefinitionsWithOptions.  Legacy servers keep the handlers in a *)
(* map only, so the grpc.Server never serves them.                          *)
Registrable == ~running /\ Compiles /\ registered = <<>>

AddServiceDefinitions ==
    /\ \E chain \in Chains :
         registered' = IF advanced /\ Registrable THEN chain ELSE registered
    /\ IF ~advanced \/ Registrable THEN SyncHealth ELSE UNCHANGED healthy
    /\ UNCHANGED <<advanced, proto, lifeVars, wireVars, call, rpc>>

-----------------------------------------------------------------------------
(* Start.                                                                   *)

Return(c, got, active) ==
    call' = [call EXCEPT ![c] = [at |-> "returned", active |-> active, got |-> got]]

Start(c) ==
    /\ call[c].at = "idle"
    /\ \/ /\ running \/ stopping
          /\ Return(c, "already running", FALSE) /\ UNCHANGED <<running, starts>>
       \/ /\ ~running /\ ~stopping
          /\ Return(c, "listen failed", FALSE) /\ UNCHANGED <<running, starts>>
       \/ /\ ~running /\ ~stopping /\ starts < MaxStarts
          /\ starts' = starts + 1 /\ running' = TRUE
          /\ call' = [call EXCEPT ![c].at = "listening"]
    /\ UNCHANGED <<setupVars, stopping, stopped, done, forced, transport,
                   broken, drain, rpc>>

(* grpc.Server.Serve: refused at once after a stop.                         *)
Serve(c) ==
    /\ call[c].at = "listening"
    /\ IF transport = "fresh"
       THEN transport' = "serving" /\ call' = [call EXCEPT ![c].at = "serving"]
       ELSE UNCHANGED transport /\ call' = [call EXCEPT ![c].at = "served"]
    /\ UNCHANGED <<setupVars, lifeVars, broken, drain, starts, rpc>>

(* Serve returns once a stop has completed, or when Accept fails before any *)
(* stop began; the calls in progress then go on.                            *)
ServeEnds(c) ==
    /\ call[c].at = "serving"
    /\ transport = "closed"
    /\ call' = [call EXCEPT ![c].at = "served"]
    /\ UNCHANGED <<setupVars, lifeVars, wireVars, rpc>>

AcceptFails(c) ==
    /\ call[c].at = "serving" /\ transport = "serving" /\ ~broken
    /\ broken' = TRUE
    /\ call' = [call EXCEPT ![c].at = "served"]
    /\ UNCHANGED <<setupVars, lifeVars, transport, drain, starts, rpc>>

(* finishShutdown and the same lines at the end of Start.                   *)
Finished ==
    running' = FALSE /\ stopping' = FALSE /\ stopped' = TRUE /\ done' = TRUE

EndStart(c) ==
    /\ call[c].at = "served"
    /\ Finished /\ Return(c, "served", FALSE)
    /\ UNCHANGED <<setupVars, forced, wireVars, rpc>>

-----------------------------------------------------------------------------
(* Shutdown, ShutdownContext and Stop.                                      *)

Inactive == stopped \/ (~running /\ ~stopping)

\* Mutant: a Shutdown that finds the drain of another caller does not wait for it.
ShutdownJoinsNot(c, at) ==
    /\ call[c].at = "idle" /\ at = IF advanced THEN "deadline" ELSE "drain"
    /\ IF Inactive \/ stopping
       THEN Return(c, "nil", stopping) /\ UNCHANGED <<running, stopping, drain, healthy>>
       ELSE /\ call' = [call EXCEPT ![c] = [@ EXCEPT !.at = at, !.active = TRUE]]
            /\ running' = FALSE /\ stopping' = TRUE /\ drain' = "running"
            /\ healthy' = (healthy /\ ~advanced)
    /\ UNCHANGED <<advanced, proto, registered, stopped, done, forced,
                   transport, broken, starts, rpc>>

(* beginGracefulShutdown: one caller starts the drain, later ones join it.  *)
(* A legacy caller that started it runs GracefulStop itself; the others     *)
(* wait for done, and only ShutdownContext has a deadline.                  *)
Shutdown(c, at) ==
    /\ call[c].at = "idle"
    /\ at = IF advanced THEN "deadline" ELSE IF stopping THEN "join" ELSE "drain"
    /\ IF Inactive
       THEN Return(c, "nil", FALSE) /\ UNCHANGED <<running, stopping, drain, healthy>>
       ELSE /\ call' = [call EXCEPT ![c] = [@ EXCEPT !.at = at, !.active = TRUE]]
            /\ running' = FALSE /\ stopping' = TRUE
            /\ drain' = IF stopping THEN drain ELSE "running"
            /\ healthy' = IF advanced /\ ~stopping THEN FALSE ELSE healthy
    /\ UNCHANGED <<advanced, proto, registered, stopped, done, forced,
                   transport, broken, starts, rpc>>

Running == {r \in RPCs : rpc[r].at \in {"chain", "waiting"}}

(* grpc.Server.GracefulStop: refuse new calls, wait for the handlers.       *)
Quit ==
    /\ drain = "running" /\ transport \in {"fresh", "serving"}
    /\ transport' = "quit"
    /\ UNCHANGED <<setupVars, lifeVars, broken, drain, starts, call, rpc>>

Drained ==
    /\ drain = "running" /\ transport \in {"quit", "closed"} /\ Running = {}
    /\ transport' = "closed" /\ drain' = "ended" /\ Finished
    /\ UNCHANGED <<setupVars, forced, broken, starts, call, rpc>>

ShutdownEnds(c) ==
    /\ \/ call[c].at = "drain" /\ drain = "ended"
       \/ call[c].at \in {"join", "deadline"} /\ done
    /\ Return(c, "nil", TRUE)
    /\ UNCHANGED <<setupVars, lifeVars, wireVars, rpc>>

(* forceStop: grpc.Server.Stop once, closing every transport, then          *)
(* finishShutdown.                                                          *)
Force ==
    /\ forced' = TRUE /\ Finished
    /\ transport' = "closed"
    /\ rpc' = [r \in RPCs |-> IF r \in Running /\ ~forced
                              THEN [rpc[r] EXCEPT !.cancelled = TRUE] ELSE rpc[r]]

DeadlineExpires(c) ==
    /\ call[c].at = "deadline"
    /\ Force /\ Return(c, "deadline", TRUE)
    /\ UNCHANGED <<setupVars, broken, drain, starts>>

Stop(c) ==
    /\ call[c].at = "idle"
    /\ IF Inactive
       THEN UNCHANGED <<lifeVars, transport, rpc, healthy>> /\ Return(c, "nil", FALSE)
       ELSE /\ Force /\ Return(c, "stopped", TRUE)
            /\ healthy' = (healthy /\ ~advanced)
    /\ UNCHANGED <<advanced, proto, registered, broken, drain, starts>>

-----------------------------------------------------------------------------
(* Dynamic unary calls.                                                     *)

(* dynamicUnaryHandler: a service that was not registered is unimplemented; *)
(* a request that cannot be decoded, or not be turned into a map, is         *)
(* answered with an internal error before any handler runs.                  *)
Call(r) ==
    /\ rpc[r].at = "unsent" /\ transport = "serving" /\ ~broken
    /\ \E answer \in IF registered = <<>> THEN {"unimplemented"} ELSE {None, "internal"} :
         rpc' = [rpc EXCEPT ![r] =
                    [@ EXCEPT !.at = IF answer = None THEN "chain" ELSE "answered",
                              !.chain = registered, !.i = 1, !.answer = answer]]
    /\ UNCHANGED <<setupVars, lifeVars, wireVars, call>>

Cancel(r) ==
    /\ r \in Running /\ ~rpc[r].cancelled
    /\ rpc' = [rpc EXCEPT ![r].cancelled = TRUE]
    /\ UNCHANGED <<setupVars, lifeVars, wireVars, call>>

(* The callback: the first result is kept, whoever reports it.  A result    *)
(* that fails validateResponse arrives as an internal error.                *)
Put(x, result) ==
    [x EXCEPT !.box = IF x.first = None THEN result ELSE x.box,
              !.first = IF x.first = None THEN result ELSE x.first]

(* executeChainWithErrorHandler, one handler at a time: it may answer,      *)
(* panic or pass an error to next (an internal error), and call next(nil).  *)
(* A handler runs only if enough of these calls were made before it, by     *)
(* whichever handlers: two of one let the chain pass one that made none.    *)
Reached(x) == x.i <= Len(x.chain) /\ x.nexts >= x.i - 1

(* What a handler kind may report; AuthorizeJWTToken either answers         *)
(* Unauthenticated or calls next.                                           *)
Effects(kind) ==
    CASE kind = "authorize" -> {[put |-> "unauthenticated", nexts |-> 0],
                                [put |-> None, nexts |-> 1]}
      [] kind = "middleware" -> [put : {None, "internal"}, nexts : NextCalls]
      [] kind = "handler" -> [put : {"ok", "internal", None}, nexts : NextCalls]

RunHandler(r) ==
    /\ rpc[r].at = "chain" /\ Reached(rpc[r])
    /\ \E e \in Effects(rpc[r].chain[rpc[r].i]) :
         LET x == [rpc[r] EXCEPT !.i = @ + 1, !.nexts = @ + e.nexts,
                                 !.passed = IF e.nexts > 0 THEN @ \cup {rpc[r].i} ELSE @]
         IN rpc' = [rpc EXCEPT ![r] = IF e.put = None THEN x ELSE Put(x, e.put)]
    /\ UNCHANGED <<setupVars, lifeVars, wireVars, call>>

EndChain(r) ==
    /\ rpc[r].at = "chain" /\ ~Reached(rpc[r])
    /\ rpc' = [rpc EXCEPT ![r].at = "waiting"]
    /\ UNCHANGED <<setupVars, lifeVars, wireVars, call>>

(* A handler that kept the callback may still use it from a goroutine.      *)
LateCallback(r) ==
    /\ rpc[r].at \in {"waiting", "answered"} /\ "handler" \in {rpc[r].chain[k] : k \in 1..(rpc[r].i - 1)}
    /\ \E result \in {"ok", "internal"} : rpc' = [rpc EXCEPT ![r] = Put(rpc[r], result)]
    /\ UNCHANGED <<setupVars, lifeVars, wireVars, call>>

(* invokeDynamicUnary's select: the context or the mailbox.  A response     *)
(* that does not encode as the method's output is an internal error.        *)
Answers(x) ==
    {answer \in {"ok", "internal", "unauthenticated", "cancelled"} :
        \/ answer = "cancelled" /\ x.cancelled
        \/ answer = x.box
        \/ answer = "internal" /\ x.box = "ok"}

Answer(r) ==
    /\ rpc[r].at = "waiting"
    /\ \E answer \in Answers(rpc[r]) :
         rpc' = [rpc EXCEPT ![r] = [@ EXCEPT !.at = "answered", !.answer = answer]]
    /\ UNCHANGED <<setupVars, lifeVars, wireVars, call>>

Next ==
    \/ AddServiceDefinitions
    \/ \E c \in Callers :
         \/ Start(c) \/ Serve(c) \/ ServeEnds(c) \/ AcceptFails(c) \/ EndStart(c)
         \/ \E at \in {"deadline", "join", "drain"} : Shutdown(c, at)
         \/ ShutdownEnds(c) \/ DeadlineExpires(c) \/ Stop(c)
    \/ Quit \/ Drained
    \/ \E r \in RPCs :
         Call(r) \/ Cancel(r) \/ RunHandler(r) \/ EndChain(r) \/ LateCallback(r) \/ Answer(r)

-----------------------------------------------------------------------------
(* Properties.                                                              *)

(* A graceful shutdown that found the server active and returned nil left   *)
(* no call in a handler, unless somebody forced the stop or the listener    *)
(* had failed: Start, a second Shutdown and the drain itself all close done.*)
NilMeansDrained ==
    \A c \in Callers :
        (call[c].active /\ call[c].got = "nil" /\ ~forced /\ ~broken) => Running = {}

(* An authorization that stands in front of every handler of its chain.     *)
Guards(chain, k) ==
    /\ chain[k] = "authorize"
    /\ \A j \in 1..Len(chain) : chain[j] = "handler" => k < j

(* A call is answered with the first result any handler reported, however   *)
(* many report afterwards, except that a response may fail to encode and a  *)
(* request may fail to decode before a handler ran; and a handler's result  *)
(* is that first one only when each authorization in front of the handlers  *)
(* let the call pass, even where a repeated next reaches the handler behind *)
(* one that refused.  Registration does not order the chain: without such   *)
(* an authorization nothing is said.                                        *)
AnswersAreFirst ==
    \A r \in RPCs :
        LET x == rpc[r] IN
        /\ x.answer \in {"ok", "unauthenticated"} => x.answer = x.first
        /\ x.answer = "internal" => x.first \in {"ok", "internal"} \/ x.i = 1
        /\ x.first = "ok" => \A k \in 1..Len(x.chain) : Guards(x.chain, k) => k \in x.passed
=============================================================================
