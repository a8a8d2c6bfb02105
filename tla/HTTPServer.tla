----------------------------- MODULE HTTPServer -----------------------------
(* The HTTP server of server/: the middleware chain Init builds, a request   *)
(* walking down and back up that chain, and Start and Shutdown around it.    *)
(* gin is external: handlers run in order, Abort skips the rest, the code    *)
(* after c.Next() runs on the way back, a panic unwinds to the first         *)
(* middleware that recovers.  net/http is external: a Server that was shut   *)
(* down never serves, two Servers cannot listen on one port.                 *)
(* Left out: a 431 for long headers, sent before the chain; the preflights   *)
(* that a SkipHeader takes past CORS; service routers that are not given.    *)
EXTENDS Naturals, Sequences

CONSTANTS
    Configs,      \* server configurations (see Config)
    Requests,     \* requests clients send (see Request)
    Callers,      \* goroutines calling Start and Shutdown
    MaxServers    \* bound: http.Server values built

VARIABLES
    cfg,          \* the configuration and environment
    chain,        \* the engine's middlewares; <<>> before Init
    fallback,     \* the fallbackHandler is set
    servers,      \* http.Server values: new, listening, closing or closed
    current,      \* s.server: index of the last one, 0 for nil
    profiler,     \* the profiler: running or stopped
    call,         \* per caller: where its call is
    req           \* the request in progress, or Nobody

httpVars == <<cfg, chain, fallback, servers, current, profiler, call, req>>

Nobody == [at |-> 0]
IdleCall == [at |-> "idle", server |-> 0, got |-> "none"]

(* cfg: upstream (New rather than NewAdvanced), static (a static health     *)
(* response), logging, tracing, cors ("off", "terminate", "pass"), health   *)
(* (UseHealthRouteMiddleware), user and response (the caller's              *)
(* middlewares), parse (DISABLE_REQUEST_MIDDLEWARES unset), types           *)
(* (SERVER_TYPE), unify (UNIFY_SERVER outside production), notFound         *)
(* (DISABLE_RESPONSE_MIDDLEWARES unset), owned (its own profiler).          *)
(* A request: method, path, data (x-user-data and x-application-data),      *)
(* token, origin, and how the application's handler ends.                   *)

ASSUME ConfigsAreComplete ==
    Configs \subseteq
        [upstream : BOOLEAN, static : BOOLEAN, logging : BOOLEAN, tracing : BOOLEAN,
         cors : {"off", "terminate", "pass"}, health : Seq({"answersHealth", "passesHealth"}),
         user : Seq({"authorize", "user"}),
         response : Seq({"errorHandler", "recovery", "response"}), parse : BOOLEAN,
         types : SUBSET {"internal", "external", "platform"},
         unify : BOOLEAN, notFound : BOOLEAN, owned : BOOLEAN]

(* health_route.go: "exact" is /_healthz or /_readyz, "variant" the same    *)
(* path in other case, "nested" a longer path that contains it.             *)
IsHealthProbe(r) == r.method = "GET" /\ r.path = "exact"
IsStaticHealthProbe(r) ==
    r.method \in {"GET", "HEAD", "OPTIONS"} /\ r.path \in {"exact", "variant"}

Static(c) == ~c.upstream /\ c.static
Only(b, seq) == IF b THEN seq ELSE <<>>

(* Init, step 1: the middlewares in the order they are installed.  On an    *)
(* advanced server the caller's request middlewares and the parsers are     *)
(* wrapped in bypassHealthRoutes; the caller's health middlewares and its   *)
(* response middlewares never are.                                          *)
Chain(c) ==
    Only(Static(c), <<"markOwned">>)
    \o Only(~c.upstream, <<"requestID", "otel", "otelRoute">>)
    \o <<"log">>
    \o Only(c.cors # "off", <<"cors">>)
    \o Only(Static(c), <<"staticHealth">>)
    \o c.health
    \o c.user
    \o Only(c.parse, <<"maxPayload", "parseData">>)
    \o c.response
    \o <<"route">>

Bypassable(m) == m \in {"authorize", "maxPayload", "parseData", "user"}

(* mountByServerType: one type, or internal among several, is the fallback; *)
(* the other types have prefixes.  mountUnified only has prefixes.          *)
MountError(c) == ~c.unify /\ c.types = {}
HasFallback(c) ==
    ~c.unify /\ (\E t \in c.types : c.types = {t} \/ t = "internal")
Mounted(c, r) ==
    r.path = "service" /\ (c.unify \/ ("external" \in c.types /\ c.types # {"external"}))

Init ==
    /\ cfg \in Configs
    /\ chain = <<>> /\ fallback = FALSE
    /\ servers = <<>> /\ current = 0
    /\ profiler = "running"
    /\ call = [c \in Callers |-> IdleCall]
    /\ req = Nobody

(* Server.Init: a mounting error leaves the previous engine in place.       *)
InitServer ==
    /\ chain = <<>> /\ ~MountError(cfg)
    /\ chain' = Chain(cfg)
    /\ fallback' = HasFallback(cfg)
    /\ UNCHANGED <<cfg, servers, current, profiler, call, req>>

-----------------------------------------------------------------------------
(* Start and Shutdown.                                                      *)

(* Start builds a new http.Server and stores it, whatever was there.        *)
Start(c) ==
    /\ call[c].at = "idle"
    /\ IF chain = <<>>
       THEN /\ call' = [call EXCEPT ![c].at = "returned", ![c].got = "error"]
            /\ UNCHANGED <<servers, current>>
       ELSE /\ Len(servers) < MaxServers
            /\ servers' = Append(servers, "new")
            /\ current' = Len(servers) + 1
            /\ call' = [call EXCEPT ![c].at = "starting", ![c].server = Len(servers) + 1]
    /\ UNCHANGED <<cfg, chain, fallback, profiler, req>>

PortTaken == \E k \in 1..Len(servers) : servers[k] = "listening"

(* Start reads s.server again without the lock: the caller serves its own   *)
(* http.Server, or the one that a later Start has put in its place.         *)
ListenAndServe(c) ==
    /\ call[c].at = "starting"
    /\ \E k \in {call[c].server, current} :
         \/ /\ servers[k] = "new" /\ ~PortTaken
            /\ servers' = [servers EXCEPT ![k] = "listening"]
            /\ call' = [call EXCEPT ![c].at = "serving", ![c].server = k]
         \/ /\ servers[k] \in {"new", "listening"} /\ PortTaken
            /\ call' = [call EXCEPT ![c].at = "returned", ![c].server = k, ![c].got = "error"]
            /\ UNCHANGED servers
         \/ /\ servers[k] \in {"closing", "closed"}
            /\ call' = [call EXCEPT ![c].at = "returned", ![c].server = k, ![c].got = "nil"]
            /\ UNCHANGED servers
    /\ UNCHANGED <<cfg, chain, fallback, current, profiler, req>>

ServeEnds(c) ==
    /\ call[c].at = "serving" /\ servers[call[c].server] # "listening"
    /\ call' = [call EXCEPT ![c].at = "returned", ![c].got = "nil"]
    /\ UNCHANGED <<cfg, chain, fallback, servers, current, profiler, req>>

(* Shutdown: read s.server, stop the profiler if it is the server's own,    *)
(* then shut that server down.                                              *)
BeginShutdown(c) ==
    /\ call[c].at = "idle"
    /\ call' = [call EXCEPT ![c].at = IF current = 0 THEN "returned" ELSE "draining",
                            ![c].server = current,
                            ![c].got = IF current = 0 THEN "nil" ELSE "none"]
    /\ profiler' = IF cfg.owned /\ ~cfg.upstream THEN "stopped" ELSE profiler
    /\ servers' = IF current = 0 THEN servers
                  ELSE [servers EXCEPT ![current] = IF @ = "closed" THEN "closed" ELSE "closing"]
    /\ UNCHANGED <<cfg, chain, fallback, current, req>>

Serving(k) == req # Nobody /\ req.server = k

(* The drain ends when the server is idle, or at the caller's deadline.     *)
EndShutdown(c) ==
    /\ call[c].at = "draining"
    /\ \/ /\ ~Serving(call[c].server)
          /\ servers' = [servers EXCEPT ![call[c].server] = "closed"]
          /\ call' = [call EXCEPT ![c].at = "returned", ![c].got = "nil"]
       \/ /\ Serving(call[c].server)
          /\ call' = [call EXCEPT ![c].at = "returned", ![c].got = "deadline"]
          /\ UNCHANGED servers
    /\ UNCHANGED <<cfg, chain, fallback, current, profiler, req>>

-----------------------------------------------------------------------------
(* A request.                                                               *)

Accept(k, r) ==
    /\ req = Nobody /\ servers[k] = "listening"
    /\ req' = [at |-> 1, server |-> k, r |-> r, owned |-> FALSE, way |-> "down",
               status |-> 0, by |-> "nobody", log |-> <<>>, span |-> "none",
               passed |-> {}]
    /\ UNCHANGED <<cfg, chain, fallback, servers, current, profiler, call>>

(* Down the chain: pass on, answer and turn back, or panic.                 *)
Pass(q) == [q EXCEPT !.at = @ + 1]
Reply(q, status, by) == [q EXCEPT !.way = "up", !.status = status, !.by = by]
Panic(q) == [q EXCEPT !.way = "panic"]

Bypassed(q) == IF Static(cfg) THEN IsStaticHealthProbe(q.r) ELSE IsHealthProbe(q.r)

(* LogRequestResponseAdvanced skips owned probes only; LogRequestResponse   *)
(* skips every path that contains a health path.                            *)
IsOwnedHealthProbe(q) == IsHealthProbe(q.r) \/ q.owned
\* Mutant: the access log is skipped by path, as the released one does.
UnloggedByPath(q) == q.r.path \in {"exact", "nested"} \/ q.owned

Unlogged(q) ==
    IF cfg.upstream THEN q.r.path \in {"exact", "nested"} ELSE IsOwnedHealthProbe(q)
Log(q, step) == IF Unlogged(q) \/ ~cfg.logging THEN q ELSE [q EXCEPT !.log = Append(@, step)]

(* OTelMiddleware: ShouldTrace refuses the health paths themselves.         *)
OpenSpan(q) ==
    IF cfg.tracing /\ q.r.path # "exact" THEN [q EXCEPT !.span = "open"] ELSE q

(* DynamicCORS: preflights end here, except that disallowed ones may pass.  *)
Cors(q) ==
    IF q.r.method = "OPTIONS" /\ (q.r.origin = "allowed" \/ cfg.cors = "terminate")
    THEN Reply(q, 204, "cors") ELSE Pass(q)

(* staticHealthCompatibilityMiddleware: an answer, or 304 when fresh.       *)
StaticHealth(q) ==
    IF ~IsStaticHealthProbe(q.r) THEN Pass(q)
    ELSE Reply(q, IF q.r.fresh /\ q.r.method # "OPTIONS" THEN 304 ELSE 200, "health")

(* A caller's health middleware that owns the Express-style variants.       *)
CustomHealth(q) ==
    IF IsStaticHealthProbe(q.r) THEN Reply(q, 200, "custom") ELSE Pass(q)

(* AuthorizeJWTToken as a caller's request middleware.                      *)
Authorize(q) == IF q.r.token = "valid" THEN Pass([q EXCEPT !.passed = @ \cup {"authorize"}])
                ELSE Reply(q, 401, "authorize")

(* GinParseUserData, GinParseApplicationData: 401 for a header that is      *)
(* neither an object nor an array whose first string is one.                *)
ParseData(q) ==
    IF q.r.data = "bad" THEN Reply(q, 401, "parseData")
    ELSE Pass([q EXCEPT !.passed = @ \cup {"parseData"}])

(* The router: health routes, service routes, then the fallback or 404.     *)
(* The application's handler answers, or panics with an error.              *)
App(q) == IF q.r.ends = "panic" THEN Panic([q EXCEPT !.by = "app"])
          ELSE Reply(q, 200, "app")
Route(q, down) ==
    IF IsHealthProbe(q.r) THEN Reply(q, IF down /\ ~Static(cfg) THEN 400 ELSE 200, "health")
    ELSE IF Mounted(cfg, q.r) \/ fallback THEN App(q)
    ELSE Reply(q, 404, IF cfg.notFound THEN "notFound" ELSE "gin")

DownStep(q, m, down) ==
    IF Bypassable(m) /\ ~cfg.upstream /\ Bypassed(q) THEN Pass(q) ELSE
    CASE m = "markOwned" -> Pass([q EXCEPT !.owned = IsStaticHealthProbe(q.r)])
      [] m = "log" -> Pass(Log(q, "REQ"))
      [] m = "otel" -> Pass(OpenSpan(q))
      [] m = "cors" -> Cors(q)
      [] m = "staticHealth" -> StaticHealth(q)
      [] m = "answersHealth" -> CustomHealth(q)
      [] m = "authorize" -> Authorize(q)
      [] m = "parseData" -> ParseData(q)
      [] m = "route" -> Route(q, down)
      [] OTHER -> Pass(q)

Down ==
    /\ req # Nobody /\ req.way = "down"
    /\ \E down \in BOOLEAN : req' = DownStep(req, chain[req.at], down)
    /\ UNCHANGED <<cfg, chain, fallback, servers, current, profiler, call>>

(* Up the chain: the code after c.Next(); on a panic only deferred code     *)
(* runs, and ErrorHandler and Recovery turn it into an answer.  A FitError  *)
(* keeps its status, any other error is 400, Recovery answers 500.          *)
UpStep(q, m) ==
    CASE m = "log" /\ q.way = "up" -> Log(q, "RES")
      [] m = "otel" -> [q EXCEPT !.span = IF @ = "open" THEN "ended" ELSE @]
      [] m = "errorHandler" /\ q.way = "panic" -> [q EXCEPT !.way = "up", !.status = 400]
      [] m = "recovery" /\ q.way = "panic" -> [q EXCEPT !.way = "up", !.status = 500]
      [] OTHER -> q

Up ==
    /\ req # Nobody /\ req.way \in {"up", "panic"} /\ req.at > 1
    /\ req' = [UpStep(req, chain[req.at - 1]) EXCEPT !.at = req.at - 1]
    /\ UNCHANGED <<cfg, chain, fallback, servers, current, profiler, call>>

(* net/http recovers what no middleware did and closes the connection.      *)
Finish ==
    /\ req # Nobody /\ req.way \in {"up", "panic"} /\ req.at = 1
    /\ req' = Nobody
    /\ UNCHANGED <<cfg, chain, fallback, servers, current, profiler, call>>

Next ==
    \/ InitServer
    \/ \E c \in Callers :
         Start(c) \/ ListenAndServe(c) \/ ServeEnds(c) \/ BeginShutdown(c) \/ EndShutdown(c)
    \/ \E k \in 1..Len(servers), r \in Requests : Accept(k, r)
    \/ Down \/ Up \/ Finish

Spec == Init /\ [][Next]_httpVars

-----------------------------------------------------------------------------
(* Properties.                                                              *)

Answered == req # Nobody /\ req.way = "up"
Ending == req # Nobody /\ req.at = 1 /\ req.way \in {"up", "panic"}

(* An advanced server leaves out of its access log only the probes that     *)
(* fit-go answers itself and GET requests of the exact health paths: what a *)
(* caller's health middleware lets fall through, or answers in its own way, *)
(* stays in the log (the comment at server.go 359-362), in pairs unless it  *)
(* panics, and its span is closed.                                          *)
OnlyOwnProbesUnlogged ==
    (Ending /\ ~cfg.upstream /\ cfg.logging) =>
        /\ req.log = <<>> =>
               req.by \in {"health", "cors"} \/ (req.by = "custom" /\ IsHealthProbe(req.r))
        /\ (req.log # <<>> /\ req.way = "up") => req.log = <<"REQ", "RES">>
        /\ req.span # "open"

(* A probe the server owns is answered by a health route or by a health     *)
(* middleware of the caller, whatever its headers and tokens are, and       *)
(* nothing but a preflight is answered before it; every other request       *)
(* reaches the application only past the parsers and the authorization.     *)
ProbesBypassOthersDoNot ==
    (Answered /\ ~cfg.upstream) =>
        /\ Bypassed(req) => req.by \in {"health", "cors", "custom"}
        /\ req.by = "app" =>
               {m \in {"authorize", "parseData"} :
                    \E k \in 1..Len(chain) : chain[k] = m} \subseteq req.passed

(* Only probes that fit-go answers itself, or an exact probe that a health   *)
(* middleware of the caller answers, are left out of the access log or pass  *)
(* the parsers and the authorization unchecked.                              *)
ProbesAreOwned == OnlyOwnProbesUnlogged /\ ProbesBypassOthersDoNot
=============================================================================
