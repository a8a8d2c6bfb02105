------------------------- MODULE ConnectionSettings -------------------------
(* How the datastore clients turn their environment into a connection: TLS  *)
(* material, routing of redis URIs, mysql data source names and the pool    *)
(* settings of postgres, mysql and mongo.  Pure functions; each client has  *)
(* a legacy mode, which falls back, and a strict one, which refuses.        *)
EXTENDS Integers, FiniteSets

CONSTANTS
    Int32Half       \* 2^31 in the code; int32(n) wraps at it

----------------------------------------------------------------------------
(* TLS.  material: which variables are set and what the files hold.         *)

Material(client) == {"ca", "cert", "key"} \cup
    IF client \in {"mysql", "postgres"} THEN {"serverName"} ELSE {}

(* loadTLSConfig and its siblings: nothing set is no TLS, part of it an     *)
(* error; a CA file without certificates yields an error and a config with  *)
(* no roots, which fails every handshake.                                   *)
LoadTLS(client, material) ==
    LET given == material.given \cap Material(client) IN
    IF given = {} THEN [config |-> "none", err |-> FALSE]
    ELSE IF given # Material(client) \/ material.files = "unreadable" THEN [config |-> "none", err |-> TRUE]
    ELSE IF material.files = "badCA" THEN [config |-> "noRoots", err |-> TRUE]
    ELSE [config |-> "verified", err |-> FALSE]

(* The strict clients return the error; the legacy ones keep what there is, *)
(* and legacy redis switches verification off.                              *)
TLSForMode(client, material, strict) ==
    LET loaded == LoadTLS(client, material) IN
    IF strict THEN loaded
    ELSE IF client = "redis" /\ loaded.config # "none" THEN [config |-> "unverified", err |-> FALSE]
    ELSE [loaded EXCEPT !.err = FALSE]

\* Mutant: only the scheme of a redis URI asks for TLS.
SchemeOnlyTLS(uri, config) ==
    [err |-> "junk" \in {uri.tls, uri.ssl},
     config |-> IF uri.scheme = "rediss" /\ config = "none" THEN "verified" ELSE config]

(* applyRedisURITLS: rediss://, tls= or ssl= ask for TLS; a value that is   *)
(* no boolean is refused, certificates that are configured win.             *)
ApplyRedisURITLS(uri, config) ==
    LET requested == uri.scheme = "rediss" \/ "true" \in {uri.tls, uri.ssl} IN
    [err |-> "junk" \in {uri.tls, uri.ssl},
     config |-> IF requested /\ config = "none" THEN "verified" ELSE config]

----------------------------------------------------------------------------
(* Redis: a URI is routed to a sentinel, cluster or standalone dialer.  A   *)
(* connection ends up with one of the protections in tls.                   *)

Failure == [err |-> TRUE, route |-> "none", by |-> "none", tls |-> {}]
Dialled(route, by, tls) == [err |-> FALSE, route |-> route, by |-> by, tls |-> {tls}]

(* redisProtocolForService: one supported protocol, or none named.          *)
Protocol(service) ==
    [err |-> ~service.protocols \subseteq {0, 2, 3} \/ Cardinality(service.protocols) > 1,
     value |-> IF service.protocols = {} THEN 0 ELSE CHOOSE p \in service.protocols : TRUE]

(* The routes that retry commands count a retry limit among the controls    *)
(* that a plain dialer cannot take; the standalone one passes it on.        *)
ControlsSet(route, protocol, controls) ==
    \/ protocol # 0 \/ controls.backoff
    \/ route # "standalone" /\ controls.retries

(* An ioredis profile dials its own client; otherwise the advanced dialer   *)
(* is preferred and a plain one takes only what it can express.             *)
DialRoute(route, service, dialers, protocol, controls, tls) ==
    IF service.compatible
    THEN IF route # "standalone" /\ service.role = "read" THEN Failure
         ELSE Dialled(route, "ioredis", tls)
    ELSE IF "advanced" \in dialers[route] THEN Dialled(route, "advanced", tls)
    ELSE IF dialers[route] = {} \/ ControlsSet(route, protocol, controls) THEN Failure
    ELSE Dialled(route, "plain", tls)

RouteSentinel(uri, service, dialers, protocol, controls, tls) ==
    IF uri.master THEN DialRoute("sentinel", service, dialers, protocol, controls, tls) ELSE Failure
RouteCluster(uri, service, dialers, protocol, controls, tls) ==
    DialRoute("cluster", service, dialers, protocol, controls, tls)
RouteStandalone(uri, service, dialers, protocol, controls, tls) ==
    DialRoute("standalone", service, dialers, protocol, controls, tls)

(* The original initialisers know neither protocols, profiles, retry        *)
(* controls nor advanced dialers (advancedConnectionOptions,                *)
(* legacyRedisEnvOptions).                                                  *)
LegacyService(service) == [service EXCEPT !.protocols = {}, !.compatible = FALSE]
LegacyControls == [retries |-> FALSE, backoff |-> FALSE]
LegacyDialers(dialers) == [r \in DOMAIN dialers |-> dialers[r] \cap {"plain"}]

(* dialFromURIWithMode, after TLS was loaded for the service.               *)
DialFromURI(uri, service, dialers, controls, loaded, strict) ==
    LET applied == IF strict THEN ApplyRedisURITLS(uri, loaded.config)
                             ELSE [err |-> FALSE, config |-> loaded.config]
        svc == IF strict THEN service ELSE LegacyService(service)
        ctl == IF strict THEN controls ELSE LegacyControls
        dls == IF strict THEN dialers ELSE LegacyDialers(dialers)
        protocol == Protocol(svc)
    IN IF \/ loaded.err \/ applied.err \/ protocol.err
          \/ svc.compatible /\ protocol.value = 3
       THEN Failure
       ELSE IF uri.scheme = "redis-sentinel"
            THEN RouteSentinel(uri, svc, dls, protocol.value, ctl, applied.config)
       ELSE IF uri.hosts > 1 \/ uri.sharded
            THEN RouteCluster(uri, svc, dls, protocol.value, ctl, applied.config)
       ELSE RouteStandalone(uri, svc, dls, protocol.value, ctl, applied.config)

----------------------------------------------------------------------------
(* MySQL: openDBAdvanced.  A URI names a host; a value without "://" is a   *)
(* data source name, kept as an option of an otherwise empty URI.           *)

ParseMySQL(conn) ==
    CASE conn.form = "malformed" -> [err |-> TRUE, host |-> "none", rawOption |-> FALSE]
      [] conn.form = "dsn" -> [err |-> FALSE, host |-> "none", rawOption |-> TRUE]
      [] OTHER -> [err |-> FALSE, host |-> conn.host, rawOption |-> FALSE]

(* What the driver (external) makes of the data source name.  The default   *)
(* one, DefaultMySQLDSN, has the registered name first and then the URI's   *)
(* options, so a tls= among those wins; a caller's DSNTransform uses the    *)
(* registered name or leaves it out.                                        *)
OptionTLS == [true |-> "verified", false |-> "none", insecure |-> "unverified"]
DriverTLS(conn, config) ==
    IF conn.dsn = "unnamed" THEN "none"
    ELSE IF conn.dsn = "default" /\ conn.form = "uri" /\ conn.option # "absent"
         THEN OptionTLS[conn.option]
    ELSE config

(* A strict client refuses a TLS config that it cannot register with the    *)
(* driver; the legacy one drops it first.                                   *)
OpenMySQL(conn, registrar, loaded, strict) ==
    LET parsed == ParseMySQL(conn)
        config == IF registrar = "none" /\ ~strict THEN "none" ELSE loaded.config
    IN IF loaded.err \/ parsed.err \/ (config # "none" /\ registrar # "works")
       THEN Failure
       ELSE Dialled(parsed.host, "sql", DriverTLS(conn, config))

(* pgx (external) makes one attempt or two of each host, by sslmode, which  *)
(* is prefer when the connection string has none.                           *)
FirstAttempt == [disable |-> "none", allow |-> "none", prefer |-> "unverified",
                 require |-> "unverified", verify |-> "verified"]
SecondAttempts == [disable |-> {}, allow |-> {"unverified"}, prefer |-> {"none"},
                   require |-> {}, verify |-> {}]

(* buildPoolConfig replaces the first attempt's config, on the first host,  *)
(* and leaves the fallbacks as they were parsed.                            *)
OpenPostgres(conn, loaded) ==
    LET first == IF loaded.config = "none" THEN FirstAttempt[conn.sslmode] ELSE loaded.config
        nextHosts == IF conn.hosts > 1 THEN {FirstAttempt[conn.sslmode]} ELSE {}
    IN IF loaded.err THEN Failure
       ELSE [err |-> FALSE, route |-> "pool", by |-> "pgx",
             tls |-> {first} \cup SecondAttempts[conn.sslmode] \cup nextHosts]

(* Mongo's driver takes the config over whatever the URI says.              *)
OpenMongo(loaded) == IF loaded.err THEN Failure ELSE Dialled("pool", "mongo", loaded.config)

(* What a client makes of one configured connection.                        *)
Connect(q) ==
    LET loaded == TLSForMode(q.client, q.material, q.strict) IN
    CASE q.client = "redis" -> DialFromURI(q.uri, q.service, q.dialers, q.controls, loaded, q.strict)
      [] q.client = "mysql" -> OpenMySQL(q.conn, q.registrar, loaded, q.strict)
      [] q.client = "postgres" -> OpenPostgres(q.conn, loaded)
      [] OTHER -> OpenMongo(loaded)

(* In the strict mode a connection for which any TLS material is set, or    *)
(* whose redis URI asks for TLS, is verified or is not opened at all,       *)
(* whatever route, profile, dialer or registrar it takes, unless the        *)
(* connection string or the DSN hook itself says otherwise: exactly then    *)
(* the connection may be a weaker one.                                      *)
AsksForTLS(q) ==
    \/ q.material.given \cap Material(q.client) # {}
    \/ q.client = "redis" /\ (q.uri.scheme = "rediss" \/ "true" \in {q.uri.tls, q.uri.ssl})
SaysOtherwise(q) ==
    CASE q.client = "mysql" ->
            \/ q.conn.dsn = "unnamed"
            \/ q.conn.dsn = "default" /\ q.conn.form = "uri" /\ q.conn.option \in {"false", "insecure"}
      [] q.client = "postgres" ->
            \/ q.conn.sslmode \in {"allow", "prefer"}
            \/ q.conn.hosts > 1 /\ q.conn.sslmode # "verify"
      [] OTHER -> FALSE
TLSKeptUnlessOverridden(q) ==
    q.strict /\ AsksForTLS(q) =>
        LET r == Connect(q) IN r.err \/ (r.tls = {"verified"} <=> ~SaysOtherwise(q))

----------------------------------------------------------------------------
(* Postgres pools: default, then variable, then the caller's override.      *)

LegacyFields == {"max", "min", "lifetime", "idleTime", "health"}
Fields == LegacyFields \cup {"minIdle", "connect", "jitter", "ping"}
Counts == {"max", "min", "minIdle"}

Wrapped(n) == ((n + Int32Half) % (2 * Int32Half)) - Int32Half

(* applyAdvancedOptionDefaults: zero is not set; only the legacy fields     *)
(* have a default.                                                          *)
Defaulted(options, defaults) ==
    [f \in Fields |-> IF options[f] = 0 /\ f \in LegacyFields THEN defaults[f] ELSE options[f]]

Overridden(settings, override) ==
    [f \in DOMAIN settings |-> IF override[f] > 0 THEN override[f] ELSE settings[f]]

(* legacyPoolSettingsFromEnv: Atoi without trimming; what does not parse is *)
(* ignored, a count is cut to 32 bits.                                      *)
LegacyPool(options, env, override) ==
    Overridden([f \in LegacyFields |->
        IF env[f].form # "number" THEN options[f]
        ELSE IF f \in Counts THEN Wrapped(env[f].n) ELSE env[f].n], override)

(* poolSettingsFromEnv: blanks are trimmed, what does not parse or does not *)
(* fit is an error.  "renamed" is MAX_CONNECTION_LIFETIME, which wins over  *)
(* the older CONNECTION_TIMEOUT.                                            *)
Read(f, env) == IF f = "lifetime" /\ env["renamed"].form \in {"number", "padded"}
                THEN env["renamed"] ELSE env[f]

EnvError(env) ==
    \E f \in DOMAIN env :
        \/ env[f].form = "junk"
        \/ f \in Counts /\ env[f].form \in {"number", "padded"} /\ Wrapped(env[f].n) # env[f].n

ValidPool(s) ==
    /\ s["max"] > 0 /\ s["health"] > 0
    /\ \A f \in {"min", "minIdle"} : s[f] \in 0..s["max"]
    /\ \A f \in Fields : s[f] >= 0

StrictPool(options, env, override) ==
    LET s == Overridden([f \in Fields |->
                 IF Read(f, env).form \in {"number", "padded"} THEN Read(f, env).n ELSE options[f]],
                 override)
    IN [err |-> EnvError(env) \/ ~ValidPool(s), settings |-> s]

(* Moving a service from the original postgres initialiser to the strict    *)
(* one changes no pool setting: where the strict one accepts a configuration*)
(* written for the old one, both compute the same pool.                     *)
PoolsAgree(q) ==
    LET options == Defaulted(q.options, q.defaults)
        strict == StrictPool(options, q.env, q.override)
        legacy == LegacyPool(options, q.env, q.override)
    IN /\ ~strict.err
       /\ q.env["renamed"].form \notin {"number", "padded"}
       /\ \A f \in Fields : q.env[f].form # "padded"
       => \A f \in LegacyFields : legacy[f] = strict.settings[f]
=============================================================================
