-------------------------- MODULE DatabaseClients --------------------------
(* Start-up, ping and shutdown of the redis, mongo, mysql and postgres      *)
(* clients (redis/client.go, mongo/client.go, mysql/client.go,              *)
(* postgres/client.go and metrics.go).  The environment names a read and a  *)
(* write connection per service.  redis and mongo open every connection in  *)
(* a goroutine of its own and collect the results from a channel; mysql and *)
(* postgres open one service after the other and ping at the end.  The      *)
(* servers are external: a dial or a ping succeeds or fails.                *)
EXTENDS Integers, Sequences, FiniteSets

CONSTANTS
    Configured      \* <<service, role>>: the variables of the environment

VARIABLES
    driver,         \* which client; redisAdvanced is redis with its advanced dialers
    pc,             \* "opening", "pinging", "up", "failed" or "closed"
    attempt,        \* per connection: 2 once a dialer rebuilt its client
    job,            \* redis and mongo: where each goroutine is; mysql and postgres:
                    \* "opened" is a write pool whose service is not complete
    results,        \* their channel: <<connection, succeeded>>
    errs,           \* an error was collected
    opened,         \* driver clients not yet closed: <<connection, attempt>>
    installed,      \* connections reachable from c.services
    registered,     \* postgres: connections with a pool metrics callback
    verified        \* mysql and postgres: pinged by the last loop

dbVars == <<driver, pc, attempt, job, results, errs, opened, installed, registered, verified>>

Concurrent == {"redis", "redisAdvanced", "mongo"}
Drivers == Concurrent \cup {"mysql", "postgres"}
Held(conns) == {<<c, attempt[c]>> : c \in conns}
Services == {c[1] : c \in Configured}
Of(s) == {c \in Configured : c[1] = s}

(* The scan of the environment; nothing configured returns an empty client. *)
Init ==
    /\ driver \in Drivers
    /\ pc = "opening" /\ attempt = [c \in Configured |-> 1]
    /\ job = [c \in Configured |-> "dialing"]
    /\ results = <<>> /\ errs = FALSE
    /\ opened = {} /\ installed = {} /\ registered = {} /\ verified = {}

(* Close of every client: metrics callbacks first, then the pools; what     *)
(* the services share between the roles is closed once.                     *)
CloseWith(half) ==
    /\ registered' = {}
    /\ opened' = opened \ Held(installed \cup half)
    /\ installed' = {}
CloseAll == CloseWith({})

(* A goroutine resolves its reference, reads its options and dials.         *)
Dial(c) ==
    /\ driver \in Concurrent /\ pc = "opening" /\ job[c] = "dialing"
    /\ \/ /\ job' = [job EXCEPT ![c] = IF driver = "redisAdvanced" THEN "probing" ELSE "pinging"]
          /\ opened' = opened \cup Held({c})
          /\ UNCHANGED results
       \/ /\ job' = [job EXCEPT ![c] = "sent"]
          /\ results' = Append(results, <<c, FALSE>>) /\ UNCHANGED opened
    /\ UNCHANGED <<driver, pc, attempt, errs, installed, registered, verified>>

(* The advanced redis dialers ask once whether the server takes the CLIENT  *)
(* command; when it does not they close the client and build another        *)
(* without name and identity.                                               *)
Replaced(c) == (opened \ {<<c, 1>>}) \cup {<<c, 2>>}
ProbeHandshake(c) ==
    /\ job[c] = "probing" /\ job' = [job EXCEPT ![c] = "pinging"]
    /\ \/ opened' = Replaced(c) /\ attempt' = [attempt EXCEPT ![c] = 2]
       \/ UNCHANGED <<opened, attempt>>
    /\ UNCHANGED <<driver, pc, results, errs, installed, registered, verified>>

(* Its ping; a connection that does not answer is closed by the goroutine.  *)
PingDialed(c) ==
    /\ driver \in Concurrent /\ pc = "opening" /\ job[c] = "pinging"
    /\ job' = [job EXCEPT ![c] = "sent"]
    /\ \E ok \in BOOLEAN :
        /\ results' = Append(results, <<c, ok>>)
        /\ opened' = IF ok THEN opened ELSE opened \ Held({c})
    /\ UNCHANGED <<driver, pc, attempt, errs, installed, registered, verified>>

(* The loop over the channel: an error is remembered, a connection kept.    *)
Collect ==
    /\ driver \in Concurrent /\ pc = "opening" /\ results # <<>>
    /\ results' = Tail(results)
    /\ IF Head(results)[2]
       THEN installed' = installed \cup {Head(results)[1]} /\ UNCHANGED errs
       ELSE errs' = TRUE /\ UNCHANGED installed
    /\ UNCHANGED <<driver, pc, attempt, job, opened, registered, verified>>

\* Mutant: the collecting loop returns at the first error.
StopsAtFirstError == \/ (\A c \in Configured : job[c] = "sent") /\ results = <<>>
                     \/ errs

(* The channel is closed after the last goroutine and drained.              *)
Collected == (\A c \in Configured : job[c] = "sent") /\ results = <<>>
EndCollect ==
    /\ driver \in Concurrent /\ pc = "opening" /\ Collected
    /\ IF errs THEN pc' = "failed" /\ CloseAll
               ELSE pc' = "up" /\ UNCHANGED <<opened, installed, registered>>
    /\ UNCHANGED <<driver, attempt, job, results, errs, verified>>

(* The postgres client registers a metrics callback for a pool it created;  *)
(* a registration that fails never fails the pool.                          *)
Registrable(conns) == IF driver = "postgres" THEN SUBSET conns ELSE {{}}

(* mysql and postgres, one service after the other: of two connections the  *)
(* write pool is opened first, and is in no service until both are.         *)
First(s) ==
    IF {<<s, "write">>, <<s, "read">>} \subseteq Configured THEN {<<s, "write">>} ELSE {}
HalfOpen == {c \in Configured : job[c] = "opened"}
Unopened == [c \in Configured |-> "dialing"]

OpenWrite(s) ==
    /\ driver \notin Concurrent /\ pc = "opening" /\ Of(s) \cap installed = {}
    /\ HalfOpen = {} /\ First(s) # {}
    /\ opened' = opened \cup Held(First(s))
    /\ job' = [c \in Configured |-> IF c \in First(s) THEN "opened" ELSE job[c]]
    /\ \E r \in Registrable(First(s)) : registered' = registered \cup r
    /\ UNCHANGED <<driver, pc, attempt, results, errs, installed, verified>>

OpenService(s) ==
    /\ driver \notin Concurrent /\ pc = "opening" /\ Of(s) \cap installed = {}
    /\ HalfOpen = First(s)
    /\ opened' = opened \cup Held(Of(s)) /\ installed' = installed \cup Of(s)
    /\ job' = Unopened
    /\ \E r \in Registrable(Of(s) \ First(s)) : registered' = registered \cup r
    /\ pc' = IF installed' = Configured THEN "pinging" ELSE "opening"
    /\ UNCHANGED <<driver, attempt, results, errs, verified>>

(* A service that cannot be opened.  Both clients close the write pool of   *)
(* that service when its read pool fails.  Only postgres then also closes   *)
(* the services opened before; mysql does that for a TLS failure alone,     *)
(* which comes before any pool of the service.                              *)
ClosesOnFailure(at) == driver = "postgres" \/ at = "tls"
OpenFails(s) ==
    /\ driver \notin Concurrent /\ pc = "opening" /\ Of(s) \cap installed = {}
    /\ HalfOpen \subseteq First(s)
    /\ pc' = "failed" /\ job' = Unopened
    /\ \E at \in {"tls", "connection"} :
        /\ at = "tls" => HalfOpen = {}
        /\ IF ClosesOnFailure(at) THEN CloseWith(HalfOpen)
           ELSE opened' = opened \ Held(HalfOpen) /\ UNCHANGED <<installed, registered>>
    /\ UNCHANGED <<driver, attempt, results, errs, verified>>

(* The last loop pings every pool; the first failure closes everything.     *)
Verify(c) ==
    /\ pc = "pinging" /\ c \notin verified
    /\ \/ /\ verified' = verified \cup {c}
          /\ pc' = IF verified' = Configured THEN "up" ELSE "pinging"
          /\ UNCHANGED <<opened, installed, registered>>
       \/ /\ pc' = "failed" /\ CloseAll /\ UNCHANGED verified
    /\ UNCHANGED <<driver, attempt, job, results, errs>>

(* Close of a running client, which may be called again.                    *)
Close ==
    /\ pc \in {"up", "closed"} /\ pc' = "closed" /\ CloseAll
    /\ UNCHANGED <<driver, attempt, job, results, errs, verified>>

Next ==
    \/ \E c \in Configured : Dial(c) \/ ProbeHandshake(c) \/ PingDialed(c) \/ Verify(c)
    \/ \E s \in Services : OpenWrite(s) \/ OpenService(s) \/ OpenFails(s)
    \/ Collect \/ EndCollect \/ Close

Spec == Init /\ [][Next]_dbVars

(* A client that failed to start, or was closed, has left no connection     *)
(* open at any server and no metrics callback behind, whichever goroutine   *)
(* failed first and however many succeeded after it.  mysql is excepted: it *)
(* returns without closing the services it opened before the failing one.   *)
NothingStaysOpen ==
    pc \in {"failed", "closed"} =>
        /\ registered = {}
        /\ driver # "mysql" \/ pc = "closed" => opened = {}
=============================================================================
