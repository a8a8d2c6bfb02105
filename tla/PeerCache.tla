----------------------------- MODULE PeerCache ------------------------------
(* The distributed cache client of groupcache/: the peer server and the      *)
(* goroutine that listens for it, the peer list that callers and Kubernetes  *)
(* discovery loops replace, named groups with loaders, and Close, which may  *)
(* come at any point of the others.  The groupcache library and net/http are *)
(* external: a group object caches one value per key, a server that was shut *)
(* down refuses to listen.  Metrics, and a second client of the process that *)
(* registers the same group name (the library panics), are left out.         *)
EXTENDS Naturals, Sequences

CONSTANTS
    Nodes,        \* peer addresses
    Self,         \* this node's address
    Keys,         \* keys of the cache
    Names,        \* group names
    Loops,        \* discovery loops that callers start
    MaxServers,   \* bound: StartServer calls
    MaxGroups,    \* bound: groups created
    MaxVersion    \* bound: values of the data source

VARIABLES
    pool,         \* the peers of the HTTP pool
    asked,        \* history: the peers that Init or a caller's SetPeers gave last
    discovery,    \* per discovery loop: off, fetching, waiting or ended
    groups,       \* c.groups: per name an index of objects, 0 for none
    objects,      \* the library's groups: source at creation, value per key
    reader,       \* a Get in progress: the object it looked up, the value loaded
    source,       \* the data source's present value
    servers,      \* http.Servers in the order of StartServer: new, listening, closed
    threads,      \* StartServer's goroutines: the server each read, 0 before
    server,       \* c.server: index of servers, 0 for nil
    stopped,      \* stopCh is closed
    closed,       \* Close: no, stopping or returned
    begun         \* history: StartServer calls before Close looked at c.server

cacheVars == <<pool, asked, discovery, groups, objects, reader, source,
               servers, threads, server, stopped, closed, begun>>
peerVars == <<pool, asked, discovery>>
groupVars == <<groups, objects, reader, source>>
serverVars == <<servers, threads, server, stopped, closed, begun>>

NotReading == [at |-> "idle", of |-> 0, key |-> "none", value |-> 0]

(* resolvePeers: whatever is configured, with Self in it.                   *)
Init ==
    /\ \E configured \in SUBSET Nodes : pool = configured \cup {Self}
    /\ asked = pool /\ discovery = [l \in Loops |-> "off"]
    /\ groups = [g \in Names |-> 0] /\ objects = <<>>
    /\ reader = NotReading /\ source = 1
    /\ servers = <<>> /\ threads = <<>> /\ server = 0
    /\ stopped = FALSE /\ closed = "no" /\ begun = 0

-----------------------------------------------------------------------------
(* StartServer stores the server, without a lock, and listens in a          *)
(* goroutine, which reads c.server again.                                   *)
StartServer ==
    /\ Len(servers) < MaxServers
    /\ servers' = Append(servers, "new") /\ server' = Len(servers) + 1
    /\ threads' = Append(threads, [at |-> "started", on |-> 0])
    /\ UNCHANGED <<peerVars, groupVars, stopped, closed, begun>>

ReadServer(k) ==
    /\ threads[k].at = "started"
    /\ threads' = [threads EXCEPT ![k] = [at |-> "listening", on |-> server]]
    /\ UNCHANGED <<peerVars, groupVars, servers, server, stopped, closed, begun>>

(* ListenAndServe: ErrServerClosed after a Shutdown, a bind error while     *)
(* another server has the port.                                             *)
PortTaken == \E j \in DOMAIN servers : servers[j] = "listening"

Listen(k) ==
    /\ threads[k].at = "listening"
    /\ threads' = [threads EXCEPT ![k].at = "ended"]
    /\ servers' = IF servers[threads[k].on] = "closed" \/ PortTaken THEN servers
                  ELSE [servers EXCEPT ![threads[k].on] = "listening"]
    /\ UNCHANGED <<peerVars, groupVars, server, stopped, closed, begun>>

(* Close, once: stop discovery, then shut the stored server down.           *)
Close ==
    /\ closed = "no"
    /\ stopped' = TRUE /\ closed' = "stopping"
    /\ UNCHANGED <<peerVars, groupVars, servers, threads, server, begun>>

\* Mutant: Close shuts down only a server that listens already.
EndCloseOfListener ==
    /\ closed = "stopping"
    /\ closed' = "returned" /\ begun' = Len(servers)
    /\ servers' = [s \in DOMAIN servers |->
                      IF s = server /\ servers[s] = "listening" THEN "closed" ELSE servers[s]]
    /\ UNCHANGED <<peerVars, groupVars, threads, server, stopped>>

EndClose ==
    /\ closed = "stopping"
    /\ closed' = "returned" /\ begun' = Len(servers)
    /\ servers' = [s \in DOMAIN servers |-> IF s = server THEN "closed" ELSE servers[s]]
    /\ UNCHANGED <<peerVars, groupVars, threads, server, stopped>>

-----------------------------------------------------------------------------
(* SetPeers by a caller: any list, an empty one too.                        *)
SetPeers ==
    /\ pool' \in SUBSET Nodes /\ asked' = pool'
    /\ UNCHANGED <<discovery, groupVars, serverVars>>

(* StartK8sDiscovery and its loop: fetch at once, then on every tick, until *)
(* its context or the client ends it.  A tick that is ready as well may win *)
(* the select, and the context may end at any time.                         *)
StartK8sDiscovery(l) ==
    /\ discovery[l] = "off" /\ discovery' = [discovery EXCEPT ![l] = "fetching"]
    /\ UNCHANGED <<pool, asked, groupVars, serverVars>>

Tick(l) ==
    /\ discovery[l] = "waiting"
    /\ \E at \in {"ended", "fetching"} : discovery' = [discovery EXCEPT ![l] = at]
    /\ UNCHANGED <<pool, asked, groupVars, serverVars>>

(* discoverPeers: an error or an empty answer keeps the list; any other     *)
(* answer replaces it, whether or not Self is ready and in it.              *)
Discover(l) ==
    /\ discovery[l] = "fetching" /\ discovery' = [discovery EXCEPT ![l] = "waiting"]
    /\ \E answer \in SUBSET Nodes : pool' = IF answer = {} THEN pool ELSE answer
    /\ UNCHANGED <<asked, groupVars, serverVars>>

-----------------------------------------------------------------------------
(* CreateGroup: an existing group is returned as it is.                     *)
CreateGroup(g) ==
    /\ groups[g] = 0 /\ Len(objects) < MaxGroups
    /\ objects' = Append(objects, [born |-> source, cached |-> [k \in Keys |-> 0]])
    /\ groups' = [groups EXCEPT ![g] = Len(objects) + 1]
    /\ UNCHANGED <<peerVars, reader, source, serverVars>>

(* RemoveGroup: out of the registry and of the map; a caller that looked    *)
(* the group up before goes on with it.                                     *)
RemoveGroup(g) ==
    /\ groups[g] # 0 /\ groups' = [groups EXCEPT ![g] = 0]
    /\ UNCHANGED <<peerVars, objects, reader, source, serverVars>>

(* Get: GetGroup under the lock, then a hit or a load without it.           *)
Get(g, k) ==
    /\ reader.at = "idle" /\ groups[g] # 0
    /\ reader' = [at |-> "found", of |-> groups[g], key |-> k, value |-> 0]
    /\ UNCHANGED <<peerVars, groups, objects, source, serverVars>>

(* The getter asks the source, or fails; a hit asks nobody.                 *)
Load ==
    /\ reader.at = "found"
    /\ \/ /\ objects[reader.of].cached[reader.key] = 0
          /\ reader' = [reader EXCEPT !.at = "loaded", !.value = source]
       \/ reader' = NotReading
    /\ UNCHANGED <<peerVars, groups, objects, source, serverVars>>

Store ==
    /\ reader.at = "loaded" /\ reader' = NotReading
    /\ objects' = [objects EXCEPT ![reader.of].cached[reader.key] = reader.value]
    /\ UNCHANGED <<peerVars, groups, source, serverVars>>

(* Set, and Remove (also an entry's expiry).                                *)
Set(g, k) ==
    /\ groups[g] # 0
    /\ objects' = [objects EXCEPT ![groups[g]].cached[k] = source]
    /\ UNCHANGED <<peerVars, groups, reader, source, serverVars>>

Remove(g, k) ==
    /\ groups[g] # 0
    /\ objects' = [objects EXCEPT ![groups[g]].cached[k] = 0]
    /\ UNCHANGED <<peerVars, groups, reader, source, serverVars>>

SourceChanges ==
    /\ source < MaxVersion /\ source' = source + 1
    /\ UNCHANGED <<peerVars, groups, objects, reader, serverVars>>

Next ==
    \/ StartServer \/ Close \/ EndClose \/ SetPeers
    \/ \E k \in DOMAIN threads : ReadServer(k) \/ Listen(k)
    \/ \E l \in Loops : StartK8sDiscovery(l) \/ Tick(l) \/ Discover(l)
    \/ \E g \in Names : CreateGroup(g) \/ RemoveGroup(g)
    \/ \E g \in Names, k \in Keys : Get(g, k) \/ Set(g, k) \/ Remove(g, k)
    \/ Load \/ Store \/ SourceChanges

-----------------------------------------------------------------------------
(* Once Close has returned, the peer server of the last StartServer before  *)
(* it does not listen, although that call's goroutine, or an earlier one    *)
(* that reads c.server late, may reach ListenAndServe after the shutdown.   *)
(* (A server that a second StartServer replaced goes on listening.)         *)
ClosedForGood == closed = "returned" /\ begun > 0 => servers[begun] # "listening"

(* The pool is without peers only when a caller asked for that last:        *)
(* whatever the discovery loops find never empties it.                      *)
EmptyOnlyWhenAsked == pool = {} => asked = {}

(* A group that was removed and created again answers nothing older than    *)
(* itself, although loads of the removed one may still be storing.          *)
NewGroupsAreFresh ==
    \A g \in Names : groups[g] # 0 =>
        LET o == objects[groups[g]]
        IN \A k \in Keys : o.cached[k] = 0 \/ o.cached[k] >= o.born
=============================================================================
