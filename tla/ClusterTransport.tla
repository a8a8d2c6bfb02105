-------------------------- MODULE ClusterTransport --------------------------
(* The Sentinel and Cluster transports of redis/ioredis_topology.go.  The   *)
(* client runs one exchange at a time, so nodeForAddress never finds that   *)
(* another exchange registered the address it has dialled (864-868); the    *)
(* cluster moves slots, connections break and Close is called at any        *)
(* moment.  A command is the rule that routes it and the slots of its keys  *)
(* (the hash is not modelled).  The Redis nodes are external.               *)
EXTENDS Integers, FiniteSets, Sequences

CONSTANTS
    Nodes,          \* addresses
    Slots,
    Seeds,          \* sequence of addresses tried in order
    Commands,       \* the sequences of commands the client submits
    MaxRedirects,   \* ioredisClusterMaxRedirects (16)
    MaxMoves        \* bound: changes of the cluster

VARIABLES
    owner, importing,   \* the cluster: who serves a slot, who imports it
    moves,
    kind,               \* "cluster" or "sentinel"
    pc, seed,           \* the client goroutine and the seed it is at
    todo,               \* addresses newIORedisClusterTransport still connects
    nodes,              \* t.nodes
    slots, first,       \* t.slots, t.first
    open,               \* open connections <<role, address>>
    stopped, closing,   \* t.stopped; Close: no, begun, done
    signalled,          \* t.closed
    cmds, stage, target, redirects,     \* the exchange in progress
    ran,                \* history: how often each command of it executed
    result              \* its outcome

clusterState == <<owner, importing, moves>>
connVars == <<nodes, open, stopped, closing, signalled>>
mapVars == <<slots, first>>
callVars == <<cmds, stage, target, redirects, ran, result>>
topologyVars == <<clusterState, kind, pc, seed, todo, connVars, mapVars, callVars>>

NoNode == "nowhere"
NoResult == [ok |-> FALSE, may |-> FALSE, written |-> FALSE]
Node(a) == <<"node", a>>
Probe(a) == <<"probe", a>>
Dialled(a) == <<"dial", a>>

Init ==
    /\ owner \in [Slots -> Nodes] /\ importing = [s \in Slots |-> NoNode] /\ moves = 0
    /\ kind \in {"cluster", "sentinel"} /\ pc = "seed" /\ seed = 1 /\ todo = {}
    /\ nodes = {} /\ open = {} /\ stopped = FALSE /\ closing = "no" /\ signalled = FALSE
    /\ slots = [s \in Slots |-> NoNode] /\ first = NoNode
    /\ cmds = <<>> /\ stage = "none" /\ target = NoNode /\ redirects = 0
    /\ ran = <<>> /\ result = NoResult

-----------------------------------------------------------------------------
(* The cluster, external: a slot starts to move, then belongs to another    *)
(* node, or nobody serves it.                                               *)
Move(s) ==
    /\ moves < MaxMoves /\ moves' = moves + 1
    /\ \/ \E n \in Nodes \ {owner[s]} :
            importing[s] = NoNode /\ importing' = [importing EXCEPT ![s] = n] /\ UNCHANGED owner
       \/ /\ importing[s] # NoNode
          /\ owner' = [owner EXCEPT ![s] = importing[s]]
          /\ importing' = [importing EXCEPT ![s] = NoNode]
       \/ owner' = [owner EXCEPT ![s] = NoNode] /\ UNCHANGED importing
    /\ UNCHANGED <<kind, pc, seed, todo, connVars, mapVars, callVars>>

-----------------------------------------------------------------------------
(* The factories' Connect: seeds in order, each probe closed at once.       *)

ProbeSeed ==
    /\ pc = "seed" /\ seed <= Len(Seeds)
    /\ \/ pc' = "probe" /\ open' = open \cup {Probe(Seeds[seed])} /\ UNCHANGED seed
       \/ seed' = seed + 1 /\ UNCHANGED <<pc, open>>
    /\ UNCHANGED <<clusterState, kind, todo, nodes, stopped, closing, signalled, mapVars, callVars>>

SeedsExhausted ==
    /\ pc = "seed" /\ seed > Len(Seeds) /\ pc' = "failed"
    /\ UNCHANGED <<clusterState, kind, seed, todo, connVars, mapVars, callVars>>

Unprobe == open' = open \ {Probe(Seeds[seed])}

BadAnswer ==
    /\ pc = "probe" /\ Unprobe /\ pc' = "seed" /\ seed' = seed + 1
    /\ UNCHANGED <<clusterState, kind, todo, nodes, stopped, closing, signalled, mapVars, callVars>>

(* parseIORedisClusterSlots: the rows name the owners; any may come first.  *)
Served == {owner[s] : s \in Slots} \ {NoNode}

SlotsAnswer ==
    /\ pc = "probe" /\ kind = "cluster" /\ Served # {}
    /\ Unprobe /\ slots' = owner /\ first' \in Served
    /\ todo' = Served /\ pc' = "connecting"
    /\ UNCHANGED <<clusterState, kind, seed, nodes, stopped, closing, signalled, callVars>>

(* A Sentinel answers; the master it names is connected or Connect fails,   *)
(* without asking the next Sentinel.                                        *)
MasterAnswer ==
    /\ pc = "probe" /\ kind = "sentinel"
    /\ \E m \in Nodes :
         \/ /\ pc' = "idle" /\ nodes' = {m} /\ first' = m
            /\ slots' = [s \in Slots |-> m]
            /\ open' = (open \ {Probe(Seeds[seed])}) \cup {Node(m)}
         \/ pc' = "failed" /\ Unprobe /\ UNCHANGED <<nodes, mapVars>>
    /\ UNCHANGED <<clusterState, kind, seed, todo, stopped, closing, signalled, callVars>>

(* newIORedisClusterTransport: the first row's node, then the others; a     *)
(* failure closes those already connected.                                  *)
ConnectNode ==
    /\ pc = "connecting" /\ todo # {}
    /\ \E a \in (IF first \in todo THEN {first} ELSE todo) :
         \/ /\ nodes' = nodes \cup {a} /\ open' = open \cup {Node(a)} /\ todo' = todo \ {a}
            /\ pc' = (IF todo = {a} THEN "idle" ELSE pc)
            /\ UNCHANGED <<stopped, closing, signalled>>
         \/ /\ pc' = "failed" /\ open' = {c \in open : c \notin {Node(n) : n \in nodes}}
            /\ stopped' = TRUE /\ closing' = "done" /\ signalled' = TRUE
            /\ UNCHANGED <<nodes, todo>>
    /\ UNCHANGED <<clusterState, kind, seed, mapVars, callVars>>

-----------------------------------------------------------------------------
(* Exchange.                                                                *)

(* route.  A cluster-wide command has none; a command without keys goes to  *)
(* the first node; EVAL, FCALL, XREAD, BLPOP and the counted commands must  *)
(* have all their keys in one slot; any other goes where its first key is.  *)
Rules == {"wide", "node", "allKeys", "firstKey"}
Slot(c) == c.keys[1]
OneSlot(c) == \A i \in DOMAIN c.keys : c.keys[i] = Slot(c)
Route(c) ==
    CASE c.rule = "wide" -> NoNode
      [] c.rule = "node" -> first
      [] c.rule = "allKeys" /\ ~OneSlot(c) -> NoNode
      [] OTHER -> slots[Slot(c)]

Answer(r) ==
    /\ result' = r /\ pc' = "idle" /\ stage' = "none"
    /\ UNCHANGED <<cmds, target, redirects>>
Refused(written) == Answer([ok |-> FALSE, may |-> FALSE, written |-> written])
Ambiguous == Answer([ok |-> FALSE, may |-> TRUE, written |-> TRUE])

(* Every command must go to the same node.                                  *)
Submit(batch) ==
    /\ pc = "idle"
    /\ ran' = [i \in DOMAIN batch |-> 0]
    /\ LET routes == {Route(batch[i]) : i \in DOMAIN batch} IN
         IF kind = "cluster" /\ (NoNode \in routes \/ Cardinality(routes) > 1)
         THEN Refused(FALSE)
         ELSE /\ pc' = "node" /\ stage' = "first" /\ redirects' = 0 /\ cmds' = batch
              /\ target' = (IF kind = "cluster" THEN Route(batch[1]) ELSE first)
              /\ result' = NoResult
    /\ UNCHANGED <<clusterState, kind, seed, todo, connVars, mapVars>>

(* nodeForAddress: look up under the lock, dial without it, look again.     *)
NodeForAddress ==
    /\ pc = "node"
    /\ IF stopped THEN Refused(stage # "first")
       ELSE /\ pc' = IF target \in nodes THEN "send" ELSE "dial"
            /\ UNCHANGED <<cmds, stage, target, redirects, result>>
    /\ UNCHANGED <<clusterState, kind, seed, todo, connVars, mapVars, ran>>

Dial ==
    /\ pc = "dial"
    /\ \/ /\ pc' = "register" /\ open' = open \cup {Dialled(target)}
          /\ UNCHANGED <<cmds, stage, target, redirects, result>>
       \/ Refused(stage # "first") /\ UNCHANGED open
    /\ UNCHANGED <<clusterState, kind, seed, todo, nodes, stopped, closing, signalled, mapVars, ran>>

\* Mutant: a connection dialled for a redirect is kept although Close ran.
RegisterUnchecked ==
    /\ pc = "register" /\ pc' = "send" /\ nodes' = nodes \cup {target}
    /\ open' = (open \ {Dialled(target)}) \cup {Node(target)}
    /\ UNCHANGED <<clusterState, kind, seed, todo, stopped, closing, signalled, mapVars,
                   cmds, stage, target, redirects, result, ran>>

Register ==
    /\ pc = "register"
    /\ IF stopped
       THEN Refused(stage # "first") /\ open' = open \ {Dialled(target)} /\ UNCHANGED nodes
       ELSE /\ pc' = "send" /\ nodes' = nodes \cup {target}
            /\ open' = (open \ {Dialled(target)}) \cup {Node(target)}
            /\ UNCHANGED <<cmds, stage, target, redirects, result>>
    /\ UNCHANGED <<clusterState, kind, seed, todo, stopped, closing, signalled, mapVars, ran>>

(* What node n does with command c, external: it runs it; refuses it, one   *)
(* with keys of several slots always, another perhaps half way through (a   *)
(* script); or redirects it with MOVED or ASK.                              *)
Serves(n, c, asking) ==
    \/ kind = "sentinel" \/ c.rule = "node"
    \/ owner[Slot(c)] = n \/ (asking /\ importing[Slot(c)] = n)
CrossSlot(c) == kind = "cluster" /\ c.rule # "node" /\ ~OneSlot(c)
Leaving(n, c) ==
    kind = "cluster" /\ c.rule # "node" /\ owner[Slot(c)] = n /\ importing[Slot(c)] # NoNode
Says(run, how, to) == [run |-> run, how |-> how, to |-> to]
Reply(n, c, asking) ==
    IF CrossSlot(c) THEN {Says(FALSE, "error", n)}
    ELSE IF Serves(n, c, asking)
         THEN {Says(TRUE, "done", n), Says(TRUE, "error", n), Says(FALSE, "error", n)}
              \cup (IF Leaving(n, c) THEN {Says(FALSE, "ask", importing[Slot(c)])} ELSE {})
         ELSE {Says(FALSE, "moved", IF owner[Slot(c)] = NoNode THEN n ELSE owner[Slot(c)])}

Ran(done) == ran' = [i \in DOMAIN ran |-> IF done[i] THEN ran[i] + 1 ELSE ran[i]]
Reached == pc = "send" /\ Node(target) \in open

(* followSingleRedirect: an ASK goes to the address it names; a MOVED       *)
(* first reads the slots from there.  Each round counts.                    *)
Follow(reply) ==
    IF redirects = MaxRedirects THEN Refused(TRUE)
    ELSE /\ pc' = "node" /\ target' = reply.to /\ redirects' = redirects + 1
         /\ stage' = IF reply.how = "ask" THEN "ask" ELSE "refresh"
         /\ UNCHANGED <<cmds, result>>

Succeeded == Answer([ok |-> TRUE, may |-> TRUE, written |-> TRUE])

(* One command: its reply, an error perhaps, or the redirect is followed.   *)
SendOne ==
    /\ Reached /\ Len(cmds) = 1 /\ stage \in {"first", "ask", "again"}
    /\ \E reply \in Reply(target, cmds[1], stage = "ask") :
         /\ Ran(<<reply.run>>)
         /\ CASE reply.how = "done" -> Succeeded
              [] reply.how = "error" -> Ambiguous
              [] OTHER -> Follow(reply)
    /\ UNCHANGED <<clusterState, kind, seed, todo, connVars, mapVars>>

(* ASKING was rejected: the command behind it may have run.                 *)
AskingRejected ==
    /\ Reached /\ stage = "ask"
    /\ \E reply \in Reply(target, cmds[1], FALSE) : Ran(<<reply.run>>)
    /\ Ambiguous
    /\ UNCHANGED <<clusterState, kind, seed, todo, connVars, mapVars>>

(* A pipeline: every reply is authoritative, redirects are not replayed.    *)
SendPipeline ==
    /\ Reached /\ Len(cmds) > 1
    /\ \E replies \in [DOMAIN cmds -> UNION {Reply(target, cmds[i], FALSE) : i \in DOMAIN cmds}] :
         /\ \A i \in DOMAIN cmds : replies[i] \in Reply(target, cmds[i], FALSE)
         /\ Ran([i \in DOMAIN cmds |-> replies[i].run])
         /\ IF \A i \in DOMAIN cmds : replies[i].how = "done" THEN Succeeded ELSE Ambiguous
    /\ UNCHANGED <<clusterState, kind, seed, todo, connVars, mapVars>>

(* refreshSlots, then route again.                                          *)
RefreshSlots ==
    /\ Reached /\ stage = "refresh"
    /\ \/ /\ Served # {} /\ slots' = owner /\ first' \in Served
          /\ LET to == IF cmds[1].rule = "node" THEN first' ELSE slots'[Slot(cmds[1])]
             IN IF to = NoNode THEN Refused(TRUE)
                ELSE /\ pc' = "node" /\ stage' = "again" /\ target' = to
                     /\ UNCHANGED <<cmds, redirects, result>>
       \/ Refused(TRUE) /\ UNCHANGED mapVars
    /\ UNCHANGED <<clusterState, kind, seed, todo, connVars, ran>>

(* The connection is dead already, or breaks before or after the node ran   *)
(* what it was sent.                                                        *)
SendFails ==
    /\ pc = "send" /\ stage # "none"
    /\ \/ /\ Node(target) \notin open /\ Refused(stage # "first")
          /\ UNCHANGED <<open, ran, signalled>>
       \/ /\ Node(target) \in open /\ open' = open \ {Node(target)} /\ signalled' = TRUE
          /\ IF stage = "refresh" THEN Refused(TRUE) /\ UNCHANGED ran
             ELSE /\ Ambiguous
                  /\ \E replies \in [DOMAIN cmds -> BOOLEAN] :
                       /\ \A i \in DOMAIN cmds : replies[i] =>
                            \E r \in Reply(target, cmds[i], stage = "ask") : r.run
                       /\ Ran(replies)
    /\ UNCHANGED <<clusterState, kind, seed, todo, nodes, stopped, closing, mapVars>>

(* A registered connection ends by itself; watch reports it.                *)
NodeDies(a) ==
    /\ Node(a) \in open /\ pc # "connecting" /\ ~signalled
    /\ open' = open \ {Node(a)} /\ signalled' = TRUE
    /\ UNCHANGED <<clusterState, kind, pc, seed, todo, nodes, stopped, closing, mapVars, callVars>>

-----------------------------------------------------------------------------
(* Close, once; quit stops the transport first, then asks every node.       *)
BeginClose ==
    /\ closing = "no" /\ pc \notin {"seed", "probe", "connecting", "failed"}
    /\ closing' = "begun" /\ stopped' = TRUE /\ signalled' = TRUE
    /\ UNCHANGED <<clusterState, kind, pc, seed, todo, nodes, open, mapVars, callVars>>

FinishClose ==
    /\ closing = "begun" /\ closing' = "done"
    /\ open' = {c \in open : c \notin {Node(n) : n \in nodes}}
    /\ UNCHANGED <<clusterState, kind, pc, seed, todo, nodes, stopped, signalled, mapVars, callVars>>

Quit ==
    /\ pc = "idle" /\ kind = "cluster" /\ ran' = <<>> /\ cmds' = <<>>
    /\ IF stopped THEN result' = NoResult /\ UNCHANGED <<pc, stopped, stage>>
       ELSE /\ stopped' = TRUE /\ pc' = "quit" /\ stage' = "none" /\ result' = NoResult
    /\ UNCHANGED <<clusterState, kind, seed, todo, nodes, open, closing, signalled, mapVars,
                   target, redirects>>

(* Each node answers OK or fails; the answer is OK only if all did and      *)
(* nothing cancelled it, which closes concurrently.                         *)
EndQuit ==
    /\ pc = "quit" /\ closing \in {"no", "done"}
    /\ closing' = "done" /\ signalled' = TRUE
    /\ open' = {c \in open : c \notin {Node(n) : n \in nodes}}
    /\ \/ (\A n \in nodes : Node(n) \in open) /\ Answer([ok |-> TRUE, may |-> TRUE, written |-> TRUE])
       \/ Refused(TRUE)
    /\ UNCHANGED <<clusterState, kind, seed, todo, nodes, stopped, mapVars, ran>>

Next ==
    \/ \E s \in Slots : kind = "cluster" /\ Move(s)
    \/ ProbeSeed \/ SeedsExhausted \/ BadAnswer \/ SlotsAnswer \/ MasterAnswer \/ ConnectNode
    \/ \E batch \in Commands : Submit(batch)
    \/ NodeForAddress \/ Dial \/ Register
    \/ SendOne \/ AskingRejected \/ SendPipeline \/ RefreshSlots \/ SendFails
    \/ \E a \in Nodes : NodeDies(a)
    \/ BeginClose \/ FinishClose \/ Quit \/ EndQuit

Spec == Init /\ [][Next]_topologyVars

-----------------------------------------------------------------------------
(* Properties.                                                              *)

(* Once Close returned, or Connect failed, no connection is left open, even *)
(* one that was being dialled for a redirect while Close took its snapshot; *)
(* between exchanges only registered connections are open.                  *)
NoConnectionLeft ==
    /\ (closing = "done" /\ pc # "register") => open = {}
    /\ pc = "failed" => open = {}
    /\ pc = "idle" => open \subseteq {Node(n) : n \in nodes}

(* No command runs twice through redirects; an exchange reported as not     *)
(* executed ran nothing, and a successful one ran every command.            *)
OutcomeIsTruthful ==
    /\ \A i \in DOMAIN ran : ran[i] <= 1
    /\ (pc = "idle" /\ ~result.may) => \A i \in DOMAIN ran : ran[i] = 0
    /\ (pc = "idle" /\ result.ok) => \A i \in DOMAIN ran : ran[i] = 1
=============================================================================
