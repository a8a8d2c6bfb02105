----------------------------- MODULE OwnerChain -----------------------------
(* A process-wide default with nested temporary owners, the scheme shared by *)
(* metrics.SetDefault, profiling.SetDefault, otelmetrics.InstallGlobal and   *)
(* logging.SetAsDefaultSlog: installing links a node to the present head and *)
(* remembers what it replaced; the restore function ends that node and, only *)
(* if it is the head, walks back over nodes that ended before.  Installs and *)
(* restores happen under one mutex; the walk is a loop inside it, one step   *)
(* per node here.  The value an owner installs is its own number.            *)
EXTENDS Integers

CONSTANTS
    MaxOwners,     \* bound: installs
    Replaceable    \* whether other libraries can replace the default (slog)

ASSUME OwnerChainConstants == MaxOwners \in Nat /\ Replaceable \in BOOLEAN

VARIABLES
    installs,      \* installs so far: node k is the k-th
    previous,      \* node k: the head it was linked to, or 0
    baseline,      \* node k: the default it replaced
    active,        \* nodes whose restore function has not run
    head,          \* the current owner, or 0
    default,       \* the process default
    walk           \* the restore holding the mutex, or NoWalk

chainVars == <<installs, previous, baseline, active, head, default, walk>>

Nodes == 1..MaxOwners
Initially == 0     \* the default before any install
External == -1     \* a default installed behind the package's back
NoWalk == [of |-> 0, at |-> 0, fallback |-> Initially]

Init ==
    /\ installs = 0 /\ active = {} /\ head = 0
    /\ previous = [k \in Nodes |-> 0]
    /\ baseline = [k \in Nodes |-> Initially]
    /\ default = Initially /\ walk = NoWalk

Unlocked == walk = NoWalk

(* An owner that was replaced from outside is not linked to: a new chain      *)
(* starts at the default found.                                              *)
Install ==
    LET k == installs + 1 IN
    /\ Unlocked /\ installs < MaxOwners
    /\ installs' = k
    /\ previous' = [previous EXCEPT ![k] = IF default = head THEN head ELSE 0]
    /\ baseline' = [baseline EXCEPT ![k] = default]
    /\ active' = active \cup {k}
    /\ head' = k /\ default' = k
    /\ UNCHANGED walk

(* The restore function of node k, guarded by a sync.Once.                    *)
Restore(k) ==
    /\ Unlocked /\ k \in active
    /\ active' = active \ {k}
    /\ walk' = IF head = k
               THEN [of |-> k, at |-> previous[k], fallback |-> baseline[k]]
               ELSE NoWalk
    /\ UNCHANGED <<installs, previous, baseline, head, default>>

(* for previous != nil && !previous.active                                    *)
WalkOn ==
    /\ ~Unlocked /\ walk.at # 0 /\ walk.at \notin active
    /\ walk' = [walk EXCEPT !.at = previous[walk.at], !.fallback = baseline[walk.at]]
    /\ UNCHANGED <<installs, previous, baseline, active, head, default>>

\* Mutant: the predecessor is restored without asking whether it ended before.
RestorePredecessor ==
    /\ ~Unlocked
    /\ head' = walk.at
    /\ default' = IF default # walk.of THEN default
                  ELSE IF walk.at # 0 THEN walk.at ELSE walk.fallback
    /\ walk' = NoWalk
    /\ UNCHANGED <<installs, previous, baseline, active>>

(* The head becomes the node found; the default follows unless it was         *)
(* replaced meanwhile.                                                        *)
FinishRestore ==
    /\ ~Unlocked /\ (walk.at = 0 \/ walk.at \in active)
    /\ head' = walk.at
    /\ default' = IF default # walk.of THEN default
                  ELSE IF walk.at # 0 THEN walk.at ELSE walk.fallback
    /\ walk' = NoWalk
    /\ UNCHANGED <<installs, previous, baseline, active>>

(* Another component calls slog.SetDefault: it does not take the mutex.       *)
Replace ==
    /\ Replaceable /\ default # External
    /\ default' = External
    /\ UNCHANGED <<installs, previous, baseline, active, head, walk>>

Next == Install \/ (\E k \in Nodes : Restore(k)) \/ WalkOn \/ FinishRestore \/ Replace

Spec == Init /\ [][Next]_chainVars

-----------------------------------------------------------------------------
(* SetDefault's restore functions: whatever the order they are called in, the *)
(* default is never the value of an owner whose restore function has run.     *)
NoReleasedDefault == Unlocked /\ default \in Nodes => default \in active

(* Without replacement from outside, the default is the newest owner not yet  *)
(* restored, or what was there before the first.                              *)
NewestOwnerWins ==
    Unlocked /\ ~Replaceable =>
        /\ default \in active \cup {Initially}
        /\ \A k \in active : k <= default
=============================================================================
