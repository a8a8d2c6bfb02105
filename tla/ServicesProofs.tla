--------------------------- MODULE ServicesProofs ---------------------------
(* What holds of the parts of Services for every value of their constants.   *)
(* A behaviour is one part's, so every proof is an induction over the steps  *)
(* of one part: Chosen below says that nothing else changes its state.       *)
EXTENDS Services, FiniteSetTheorems, TLAPS

(* ServicesInit is the chosen part's initial state, and a step leaves the     *)
(* choice alone and is a step of the chosen part, or none.                    *)
LEMMA ChosenInit == ASSUME ServicesInit PROVE
    /\ Init
    /\ part = "health" => Health!Init
    /\ part = "registry" => Registry!Init
    /\ part = "fit" => Fit!Init
    /\ part = "databases" => Databases!Init
    /\ part = "grpc" => GRPC!Init
    /\ part = "cache" => Cache!Init
    /\ part = "cluster" => Cluster!Init
    /\ part = "context" => Context!Init
    /\ part = "router" => Router!Init
    /\ part = "protos" => Protos!Init
BY DEF ServicesInit, ChainInit, HealthInit, RegistryInit, FitInit, DatabasesInit, GRPCInit, CacheInit, ClusterInit, ContextInit, RouterInit, ProtosInit

LEMMA ChosenStep == ASSUME [ServicesNext]_servicesVars PROVE
    /\ part' = part
    /\ [Next]_chainVars
    /\ part = "health" => [Health!Next]_healthState
    /\ part = "registry" => [Registry!Next]_registryState
    /\ part = "fit" => [Fit!Next]_fitState
    /\ part = "databases" => [Databases!Next]_databasesState
    /\ part = "grpc" => [GRPC!Next]_grpcState
    /\ part = "cache" => [Cache!Next]_cacheState
    /\ part = "cluster" => [Cluster!Next]_clusterState
    /\ part = "context" => [Context!Next]_contextState
    /\ part = "router" => [Router!Next]_routerState
    /\ part = "protos" => [Protos!Next]_protosState
BY DEF ServicesNext, ChainStep, servicesVars, HealthStep, RegistryStep, FitStep, DatabasesStep, GRPCStep, CacheStep, ClusterStep, ContextStep, RouterStep, ProtosStep

(* The chain of owners runs as OwnerChain says it does.                       *)
LEMMA ChainRuns == ServicesSpec => Spec
BY ChosenInit, ChosenStep, PTL DEF ServicesSpec, Spec
-----------------------------------------------------------------------------
(* The chain: for any number of owners and any order of restores.            *)

Values == Nodes \cup {Initially, External}
Places == Nodes \cup {0}

(* The types of the chain.                                                   *)
ChainTypeOK ==
    /\ installs \in 0..MaxOwners
    /\ previous \in [Nodes -> Places] /\ baseline \in [Nodes -> Values]
    /\ active \in SUBSET (1..installs) /\ head \in 0..installs
    /\ default \in Values
    /\ walk \in [of : Places, at : Places, fallback : Values]

(* A default that is some owner's value is the head's, and a node replaced   *)
(* either its predecessor's value or one that is no owner's.                 *)
DefaultIsHeads == default \in Nodes => default = head
BaselineIsPredecessors == \A k \in Nodes : baseline[k] \in Nodes => baseline[k] = previous[k]

(* Outside a restore the head is active; inside, it is the node restored,    *)
(* and the fallback agrees with the node the walk has reached.               *)
HeadIsHeld == IF Unlocked THEN head # 0 => head \in active ELSE head = walk.of
WalkIsConsistent ==
    ~Unlocked => walk.of # 0 /\ (walk.fallback \in Nodes => walk.fallback = walk.at)

ChainInv ==
    /\ ChainTypeOK /\ DefaultIsHeads /\ BaselineIsPredecessors
    /\ HeadIsHeld /\ WalkIsConsistent

-----------------------------------------------------------------------------
(* The chain is empty at first (processDefault's zero value).                *)
LEMMA ChainInvInit == Init => ChainInv
BY OwnerChainConstants
   DEF Init, ChainInv, ChainTypeOK, DefaultIsHeads, BaselineIsPredecessors, HeadIsHeld,
       WalkIsConsistent, Unlocked, NoWalk, Nodes, Values, Places, Initially, External

(* SetDefault links the new node to the head it replaces.                    *)
LEMMA InstallKeeps == ASSUME ChainInv, Install PROVE ChainInv'
<1> USE OwnerChainConstants DEF ChainInv, Nodes, Values, Places, Initially, External
<1> DEFINE k == installs + 1
<1>1. k \in Nodes /\ installs \in Nat /\ installs' = k /\ head' = k /\ default' = k
  BY DEF Install, ChainTypeOK
<1>2. ChainTypeOK'
  BY <1>1 DEF Install, ChainTypeOK
<1>3. DefaultIsHeads'
  BY <1>1 DEF DefaultIsHeads
<1>4. BaselineIsPredecessors'
  <2> SUFFICES ASSUME NEW j \in Nodes, baseline'[j] \in Nodes
               PROVE  baseline'[j] = previous'[j]
    BY DEF BaselineIsPredecessors
  <2>1. CASE j = k
    BY <1>1, <2>1 DEF Install, ChainTypeOK, DefaultIsHeads
  <2>2. CASE j # k
    BY <1>1, <2>2 DEF Install, ChainTypeOK, BaselineIsPredecessors
  <2> QED BY <2>1, <2>2
<1>5. HeadIsHeld' /\ WalkIsConsistent'
  BY <1>1 DEF Install, HeadIsHeld, WalkIsConsistent, Unlocked
<1> QED BY <1>2, <1>3, <1>4, <1>5

(* A restore function ends its node; only the head's starts a walk.          *)
LEMMA RestoreKeeps == ASSUME ChainInv, NEW k \in Nodes, Restore(k) PROVE ChainInv'
<1> USE OwnerChainConstants DEF ChainInv, Nodes, Values, Places, Initially, External
<1>1. ChainTypeOK'
  BY DEF Restore, ChainTypeOK, NoWalk
<1>2. DefaultIsHeads' /\ BaselineIsPredecessors'
  BY DEF Restore, DefaultIsHeads, BaselineIsPredecessors
<1>3. CASE head = k
  <2>1. walk' = [of |-> k, at |-> previous[k], fallback |-> baseline[k]]
    BY <1>3 DEF Restore
  <2>2. ~Unlocked' /\ walk'.of = k /\ walk'.at = previous[k] /\ walk'.fallback = baseline[k]
    BY <2>1 DEF Unlocked, NoWalk
  <2>3. HeadIsHeld' /\ WalkIsConsistent'
    BY <1>3, <2>2 DEF Restore, HeadIsHeld, WalkIsConsistent, BaselineIsPredecessors
  <2> QED BY <1>1, <1>2, <2>3
<1>4. CASE head # k
  <2>1. walk' = NoWalk /\ head' = head /\ active' = active \ {k} /\ Unlocked
    BY <1>4 DEF Restore
  <2>2. HeadIsHeld' /\ WalkIsConsistent'
    BY <1>4, <2>1 DEF HeadIsHeld, WalkIsConsistent, Unlocked
  <2> QED BY <1>1, <1>2, <2>2
<1> QED BY <1>3, <1>4

(* The walk passes a node that ended before.                                 *)
LEMMA WalkOnKeeps == ASSUME ChainInv, WalkOn PROVE ChainInv'
<1> USE OwnerChainConstants DEF ChainInv, Nodes, Values, Places, Initially, External
<1> DEFINE n == walk.at
<1>1. n \in Nodes /\ walk.of \in Places /\ walk.of # 0 /\ head = walk.of
  BY DEF WalkOn, ChainTypeOK, WalkIsConsistent, HeadIsHeld
<1>2. walk' = [of |-> walk.of, at |-> previous[n], fallback |-> baseline[n]]
  BY DEF WalkOn, ChainTypeOK
<1>3. ~Unlocked' /\ walk'.of = walk.of /\ walk'.at = previous[n] /\ walk'.fallback = baseline[n]
  BY <1>1, <1>2 DEF Unlocked, NoWalk
<1>4. ChainTypeOK'
  BY <1>1, <1>2 DEF WalkOn, ChainTypeOK
<1>5. DefaultIsHeads' /\ BaselineIsPredecessors'
  BY DEF WalkOn, DefaultIsHeads, BaselineIsPredecessors
<1>6. HeadIsHeld' /\ WalkIsConsistent'
  BY <1>1, <1>3 DEF WalkOn, HeadIsHeld, WalkIsConsistent, BaselineIsPredecessors
<1> QED BY <1>4, <1>5, <1>6

(* The walk has found an active node, or the end of the chain.               *)
LEMMA FinishRestoreKeeps == ASSUME ChainInv, FinishRestore PROVE ChainInv'
<1> USE OwnerChainConstants DEF ChainInv, Nodes, Values, Places, Initially, External
<1>1. /\ ~Unlocked /\ head = walk.of /\ head' = walk.at /\ walk.at \in Places
      /\ walk.fallback \in Values /\ (walk.fallback \in Nodes => walk.fallback = walk.at)
  BY DEF FinishRestore, ChainTypeOK, HeadIsHeld, WalkIsConsistent
<1>2. walk.at # 0 => walk.at \in active
  BY DEF FinishRestore
<1>3. default' \in Values /\ DefaultIsHeads'
  <2>1. CASE default # walk.of
    BY <1>1, <2>1 DEF FinishRestore, ChainTypeOK, DefaultIsHeads
  <2>2. CASE default = walk.of
    BY <1>1, <2>2 DEF FinishRestore, DefaultIsHeads
  <2> QED BY <2>1, <2>2
<1>4. ChainTypeOK'
  BY <1>1, <1>2, <1>3 DEF FinishRestore, ChainTypeOK, NoWalk
<1>5. BaselineIsPredecessors'
  BY DEF FinishRestore, BaselineIsPredecessors
<1>6. HeadIsHeld' /\ WalkIsConsistent'
  BY <1>1, <1>2 DEF FinishRestore, HeadIsHeld, WalkIsConsistent, Unlocked
<1> QED BY <1>3, <1>4, <1>5, <1>6

(* The inductive step, one case per operation of the chain.                  *)
LEMMA ChainInvNext == ChainInv /\ [Next]_chainVars => ChainInv'
<1> SUFFICES ASSUME ChainInv, [Next]_chainVars PROVE ChainInv'
  OBVIOUS
<1>1. CASE Install
  BY <1>1, InstallKeeps
<1>2. ASSUME NEW k \in Nodes, Restore(k) PROVE ChainInv'
  BY <1>2, RestoreKeeps
<1>3. CASE WalkOn
  BY <1>3, WalkOnKeeps
<1>4. CASE FinishRestore
  BY <1>4, FinishRestoreKeeps
<1>5. CASE Replace
  BY <1>5 DEF Replace, ChainInv, ChainTypeOK, DefaultIsHeads, BaselineIsPredecessors,
              HeadIsHeld, WalkIsConsistent, Unlocked, Values, Nodes, External
<1>6. CASE UNCHANGED chainVars
  BY <1>6 DEF chainVars, ChainInv, ChainTypeOK, DefaultIsHeads, BaselineIsPredecessors,
              HeadIsHeld, WalkIsConsistent, Unlocked
<1> QED BY <1>1, <1>2, <1>3, <1>4, <1>5, <1>6 DEF Next

(* Whatever the order of the restore functions of metrics, profiling, otel   *)
(* and slog defaults, no default is the value of a released owner.           *)
THEOREM ReleasedNeverDefault == ServicesSpec => []NoReleasedDefault
<1>1. ChainInv => NoReleasedDefault
  BY DEF ChainInv, DefaultIsHeads, HeadIsHeld, NoReleasedDefault, Nodes
<1> QED BY <1>1, ChainInvInit, ChainInvNext, ChainRuns, PTL DEF Spec

-----------------------------------------------------------------------------
(* Without replacement from outside the chain never restarts: a node's       *)
(* baseline is its predecessor, and every owner older than a node and still  *)
(* active is not newer than that predecessor.                                *)
Linked ==
    /\ default = head
    /\ \A k \in Nodes : baseline[k] = previous[k]
    /\ \A k \in 1..installs : previous[k] <= installs
    /\ \A k \in 1..installs, j \in active : j < k => j <= previous[k]

(* Every active owner is behind the head, or behind the node a walk reached. *)
Newest ==
    IF Unlocked THEN \A j \in active : j <= head
    ELSE walk.fallback = walk.at /\ walk.at <= installs /\ (\A j \in active : j <= walk.at)

OrderInv == ChainInv /\ (~Replaceable => Linked /\ Newest)

(* The order of the chain is kept by every operation but Replace.            *)
LEMMA OrderStep ==
    ASSUME ChainInv, Linked, Newest, [Next]_chainVars, ~Replaceable
    PROVE  Linked' /\ Newest'
<1> USE OwnerChainConstants DEF Nodes, Places
<1>0. ChainTypeOK
  BY DEF ChainInv
<1>1. CASE Install
  <2> DEFINE n == installs + 1
  <2>1. /\ n \in Nodes /\ installs' = n /\ head' = n /\ default' = n
        /\ active' = active \cup {n} /\ Unlocked /\ Unlocked' /\ default = head
        /\ \A j \in active : j \in Nat /\ j <= head /\ j <= installs
        /\ head \in Nat /\ head <= installs
    BY <1>0, <1>1 DEF Install, ChainTypeOK, Linked, Newest, Unlocked
  <2>2. /\ previous' = [previous EXCEPT ![n] = head]
        /\ baseline' = [baseline EXCEPT ![n] = head]
    BY <1>1, <2>1 DEF Install
  <2>3. previous \in [Nodes -> Places] /\ baseline \in [Nodes -> Values] /\ installs \in Nat
    BY <1>0 DEF ChainTypeOK
  <2>4. Linked'
    BY <2>1, <2>2, <2>3 DEF Linked
  <2>5. Newest'
    BY <2>1, <2>3 DEF Newest
  <2> QED BY <2>4, <2>5
<1>2. ASSUME NEW k \in Nodes, Restore(k) PROVE Linked' /\ Newest'
  <2>1. /\ Unlocked /\ active' = active \ {k} /\ k \in 1..installs
        /\ UNCHANGED <<installs, previous, baseline, head, default>>
    BY <1>0, <1>2 DEF Restore, ChainTypeOK
  <2>2. Linked'
    BY <2>1 DEF Linked
  <2>3. CASE head = k
    <3>1. walk' = [of |-> k, at |-> previous[k], fallback |-> baseline[k]]
      BY <1>2, <2>3 DEF Restore
    <3>2. ~Unlocked' /\ walk'.at = previous[k] /\ walk'.fallback = baseline[k]
      BY <3>1 DEF Unlocked, NoWalk
    <3>3. \A j \in active' : j < k
      BY <1>0, <2>1, <2>3 DEF Newest, ChainTypeOK
    <3>4. Newest'
      BY <2>1, <3>2, <3>3 DEF Newest, Linked
    <3> QED BY <2>2, <3>4
  <2>4. CASE head # k
    BY <1>2, <2>1, <2>2, <2>4 DEF Restore, Newest, Unlocked
  <2> QED BY <2>3, <2>4
<1>3. CASE WalkOn
  <2> DEFINE n == walk.at
  <2>1. /\ ~Unlocked /\ n \notin active /\ n # 0 /\ walk.of # 0
        /\ UNCHANGED <<installs, previous, baseline, active, head, default>>
    BY <1>3 DEF WalkOn, ChainInv, WalkIsConsistent
  <2>2. n \in 1..installs
    BY <1>0, <2>1 DEF Newest, ChainTypeOK
  <2>3. walk' = [of |-> walk.of, at |-> previous[n], fallback |-> baseline[n]]
    BY <1>0, <1>3 DEF WalkOn, ChainTypeOK
  <2>4. ~Unlocked' /\ walk'.at = previous[n] /\ walk'.fallback = baseline[n]
    BY <2>1, <2>3 DEF Unlocked, NoWalk
  <2>5. \A j \in active : j < n
    BY <1>0, <2>1, <2>2 DEF Newest, ChainTypeOK
  <2>6. Newest'
    BY <1>0, <2>1, <2>2, <2>4, <2>5 DEF Newest, Linked, ChainTypeOK
  <2> QED BY <2>1, <2>6 DEF Linked
<1>4. CASE FinishRestore
  <2>1. /\ ~Unlocked /\ Unlocked' /\ head' = walk.at /\ head = walk.of
        /\ UNCHANGED <<installs, previous, baseline, active>>
    BY <1>4 DEF FinishRestore, Unlocked, ChainInv, HeadIsHeld
  <2>2. default' = walk.at
    BY <1>4, <2>1 DEF FinishRestore, Linked, Newest
  <2> QED BY <2>1, <2>2 DEF Linked, Newest
<1>5. CASE Replace
  BY <1>5 DEF Replace
<1>6. CASE UNCHANGED chainVars
  BY <1>6 DEF chainVars, Linked, Newest, Unlocked
<1> QED BY <1>1, <1>2, <1>3, <1>4, <1>5, <1>6 DEF Next

(* Where no other library replaces the default (metrics, profiling), it is   *)
(* always the newest owner not yet restored: a nested install hides the      *)
(* outer one and its restore function brings back exactly the right one.     *)
THEOREM NewestOwnerIsDefault == ServicesSpec => []NewestOwnerWins
<1>1. Init => OrderInv
  <2>1. Init => Linked /\ Newest
    BY OwnerChainConstants DEF Init, Linked, Newest, Unlocked, Nodes, Initially
  <2> QED BY <2>1, ChainInvInit DEF OrderInv
<1>2. OrderInv /\ [Next]_chainVars => OrderInv'
  BY ChainInvNext, OrderStep DEF OrderInv
<1>3. OrderInv => NewestOwnerWins
  <2> SUFFICES ASSUME OrderInv, Unlocked, ~Replaceable
               PROVE  default \in active \cup {Initially} /\ \A k \in active : k <= default
    BY DEF NewestOwnerWins
  <2>1. default = head /\ (\A j \in active : j <= head) /\ (head # 0 => head \in active)
    BY DEF OrderInv, Linked, Newest, ChainInv, HeadIsHeld
  <2> QED BY <2>1 DEF Initially
<1> QED BY <1>1, <1>2, <1>3, ChainRuns, PTL DEF Spec
-----------------------------------------------------------------------------
(* feature.EvaluationContext.  A builder that has read the attributes either *)
(* read the ones the context has now or is behind in revision, so what it    *)
(* publishes under an equal revision is current.                             *)
BuilderRecords ==
    [pc : {"idle", "asking", "answered"}, read : Attributes \cup {DefaultAttributes},
     revision : Nat]

ContextTypeOK ==
    /\ attributes \in Attributes \cup {DefaultAttributes} /\ revision \in Nat
    /\ built \in BOOLEAN /\ building \in [Builders -> BuilderRecords]

ReadsAreOfARevision ==
    \A b \in Builders : building[b].pc # "idle" =>
        /\ building[b].revision <= revision
        /\ building[b].revision = revision => building[b].read = attributes

SnapshotIsCurrent == built /\ contextKind # "client" => snapshot = attributes

ContextInv == ContextTypeOK /\ ReadsAreOfARevision /\ SnapshotIsCurrent

LEMMA ContextInvInit == ASSUME Context!Init PROVE ContextInv
<1>1. Context!Idle \in BuilderRecords /\ Context!Idle.pc = "idle"
  BY DEF Context!Idle, BuilderRecords
<1>2. attributes = DefaultAttributes /\ revision = 0 /\ ~built
  BY DEF Context!Init
<1>3. built \in BOOLEAN
  BY DEF Context!Init
<1>4. building = [b \in Builders |-> Context!Idle]
  BY DEF Context!Init
<1>5. ContextTypeOK
  BY <1>1, <1>2, <1>3, <1>4 DEF ContextTypeOK
<1>6. ReadsAreOfARevision
  BY <1>1, <1>4 DEF ReadsAreOfARevision
<1> QED BY <1>2, <1>5, <1>6 DEF ContextInv, SnapshotIsCurrent

(* AttributeValues and Clear: a new revision, and no snapshot.               *)
LEMMA ChangeKeeps ==
    ASSUME ContextInv, NEW to \in Attributes \cup {DefaultAttributes}, Context!Change(to)
    PROVE  ContextInv'
<1>0. built' \in BOOLEAN /\ ~built'
  BY DEF Context!Change
<1>1. ContextTypeOK' /\ building' = building /\ revision' = revision + 1
  BY <1>0 DEF Context!Change, ContextInv, ContextTypeOK
<1>2. ReadsAreOfARevision'
  BY <1>1 DEF ContextInv, ContextTypeOK, BuilderRecords, ReadsAreOfARevision
<1> QED BY <1>0, <1>1, <1>2 DEF ContextInv, SnapshotIsCurrent

(* Build's first half reads attributes and revision together.                *)
LEMMA BeginBuildKeeps ==
    ASSUME ContextInv, NEW b \in Builders, Context!BeginBuild(b) PROVE ContextInv'
<1> DEFINE r == [pc |-> "asking", read |-> attributes, revision |-> revision]
<1>1. /\ building' = [building EXCEPT ![b] = r]
      /\ UNCHANGED <<contextKind, attributes, revision, built, snapshot>>
  BY DEF Context!BeginBuild
<1>2. r \in BuilderRecords /\ r.revision = revision /\ r.read = attributes
  BY DEF ContextInv, ContextTypeOK, BuilderRecords
<1> HIDE DEF r
<1>3. ContextTypeOK'
  BY <1>1, <1>2 DEF ContextInv, ContextTypeOK
<1>4. \A c \in Builders : building'[c] = IF c = b THEN r ELSE building[c]
  BY <1>1 DEF ContextInv, ContextTypeOK
<1>5. ReadsAreOfARevision'
  BY <1>1, <1>2, <1>4 DEF ContextInv, ContextTypeOK, ReadsAreOfARevision
<1> QED BY <1>1, <1>3, <1>5 DEF ContextInv, SnapshotIsCurrent

(* The edge's answer changes no revision, and an error only ends the Build.  *)
LEMMA AnsweredKeeps ==
    ASSUME ContextInv, NEW b \in Builders, Context!Answered(b) PROVE ContextInv'
<1> DEFINE answered == [building[b] EXCEPT !.pc = "answered"]
<1>1. UNCHANGED <<contextKind, attributes, revision, built, snapshot>> /\ building[b].pc = "asking"
  BY DEF Context!Answered
<1>2. /\ answered \in BuilderRecords /\ answered.revision = building[b].revision
      /\ answered.read = building[b].read
  BY DEF ContextInv, ContextTypeOK, BuilderRecords
<1>3. \E r \in BuilderRecords :
         /\ building' = [building EXCEPT ![b] = r]
         /\ r.pc = "idle" \/ (r.revision = building[b].revision /\ r.read = building[b].read)
  <2>1. CASE building' = [building EXCEPT ![b].pc = "answered"]
    <3>1. building' = [building EXCEPT ![b] = answered]
      BY <2>1
    <3> QED BY <1>2, <3>1
  <2>2. CASE building' = [building EXCEPT ![b] = Context!Idle]
    <3>1. Context!Idle \in BuilderRecords /\ Context!Idle.pc = "idle"
      BY DEF Context!Idle, BuilderRecords
    <3> QED BY <2>2, <3>1
  <2> QED BY <2>1, <2>2 DEF Context!Answered
<1>4. PICK r \in BuilderRecords :
         /\ building' = [building EXCEPT ![b] = r]
         /\ r.pc = "idle" \/ (r.revision = building[b].revision /\ r.read = building[b].read)
  BY <1>3
<1>5. ContextTypeOK'
  BY <1>1, <1>4 DEF ContextInv, ContextTypeOK
<1>6. \A c \in Builders : building'[c] = IF c = b THEN r ELSE building[c]
  BY <1>4 DEF ContextInv, ContextTypeOK
<1>7. ReadsAreOfARevision'
  BY <1>1, <1>4, <1>6 DEF ContextInv, ContextTypeOK, ReadsAreOfARevision
<1> QED BY <1>1, <1>5, <1>7 DEF ContextInv, SnapshotIsCurrent

(* Build's second half publishes only under the revision it read.            *)
LEMMA PublishKeeps ==
    ASSUME ContextInv, NEW b \in Builders, Context!Publish(b) PROVE ContextInv'
<1>1. /\ building' = [building EXCEPT ![b] = Context!Idle] /\ building[b].pc = "answered"
      /\ UNCHANGED <<contextKind, attributes, revision>>
  BY DEF Context!Publish
<1>2. Context!Idle \in BuilderRecords /\ Context!Idle.pc = "idle"
  BY DEF Context!Idle, BuilderRecords
<1>3. \A c \in Builders : building'[c] = IF c = b THEN Context!Idle ELSE building[c]
  BY <1>1 DEF ContextInv, ContextTypeOK
<1>4. built' \in BOOLEAN
  BY DEF Context!Publish, ContextInv, ContextTypeOK
<1>5. ContextTypeOK'
  BY <1>1, <1>2, <1>4 DEF ContextInv, ContextTypeOK
<1>6. ReadsAreOfARevision'
  BY <1>1, <1>2, <1>3 DEF ContextInv, ReadsAreOfARevision
<1>7. SnapshotIsCurrent'
  <2>1. CASE building[b].revision = revision
    <3>1. building[b].read = attributes
      BY <1>1, <2>1 DEF ContextInv, ReadsAreOfARevision
    <3>2. contextKind # "client" => snapshot' = building[b].read
      BY <2>1 DEF Context!Publish
    <3> QED BY <1>1, <3>1, <3>2 DEF SnapshotIsCurrent
  <2>2. CASE building[b].revision # revision
    BY <1>1, <2>2 DEF Context!Publish, ContextInv, SnapshotIsCurrent
  <2> QED BY <2>1, <2>2
<1> QED BY <1>5, <1>6, <1>7 DEF ContextInv

(* Everything else touches the polling client only.                          *)
LEMMA ContextInvNext == ASSUME ContextInv, [Context!Next]_contextState PROVE ContextInv'
<1> DEFINE Same == UNCHANGED <<contextKind, attributes, revision, built, snapshot, building>>
<1>1. CASE Context!AttributeValues \/ Context!Clear
  BY <1>1, ChangeKeeps DEF Context!AttributeValues, Context!Clear
<1>2. ASSUME NEW b \in Builders, Context!BeginBuild(b) \/ Context!Answered(b) \/ Context!Publish(b)
      PROVE  ContextInv'
  BY <1>2, BeginBuildKeeps, AnsweredKeeps, PublishKeeps
<1>3. ASSUME Same PROVE ContextInv'
  BY <1>3 DEF ContextInv, ContextTypeOK, ReadsAreOfARevision, SnapshotIsCurrent
<1>4. CASE Context!RepositoryReady \/ Context!Tick \/ Context!StopPolling
  BY <1>3, <1>4 DEF Context!RepositoryReady, Context!Tick, Context!StopPolling, Context!contextVars
<1>5. ASSUME NEW s, Context!SetKey(s) \/ Context!ReadKey(s) \/ Context!Fetched(s) PROVE ContextInv'
  BY <1>3, <1>5 DEF Context!SetKey, Context!ReadKey, Context!Fetched, Context!contextVars
<1>6. CASE UNCHANGED contextState
  BY <1>3, <1>6 DEF contextState
<1> QED BY <1>1, <1>2, <1>4, <1>5, <1>6 DEF Context!Next

(* What a built context answers was evaluated for the attributes it has now, *)
(* for any number of goroutines that build and change it side by side.       *)
THEOREM BuiltContextsAreCurrent == ServicesSpec => []ContextIsCurrent
<1> DEFINE I == part = "context" => ContextInv
<1>1. ServicesInit => I
  BY ChosenInit, ContextInvInit
<1>2. I /\ [ServicesNext]_servicesVars => I'
  BY ChosenStep, ContextInvNext
<1>3. I => ContextIsCurrent
  BY DEF ContextIsCurrent, Context!BuiltForCurrentAttributes, Context!EvaluatedFor, ContextInv,
         ContextTypeOK, SnapshotIsCurrent
<1> QED BY <1>1, <1>2, <1>3, PTL DEF ServicesSpec
-----------------------------------------------------------------------------
(* otelmetrics' routing provider.  What the SDKs hold of an active callback   *)
(* is the registration it knows of and those an SDK would not withdraw, in the *)
(* middle of a change as well; and what setTarget has moved already, as long   *)
(* as nothing refused, is what it no longer has to do.                         *)
RouterTypeOK ==
    /\ routerTarget \in MeterProviders
    /\ route \in [Router!All -> MeterProviders \cup {Router!None}]
    /\ routerPhase \in {"idle", "instruments", "registrations"}
    /\ registration \in [Callbacks -> {"new", "active", "ending", "off"}]
    /\ DOMAIN routerCurrent = Callbacks
    /\ routerFailed \in BOOLEAN

(* An SDK names the callback in what it hands out for it.                     *)
OwnRegistration ==
    \A c \in Callbacks : registration[c] = "active" => routerCurrent[c][1] = c
RegisteredOnce ==
    \A c \in Callbacks :
        /\ registration[c] = "active" => routerCurrent[c] \in routerLive
        /\ \A r \in routerLive : r[1] = c =>
              r \in routerRefused \/ (registration[c] = "active" /\ r = routerCurrent[c])

InlineAtRoute ==
    \A i \in Inline : route[i] # Router!None =>
        \E r \in routerLive : r[1] = i /\ r[2] = route[i]

ActiveAreListed == \A c \in Callbacks : registration[c] = "active" => c \in listed

(* What setTarget has already moved, as long as nothing refused.             *)
InstrumentsFollow ==
    \A i \in Router!Existing : route[i] = routerTarget
                                 \/ (routerPhase = "instruments" /\ i \in routerTodo)
CallbacksFollow ==
    routerPhase # "instruments" =>
        \A c \in Callbacks : registration[c] = "active" =>
            routerCurrent[c][2] = routerTarget
              \/ (routerPhase = "registrations" /\ c \in routerTodo)

RouterInv ==
    /\ RouterTypeOK /\ OwnRegistration /\ RegisteredOnce /\ InlineAtRoute /\ ActiveAreListed
    /\ ~routerFailed => InstrumentsFollow /\ CallbacksFollow

LEMMA RouterInvInit == ASSUME Router!Init PROVE RouterInv
<1>1. /\ routerTarget \in MeterProviders /\ route = [i \in Router!All |-> Router!None]
      /\ routerPhase = "idle" /\ registration = [c \in Callbacks |-> "new"]
      /\ routerCurrent = [c \in Callbacks |-> Router!None] /\ routerLive = {}
  BY DEF Router!Init
<1>2. routerFailed \in BOOLEAN
  BY DEF Router!Init
<1>3. RouterTypeOK
  BY <1>1, <1>2 DEF RouterTypeOK
<1>4. OwnRegistration /\ RegisteredOnce /\ ActiveAreListed
  BY <1>1 DEF OwnRegistration, RegisteredOnce, ActiveAreListed
<1>5. InstrumentsFollow /\ CallbacksFollow
  BY <1>1 DEF InstrumentsFollow, CallbacksFollow, Router!Existing
<1>6. InlineAtRoute
  BY <1>1 DEF InlineAtRoute, Router!All
<1> QED BY <1>3, <1>4, <1>5, <1>6 DEF RouterInv

(* What an action that leaves callbacks and their registrations alone keeps. *)
LEMMA RegistrationsUntouched ==
    ASSUME RouterInv, UNCHANGED <<registration, routerCurrent, listed, routerLive, routerRefused>>
    PROVE  OwnRegistration' /\ RegisteredOnce' /\ ActiveAreListed'
BY DEF RouterInv, OwnRegistration, RegisteredOnce, ActiveAreListed

(* Binding an instrument where the target is: only an observable's own        *)
(* callback is registered with it, and none of RegisterCallback's is touched. *)
LEMMA BindingKeeps ==
    ASSUME RouterInv, NEW i \in Router!All, route' = [route EXCEPT ![i] = routerTarget],
           routerLive' = Router!LiveWith(i),
           UNCHANGED <<registration, routerCurrent, listed, routerRefused>>
    PROVE  OwnRegistration' /\ RegisteredOnce' /\ ActiveAreListed' /\ InlineAtRoute'
<1>1. routerLive \subseteq routerLive'
  BY DEF Router!LiveWith
<1>2. \A c \in Callbacks, r \in routerLive' : r[1] = c => r \in routerLive
  BY InlineApart DEF Router!LiveWith, Router!Here
<1>3. OwnRegistration' /\ RegisteredOnce' /\ ActiveAreListed'
  BY <1>1, <1>2 DEF RouterInv, OwnRegistration, RegisteredOnce, ActiveAreListed
<1>4. InlineAtRoute'
  <2> SUFFICES ASSUME NEW j \in Inline, route'[j] # Router!None
               PROVE  \E r \in routerLive' : r[1] = j /\ r[2] = route'[j]
    BY DEF InlineAtRoute
  <2>1. route \in [Router!All -> MeterProviders \cup {Router!None}] /\ j \in Router!All
    BY DEF RouterInv, RouterTypeOK, Router!All
  <2>2. CASE j = i
    <3>1. route'[j] = routerTarget /\ Router!Here(j) \in routerLive'
      BY <2>1, <2>2 DEF Router!LiveWith
    <3> QED BY <3>1 DEF Router!Here
  <2>3. CASE j # i
    <3>1. route'[j] = route[j]
      BY <2>1, <2>3
    <3> QED BY <1>1, <3>1 DEF RouterInv, InlineAtRoute
  <2> QED BY <2>2, <2>3
<1> QED BY <1>3, <1>4

(* Counter, Gauge, ObservableGauge, ...: bound to the target there is.       *)
LEMMA CreateKeeps == ASSUME RouterInv, NEW i \in Router!All, Router!Create(i) PROVE RouterInv'
<1>1. /\ route' = [route EXCEPT ![i] = routerTarget] /\ routerLive' = Router!LiveWith(i)
      /\ UNCHANGED <<routerTarget, routerPhase, routerTodo, registration, routerCurrent,
                     listed, routerRefused>>
  BY DEF Router!Create
<1>2. routerFailed' = routerFailed
  BY DEF Router!Create
<1>3. RouterTypeOK'
  BY <1>1, <1>2 DEF RouterInv, RouterTypeOK
<1>4. InstrumentsFollow => InstrumentsFollow'
  BY <1>1 DEF RouterInv, RouterTypeOK, InstrumentsFollow, Router!Existing
<1>5. CallbacksFollow => CallbacksFollow'
  BY <1>1 DEF CallbacksFollow
<1> QED BY <1>1, <1>2, <1>3, <1>4, <1>5, BindingKeeps DEF RouterInv

(* What becomes of callback c and of nothing else: it is active at the SDK    *)
(* that holds the new registration, and what is left of the others is what    *)
(* an SDK refused to give up.                                                 *)
LEMMA RegisteredHere ==
    ASSUME RouterInv, NEW c \in Callbacks,
           \A d \in Callbacks : registration'[d] = IF d = c THEN "active" ELSE registration[d],
           routerCurrent' = [routerCurrent EXCEPT ![c] = Router!Here(c)],
           Router!Here(c) \in routerLive', routerRefused \subseteq routerRefused',
           routerLive' \subseteq routerLive \cup {Router!Here(c)},
           \A r \in routerLive : r[1] # c => r \in routerLive',
           \A r \in routerLive' :
               r[1] = c => r \in routerRefused' \/ r = Router!Here(c)
    PROVE  OwnRegistration' /\ RegisteredOnce'
<1>1. \A d \in Callbacks :
        routerCurrent'[d] = IF d = c THEN Router!Here(c) ELSE routerCurrent[d]
  BY DEF RouterInv, RouterTypeOK
<1>2. Router!Here(c)[1] = c
  BY DEF Router!Here
<1>3. OwnRegistration'
  BY <1>1, <1>2 DEF RouterInv, OwnRegistration
<1>4. RegisteredOnce'
  <2> SUFFICES ASSUME NEW d \in Callbacks
               PROVE  /\ registration'[d] = "active" => routerCurrent'[d] \in routerLive'
                      /\ \A r \in routerLive' : r[1] = d =>
                            \/ r \in routerRefused'
                            \/ registration'[d] = "active" /\ r = routerCurrent'[d]
    BY DEF RegisteredOnce
  <2>1. CASE d = c
    BY <1>1, <2>1
  <2>2. CASE d # c
    <3>1. routerCurrent'[d] = routerCurrent[d] /\ registration'[d] = registration[d]
      BY <1>1, <2>2
    <3>2. \A r \in routerLive' : r[1] = d => r \in routerLive
      BY <1>2, <2>2
    <3>3. registration[d] = "active" => routerCurrent[d] \in routerLive'
      BY <2>2 DEF RouterInv, RegisteredOnce, OwnRegistration
    <3> QED BY <3>1, <3>2, <3>3 DEF RouterInv, RegisteredOnce
  <2> QED BY <2>1, <2>2
<1> QED BY <1>3, <1>4

(* What withdraws or adds a registration of c keeps every inline callback.    *)
LEMMA InlineKept ==
    ASSUME RouterInv, NEW c \in Callbacks, route' = route,
           \A r \in routerLive : r[1] # c => r \in routerLive'
    PROVE  InlineAtRoute'
BY InlineApart DEF RouterInv, InlineAtRoute

(* RegisterCallback, with every instrument bound to the target.              *)
LEMMA RegisterCallbackKeeps ==
    ASSUME RouterInv, NEW c \in Callbacks, Router!RegisterCallback(c) PROVE RouterInv'
<1>1. /\ registration[c] = "new" /\ registration' = [registration EXCEPT ![c] = "active"]
      /\ routerCurrent' = [routerCurrent EXCEPT ![c] = Router!Here(c)]
      /\ listed' = listed \cup {c} /\ routerLive' = routerLive \cup {Router!Here(c)}
      /\ UNCHANGED <<routerTarget, route, routerPhase, routerTodo, routerRefused>>
  BY DEF Router!RegisterCallback
<1>2. routerFailed' = routerFailed
  BY DEF Router!RegisterCallback
<1>3. RouterTypeOK' /\ routerTarget \in MeterProviders
  BY <1>1, <1>2 DEF RouterInv, RouterTypeOK
<1>4. \A d \in Callbacks : registration'[d] = IF d = c THEN "active" ELSE registration[d]
  BY <1>1 DEF RouterInv, RouterTypeOK
<1>5. \A r \in routerLive' : r[1] = c => r \in routerRefused' \/ r = Router!Here(c)
  BY <1>1 DEF RouterInv, RegisteredOnce
<1>6. OwnRegistration' /\ RegisteredOnce'
  BY <1>1, <1>4, <1>5, RegisteredHere
<1>7. ActiveAreListed' /\ InlineAtRoute'
  BY <1>1, <1>4, InlineKept DEF RouterInv, ActiveAreListed
<1>8. (InstrumentsFollow => InstrumentsFollow') /\ (CallbacksFollow => CallbacksFollow')
  <2>1. \A d \in Callbacks :
          routerCurrent'[d] = IF d = c THEN Router!Here(c) ELSE routerCurrent[d]
    BY <1>1 DEF RouterInv, RouterTypeOK
  <2>2. Router!Here(c)[2] = routerTarget
    BY DEF Router!Here
  <2> QED BY <1>1, <1>4, <2>1, <2>2 DEF InstrumentsFollow, CallbacksFollow, Router!Existing
<1> QED BY <1>2, <1>3, <1>6, <1>7, <1>8 DEF RouterInv

(* setTarget starts over with every instrument.                              *)
LEMMA SetTargetKeeps ==
    ASSUME RouterInv, NEW t \in MeterProviders, Router!SetTarget(t) PROVE RouterInv'
<1>1. /\ routerTarget' = t /\ routerPhase' = "instruments" /\ routerTodo' = Router!Existing
      /\ UNCHANGED <<route, registration, routerCurrent, listed, routerLive, routerRefused>>
  BY DEF Router!SetTarget
<1>2. routerFailed' \in BOOLEAN
  BY DEF Router!SetTarget
<1>3. RouterTypeOK'
  BY <1>1, <1>2 DEF RouterInv, RouterTypeOK
<1>4. InstrumentsFollow' /\ CallbacksFollow' /\ InlineAtRoute'
  BY <1>1 DEF RouterInv, InstrumentsFollow, CallbacksFollow, InlineAtRoute, Router!Existing
<1> QED BY <1>1, <1>3, <1>4, RegistrationsUntouched DEF RouterInv

(* instrumentRoute.rebind: an instrument left behind is a failure reported.  *)
LEMMA RebindInstrumentKeeps ==
    ASSUME RouterInv, NEW i \in Router!All, Router!RebindInstrument(i) PROVE RouterInv'
<1>1. /\ routerPhase = "instruments" /\ routerTodo' = routerTodo \ {i}
      /\ UNCHANGED <<routerTarget, routerPhase, registration, routerCurrent, listed,
                     routerRefused>>
  BY DEF Router!RebindInstrument
<1>2. CallbacksFollow'
  BY <1>1 DEF CallbacksFollow
<1>3. CASE /\ route' = [route EXCEPT ![i] = routerTarget] /\ routerLive' = Router!LiveWith(i)
           /\ UNCHANGED routerFailed
  <2>1. RouterTypeOK'
    BY <1>1, <1>3 DEF RouterInv, RouterTypeOK
  <2>2. InstrumentsFollow => InstrumentsFollow'
    BY <1>1, <1>3 DEF RouterInv, RouterTypeOK, InstrumentsFollow, Router!Existing
  <2> QED BY <1>1, <1>2, <1>3, <2>1, <2>2, BindingKeeps DEF RouterInv
<1>4. CASE routerFailed' = TRUE /\ UNCHANGED <<route, routerLive>>
  <2>1. routerFailed' \in BOOLEAN /\ routerFailed'
    BY <1>4
  <2>2. RouterTypeOK' /\ InlineAtRoute'
    BY <1>1, <1>4, <2>1 DEF RouterInv, RouterTypeOK, InlineAtRoute
  <2> QED BY <1>1, <1>4, <2>1, <2>2, RegistrationsUntouched DEF RouterInv
<1> QED BY <1>3, <1>4 DEF Router!RebindInstrument

(* The registrations come after the last instrument, all that are listed.    *)
LEMMA EndInstrumentsKeeps == ASSUME RouterInv, Router!EndInstruments PROVE RouterInv'
<1>1. /\ routerPhase = "instruments" /\ routerTodo = {}
      /\ routerPhase' = "registrations" /\ routerTodo' = listed
      /\ UNCHANGED <<routerTarget, route, registration, routerCurrent, listed, routerLive,
                     routerRefused>>
  BY DEF Router!EndInstruments
<1>2. routerFailed' = routerFailed
  BY DEF Router!EndInstruments
<1>3. RouterTypeOK' /\ InlineAtRoute'
  BY <1>1, <1>2 DEF RouterInv, RouterTypeOK, InlineAtRoute
<1>4. InstrumentsFollow => InstrumentsFollow'
  BY <1>1 DEF InstrumentsFollow, Router!Existing
<1>5. CallbacksFollow'
  BY <1>1 DEF RouterInv, ActiveAreListed, CallbacksFollow
<1> QED BY <1>1, <1>2, <1>3, <1>4, <1>5, RegistrationsUntouched DEF RouterInv

(* routingRegistration.rebind: moved, moved without the old SDK letting go,   *)
(* which is recorded as refused, or left where it was.                       *)
LEMMA RebindRegistrationKeeps ==
    ASSUME RouterInv, NEW c \in Callbacks, Router!RebindRegistration(c) PROVE RouterInv'
<1>1. /\ routerPhase = "registrations" /\ routerTodo' = routerTodo \ {c}
      /\ UNCHANGED <<routerTarget, route, routerPhase, registration, listed>>
  BY DEF Router!RebindRegistration
<1>2. InstrumentsFollow => InstrumentsFollow'
  BY <1>1 DEF InstrumentsFollow, Router!Existing
<1>3. ActiveAreListed'
  BY <1>1 DEF RouterInv, ActiveAreListed
<1>4. CASE /\ registration[c] # "active"
           /\ UNCHANGED <<routerCurrent, routerLive, routerRefused, routerFailed>>
  <2>1. RouterTypeOK' /\ InlineAtRoute'
    BY <1>1, <1>4 DEF RouterInv, RouterTypeOK, InlineAtRoute
  <2>2. CallbacksFollow => CallbacksFollow'
    BY <1>1, <1>4 DEF CallbacksFollow
  <2> QED BY <1>1, <1>2, <1>4, <2>1, <2>2, RegistrationsUntouched DEF RouterInv
<1>5. CASE registration[c] = "active" /\ Router!Moved(c)
  <2>1. routerCurrent' = [routerCurrent EXCEPT ![c] = Router!Here(c)]
    BY <1>5 DEF Router!Moved
  <2>2. \A d \in Callbacks : registration'[d] = IF d = c THEN "active" ELSE registration[d]
    BY <1>1, <1>5
  <2>3. routerCurrent[c][1] = c /\ Router!Here(c)[1] = c /\ Router!Here(c)[2] = routerTarget
    BY <1>5 DEF RouterInv, OwnRegistration, Router!Here
  <2>4. CASE /\ routerLive' = (routerLive \ {routerCurrent[c]}) \cup {Router!Here(c)}
             /\ UNCHANGED <<routerRefused, routerFailed>>
    <3>1. \A r \in routerLive' : r[1] = c => r \in routerRefused' \/ r = Router!Here(c)
      BY <1>5, <2>4 DEF RouterInv, RegisteredOnce
    <3>2. \A r \in routerLive : r[1] # c => r \in routerLive'
      BY <2>3, <2>4
    <3>3. OwnRegistration' /\ RegisteredOnce' /\ InlineAtRoute'
      BY <1>1, <2>1, <2>2, <2>4, <3>1, <3>2, RegisteredHere, InlineKept
    <3>4. RouterTypeOK'
      BY <1>1, <2>1, <2>4 DEF RouterInv, RouterTypeOK
    <3>5. \A d \in Callbacks :
            routerCurrent'[d] = IF d = c THEN Router!Here(c) ELSE routerCurrent[d]
      BY <2>1 DEF RouterInv, RouterTypeOK
    <3>6. CallbacksFollow => CallbacksFollow'
      BY <1>1, <2>3, <3>5 DEF CallbacksFollow
    <3> QED BY <1>2, <1>3, <2>4, <3>3, <3>4, <3>6 DEF RouterInv
  <2>5. CASE /\ routerLive' = routerLive \cup {Router!Here(c)}
             /\ routerRefused' = routerRefused \cup {routerCurrent[c]} /\ routerFailed' = TRUE
    <3>1. \A r \in routerLive' : r[1] = c => r \in routerRefused' \/ r = Router!Here(c)
      BY <1>5, <2>5 DEF RouterInv, RegisteredOnce
    <3>2. OwnRegistration' /\ RegisteredOnce' /\ InlineAtRoute'
      BY <1>1, <2>1, <2>2, <2>5, <3>1, RegisteredHere, InlineKept
    <3>3. routerFailed' \in BOOLEAN /\ routerFailed'
      BY <2>5
    <3>4. RouterTypeOK'
      BY <1>1, <2>1, <3>3 DEF RouterInv, RouterTypeOK
    <3> QED BY <1>3, <3>2, <3>3, <3>4 DEF RouterInv
  <2> QED BY <1>5, <2>4, <2>5 DEF Router!Moved
<1>6. CASE Router!NotMoved
  <2>1. routerFailed' \in BOOLEAN /\ routerFailed'
    BY <1>6 DEF Router!NotMoved
  <2>2. UNCHANGED <<routerCurrent, routerLive, routerRefused>>
    BY <1>6 DEF Router!NotMoved
  <2>3. RouterTypeOK' /\ InlineAtRoute'
    BY <1>1, <2>1, <2>2 DEF RouterInv, RouterTypeOK, InlineAtRoute
  <2> QED BY <1>1, <2>1, <2>2, <2>3, RegistrationsUntouched DEF RouterInv
<1> QED BY <1>4, <1>5, <1>6 DEF Router!RebindRegistration

(* setTarget returns when nothing is left to move.                           *)
LEMMA EndSetTargetKeeps == ASSUME RouterInv, Router!EndSetTarget PROVE RouterInv'
<1>1. /\ routerPhase = "registrations" /\ routerTodo = {} /\ routerPhase' = "idle"
      /\ UNCHANGED <<routerTarget, route, routerTodo, registration, routerCurrent, listed,
                     routerLive, routerRefused>>
  BY DEF Router!EndSetTarget
<1>2. routerFailed' = routerFailed
  BY DEF Router!EndSetTarget
<1>3. RouterTypeOK' /\ InlineAtRoute'
  BY <1>1, <1>2 DEF RouterInv, RouterTypeOK, InlineAtRoute
<1>4. (InstrumentsFollow => InstrumentsFollow') /\ (CallbacksFollow => CallbacksFollow')
  BY <1>1 DEF InstrumentsFollow, CallbacksFollow, Router!Existing
<1> QED BY <1>1, <1>2, <1>3, <1>4, RegistrationsUntouched DEF RouterInv

(* Unregister and its two locks: off the SDK first, unless that refuses, off  *)
(* the list later.                                                           *)
LEMMA UnregisterKeeps ==
    ASSUME RouterInv, NEW c \in Callbacks, Router!Unregister(c) \/ Router!RemoveRegistration(c)
    PROVE  RouterInv'
<1>1. PICK s \in {"ending", "off"} : registration' = [registration EXCEPT ![c] = s]
  BY DEF Router!Unregister, Router!RemoveRegistration
<1>2. \A d \in Callbacks : registration'[d] = IF d = c THEN s ELSE registration[d]
  BY <1>1 DEF RouterInv, RouterTypeOK
<1>3. /\ UNCHANGED <<routerTarget, route, routerPhase, routerTodo>>
      /\ DOMAIN routerCurrent' = Callbacks
      /\ \A d \in Callbacks \ {c} : routerCurrent'[d] = routerCurrent[d]
  BY DEF Router!Unregister, Router!RemoveRegistration, RouterInv, RouterTypeOK
<1>4. routerFailed' = routerFailed
  BY DEF Router!Unregister, Router!RemoveRegistration
<1>5. RouterTypeOK'
  BY <1>1, <1>3, <1>4 DEF RouterInv, RouterTypeOK
<1>6. ActiveAreListed'
  BY <1>2 DEF Router!Unregister, Router!RemoveRegistration, RouterInv, ActiveAreListed
<1>7. /\ \A r \in routerLive' : r \in routerLive /\ (r[1] = c => r \in routerRefused')
      /\ \A r \in routerLive : r[1] # c => r \in routerLive'
      /\ routerRefused \subseteq routerRefused'
  <2>1. CASE Router!Unregister(c)
    <3>1. registration[c] = "active" /\ routerCurrent[c][1] = c
      BY <2>1 DEF Router!Unregister, RouterInv, OwnRegistration
    <3> QED BY <2>1, <3>1 DEF Router!Unregister, RouterInv, RegisteredOnce
  <2>2. CASE Router!RemoveRegistration(c)
    <3>1. /\ UNCHANGED <<routerLive, routerRefused>> /\ registration[c] = "ending"
      BY <2>2 DEF Router!RemoveRegistration
    <3> QED BY <3>1 DEF RouterInv, RegisteredOnce
  <2> QED BY <2>1, <2>2
<1>8. OwnRegistration' /\ InlineAtRoute'
  BY <1>2, <1>3, <1>7, InlineKept DEF RouterInv, OwnRegistration
<1>9. RegisteredOnce'
  <2> SUFFICES ASSUME NEW d \in Callbacks
               PROVE  /\ registration'[d] = "active" => routerCurrent'[d] \in routerLive'
                      /\ \A r \in routerLive' : r[1] = d =>
                            \/ r \in routerRefused'
                            \/ registration'[d] = "active" /\ r = routerCurrent'[d]
    BY DEF RegisteredOnce
  <2>1. CASE d = c
    BY <1>2, <1>7, <2>1
  <2>2. CASE d # c
    <3>1. routerCurrent'[d] = routerCurrent[d] /\ registration'[d] = registration[d]
      BY <1>2, <1>3, <2>2
    <3>2. registration[d] = "active" => routerCurrent[d] \in routerLive'
      BY <1>7, <2>2 DEF RouterInv, RegisteredOnce, OwnRegistration
    <3> QED BY <1>7, <3>1, <3>2 DEF RouterInv, RegisteredOnce
  <2> QED BY <2>1, <2>2
<1>10. (InstrumentsFollow => InstrumentsFollow') /\ (CallbacksFollow => CallbacksFollow')
  BY <1>2, <1>3 DEF InstrumentsFollow, CallbacksFollow, Router!Existing
<1> QED BY <1>4, <1>5, <1>6, <1>8, <1>9, <1>10 DEF RouterInv

LEMMA RouterInvNext == ASSUME RouterInv, [Router!Next]_routerState PROVE RouterInv'
<1>1. CASE Router!CreateInstrument \/ Router!CreateObservable
  BY <1>1, CreateKeeps DEF Router!CreateInstrument, Router!CreateObservable, Router!All
<1>2. ASSUME NEW c \in Callbacks,
             \/ Router!RegisterCallback(c) \/ Router!RebindRegistration(c)
             \/ Router!Unregister(c) \/ Router!RemoveRegistration(c)
      PROVE  RouterInv'
  BY <1>2, RegisterCallbackKeeps, RebindRegistrationKeeps, UnregisterKeeps
<1>3. ASSUME NEW t \in MeterProviders, Router!SetTarget(t) PROVE RouterInv'
  BY <1>3, SetTargetKeeps
<1>4. ASSUME NEW i \in Router!All, Router!RebindInstrument(i) PROVE RouterInv'
  BY <1>4, RebindInstrumentKeeps
<1>5. CASE Router!EndInstruments \/ Router!EndSetTarget
  BY <1>5, EndInstrumentsKeeps, EndSetTargetKeeps
<1>6. CASE UNCHANGED routerState
  <2>1. UNCHANGED <<routerTarget, route, routerPhase, routerTodo, registration, routerCurrent,
                    listed, routerLive, routerRefused>>
    BY <1>6 DEF routerState
  <2>2. routerFailed' = routerFailed
    BY <1>6 DEF routerState
  <2>3. RouterTypeOK' /\ InlineAtRoute'
    BY <2>1, <2>2 DEF RouterInv, RouterTypeOK, InlineAtRoute
  <2>4. (InstrumentsFollow => InstrumentsFollow') /\ (CallbacksFollow => CallbacksFollow')
    BY <2>1 DEF InstrumentsFollow, CallbacksFollow, Router!Existing
  <2> QED BY <2>1, <2>2, <2>3, <2>4, RegistrationsUntouched DEF RouterInv
<1> QED BY <1>1, <1>2, <1>3, <1>4, <1>5, <1>6 DEF Router!Next

(* An active callback is registered at one SDK and an unregistered one at     *)
(* none, but for what an SDK reported it could not withdraw, however          *)
(* Unregister interleaves with setTarget; and after a change that reported no *)
(* failure all of it is the current target's.                                 *)
THEOREM CallbacksHaveOneProvider == ServicesSpec => []OneProviderPerCallback
<1> DEFINE I == part = "router" => RouterInv
<1>1. ServicesInit => I
  BY ChosenInit, RouterInvInit
<1>2. I /\ [ServicesNext]_servicesVars => I'
  BY ChosenStep, RouterInvNext
<1>3. ASSUME RouterInv PROVE Router!CallbackAtOneTarget
  <2>1. ASSUME NEW c \in Callbacks
        PROVE  IF registration[c] = "active"
               THEN /\ routerCurrent[c] \in routerLive
                    /\ Router!Registered(c) \subseteq routerRefused \cup {routerCurrent[c]}
               ELSE Router!Registered(c) \subseteq routerRefused
    BY <1>3 DEF RouterInv, RegisteredOnce, Router!Registered
  <2>2. ASSUME routerPhase = "idle", ~routerFailed
        PROVE  /\ \A i \in Router!Existing : route[i] = routerTarget
               /\ \A c \in Callbacks : registration[c] = "active" =>
                     routerCurrent[c][2] = routerTarget
    <3>1. InstrumentsFollow /\ CallbacksFollow
      BY <1>3, <2>2 DEF RouterInv
    <3> QED BY <2>2, <3>1 DEF InstrumentsFollow, CallbacksFollow
  <2>3. \A i \in Inline : route[i] # Router!None =>
          \E r \in Router!Registered(i) : r[2] = route[i]
    BY <1>3 DEF RouterInv, InlineAtRoute, Router!Registered
  <2> QED BY <2>1, <2>2, <2>3 DEF Router!CallbackAtOneTarget
<1>4. I => OneProviderPerCallback
  BY <1>3 DEF OneProviderPerCallback
<1> QED BY <1>1, <1>2, <1>4, PTL DEF ServicesSpec
-----------------------------------------------------------------------------
(* protofetch.  Whoever holds the lock is alone, so what the disk looks like  *)
(* follows from the place its fetch has reached; every disk a power failure   *)
(* can bring back is one from which the next fetch recovers.                  *)
FetchPCs ==
    {"idle", "recover", "removeRecovered", "syncRecovered", "acquire",
     "select", "generate", "syncTree", "moveOld", "syncOld", "install",
     "restore", "syncRestored", "syncInstalled", "uninstall", "putBack",
     "emptyBackup", "removeBackup", "syncRemoved", "cleanup"}
Disks == [output : Nat, backup : Nat, whole : SUBSET Nat]
FetchRecords ==
    [pc : FetchPCs, own : Nat, stage : Nat, hadOutput : BOOLEAN, ok : BOOLEAN]

Safe(d) ==
    /\ d.output # 0 => d.output \in d.whole /\ d.output # d.backup
    /\ d.output = 0 /\ d.backup # 0 => d.backup \in d.whole

(* What the disk d and its past p look like to a fetch r, by its place.      *)
BeforeTheSwap(r, d) ==
    /\ r.pc \in {"recover", "removeRecovered", "syncRecovered", "acquire", "select", "generate",
                 "syncTree", "moveOld"} => ~r.hadOutput /\ d.output # r.own
    /\ r.pc = "removeRecovered" => d.output # 0
    /\ r.pc \in {"syncRecovered", "acquire", "select", "generate", "syncTree", "moveOld"} =>
           d.backup = 0
Staged(r, d) ==
    /\ r.stage # 0 => r.stage = r.own /\ d.output # r.own
    /\ r.pc \in {"select", "generate", "syncTree", "moveOld", "syncOld", "install", "restore",
                 "putBack", "syncRestored"} => r.stage = r.own
    /\ r.pc \in {"moveOld", "syncOld", "install", "putBack"} => r.own \in d.whole
OldMoved(r, d) ==
    /\ r.pc \in {"syncOld", "install", "restore", "putBack"} => d.output = 0
    /\ r.pc \in {"syncOld", "restore", "putBack", "emptyBackup"} => d.backup # 0
    /\ r.pc = "syncOld" => r.hadOutput
    /\ r.pc \in {"install", "syncInstalled", "uninstall"} =>
           (IF r.hadOutput THEN d.backup # 0 /\ d.backup \in d.whole ELSE d.backup = 0)
Installed(r, d, p) ==
    /\ r.pc \in {"syncInstalled", "uninstall", "emptyBackup", "removeBackup", "syncRemoved"} =>
           d.output = r.own /\ r.stage = 0
    /\ r.pc \in {"syncInstalled", "uninstall"} /\ ~r.hadOutput => \E q \in p : ~Protos!There(q)
    /\ r.pc \in {"emptyBackup", "removeBackup", "syncRemoved"} => \A q \in p : q.output = r.own
    /\ r.pc = "syncRemoved" => d.backup = 0
    /\ r.ok => r.pc = "cleanup" /\ \A q \in p : q.output = r.own /\ q.backup = 0
FetchFits(r, d, p) ==
    /\ d.backup # r.own
    /\ BeforeTheSwap(r, d) /\ Staged(r, d) /\ OldMoved(r, d) /\ Installed(r, d, p)

ProtosTypeOK ==
    /\ disk \in Disks /\ past \subseteq Disks
    /\ fetch \in [Fetchers -> FetchRecords] /\ fetches \in Nat
PastIsSafe ==
    /\ disk \in past
    /\ \A d \in past : Safe(d) /\ d.output <= fetches /\ d.backup <= fetches
OneFetch ==
    \A f \in Fetchers : fetch[f].pc # "idle" =>
        lock = f /\ fetch[f].own \in 1..fetches /\ FetchFits(fetch[f], disk, past)

ProtosInv == ProtosTypeOK /\ PastIsSafe /\ OneFetch

(* A fetch's record, and what its holder may rely on.                        *)
Rec(s, o, st, h, k) == [pc |-> s, own |-> o, stage |-> st, hadOutput |-> h, ok |-> k]

LEMMA FetchFacts ==
    ASSUME ProtosInv, NEW f \in Fetchers, fetch[f].pc # "idle"
    PROVE  /\ fetch[f] \in FetchRecords /\ fetches \in Nat
           /\ lock = f /\ fetch[f].own \in 1..fetches /\ FetchFits(fetch[f], disk, past)
           /\ disk \in Disks /\ disk \in past /\ Safe(disk)
           /\ disk.output <= fetches /\ disk.backup <= fetches
           /\ disk.output \in Nat /\ disk.backup \in Nat /\ disk.whole \subseteq Nat
BY DEF ProtosInv, ProtosTypeOK, PastIsSafe, OneFetch, Disks

LEMMA ProtosInvInit == ASSUME Protos!Init PROVE ProtosInv
<1>1. Protos!Idle \in FetchRecords /\ Protos!Idle.pc = "idle"
  BY DEF Protos!Idle, Protos!Absent, FetchRecords, FetchPCs
<1>2. fetch = [f \in Fetchers |-> Protos!Idle] /\ fetches = 1
  BY DEF Protos!Init
<1>3. PICK d \in {0, 1} : disk = [output |-> d, backup |-> 0, whole |-> {1}]
  BY DEF Protos!Init, Protos!Absent
<1>4. past = {disk}
  BY DEF Protos!Init
<1>5. disk \in Disks /\ Safe(disk) /\ disk.output <= 1 /\ disk.backup <= 1
  BY <1>3 DEF Disks, Safe
<1> QED BY <1>1, <1>2, <1>4, <1>5 DEF ProtosInv, ProtosTypeOK, PastIsSafe, OneFetch

(* A step of the holder that ends in a state its new place allows.           *)
LEMMA HolderStep ==
    ASSUME ProtosInv, NEW f \in Fetchers, fetch[f].pc # "idle",
           NEW r \in FetchRecords, NEW d \in Disks, NEW p,
           fetch' = [fetch EXCEPT ![f] = r], disk' = d, past' = p,
           p \subseteq past \cup {d}, d \in p, UNCHANGED <<lock, fetches>>,
           Safe(d), d.output <= fetches, d.backup <= fetches,
           r.own = fetch[f].own, FetchFits(r, d, p)
    PROVE  ProtosInv'
<1>1. ProtosTypeOK'
  BY DEF ProtosInv, ProtosTypeOK
<1>2. PastIsSafe'
  BY DEF ProtosInv, PastIsSafe
<1>3. \A g \in Fetchers : fetch'[g] = IF g = f THEN r ELSE fetch[g]
  BY DEF ProtosInv, ProtosTypeOK
<1>4. \A g \in Fetchers \ {f} : fetch[g].pc = "idle"
  BY DEF ProtosInv, OneFetch
<1>5. lock = f /\ fetch[f].own \in 1..fetches
  BY FetchFacts
<1>6. OneFetch'
  BY <1>3, <1>4, <1>5 DEF OneFetch
<1> QED BY <1>1, <1>2, <1>6 DEF ProtosInv

(* The holder's fields after a step, as a record of the places it may reach. *)
LEMMA HolderRecord ==
    ASSUME ProtosInv, NEW f \in Fetchers, fetch[f].pc # "idle",
           NEW s \in FetchPCs, NEW st \in Nat, NEW h \in BOOLEAN, NEW k \in BOOLEAN
    PROVE  /\ Rec(s, fetch[f].own, st, h, k) \in FetchRecords
           /\ Rec(s, fetch[f].own, st, h, k).own = fetch[f].own
BY FetchFacts DEF FetchRecords, Rec

(* The three things a step does to the disk: nothing, an fsync, a change.    *)
LEMMA UntouchedStep ==
    ASSUME ProtosInv, NEW f \in Fetchers, fetch[f].pc # "idle",
           NEW s \in FetchPCs, NEW st \in Nat, NEW h \in BOOLEAN, NEW k \in BOOLEAN,
           fetch' = [fetch EXCEPT ![f] = Rec(s, fetch[f].own, st, h, k)],
           Protos!Untouched, UNCHANGED <<lock, fetches>>,
           FetchFits(Rec(s, fetch[f].own, st, h, k), disk, past)
    PROVE  ProtosInv' /\ Protos!KeepsContracts
<1> DEFINE r == Rec(s, fetch[f].own, st, h, k)
<1>1. r \in FetchRecords /\ r.own = fetch[f].own
  BY HolderRecord
<1>2. disk' = disk /\ past' = past
  BY DEF Protos!Untouched
<1> HIDE DEF r
<1>3. ProtosInv'
  BY <1>1, <1>2, FetchFacts, HolderStep DEF r
<1> QED BY <1>2, <1>3 DEF Protos!KeepsContracts, Protos!HasContracts

LEMMA SyncStep ==
    ASSUME ProtosInv, NEW f \in Fetchers, fetch[f].pc # "idle",
           NEW s \in FetchPCs, NEW st \in Nat, NEW h \in BOOLEAN, NEW k \in BOOLEAN,
           fetch' = [fetch EXCEPT ![f] = Rec(s, fetch[f].own, st, h, k)],
           Protos!SyncOk, UNCHANGED <<lock, fetches>>,
           FetchFits(Rec(s, fetch[f].own, st, h, k), disk, {disk})
    PROVE  ProtosInv' /\ Protos!KeepsContracts
<1> DEFINE r == Rec(s, fetch[f].own, st, h, k)
<1>1. r \in FetchRecords /\ r.own = fetch[f].own
  BY HolderRecord
<1>2. disk' = disk /\ past' = {disk} /\ disk \in past
  BY FetchFacts DEF Protos!SyncOk
<1> HIDE DEF r
<1>3. ProtosInv'
  BY <1>1, <1>2, FetchFacts, HolderStep DEF r
<1> QED BY <1>2, <1>3 DEF Protos!KeepsContracts, Protos!HasContracts

KeepsSome(d, p) == Protos!There(d) \/ \E q \in p : ~Protos!There(q)

LEMMA ChangeStep ==
    ASSUME ProtosInv, NEW f \in Fetchers, fetch[f].pc # "idle",
           NEW s \in FetchPCs, NEW st \in Nat, NEW h \in BOOLEAN, NEW k \in BOOLEAN,
           NEW d \in Disks,
           fetch' = [fetch EXCEPT ![f] = Rec(s, fetch[f].own, st, h, k)],
           Protos!Becomes(d), UNCHANGED <<lock, fetches>>,
           Safe(d), d.output <= fetches, d.backup <= fetches,
           KeepsSome(d, past),
           FetchFits(Rec(s, fetch[f].own, st, h, k), d, past')
    PROVE  ProtosInv' /\ Protos!KeepsContracts
<1> DEFINE r == Rec(s, fetch[f].own, st, h, k)
<1>1. r \in FetchRecords /\ r.own = fetch[f].own
  BY HolderRecord
<1>2. disk' = d /\ past' = past \cup {d}
  BY DEF Protos!Becomes
<1> HIDE DEF r
<1>3. ProtosInv'
  BY <1>1, <1>2, HolderStep DEF r
<1> QED BY <1>2, <1>3 DEF KeepsSome, Protos!KeepsContracts, Protos!HasContracts

(* Go, Succeed and the other assignments of a fetch's record.                *)
LEMMA GoRecord ==
    ASSUME ProtosInv, NEW f \in Fetchers, NEW s, Protos!Go(f, s)
    PROVE  fetch' = [fetch EXCEPT ![f] = Rec(s, fetch[f].own, fetch[f].stage,
                                             fetch[f].hadOutput, fetch[f].ok)]
<1>1. fetch' = [fetch EXCEPT ![f] = [fetch[f] EXCEPT !.pc = s]]
  BY DEF Protos!Go
<1>2. [fetch[f] EXCEPT !.pc = s] = Rec(s, fetch[f].own, fetch[f].stage, fetch[f].hadOutput, fetch[f].ok)
  BY DEF ProtosInv, ProtosTypeOK, FetchRecords, Rec
<1> QED BY <1>1, <1>2

LEMMA RecForm ==
    ASSUME ProtosInv, NEW f \in Fetchers
    PROVE  fetch[f] = Rec(fetch[f].pc, fetch[f].own, fetch[f].stage, fetch[f].hadOutput, fetch[f].ok)
BY DEF ProtosInv, ProtosTypeOK, FetchRecords, Rec

LEMMA SucceedRecord ==
    ASSUME ProtosInv, NEW f \in Fetchers, Protos!Succeed(f)
    PROVE  fetch' = [fetch EXCEPT ![f] = Rec("cleanup", fetch[f].own, fetch[f].stage, fetch[f].hadOutput, TRUE)]
<1>1. fetch' = [fetch EXCEPT ![f] = [fetch[f] EXCEPT !.pc = "cleanup", !.ok = TRUE]]
  BY DEF Protos!Succeed
<1> DEFINE q == fetch[f].pc  o == fetch[f].own  st == fetch[f].stage  h == fetch[f].hadOutput
           k == fetch[f].ok
<1>2. fetch[f] = Rec(q, o, st, h, k)
  BY RecForm
<1> HIDE DEF q, o, st, h, k
<1>3. [Rec(q, o, st, h, k) EXCEPT !.pc = "cleanup"] = Rec("cleanup", o, st, h, k)
  BY DEF Rec
<1>4. [Rec("cleanup", o, st, h, k) EXCEPT !.ok = TRUE] = Rec("cleanup", o, st, h, TRUE)
  <2>1. \A t : [Rec("cleanup", o, st, h, k) EXCEPT !.ok = t] = Rec("cleanup", o, st, h, t)
    BY DEF Rec
  <2> QED BY <2>1, Zenon
<1>5. [fetch[f] EXCEPT !.pc = "cleanup", !.ok = TRUE]
        = [[fetch[f] EXCEPT !.pc = "cleanup"] EXCEPT !.ok = TRUE]
  OBVIOUS
<1>6. fetch' = [fetch EXCEPT ![f] = Rec("cleanup", o, st, h, TRUE)]
  BY <1>1, <1>2, <1>3, <1>4, <1>5
<1> QED BY <1>6 DEF q, o, st, h, k

LEMMA StageRecord ==
    ASSUME ProtosInv, NEW f \in Fetchers, NEW s, NEW x, 
           fetch' = [fetch EXCEPT ![f] = [fetch[f] EXCEPT !.pc = s, !.stage = x]]
    PROVE  fetch' = [fetch EXCEPT ![f] = Rec(s, fetch[f].own, x, fetch[f].hadOutput, fetch[f].ok)]
<1>1. fetch' = [fetch EXCEPT ![f] = [fetch[f] EXCEPT !.pc = s, !.stage = x]]
  OBVIOUS
<1> DEFINE q == fetch[f].pc  o == fetch[f].own  st == fetch[f].stage  h == fetch[f].hadOutput
           k == fetch[f].ok
<1>2. fetch[f] = Rec(q, o, st, h, k)
  BY RecForm
<1> HIDE DEF q, o, st, h, k
<1>3. [Rec(q, o, st, h, k) EXCEPT !.pc = s] = Rec(s, o, st, h, k)
  BY DEF Rec
<1>4. [Rec(s, o, st, h, k) EXCEPT !.stage = x] = Rec(s, o, x, h, k)
  BY DEF Rec
<1>5. [fetch[f] EXCEPT !.pc = s, !.stage = x]
        = [[fetch[f] EXCEPT !.pc = s] EXCEPT !.stage = x]
  OBVIOUS
<1>6. fetch' = [fetch EXCEPT ![f] = Rec(s, o, x, h, k)]
  BY <1>1, <1>2, <1>3, <1>4, <1>5
<1> QED BY <1>6 DEF q, o, st, h, k

LEMMA OldRecord ==
    ASSUME ProtosInv, NEW f \in Fetchers, 
           fetch' = [fetch EXCEPT ![f] = [fetch[f] EXCEPT !.pc = "syncOld", !.hadOutput = TRUE]]
    PROVE  fetch' = [fetch EXCEPT ![f] = Rec("syncOld", fetch[f].own, fetch[f].stage, TRUE, fetch[f].ok)]
<1>1. fetch' = [fetch EXCEPT ![f] = [fetch[f] EXCEPT !.pc = "syncOld", !.hadOutput = TRUE]]
  OBVIOUS
<1> DEFINE q == fetch[f].pc  o == fetch[f].own  st == fetch[f].stage  h == fetch[f].hadOutput
           k == fetch[f].ok
<1>2. fetch[f] = Rec(q, o, st, h, k)
  BY RecForm
<1> HIDE DEF q, o, st, h, k
<1>3. [Rec(q, o, st, h, k) EXCEPT !.pc = "syncOld"] = Rec("syncOld", o, st, h, k)
  BY DEF Rec
<1>4. [Rec("syncOld", o, st, h, k) EXCEPT !.hadOutput = TRUE] = Rec("syncOld", o, st, TRUE, k)
  <2>1. \A t : [Rec("syncOld", o, st, h, k) EXCEPT !.hadOutput = t] = Rec("syncOld", o, st, t, k)
    BY DEF Rec
  <2> QED BY <2>1, Zenon
<1>5. [fetch[f] EXCEPT !.pc = "syncOld", !.hadOutput = TRUE]
        = [[fetch[f] EXCEPT !.pc = "syncOld"] EXCEPT !.hadOutput = TRUE]
  OBVIOUS
<1>6. fetch' = [fetch EXCEPT ![f] = Rec("syncOld", o, st, TRUE, k)]
  BY <1>1, <1>2, <1>3, <1>4, <1>5
<1> QED BY <1>6 DEF q, o, st, h, k

LEMMA UnstageRecord ==
    ASSUME ProtosInv, NEW f \in Fetchers, NEW s, NEW x, 
           fetch' = [fetch EXCEPT ![f] = [fetch[f] EXCEPT !.stage = x, !.pc = s]]
    PROVE  fetch' = [fetch EXCEPT ![f] = Rec(s, fetch[f].own, x, fetch[f].hadOutput, fetch[f].ok)]
<1>1. fetch' = [fetch EXCEPT ![f] = [fetch[f] EXCEPT !.stage = x, !.pc = s]]
  OBVIOUS
<1> DEFINE q == fetch[f].pc  o == fetch[f].own  st == fetch[f].stage  h == fetch[f].hadOutput
           k == fetch[f].ok
<1>2. fetch[f] = Rec(q, o, st, h, k)
  BY RecForm
<1> HIDE DEF q, o, st, h, k
<1>3. [Rec(q, o, st, h, k) EXCEPT !.stage = x] = Rec(q, o, x, h, k)
  BY DEF Rec
<1>4. [Rec(q, o, x, h, k) EXCEPT !.pc = s] = Rec(s, o, x, h, k)
  BY DEF Rec
<1>5. [fetch[f] EXCEPT !.stage = x, !.pc = s]
        = [[fetch[f] EXCEPT !.stage = x] EXCEPT !.pc = s]
  OBVIOUS
<1>6. fetch' = [fetch EXCEPT ![f] = Rec(s, o, x, h, k)]
  BY <1>1, <1>2, <1>3, <1>4, <1>5
<1> QED BY <1>6 DEF q, o, st, h, k

(* Such a step that only moves the fetch on, for each thing done to the disk.*)
Moved(f, s) == Rec(s, fetch[f].own, fetch[f].stage, fetch[f].hadOutput, fetch[f].ok)

LEMMA GoUntouched ==
    ASSUME ProtosInv, NEW f \in Fetchers, fetch[f].pc # "idle", NEW s \in FetchPCs,
           Protos!Go(f, s), Protos!Untouched, UNCHANGED Protos!counters,
           FetchFits(Moved(f, s), disk, past)
    PROVE  ProtosInv' /\ Protos!KeepsContracts
<1>1. fetch[f].stage \in Nat /\ fetch[f].hadOutput \in BOOLEAN /\ fetch[f].ok \in BOOLEAN
  BY FetchFacts DEF FetchRecords
<1>2. UNCHANGED <<lock, fetches>>
  BY DEF Protos!counters
<1> QED BY <1>1, <1>2, GoRecord, UntouchedStep DEF Moved

LEMMA GoSynced ==
    ASSUME ProtosInv, NEW f \in Fetchers, fetch[f].pc # "idle", NEW s \in FetchPCs,
           Protos!Go(f, s), Protos!SyncOk, UNCHANGED Protos!counters,
           FetchFits(Moved(f, s), disk, {disk})
    PROVE  ProtosInv' /\ Protos!KeepsContracts
<1>1. fetch[f].stage \in Nat /\ fetch[f].hadOutput \in BOOLEAN /\ fetch[f].ok \in BOOLEAN
  BY FetchFacts DEF FetchRecords
<1>2. UNCHANGED <<lock, fetches>>
  BY DEF Protos!counters
<1> QED BY <1>1, <1>2, GoRecord, SyncStep DEF Moved

LEMMA GoChanged ==
    ASSUME ProtosInv, NEW f \in Fetchers, fetch[f].pc # "idle", NEW s \in FetchPCs, NEW d \in Disks,
           Protos!Go(f, s), Protos!Becomes(d), UNCHANGED Protos!counters,
           Safe(d), d.output <= fetches, d.backup <= fetches, KeepsSome(d, past),
           FetchFits(Moved(f, s), d, past')
    PROVE  ProtosInv' /\ Protos!KeepsContracts
<1>1. fetch[f].stage \in Nat /\ fetch[f].hadOutput \in BOOLEAN /\ fetch[f].ok \in BOOLEAN
  BY FetchFacts DEF FetchRecords
<1>2. UNCHANGED <<lock, fetches>>
  BY DEF Protos!counters
<1> QED BY <1>1, <1>2, GoRecord, ChangeStep DEF Moved

(* return err, wherever it happens: only the deferred calls are left.        *)
LEMMA FailKeeps ==
    ASSUME ProtosInv, NEW f \in Fetchers, fetch[f].pc # "idle", fetch[f].pc # "cleanup",
           Protos!Fail(f), Protos!Untouched \/ Protos!SyncOk, UNCHANGED Protos!counters
    PROVE  ProtosInv' /\ Protos!KeepsContracts
<1>1. \A p : FetchFits(Moved(f, "cleanup"), disk, p)
  BY FetchFacts DEF FetchFits, BeforeTheSwap, Staged, OldMoved, Installed, Moved, Rec
<1>2. "cleanup" \in FetchPCs /\ Protos!Go(f, "cleanup")
  BY DEF FetchPCs, Protos!Fail
<1>3. CASE Protos!Untouched
  <2>1. FetchFits(Moved(f, "cleanup"), disk, past)
    BY <1>1
  <2> QED BY <1>2, <1>3, <2>1, GoUntouched
<1>4. CASE Protos!SyncOk
  <2>1. FetchFits(Moved(f, "cleanup"), disk, {disk})
    BY <1>1
  <2> QED BY <1>2, <1>4, <2>1, GoSynced
<1> QED BY <1>3, <1>4

(* What the changes of the disk leave on it.                                 *)
LEMMA RenamedBack ==
    ASSUME disk \in Disks
    PROVE  /\ Protos!BackupRenamed \in Disks
           /\ Protos!BackupRenamed.output = disk.backup /\ Protos!BackupRenamed.backup = 0
           /\ Protos!BackupRenamed.whole = disk.whole
BY DEF Protos!BackupRenamed, Protos!Absent, Disks

LEMMA DiskUpdates ==
    ASSUME disk \in Disks, NEW n \in Nat, NEW w \in SUBSET Nat
    PROVE  /\ [disk EXCEPT !.output = n] \in Disks /\ [disk EXCEPT !.output = n].output = n
           /\ [disk EXCEPT !.output = n].backup = disk.backup
           /\ [disk EXCEPT !.output = n].whole = disk.whole
           /\ [disk EXCEPT !.backup = n] \in Disks /\ [disk EXCEPT !.backup = n].backup = n
           /\ [disk EXCEPT !.backup = n].output = disk.output
           /\ [disk EXCEPT !.backup = n].whole = disk.whole
           /\ [disk EXCEPT !.whole = w] \in Disks /\ [disk EXCEPT !.whole = w].whole = w
           /\ [disk EXCEPT !.whole = w].output = disk.output
           /\ [disk EXCEPT !.whole = w].backup = disk.backup
BY DEF Disks

LEMMA LockKeeps ==
    ASSUME ProtosInv, NEW f \in Fetchers, Protos!Lock(f)
    PROVE  ProtosInv' /\ Protos!KeepsContracts
<1> DEFINE r == [Protos!Idle EXCEPT !.pc = "recover", !.own = fetches + 1]
<1>1. /\ lock = Protos!Nobody /\ lock' = f /\ fetches' = fetches + 1 /\ disk' = disk /\ past' = past
      /\ fetch[f].pc = "idle"
  BY DEF Protos!Lock, Protos!Untouched, Protos!At
<1>2. fetch' = [fetch EXCEPT ![f] = [Protos!Idle EXCEPT !.pc = "recover", !.own = fetches']]
  BY DEF Protos!Lock
<1>3. fetches \in Nat /\ disk \in Disks
  BY DEF ProtosInv, ProtosTypeOK
<1>4. [Protos!Idle EXCEPT !.pc = "recover", !.own = fetches']
        = Rec("recover", fetches + 1, 0, FALSE, FALSE)
  <2>1. [Protos!Idle EXCEPT !.pc = "recover", !.own = fetches']
          = [[Protos!Idle EXCEPT !.pc = "recover"] EXCEPT !.own = fetches']
    OBVIOUS
  <2>2. \A a, b, o : [Rec("idle", o, 0, a, b) EXCEPT !.pc = "recover"] = Rec("recover", o, 0, a, b)
    BY DEF Rec
  <2>3. \A a, b, o : [Rec("recover", 0, 0, a, b) EXCEPT !.own = o] = Rec("recover", o, 0, a, b)
    BY DEF Rec
  <2>4. Protos!Idle = Rec("idle", 0, 0, FALSE, FALSE)
    BY DEF Protos!Idle, Protos!Absent, Rec
  <2>5. [Protos!Idle EXCEPT !.pc = "recover"] = Rec("recover", 0, 0, FALSE, FALSE)
    BY <2>2, <2>4, Zenon
  <2>6. [Rec("recover", 0, 0, FALSE, FALSE) EXCEPT !.own = fetches']
          = Rec("recover", fetches', 0, FALSE, FALSE)
    BY <2>3, Zenon
  <2> QED BY <1>1, <2>1, <2>5, <2>6, Zenon
<1> DEFINE q == Rec("recover", fetches + 1, 0, FALSE, FALSE)
<1>5. q \in FetchRecords /\ q.pc = "recover" /\ q.own = fetches + 1
  BY <1>3 DEF Rec, FetchRecords, FetchPCs
<1>6. FetchFits(q, disk, past)
  <2>1. disk.output <= fetches /\ disk.backup <= fetches /\ disk.output \in Nat /\ disk.backup \in Nat
    BY <1>3 DEF ProtosInv, PastIsSafe, Disks
  <2> QED BY <1>3, <2>1 DEF Rec, FetchFits, BeforeTheSwap, Staged, OldMoved, Installed
<1> HIDE DEF q
<1>7. fetch' = [fetch EXCEPT ![f] = q]
  BY <1>2, <1>4 DEF q
<1>8. ProtosTypeOK'
  BY <1>1, <1>3, <1>5, <1>7 DEF ProtosInv, ProtosTypeOK
<1>9. PastIsSafe'
  BY <1>1, <1>3 DEF ProtosInv, ProtosTypeOK, PastIsSafe, Disks
<1>10. OneFetch'
  <2>1. \A g \in Fetchers : fetch[g].pc = "idle"
    BY <1>1, FetcherNames DEF ProtosInv, OneFetch
  <2>2. \A g \in Fetchers : fetch'[g] = IF g = f THEN q ELSE fetch[g]
    BY <1>7 DEF ProtosInv, ProtosTypeOK
  <2> QED BY <1>1, <1>3, <1>5, <1>6, <2>1, <2>2 DEF OneFetch
<1> QED BY <1>1, <1>8, <1>9, <1>10 DEF ProtosInv, Protos!KeepsContracts, Protos!HasContracts

(* recoverOutput in its three cases.                                         *)
LEMMA RecoverKeeps ==
    ASSUME ProtosInv, NEW f \in Fetchers, Protos!Recover(f)
    PROVE  ProtosInv' /\ Protos!KeepsContracts
<1> DEFINE d == [disk EXCEPT !.whole = disk.whole \ {disk.backup}]
<1>1. fetch[f].pc = "recover" /\ UNCHANGED Protos!counters
  BY DEF Protos!Recover, Protos!At
<1>2. {"acquire", "syncRecovered", "removeRecovered"} \subseteq FetchPCs
  BY DEF FetchPCs
<1>3. CASE disk.backup = 0 /\ Protos!Go(f, "acquire") /\ Protos!Untouched
  <2>1. FetchFits(Moved(f, "acquire"), disk, past)
    BY <1>1, <1>3, FetchFacts
       DEF FetchFits, BeforeTheSwap, Staged, OldMoved, Installed, Moved, Rec
  <2> QED BY <1>1, <1>2, <1>3, <2>1, GoUntouched
<1>4. CASE /\ disk.backup # 0 /\ disk.output = 0
           /\ Protos!Becomes(Protos!BackupRenamed) /\ Protos!Go(f, "syncRecovered")
  <2> DEFINE b == Protos!BackupRenamed
  <2>1. b \in Disks /\ b.output = disk.backup /\ b.backup = 0 /\ b.whole = disk.whole
    BY <1>1, RenamedBack, FetchFacts
  <2> HIDE DEF b
  <2>2. Safe(b) /\ b.output <= fetches /\ b.backup <= fetches /\ KeepsSome(b, past)
    BY <1>1, <1>4, <2>1, FetchFacts DEF Safe, KeepsSome, Protos!There, Protos!Absent
  <2>3. FetchFits(Moved(f, "syncRecovered"), b, past')
    BY <1>1, <2>1, FetchFacts
       DEF Protos!Becomes, FetchFits, BeforeTheSwap, Staged, OldMoved, Installed, Moved, Rec
  <2> QED BY <1>1, <1>2, <1>4, <2>1, <2>2, <2>3, GoChanged DEF b
<1>5. CASE Protos!Untouched /\ Protos!Fail(f)
  BY <1>1, <1>5, FailKeeps
<1>6. CASE /\ disk.backup # 0 /\ disk.output # 0
           /\ Protos!Becomes(d) /\ Protos!Go(f, "removeRecovered")
  <2>1. d \in Disks /\ d.output = disk.output /\ d.backup = disk.backup
    BY <1>1, DiskUpdates, FetchFacts
  <2>2. d.whole = disk.whole \ {disk.backup}
    BY <1>1, DiskUpdates, FetchFacts
  <2> HIDE DEF d
  <2>3. Safe(d) /\ d.output <= fetches /\ d.backup <= fetches /\ KeepsSome(d, past)
    BY <1>1, <1>6, <2>1, <2>2, FetchFacts DEF Safe, KeepsSome, Protos!There, Protos!Absent
  <2>4. FetchFits(Moved(f, "removeRecovered"), d, past')
    BY <1>1, <1>6, <2>1, FetchFacts
       DEF Protos!Becomes, FetchFits, BeforeTheSwap, Staged, OldMoved, Installed, Moved, Rec
  <2> QED BY <1>1, <1>2, <1>6, <2>1, <2>3, <2>4, GoChanged
<1> QED BY <1>3, <1>4, <1>5, <1>6 DEF Protos!Recover, Protos!Absent

(* The end of a RemoveAll: the name goes, and an output is there.            *)
LEMMA RemoveBackupKeeps ==
    ASSUME ProtosInv, NEW f \in Fetchers, Protos!RemoveRecovered(f) \/ Protos!RemoveOld(f)
    PROVE  ProtosInv' /\ Protos!KeepsContracts
<1> DEFINE d == [disk EXCEPT !.backup = 0]
<1>1. /\ fetch[f].pc \in {"removeRecovered", "removeBackup"} /\ UNCHANGED Protos!counters
      /\ \/ /\ Protos!Becomes(d)
            /\ Protos!Go(f, IF fetch[f].pc = "removeRecovered" THEN "syncRecovered" ELSE "syncRemoved")
         \/ Protos!Untouched /\ Protos!Fail(f)
  BY DEF Protos!RemoveRecovered, Protos!RemoveOld, Protos!RemoveBackup, Protos!At, Protos!Absent
<1>2. CASE Protos!Untouched /\ Protos!Fail(f)
  BY <1>1, <1>2, FailKeeps
<1>3. d \in Disks /\ d.output = disk.output /\ d.backup = 0 /\ d.whole = disk.whole
  BY <1>1, DiskUpdates, FetchFacts
<1> HIDE DEF d
<1>4. disk.output # 0
  BY <1>1, FetchFacts DEF FetchFits, BeforeTheSwap, Installed
<1>5. Safe(d) /\ d.output <= fetches /\ d.backup <= fetches /\ KeepsSome(d, past)
  BY <1>1, <1>3, <1>4, FetchFacts DEF Safe, KeepsSome, Protos!There, Protos!Absent
<1>6. CASE fetch[f].pc = "removeRecovered" /\ Protos!Becomes(d) /\ Protos!Go(f, "syncRecovered")
  <2>1. FetchFits(Moved(f, "syncRecovered"), d, past')
    BY <1>3, <1>6, FetchFacts
       DEF Protos!Becomes, FetchFits, BeforeTheSwap, Staged, OldMoved, Installed, Moved, Rec
  <2>2. "syncRecovered" \in FetchPCs
    BY DEF FetchPCs
  <2> QED BY <1>1, <1>3, <1>5, <1>6, <2>1, <2>2, GoChanged
<1>7. CASE fetch[f].pc = "removeBackup" /\ Protos!Becomes(d) /\ Protos!Go(f, "syncRemoved")
  <2>1. FetchFits(Moved(f, "syncRemoved"), d, past')
    BY <1>3, <1>7, FetchFacts
       DEF Protos!Becomes, FetchFits, BeforeTheSwap, Staged, OldMoved, Installed, Moved, Rec
  <2>2. "syncRemoved" \in FetchPCs
    BY DEF FetchPCs
  <2> QED BY <1>1, <1>3, <1>5, <1>7, <2>1, <2>2, GoChanged
<1> QED BY <1>1, <1>2, <1>6, <1>7

(* Steps up to the swap that leave the two names alone.                      *)
LEMMA PrepareKeeps ==
    ASSUME ProtosInv, NEW f \in Fetchers,
           Protos!SyncRecovered(f) \/ Protos!AcquireSource(f) \/ Protos!Select(f) \/ Protos!Generate(f)
    PROVE  ProtosInv' /\ Protos!KeepsContracts
<1>1. /\ fetch[f].pc \in {"syncRecovered", "acquire", "select", "generate"}
      /\ UNCHANGED Protos!counters
  BY DEF Protos!SyncRecovered, Protos!AcquireSource, Protos!Select, Protos!Generate, Protos!At
<1>2. {"acquire", "select", "generate", "syncTree"} \subseteq FetchPCs
  BY DEF FetchPCs
<1>3. CASE Protos!Fail(f) /\ Protos!Untouched
  BY <1>1, <1>3, FailKeeps
<1>4. CASE fetch[f].pc = "syncRecovered" /\ Protos!SyncOk /\ Protos!Go(f, "acquire")
  <2>1. FetchFits(Moved(f, "acquire"), disk, {disk})
    BY <1>4, FetchFacts DEF FetchFits, BeforeTheSwap, Staged, OldMoved, Installed, Moved, Rec
  <2> QED BY <1>1, <1>2, <1>4, <2>1, GoSynced
<1>5. CASE /\ fetch[f].pc = "acquire" /\ Protos!Untouched
           /\ fetch' = [fetch EXCEPT ![f] = [fetch[f] EXCEPT !.pc = "select", !.stage = fetch[f].own]]
  <2> DEFINE q == fetch[f]
             r == Rec("select", q.own, q.own, q.hadOutput, q.ok)
  <2>1. fetch' = [fetch EXCEPT ![f] = r]
    BY <1>5, StageRecord
  <2>2. q.own \in Nat /\ q.hadOutput \in BOOLEAN /\ q.ok \in BOOLEAN
    BY <1>1, FetchFacts DEF FetchRecords
  <2>3. FetchFits(r, disk, past)
    BY <1>5, FetchFacts DEF FetchFits, BeforeTheSwap, Staged, OldMoved, Installed, Rec
  <2>4. UNCHANGED <<lock, fetches>>
    BY <1>1 DEF Protos!counters
  <2> QED BY <1>1, <1>2, <1>5, <2>1, <2>2, <2>3, <2>4, UntouchedStep
<1>6. ASSUME NEW s \in {"generate", "syncTree"}, fetch[f].pc = IF s = "generate" THEN "select" ELSE "generate",
             Protos!Untouched, Protos!Go(f, s)
      PROVE  ProtosInv' /\ Protos!KeepsContracts
  <2>1. FetchFits(Moved(f, s), disk, past)
    BY <1>6, FetchFacts DEF FetchFits, BeforeTheSwap, Staged, OldMoved, Installed, Moved, Rec
  <2> QED BY <1>1, <1>2, <1>6, <2>1, GoUntouched
<1>7. CASE Protos!SyncRecovered(f)
  BY <1>3, <1>4, <1>7 DEF Protos!SyncRecovered, Protos!At, Protos!SyncFails
<1>8. CASE Protos!AcquireSource(f)
  BY <1>3, <1>5, <1>8 DEF Protos!AcquireSource, Protos!At
<1>9. CASE Protos!Select(f)
  <2>1. fetch[f].pc = "select" /\ Protos!Untouched /\ (Protos!Go(f, "generate") \/ Protos!Fail(f))
    BY <1>9 DEF Protos!Select, Protos!At
  <2> QED BY <1>3, <1>6, <2>1
<1>10. CASE Protos!Generate(f)
  <2>1. fetch[f].pc = "generate" /\ Protos!Untouched /\ (Protos!Go(f, "syncTree") \/ Protos!Fail(f))
    BY <1>10 DEF Protos!Generate, Protos!At
  <2> QED BY <1>3, <1>6, <2>1
<1> QED BY <1>7, <1>8, <1>9, <1>10

(* syncTree makes the staged files durable.                                  *)
LEMMA SyncTreeKeeps ==
    ASSUME ProtosInv, NEW f \in Fetchers, Protos!SyncTree(f)
    PROVE  ProtosInv' /\ Protos!KeepsContracts
<1> DEFINE d == [disk EXCEPT !.whole = disk.whole \cup {fetch[f].own}]
<1>1. fetch[f].pc = "syncTree" /\ UNCHANGED Protos!counters
  BY DEF Protos!SyncTree, Protos!At
<1>2. CASE Protos!Fail(f) /\ Protos!Untouched
  BY <1>1, <1>2, FailKeeps
<1>3. CASE Protos!Go(f, "moveOld") /\ Protos!Becomes(d)
  <2>1. fetch[f].own \in Nat
    BY <1>1, FetchFacts DEF FetchRecords
  <2>2. d \in Disks /\ d.output = disk.output /\ d.backup = disk.backup
    BY <1>1, <2>1, DiskUpdates, FetchFacts
  <2>3. d.whole = disk.whole \cup {fetch[f].own}
    BY <1>1, <2>1, DiskUpdates, FetchFacts
  <2> HIDE DEF d
  <2>4. Safe(d) /\ d.output <= fetches /\ d.backup <= fetches
    BY <1>1, <2>2, <2>3, FetchFacts DEF Safe
  <2>5. KeepsSome(d, past)
    BY <1>1, <2>2, FetchFacts DEF KeepsSome, Protos!There
  <2>6. FetchFits(Moved(f, "moveOld"), d, past')
    BY <1>1, <2>2, <2>3, FetchFacts
       DEF Protos!Becomes, FetchFits, BeforeTheSwap, Staged, OldMoved, Installed, Moved, Rec
  <2>7. fetch[f].stage \in Nat /\ fetch[f].hadOutput \in BOOLEAN /\ fetch[f].ok \in BOOLEAN
    BY <1>1, FetchFacts DEF FetchRecords
  <2>8. "moveOld" \in FetchPCs /\ UNCHANGED <<lock, fetches>>
    BY <1>1 DEF FetchPCs, Protos!counters
  <2> QED BY <1>1, <1>3, <2>2, <2>4, <2>5, <2>6, <2>7, <2>8, GoRecord, ChangeStep DEF Moved
<1> QED BY <1>2, <1>3 DEF Protos!SyncTree

(* The old output is moved aside: it is complete, so the backup is.          *)
LEMMA MoveOldKeeps ==
    ASSUME ProtosInv, NEW f \in Fetchers, Protos!MoveOld(f)
    PROVE  ProtosInv' /\ Protos!KeepsContracts
<1> DEFINE d == [disk EXCEPT !.backup = disk.output, !.output = 0]
           q == fetch[f]
           r == Rec("syncOld", q.own, q.stage, TRUE, q.ok)
<1>1. fetch[f].pc = "moveOld" /\ UNCHANGED Protos!counters
  BY DEF Protos!MoveOld, Protos!At
<1>2. CASE Protos!Fail(f) /\ Protos!Untouched
  BY <1>1, <1>2, FailKeeps
<1>3. CASE disk.backup = 0 /\ disk.output = 0 /\ Protos!Go(f, "install") /\ Protos!Untouched
  <2>1. FetchFits(Moved(f, "install"), disk, past)
    BY <1>1, <1>3, FetchFacts
       DEF FetchFits, BeforeTheSwap, Staged, OldMoved, Installed, Moved, Rec
  <2>2. "install" \in FetchPCs
    BY DEF FetchPCs
  <2> QED BY <1>1, <1>3, <2>1, <2>2, GoUntouched
<1>4. CASE /\ disk.backup = 0 /\ disk.output # 0 /\ Protos!Becomes(d)
           /\ fetch' = [fetch EXCEPT ![f] = [fetch[f] EXCEPT !.pc = "syncOld", !.hadOutput = TRUE]]
  <2>1. d \in Disks /\ d.output = 0 /\ d.backup = disk.output /\ d.whole = disk.whole
    BY <1>1, FetchFacts DEF Disks
  <2> HIDE DEF d
  <2>2. Safe(d) /\ d.output <= fetches /\ d.backup <= fetches /\ KeepsSome(d, past)
    BY <1>1, <1>4, <2>1, FetchFacts DEF Safe, KeepsSome, Protos!There, Protos!Absent
  <2>3. FetchFits(r, d, past')
    BY <1>1, <1>4, <2>1, FetchFacts
       DEF Protos!Becomes, FetchFits, BeforeTheSwap, Staged, OldMoved, Installed, Rec
  <2>4. q.stage \in Nat /\ TRUE \in BOOLEAN /\ q.ok \in BOOLEAN
    BY <1>1, FetchFacts DEF FetchRecords
  <2>5. "syncOld" \in FetchPCs /\ UNCHANGED <<lock, fetches>>
    BY <1>1 DEF FetchPCs, Protos!counters
  <2>6. fetch' = [fetch EXCEPT ![f] = r]
    BY <1>4, OldRecord
  <2> QED BY <1>1, <1>4, <2>1, <2>2, <2>3, <2>4, <2>5, <2>6, ChangeStep
<1> QED BY <1>2, <1>3, <1>4 DEF Protos!MoveOld, Protos!Absent

(* The rename back, from either rollback: the backup is complete.            *)
LEMMA RenameBackKeeps ==
    ASSUME ProtosInv, NEW f \in Fetchers, fetch[f].pc \in {"restore", "putBack"},
           Protos!Becomes(Protos!BackupRenamed), Protos!Go(f, "syncRestored"),
           UNCHANGED Protos!counters
    PROVE  ProtosInv' /\ Protos!KeepsContracts
<1> DEFINE b == Protos!BackupRenamed
<1>1. b \in Disks /\ b.output = disk.backup /\ b.backup = 0 /\ b.whole = disk.whole
  BY RenamedBack, FetchFacts
<1> HIDE DEF b
<1>2. disk.output = 0 /\ disk.backup # 0
  BY FetchFacts DEF FetchFits, OldMoved
<1>3. Safe(b) /\ b.output <= fetches /\ b.backup <= fetches /\ KeepsSome(b, past)
  BY <1>1, <1>2, FetchFacts DEF Safe, KeepsSome, Protos!There, Protos!Absent
<1>4. FetchFits(Moved(f, "syncRestored"), b, past')
  BY <1>1, <1>2, FetchFacts DEF FetchFits, BeforeTheSwap, Staged, OldMoved, Installed, Moved, Rec
<1>5. "syncRestored" \in FetchPCs
  BY DEF FetchPCs
<1> QED BY <1>1, <1>3, <1>4, <1>5, GoChanged DEF b

LEMMA RollBackKeeps ==
    ASSUME ProtosInv, NEW f \in Fetchers,
           Protos!SyncOld(f) \/ Protos!Restore(f) \/ Protos!SyncRestored(f)
    PROVE  ProtosInv' /\ Protos!KeepsContracts
<1>1. /\ fetch[f].pc \in {"syncOld", "restore", "syncRestored"} /\ UNCHANGED Protos!counters
  BY DEF Protos!SyncOld, Protos!Restore, Protos!SyncRestored, Protos!At
<1>2. {"install", "restore"} \subseteq FetchPCs
  BY DEF FetchPCs
<1>3. CASE Protos!Fail(f) /\ (Protos!Untouched \/ Protos!SyncOk)
  BY <1>1, <1>3, FailKeeps
<1>4. CASE fetch[f].pc = "syncOld" /\ Protos!SyncOk /\ Protos!Go(f, "install")
  <2>1. disk.backup \in disk.whole
    BY <1>4, FetchFacts DEF FetchFits, OldMoved, Safe
  <2>2. FetchFits(Moved(f, "install"), disk, {disk})
    BY <1>4, <2>1, FetchFacts DEF FetchFits, BeforeTheSwap, Staged, OldMoved, Installed, Moved, Rec
  <2> QED BY <1>1, <1>2, <1>4, <2>2, GoSynced
<1>5. CASE fetch[f].pc = "syncOld" /\ Protos!Untouched /\ Protos!Go(f, "restore")
  <2>1. FetchFits(Moved(f, "restore"), disk, past)
    BY <1>5, FetchFacts DEF FetchFits, BeforeTheSwap, Staged, OldMoved, Installed, Moved, Rec
  <2> QED BY <1>1, <1>2, <1>5, <2>1, GoUntouched
<1>6. CASE Protos!SyncOld(f)
  BY <1>4, <1>5, <1>6 DEF Protos!SyncOld, Protos!At, Protos!SyncFails
<1>7. CASE Protos!Restore(f)
  BY <1>1, <1>3, <1>7, RenameBackKeeps DEF Protos!Restore, Protos!At
<1>8. CASE Protos!SyncRestored(f)
  BY <1>3, <1>8 DEF Protos!SyncRestored, Protos!SyncFails
<1> QED BY <1>6, <1>7, <1>8

(* The stage takes the output's name: its files are durable.                 *)
LEMMA InstallKeepsContracts ==
    ASSUME ProtosInv, NEW f \in Fetchers, Protos!Install(f)
    PROVE  ProtosInv' /\ Protos!KeepsContracts
<1> DEFINE d == [disk EXCEPT !.output = fetch[f].stage]
           q == fetch[f]
           r == Rec("syncInstalled", q.own, 0, q.hadOutput, q.ok)
<1>1. fetch[f].pc = "install" /\ UNCHANGED Protos!counters
  BY DEF Protos!Install, Protos!At
<1>2. q.own \in 1..fetches /\ q.stage = q.own /\ q.stage \in Nat /\ disk.output = 0
  BY <1>1, FetchFacts DEF FetchFits, Staged, OldMoved, FetchRecords
<1>3. CASE /\ Protos!Becomes(d)
           /\ fetch' = [fetch EXCEPT ![f] = [fetch[f] EXCEPT !.pc = "syncInstalled", !.stage = 0]]
  <2>1. d \in Disks /\ d.output = q.own /\ d.backup = disk.backup /\ d.whole = disk.whole
    BY <1>1, <1>2, DiskUpdates, FetchFacts
  <2> HIDE DEF d
  <2>2. q.own \in disk.whole /\ disk.backup # q.own
    BY <1>1, FetchFacts DEF FetchFits, Staged
  <2>3. Safe(d) /\ d.output <= fetches /\ d.backup <= fetches /\ KeepsSome(d, past)
    BY <1>1, <1>2, <2>1, <2>2, FetchFacts DEF Safe, KeepsSome, Protos!There, Protos!Absent
  <2>4. ~q.hadOutput => \E b \in past' : ~Protos!There(b)
    <3>1. ~q.hadOutput => disk.backup = 0
      BY <1>1, FetchFacts DEF FetchFits, OldMoved
    <3>2. disk \in past'
      BY <1>1, <1>3, FetchFacts DEF Protos!Becomes
    <3> QED BY <1>2, <3>1, <3>2 DEF Protos!There, Protos!Absent
  <2>5. FetchFits(r, d, past')
    BY <1>1, <1>2, <2>1, <2>4, FetchFacts
       DEF FetchFits, BeforeTheSwap, Staged, OldMoved, Installed, Rec
  <2>6. 0 \in Nat /\ q.hadOutput \in BOOLEAN /\ q.ok \in BOOLEAN
    BY <1>1, FetchFacts DEF FetchRecords
  <2>7. "syncInstalled" \in FetchPCs /\ UNCHANGED <<lock, fetches>>
    BY <1>1 DEF FetchPCs, Protos!counters
  <2>8. fetch' = [fetch EXCEPT ![f] = r]
    BY <1>3, StageRecord
  <2> QED BY <1>1, <1>3, <2>1, <2>3, <2>5, <2>6, <2>7, <2>8, ChangeStep
<1>4. CASE Protos!Untouched /\ Protos!Go(f, IF fetch[f].hadOutput THEN "restore" ELSE "cleanup")
  <2>1. CASE fetch[f].hadOutput
    <3>1. FetchFits(Moved(f, "restore"), disk, past)
      BY <1>1, <2>1, FetchFacts DEF FetchFits, BeforeTheSwap, Staged, OldMoved, Installed, Moved, Rec
    <3>2. "restore" \in FetchPCs /\ Protos!Go(f, "restore")
      BY <1>4, <2>1 DEF FetchPCs
    <3> QED BY <1>1, <1>4, <3>1, <3>2, GoUntouched
  <2>2. CASE ~fetch[f].hadOutput
    <3>1. Protos!Fail(f)
      BY <1>4, <2>2 DEF Protos!Fail
    <3> QED BY <1>1, <1>4, <3>1, FailKeeps
  <2> QED BY <2>1, <2>2
<1> QED BY <1>3, <1>4 DEF Protos!Install, Protos!Absent

(* Only a swap that was synced is reported, or lets the old output go.       *)
LEMMA SyncInstalledKeeps ==
    ASSUME ProtosInv, NEW f \in Fetchers, Protos!SyncInstalled(f)
    PROVE  ProtosInv' /\ Protos!KeepsContracts
<1> DEFINE q == fetch[f]
           r == Rec("cleanup", q.own, q.stage, q.hadOutput, TRUE)
<1>1. fetch[f].pc = "syncInstalled" /\ UNCHANGED Protos!counters
  BY DEF Protos!SyncInstalled, Protos!At
<1>2. {"emptyBackup", "uninstall", "cleanup"} \subseteq FetchPCs
  BY DEF FetchPCs
<1>3. CASE Protos!SyncOk /\ q.hadOutput /\ Protos!Go(f, "emptyBackup")
  <2>1. FetchFits(Moved(f, "emptyBackup"), disk, {disk})
    BY <1>1, <1>3, FetchFacts DEF FetchFits, BeforeTheSwap, Staged, OldMoved, Installed, Moved, Rec
  <2> QED BY <1>1, <1>2, <1>3, <2>1, GoSynced
<1>4. CASE Protos!SyncOk /\ ~q.hadOutput /\ Protos!Succeed(f)
  <2>1. disk.output = q.own /\ disk.backup = 0
    BY <1>1, <1>4, FetchFacts DEF FetchFits, OldMoved, Installed
  <2>2. FetchFits(r, disk, {disk})
    BY <1>1, <1>4, <2>1, FetchFacts DEF FetchFits, BeforeTheSwap, Staged, OldMoved, Installed, Rec
  <2>3. q.stage \in Nat /\ q.hadOutput \in BOOLEAN /\ TRUE \in BOOLEAN
    BY <1>1, FetchFacts DEF FetchRecords
  <2>4. UNCHANGED <<lock, fetches>>
    BY <1>1 DEF Protos!counters
  <2> QED BY <1>1, <1>2, <1>4, <2>2, <2>3, <2>4, SucceedRecord, SyncStep
<1>5. CASE Protos!Untouched /\ Protos!Go(f, "uninstall")
  <2>1. FetchFits(Moved(f, "uninstall"), disk, past)
    BY <1>1, FetchFacts DEF FetchFits, BeforeTheSwap, Staged, OldMoved, Installed, Moved, Rec
  <2> QED BY <1>1, <1>2, <1>5, <2>1, GoUntouched
<1> QED BY <1>3, <1>4, <1>5 DEF Protos!SyncInstalled, Protos!SyncFails

(* rollbackInstalledDirectory: the new output back to the stage.             *)
LEMMA UninstallKeeps ==
    ASSUME ProtosInv, NEW f \in Fetchers, Protos!Uninstall(f)
    PROVE  ProtosInv' /\ Protos!KeepsContracts
<1> DEFINE d == [disk EXCEPT !.output = 0]
           q == fetch[f]
           s == IF q.hadOutput THEN "putBack" ELSE "syncRestored"
           r == Rec(s, q.own, disk.output, q.hadOutput, q.ok)
<1>1. fetch[f].pc = "uninstall" /\ UNCHANGED Protos!counters
  BY DEF Protos!Uninstall, Protos!At
<1>2. CASE Protos!Untouched /\ Protos!Fail(f)
  BY <1>1, <1>2, FailKeeps
<1>3. CASE /\ Protos!Becomes(d)
           /\ fetch' = [fetch EXCEPT ![f] = [fetch[f] EXCEPT !.stage = disk.output, !.pc = s]]
  <2>1. d \in Disks /\ d.output = 0 /\ d.backup = disk.backup /\ d.whole = disk.whole
    BY <1>1, DiskUpdates, FetchFacts
  <2> HIDE DEF d
  <2>2. /\ disk.output = q.own /\ q.own \in 1..fetches /\ q.own \in disk.whole
        /\ IF q.hadOutput THEN disk.backup # 0 /\ disk.backup \in disk.whole ELSE disk.backup = 0
    BY <1>1, FetchFacts DEF FetchFits, OldMoved, Installed, Safe
  <2>3. ~q.hadOutput => \E b \in past : ~Protos!There(b)
    BY <1>1, FetchFacts DEF FetchFits, Installed
  <2>4. KeepsSome(d, past)
    BY <2>1, <2>2, <2>3 DEF KeepsSome, Protos!There, Protos!Absent
  <2>5. Safe(d) /\ d.output <= fetches /\ d.backup <= fetches
    BY <1>1, <2>1, <2>2, FetchFacts DEF Safe
  <2>6. s \in {"putBack", "syncRestored"} /\ (s = "putBack" => q.hadOutput) /\ s \in FetchPCs
    BY DEF FetchPCs
  <2> HIDE DEF s
  <2>7. FetchFits(r, d, past')
    BY <1>1, <2>1, <2>2, <2>6, FetchFacts
       DEF FetchFits, BeforeTheSwap, Staged, OldMoved, Installed, Rec
  <2>8. disk.output \in Nat /\ q.hadOutput \in BOOLEAN /\ q.ok \in BOOLEAN
    BY <1>1, FetchFacts DEF FetchRecords
  <2>9. UNCHANGED <<lock, fetches>>
    BY <1>1 DEF Protos!counters
  <2>10. fetch' = [fetch EXCEPT ![f] = r]
    BY <1>3, UnstageRecord
  <2> QED BY <1>1, <1>3, <2>1, <2>4, <2>5, <2>6, <2>7, <2>8, <2>9, <2>10, ChangeStep
<1> QED BY <1>2, <1>3 DEF Protos!Uninstall, Protos!Absent

(* ... and the backup back to the output, or the new output in place again.  *)
LEMMA PutBackKeeps ==
    ASSUME ProtosInv, NEW f \in Fetchers, Protos!PutBack(f)
    PROVE  ProtosInv' /\ Protos!KeepsContracts
<1> DEFINE d == [disk EXCEPT !.output = fetch[f].stage]
           q == fetch[f]
           r == Rec("cleanup", q.own, 0, q.hadOutput, q.ok)
<1>1. fetch[f].pc = "putBack" /\ UNCHANGED Protos!counters
  BY DEF Protos!PutBack, Protos!At
<1>2. CASE Protos!Untouched /\ Protos!Fail(f)
  BY <1>1, <1>2, FailKeeps
<1>3. CASE Protos!Becomes(Protos!BackupRenamed) /\ Protos!Go(f, "syncRestored")
  BY <1>1, <1>3, RenameBackKeeps
<1>4. CASE /\ Protos!Becomes(d)
           /\ fetch' = [fetch EXCEPT ![f] = [fetch[f] EXCEPT !.pc = "cleanup", !.stage = 0]]
  <2>1. q.own \in 1..fetches /\ q.stage = q.own /\ q.stage \in Nat
    BY <1>1, FetchFacts DEF FetchFits, Staged, FetchRecords
  <2>2. d \in Disks /\ d.output = q.own /\ d.backup = disk.backup /\ d.whole = disk.whole
    BY <1>1, <2>1, DiskUpdates, FetchFacts
  <2> HIDE DEF d
  <2>3. q.own \in disk.whole /\ disk.backup # q.own
    BY <1>1, FetchFacts DEF FetchFits, Staged
  <2>4. Safe(d) /\ d.output <= fetches /\ d.backup <= fetches /\ KeepsSome(d, past)
    BY <1>1, <2>1, <2>2, <2>3, FetchFacts DEF Safe, KeepsSome, Protos!There, Protos!Absent
  <2>5. FetchFits(r, d, past')
    BY <1>1, <2>1, <2>2, FetchFacts
       DEF FetchFits, BeforeTheSwap, Staged, OldMoved, Installed, Rec
  <2>6. 0 \in Nat /\ q.hadOutput \in BOOLEAN /\ q.ok \in BOOLEAN
    BY <1>1, FetchFacts DEF FetchRecords
  <2>7. "cleanup" \in FetchPCs /\ UNCHANGED <<lock, fetches>>
    BY <1>1 DEF FetchPCs, Protos!counters
  <2>8. fetch' = [fetch EXCEPT ![f] = r]
    BY <1>4, StageRecord
  <2> QED BY <1>1, <1>4, <2>2, <2>4, <2>5, <2>6, <2>7, <2>8, ChangeStep
<1> QED BY <1>2, <1>3, <1>4 DEF Protos!PutBack, Protos!Absent

(* The old output's files go, once the new one is the only output there was. *)
LEMMA EmptyBackupKeeps ==
    ASSUME ProtosInv, NEW f \in Fetchers, Protos!EmptyBackup(f)
    PROVE  ProtosInv' /\ Protos!KeepsContracts
<1> DEFINE d == [disk EXCEPT !.whole = disk.whole \ {disk.backup}]
<1>1. /\ fetch[f].pc = "emptyBackup" /\ UNCHANGED Protos!counters
      /\ Protos!Go(f, "removeBackup") /\ Protos!Becomes(d)
  BY DEF Protos!EmptyBackup, Protos!At
<1>2. d \in Disks /\ d.output = disk.output /\ d.backup = disk.backup
  BY <1>1, DiskUpdates, FetchFacts
<1>3. d.whole = disk.whole \ {disk.backup}
  BY <1>1, DiskUpdates, FetchFacts
<1>4. past' = past \cup {d}
  BY <1>1 DEF Protos!Becomes
<1> HIDE DEF d
<1>5. disk.output = fetch[f].own /\ disk.output # 0
  BY <1>1, FetchFacts DEF FetchFits, Installed
<1>6. Safe(d) /\ d.output <= fetches /\ d.backup <= fetches /\ KeepsSome(d, past)
  BY <1>1, <1>2, <1>3, <1>5, FetchFacts DEF Safe, KeepsSome, Protos!There, Protos!Absent
<1>7. FetchFits(Moved(f, "removeBackup"), d, past')
  BY <1>1, <1>2, <1>4, <1>5, FetchFacts
     DEF FetchFits, BeforeTheSwap, Staged, OldMoved, Installed, Moved, Rec
<1>8. "removeBackup" \in FetchPCs
  BY DEF FetchPCs
<1> QED BY <1>1, <1>2, <1>6, <1>7, <1>8, GoChanged

LEMMA SyncRemovedKeeps ==
    ASSUME ProtosInv, NEW f \in Fetchers, Protos!SyncRemoved(f)
    PROVE  ProtosInv' /\ Protos!KeepsContracts
<1> DEFINE q == fetch[f]
           r == Rec("cleanup", q.own, q.stage, q.hadOutput, TRUE)
<1>1. fetch[f].pc = "syncRemoved" /\ UNCHANGED Protos!counters
  BY DEF Protos!SyncRemoved, Protos!At
<1>2. CASE Protos!Untouched /\ Protos!Fail(f)
  BY <1>1, <1>2, FailKeeps
<1>3. CASE Protos!SyncOk /\ Protos!Succeed(f)
  <2>1. disk.output = q.own /\ disk.backup = 0
    BY <1>1, FetchFacts DEF FetchFits, Installed
  <2>2. FetchFits(r, disk, {disk})
    BY <1>1, <2>1, FetchFacts DEF FetchFits, BeforeTheSwap, Staged, OldMoved, Installed, Rec
  <2>3. q.stage \in Nat /\ q.hadOutput \in BOOLEAN /\ TRUE \in BOOLEAN
    BY <1>1, FetchFacts DEF FetchRecords
  <2>4. UNCHANGED <<lock, fetches>> /\ "cleanup" \in FetchPCs
    BY <1>1 DEF Protos!counters, FetchPCs
  <2> QED BY <1>1, <1>3, <2>2, <2>3, <2>4, SucceedRecord, SyncStep
<1> QED BY <1>2, <1>3 DEF Protos!SyncRemoved, Protos!SyncFails

(* The end of a fetch, wherever it stopped: what is left of it is nobody's.  *)
LEMMA EndOfFetch ==
    ASSUME ProtosInv, NEW d \in Disks, NEW p, disk' = d, past' = p, d \in p,
           p \subseteq past \cup {d}, Safe(d), d.output <= fetches, d.backup <= fetches,
           fetches' = fetches, NEW ended \in SUBSET Fetchers,
           fetch' = [f \in Fetchers |-> IF f \in ended THEN Protos!Idle ELSE fetch[f]],
           \A f \in Fetchers \ ended : fetch[f].pc = "idle"
    PROVE  ProtosInv'
<1>1. Protos!Idle \in FetchRecords /\ Protos!Idle.pc = "idle"
  BY DEF Protos!Idle, Protos!Absent, FetchRecords, FetchPCs
<1>2. ProtosTypeOK'
  BY <1>1 DEF ProtosInv, ProtosTypeOK
<1>3. PastIsSafe'
  BY DEF ProtosInv, PastIsSafe
<1>4. OneFetch'
  BY <1>1 DEF OneFetch
<1> QED BY <1>2, <1>3, <1>4 DEF ProtosInv

LEMMA CleanupKeeps ==
    ASSUME ProtosInv, NEW f \in Fetchers, Protos!Cleanup(f)
    PROVE  ProtosInv' /\ Protos!KeepsContracts
<1> DEFINE d == [disk EXCEPT !.whole = disk.whole \ {fetch[f].stage}]
<1>1. /\ fetch[f].pc = "cleanup" /\ disk' = d /\ past' = past \cup {d} /\ fetches' = fetches
      /\ fetch' = [fetch EXCEPT ![f] = Protos!Idle]
  BY DEF Protos!Cleanup, Protos!At, Protos!Becomes
<1>2. d \in Disks /\ d.output = disk.output /\ d.backup = disk.backup
  BY <1>1, DiskUpdates, FetchFacts
<1>3. d.whole = disk.whole \ {fetch[f].stage}
  BY <1>1, DiskUpdates, FetchFacts
<1> HIDE DEF d
<1>4. /\ fetch[f].stage # 0 => fetch[f].stage # disk.output /\ fetch[f].stage # disk.backup
      /\ disk \in past
  BY <1>1, FetchFacts DEF FetchFits, Staged
<1>5. Safe(d) /\ d.output <= fetches /\ d.backup <= fetches
  BY <1>1, <1>2, <1>3, <1>4, FetchFacts DEF Safe
<1>6. fetch' = [g \in Fetchers |-> IF g \in {f} THEN Protos!Idle ELSE fetch[g]]
  BY <1>1 DEF ProtosInv, ProtosTypeOK
<1>7. \A g \in Fetchers \ {f} : fetch[g].pc = "idle"
  BY <1>1 DEF ProtosInv, OneFetch
<1>8. ProtosInv'
  BY <1>1, <1>2, <1>5, <1>6, <1>7, EndOfFetch
<1>9. Protos!KeepsContracts
  BY <1>1, <1>2, <1>4 DEF Protos!KeepsContracts, Protos!HasContracts, Protos!There
<1> QED BY <1>8, <1>9

(* A process killed leaves the disk as it is; a power failure may bring back *)
(* any disk since the last fsync.                                            *)
LEMMA CrashKeeps ==
    ASSUME ProtosInv, Protos!PowerFails \/ \E f \in Fetchers : Protos!Kill(f)
    PROVE  ProtosInv' /\ Protos!KeepsContracts
<1>1. CASE Protos!PowerFails
  <2> DEFINE d == disk'
  <2>1. d \in past /\ past' = {d} /\ fetch' = [f \in Fetchers |-> Protos!Idle] /\ fetches' = fetches
    BY <1>1 DEF Protos!PowerFails
  <2> HIDE DEF d
  <2>2. d \in Disks /\ Safe(d) /\ d.output <= fetches /\ d.backup <= fetches /\ disk' = d
    BY <2>1 DEF ProtosInv, ProtosTypeOK, PastIsSafe, d
  <2>3. fetch' = [f \in Fetchers |-> IF f \in Fetchers THEN Protos!Idle ELSE fetch[f]]
    BY <2>1
  <2>4. ProtosInv'
    BY <2>1, <2>2, <2>3, EndOfFetch
  <2>5. Protos!KeepsContracts
    BY <2>1 DEF Protos!KeepsContracts, Protos!HasContracts
  <2> QED BY <2>4, <2>5
<1>2. ASSUME NEW f \in Fetchers, Protos!Kill(f) PROVE ProtosInv' /\ Protos!KeepsContracts
  <2>1. /\ fetch[f].pc # "idle" /\ disk' = disk /\ past' = past /\ fetches' = fetches
        /\ fetch' = [fetch EXCEPT ![f] = Protos!Idle]
    BY <1>2 DEF Protos!Kill, Protos!At, Protos!Untouched
  <2>2. fetch' = [g \in Fetchers |-> IF g \in {f} THEN Protos!Idle ELSE fetch[g]]
    BY <2>1 DEF ProtosInv, ProtosTypeOK
  <2>3. \A g \in Fetchers \ {f} : fetch[g].pc = "idle"
    BY <2>1 DEF ProtosInv, OneFetch
  <2>4. ProtosInv'
    BY <2>1, <2>2, <2>3, FetchFacts, EndOfFetch
  <2>5. Protos!KeepsContracts
    BY <2>1 DEF Protos!KeepsContracts, Protos!HasContracts
  <2> QED BY <2>4, <2>5
<1> QED BY <1>1, <1>2

LEMMA ProtosInvNext ==
    ASSUME ProtosInv, [Protos!Next]_protosState PROVE ProtosInv' /\ Protos!KeepsContracts
<1>1. ASSUME NEW f \in Fetchers, Protos!Step(f) PROVE ProtosInv' /\ Protos!KeepsContracts
  <2>1. CASE \/ Protos!Lock(f) \/ Protos!Recover(f) \/ Protos!RemoveRecovered(f)
             \/ Protos!SyncRecovered(f) \/ Protos!AcquireSource(f) \/ Protos!Select(f)
             \/ Protos!Generate(f) \/ Protos!SyncTree(f) \/ Protos!MoveOld(f) \/ Protos!RemoveOld(f)
    BY <2>1, LockKeeps, RecoverKeeps, RemoveBackupKeeps, PrepareKeeps, SyncTreeKeeps, MoveOldKeeps
  <2>2. CASE \/ Protos!SyncOld(f) \/ Protos!Restore(f) \/ Protos!SyncRestored(f)
             \/ Protos!Install(f) \/ Protos!SyncInstalled(f) \/ Protos!Uninstall(f)
             \/ Protos!PutBack(f) \/ Protos!EmptyBackup(f) \/ Protos!SyncRemoved(f)
             \/ Protos!Cleanup(f)
    BY <2>2, RollBackKeeps, InstallKeepsContracts, SyncInstalledKeeps, UninstallKeeps, PutBackKeeps,
       EmptyBackupKeeps, SyncRemovedKeeps, CleanupKeeps
  <2> QED BY <1>1, <2>1, <2>2 DEF Protos!Step
<1>2. CASE UNCHANGED protosState
  <2>1. UNCHANGED <<disk, past, fetch, lock, fetches>>
    BY <1>2 DEF protosState
  <2> QED BY <2>1 DEF ProtosInv, ProtosTypeOK, PastIsSafe, OneFetch, Protos!KeepsContracts,
                      Protos!HasContracts
<1> QED BY <1>1, <1>2, CrashKeeps DEF Protos!Next

(* Wherever a fetch, the process or the power stops, the contracts are       *)
(* complete under one of the two names the next fetch looks at, and a fetch  *)
(* that reports success has its own set durably installed.                   *)
THEOREM ContractsAreNeverLost == ServicesSpec => []ContractsSurvive
<1> DEFINE I == part = "protos" => ProtosInv
<1>1. ServicesInit => I
  BY ChosenInit, ProtosInvInit
<1>2. I /\ [ServicesNext]_servicesVars => I'
  BY ChosenStep, ProtosInvNext
<1>3. ASSUME ProtosInv PROVE Protos!ContractsNeverLost
  <2>1. Safe(disk)
    BY <1>3 DEF ProtosInv, PastIsSafe
  <2>2. ASSUME NEW f \in Fetchers, fetch[f].pc = "cleanup", fetch[f].ok
        PROVE  \A d \in past : d.output = fetch[f].own /\ d.backup = 0
    BY <1>3, <2>2, FetchFacts DEF FetchFits, Installed
  <2> QED BY <2>1, <2>2 DEF Protos!ContractsNeverLost, Protos!At, Protos!Absent, Safe
<1>4. I => ContractsSurvive
  BY <1>3 DEF ContractsSurvive
<1> QED BY <1>1, <1>2, <1>4, PTL DEF ServicesSpec

(* Once no failure can bring back an empty directory, none is ever seen      *)
(* again: a fetch replaces the set it found and is never the loss of it.     *)
THEOREM DurableContractsStay == ServicesSpec => ContractsStay
<1> DEFINE I == part = "protos" => ProtosInv
<1>1. ServicesInit => I
  BY ChosenInit, ProtosInvInit
<1>2. I /\ [ServicesNext]_servicesVars => I'
  BY ChosenStep, ProtosInvNext
<1>3. I /\ [ServicesNext]_servicesVars => [part = "protos" => Protos!KeepsContracts]_servicesVars
  BY ChosenStep, ProtosInvNext
<1> QED BY <1>1, <1>2, <1>3, PTL DEF ServicesSpec, ContractsStay
-----------------------------------------------------------------------------
(* health.Checker.  A loop that has not ended is still among periodicDones,  *)
(* so a stop joins every loop there was when it began, and an unbounded      *)
(* Reset that returns with no start since has seen the last of them end.     *)
CallRecords ==
    [at : {"idle", "queued", "replacing", "stopping", "cleaning"}, bounded : BOOLEAN,
     reset : BOOLEAN, gen : Nat, joins : SUBSET Health!Loops, mark : Nat]

HealthTypeOK ==
    /\ generation \in Nat /\ healthStarted \in 0..MaxLoops
    /\ loop \in [Health!Loops -> {"none", "checking", "admitted", "selecting", "done"}]
    /\ healthStopped \in [Health!Loops -> BOOLEAN] /\ dones \subseteq Health!Loops
    /\ healthCall \in [HealthCallers -> CallRecords] /\ requestGen \in [Health!Loops -> Nat]

(* The loops up to the m-th have all ended, or are among those joined.       *)
EndedOrIn(lp, m, joins) == \A k \in 1..m : lp[k] = "done" \/ k \in joins

JoinsAll(r, lp) ==
    /\ r.at = "stopping" => EndedOrIn(lp, r.mark, r.joins)
    /\ r.at = "cleaning" /\ ~r.bounded => EndedOrIn(lp, r.mark, {})

StopsJoinAll ==
    \A c \in HealthCallers :
        healthCall[c].mark <= healthStarted /\ JoinsAll(healthCall[c], loop)

QuietMeansEnded == quiet => ~file /\ EndedOrIn(loop, healthStarted, {})
NotStartedYet == \A k \in Health!Loops : k > healthStarted => loop[k] = "none"

HealthInv ==
    /\ HealthTypeOK /\ StopsJoinAll /\ QuietMeansEnded /\ NotStartedYet
    /\ Health!StopOvertakesQueuedStart /\ Health!UnfinishedAreKept

(* A call's record that names no loop it waits for.                          *)
LEMMA JoinsNothing ==
    ASSUME NEW r \in CallRecords, r.at \in {"idle", "queued", "replacing"}, NEW lp
    PROVE  JoinsAll(r, lp)
BY DEF JoinsAll

LEMMA IdleCall ==
    /\ Health!Idle \in CallRecords /\ Health!Idle.at = "idle" /\ Health!Idle.mark = 0
BY DEF Health!Idle, CallRecords

LEMMA HealthInvInit == ASSUME Health!Init PROVE HealthInv
<1>1. /\ generation = 0 /\ healthStarted = 0 /\ loop = [k \in Health!Loops |-> "none"]
      /\ healthStopped = [k \in Health!Loops |-> FALSE] /\ dones = {}
      /\ healthCall = [c \in HealthCallers |-> Health!Idle]
      /\ requestGen = [k \in Health!Loops |-> 0]
  BY DEF Health!Init
<1>2. ~quiet
  BY DEF Health!Init
<1>3. HealthTypeOK
  BY <1>1, IdleCall, LoopBound DEF HealthTypeOK
<1>4. StopsJoinAll /\ NotStartedYet
  BY <1>1, IdleCall, JoinsNothing DEF StopsJoinAll, NotStartedYet
<1>5. Health!StopOvertakesQueuedStart /\ Health!UnfinishedAreKept
  BY <1>1 DEF Health!StopOvertakesQueuedStart, Health!UnfinishedAreKept
<1> QED BY <1>2, <1>3, <1>4, <1>5 DEF HealthInv, QuietMeansEnded

(* Loops that have ended stay so, whatever else a step does.                 *)
LaterLoops ==
    /\ healthStarted' \in Nat /\ healthStarted <= healthStarted'
    /\ \A k \in 1..healthStarted : loop[k] = "done" => loop'[k] = "done"

LEMMA CallsStillCovered ==
    ASSUME HealthInv, LaterLoops,
           NEW c \in HealthCallers, NEW r \in CallRecords,
           healthCall' = [healthCall EXCEPT ![c] = r],
           r.mark <= healthStarted', JoinsAll(r, loop')
    PROVE  StopsJoinAll'
<1> SUFFICES ASSUME NEW b \in HealthCallers
             PROVE  healthCall'[b].mark <= healthStarted' /\ JoinsAll(healthCall'[b], loop')
  BY DEF StopsJoinAll
<1>1. CASE b = c
  BY <1>1 DEF HealthInv, HealthTypeOK
<1>2. CASE b # c
  <2> DEFINE q == healthCall[b]
  <2>1. healthCall'[b] = q /\ q \in CallRecords /\ healthStarted \in Nat
    BY <1>2 DEF HealthInv, HealthTypeOK
  <2>2. q.mark \in Nat /\ q.mark <= healthStarted /\ JoinsAll(q, loop)
    BY <2>1 DEF HealthInv, StopsJoinAll, CallRecords
  <2> HIDE DEF q
  <2>3. \A k \in 1..q.mark : k \in 1..healthStarted
    BY <2>1, <2>2
  <2>4. JoinsAll(q, loop')
    BY <2>2, <2>3 DEF JoinsAll, EndedOrIn, LaterLoops
  <2> QED BY <2>1, <2>2, <2>4 DEF LaterLoops
<1> QED BY <1>1, <1>2

LEMMA CallsUntouched ==
    ASSUME HealthInv, LaterLoops,
           healthCall' = healthCall
    PROVE  StopsJoinAll'
<1> SUFFICES ASSUME NEW b \in HealthCallers
             PROVE  healthCall'[b].mark <= healthStarted' /\ JoinsAll(healthCall'[b], loop')
  BY DEF StopsJoinAll
<1> DEFINE q == healthCall[b]
<1>1. healthCall'[b] = q /\ q \in CallRecords /\ healthStarted \in Nat
  BY DEF HealthInv, HealthTypeOK
<1>2. q.mark \in Nat /\ q.mark <= healthStarted /\ JoinsAll(q, loop)
  BY <1>1 DEF HealthInv, StopsJoinAll, CallRecords
<1> HIDE DEF q
<1>3. \A k \in 1..q.mark : k \in 1..healthStarted
  BY <1>1, <1>2
<1>4. JoinsAll(q, loop')
  BY <1>2, <1>3 DEF JoinsAll, EndedOrIn, LaterLoops
<1> QED BY <1>1, <1>2, <1>4 DEF LaterLoops

(* startPeriodicCheckLocked for a request of this generation.                *)
LEMMA StartLockedKeeps ==
    ASSUME HealthInv, Health!StartLocked(generation), UNCHANGED <<generation, healthStopped>>,
           HealthTypeOK', StopsJoinAll'
    PROVE  HealthInv'
<1> DEFINE n == healthStarted + 1
<1>1. /\ n \in Health!Loops /\ healthStarted' = n /\ loop' = [loop EXCEPT ![n] = "checking"]
      /\ dones' = dones \cup {n} /\ requestGen' = [requestGen EXCEPT ![n] = generation]
      /\ healthStarted \in Nat
  BY LoopBound DEF Health!StartLocked, Health!Loops, HealthInv, HealthTypeOK
<1>2. ~quiet'
  BY DEF Health!StartLocked
<1> HIDE DEF n
<1>3. \A k \in 1..healthStarted' : k = n \/ k \in 1..healthStarted
  BY <1>1 DEF n
<1>4. NotStartedYet'
  BY <1>1 DEF n, HealthInv, HealthTypeOK, NotStartedYet, Health!Loops
<1>5. \A k \in 1..healthStarted : k \in Health!Loops /\ k # n
  BY <1>1, LoopBound DEF n, Health!Loops
<1>6. Health!UnfinishedAreKept'
  BY <1>1, <1>3, <1>5 DEF HealthInv, HealthTypeOK, Health!UnfinishedAreKept
<1>7. Health!StopOvertakesQueuedStart'
  <2> SUFFICES ASSUME NEW k \in 1..healthStarted', ~healthStopped'[k]
               PROVE  requestGen'[k] = generation'
    BY DEF Health!StopOvertakesQueuedStart
  <2>1. CASE k = n
    BY <1>1, <2>1 DEF HealthInv, HealthTypeOK
  <2>2. CASE k # n
    <3>1. k \in 1..healthStarted /\ requestGen'[k] = requestGen[k]
      BY <1>1, <1>3, <1>5, <2>2 DEF HealthInv, HealthTypeOK
    <3>2. healthStopped' = healthStopped /\ generation' = generation
      OBVIOUS
    <3> QED BY <3>1, <3>2 DEF HealthInv, Health!StopOvertakesQueuedStart
  <2> QED BY <2>1, <2>2
<1> QED BY <1>2, <1>4, <1>6, <1>7 DEF HealthInv, QuietMeansEnded

(* stopPeriodicCheckLocked: every loop there is has the signal.              *)
LEMMA StopLockedKeeps ==
    ASSUME HealthInv, Health!StopLocked, UNCHANGED <<healthStarted, loop, requestGen, file, quiet>>,
           generation' \in Nat, healthCall' \in [HealthCallers -> CallRecords], StopsJoinAll'
    PROVE  HealthInv'
<1>1. /\ healthStopped' = [k \in Health!Loops |-> healthStopped[k] \/ k <= healthStarted]
      /\ dones' = {k \in dones : loop[k] # "done"}
  BY DEF Health!StopLocked, Health!Unfinished
<1>2. healthStopped' \in [Health!Loops -> BOOLEAN]
  BY <1>1
<1>3. HealthTypeOK'
  BY <1>1, <1>2 DEF HealthInv, HealthTypeOK
<1>4. Health!UnfinishedAreKept'
  BY <1>1 DEF HealthInv, Health!UnfinishedAreKept
<1>5. Health!StopOvertakesQueuedStart'
  <2>1. \A k \in 1..healthStarted : k \in Health!Loops /\ k <= healthStarted
    BY LoopBound DEF HealthInv, HealthTypeOK, Health!Loops
  <2>2. \A k \in 1..healthStarted : healthStopped'[k]
    BY <1>1, <2>1, Zenon
  <2> QED BY <2>2 DEF Health!StopOvertakesQueuedStart
<1>6. NotStartedYet' /\ QuietMeansEnded'
  <2>1. NotStartedYet'
    BY DEF HealthInv, NotStartedYet
  <2>2. quiet' = quiet /\ file' = file /\ loop' = loop /\ healthStarted' = healthStarted
    OBVIOUS
  <2>3. QuietMeansEnded'
    BY <2>2 DEF HealthInv, QuietMeansEnded
  <2> QED BY <2>1, <2>3
<1> QED BY <1>3, <1>4, <1>5, <1>6 DEF HealthInv

(* A step of a caller that starts, stops and signals no loop.                *)
LEMMA CallOnlyKeeps ==
    ASSUME HealthInv, NEW c \in HealthCallers, NEW r \in CallRecords,
           healthCall' = [healthCall EXCEPT ![c] = r], r.mark <= healthStarted, JoinsAll(r, loop),
           UNCHANGED <<generation, healthStarted, loop, healthStopped, dones, requestGen, quiet>>,
           file' => file
    PROVE  HealthInv'
<1>1. HealthTypeOK'
  BY DEF HealthInv, HealthTypeOK
<1>2. StopsJoinAll'
  <2>1. LaterLoops
    BY LoopBound DEF LaterLoops, HealthInv, HealthTypeOK
  <2>2. r.mark <= healthStarted' /\ JoinsAll(r, loop')
    OBVIOUS
  <2> QED BY <2>1, <2>2, CallsStillCovered
<1>3. NotStartedYet' /\ Health!UnfinishedAreKept'
  BY DEF HealthInv, NotStartedYet, Health!UnfinishedAreKept
<1>4. Health!StopOvertakesQueuedStart'
  BY DEF HealthInv, Health!StopOvertakesQueuedStart
<1>5. QuietMeansEnded'
  BY DEF HealthInv, QuietMeansEnded
<1> QED BY <1>1, <1>2, <1>3, <1>4, <1>5 DEF HealthInv

LEMMA RequestManagedKeeps ==
    ASSUME HealthInv, NEW c \in HealthCallers, Health!RequestManaged(c) PROVE HealthInv'
<1> DEFINE r == [Health!Idle EXCEPT !.at = "queued", !.gen = generation]
<1>1. /\ healthCall' = [healthCall EXCEPT ![c] = r]
      /\ UNCHANGED <<generation, healthStarted, loop, healthStopped, dones, requestGen, quiet, file>>
  BY DEF Health!RequestManaged
<1>2. r \in CallRecords /\ r.at = "queued" /\ r.mark = 0
  BY DEF Health!Idle, CallRecords, HealthInv, HealthTypeOK
<1> HIDE DEF r
<1>3. JoinsAll(r, loop) /\ r.mark <= healthStarted
  BY <1>2, JoinsNothing, LoopBound DEF HealthInv, HealthTypeOK
<1> QED BY <1>1, <1>2, <1>3, CallOnlyKeeps

(* A queued start stops the loops and waits for them, or has been overtaken. *)
LEMMA ReplaceKeeps ==
    ASSUME HealthInv, NEW c \in HealthCallers, Health!Replace(c) PROVE HealthInv'
<1> DEFINE q == healthCall[c]
           r == [q EXCEPT !.at = "replacing", !.joins = Health!Unfinished]
<1>1. UNCHANGED <<generation, healthStarted, loop, requestGen, file, quiet>>
  BY DEF Health!Replace
<1>2. q \in CallRecords /\ q.mark <= healthStarted /\ healthStarted \in Nat
  BY LoopBound DEF HealthInv, HealthTypeOK, StopsJoinAll
<1>3. CASE Health!Current(c)
  <2>1. Health!StopLocked /\ healthCall' = [healthCall EXCEPT ![c] = r]
    BY <1>3 DEF Health!Replace
  <2>2. Health!Unfinished \in SUBSET Health!Loops
    BY DEF Health!Unfinished, HealthInv, HealthTypeOK
  <2>3. r \in CallRecords /\ r.at = "replacing" /\ r.mark = q.mark
    BY <1>2, <2>2 DEF CallRecords
  <2> HIDE DEF r, q
  <2>4. JoinsAll(r, loop')
    BY <2>3, JoinsNothing
  <2>5. StopsJoinAll'
    <3>1. LaterLoops /\ r.mark <= healthStarted'
      BY <1>1, <1>2, <2>3 DEF LaterLoops
    <3> QED BY <2>1, <2>3, <2>4, <3>1, CallsStillCovered
  <2>6. healthCall' \in [HealthCallers -> CallRecords] /\ generation' \in Nat
    BY <1>1, <2>1, <2>3 DEF HealthInv, HealthTypeOK
  <2> QED BY <1>1, <2>1, <2>5, <2>6, StopLockedKeeps
<1>4. CASE ~Health!Current(c)
  <2>1. healthCall' = [healthCall EXCEPT ![c] = Health!Idle] /\ UNCHANGED <<healthStopped, dones>>
    BY <1>4 DEF Health!Replace
  <2>2. JoinsAll(Health!Idle, loop) /\ Health!Idle.mark <= healthStarted
    BY <1>2, IdleCall, JoinsNothing
  <2> QED BY <1>1, <2>1, <2>2, IdleCall, CallOnlyKeeps
<1> QED BY <1>3, <1>4

(* The start that was waited for happens only if no stop came meanwhile.     *)
LEMMA FinishReplaceKeeps ==
    ASSUME HealthInv, NEW c \in HealthCallers, Health!FinishReplace(c) PROVE HealthInv'
<1>1. /\ healthCall' = [healthCall EXCEPT ![c] = Health!Idle] /\ Health!StartIfCurrent(c)
      /\ UNCHANGED <<generation, healthStopped, file>>
  BY DEF Health!FinishReplace
<1>2. CASE Health!Current(c)
  <2>1. Health!StartLocked(generation)
    BY <1>1, <1>2 DEF Health!StartIfCurrent, Health!Current
  <2>2. /\ healthStarted' = healthStarted + 1 /\ healthStarted \in Nat
        /\ healthStarted + 1 \in Health!Loops
        /\ loop' = [loop EXCEPT ![healthStarted + 1] = "checking"]
        /\ dones' = dones \cup {healthStarted + 1}
        /\ requestGen' = [requestGen EXCEPT ![healthStarted + 1] = generation]
    BY <2>1, LoopBound DEF Health!StartLocked, Health!Loops, HealthInv, HealthTypeOK
  <2>3. HealthTypeOK'
    BY <1>1, <2>2, IdleCall, LoopBound DEF HealthInv, HealthTypeOK, Health!Loops
  <2>4. \A k \in 1..healthStarted : loop[k] = "done" => loop'[k] = "done"
    BY <2>2 DEF HealthInv, HealthTypeOK, Health!Loops
  <2>5. JoinsAll(Health!Idle, loop') /\ Health!Idle.mark <= healthStarted'
    BY <2>2, IdleCall, JoinsNothing
  <2>6. StopsJoinAll'
    <3>1. LaterLoops
      BY <2>2, <2>4 DEF LaterLoops
    <3> QED BY <1>1, <2>5, <3>1, IdleCall, CallsStillCovered
  <2> QED BY <1>1, <2>1, <2>3, <2>6, StartLockedKeeps
<1>3. CASE ~Health!Current(c)
  <2>1. UNCHANGED <<healthStarted, loop, dones, requestGen, quiet>>
    BY <1>1, <1>3 DEF Health!StartIfCurrent
  <2>2. JoinsAll(Health!Idle, loop) /\ Health!Idle.mark <= healthStarted
    BY IdleCall, JoinsNothing, LoopBound DEF HealthInv, HealthTypeOK
  <2> QED BY <1>1, <2>1, <2>2, IdleCall, CallOnlyKeeps
<1> QED BY <1>2, <1>3

LEMMA StartAdditionalKeeps ==
    ASSUME HealthInv, NEW c \in HealthCallers, Health!StartAdditional(c) PROVE HealthInv'
<1>1. Health!StartLocked(generation) /\ UNCHANGED <<generation, healthStopped, healthCall, file>>
  BY DEF Health!StartAdditional
<1>2. /\ healthStarted' = healthStarted + 1 /\ healthStarted \in Nat
      /\ healthStarted + 1 \in Health!Loops
      /\ loop' = [loop EXCEPT ![healthStarted + 1] = "checking"]
      /\ dones' = dones \cup {healthStarted + 1}
      /\ requestGen' = [requestGen EXCEPT ![healthStarted + 1] = generation]
  BY <1>1, LoopBound DEF Health!StartLocked, Health!Loops, HealthInv, HealthTypeOK
<1>3. HealthTypeOK'
  BY <1>1, <1>2, LoopBound DEF HealthInv, HealthTypeOK, Health!Loops
<1>4. \A k \in 1..healthStarted : loop[k] = "done" => loop'[k] = "done"
  BY <1>2 DEF HealthInv, HealthTypeOK, Health!Loops
<1>5. StopsJoinAll'
  <2>1. LaterLoops
    BY <1>2, <1>4 DEF LaterLoops
  <2> QED BY <1>1, <2>1, CallsUntouched
<1> QED BY <1>1, <1>3, <1>5, StartLockedKeeps

(* A stop joins every loop that has not ended: periodicDones has them all.   *)
LEMMA BeginStopKeeps ==
    ASSUME HealthInv, NEW c \in HealthCallers, NEW bounded \in BOOLEAN, NEW reset \in BOOLEAN,
           Health!BeginStop(c, bounded, reset)
    PROVE  HealthInv'
<1> DEFINE r == [Health!Idle EXCEPT !.at = "stopping", !.bounded = bounded, !.reset = reset,
                                    !.joins = Health!Unfinished, !.mark = healthStarted]
<1>1. /\ Health!StopLocked /\ healthCall' = [healthCall EXCEPT ![c] = r]
      /\ generation' = generation + 1
      /\ UNCHANGED <<healthStarted, loop, requestGen, file, quiet>>
  BY DEF Health!BeginStop
<1>2. Health!Unfinished \in SUBSET Health!Loops /\ healthStarted \in Nat /\ generation \in Nat
  BY LoopBound DEF Health!Unfinished, HealthInv, HealthTypeOK
<1>3. /\ r \in CallRecords /\ r.at = "stopping" /\ r.mark = healthStarted
      /\ r.joins = Health!Unfinished
  BY <1>2 DEF CallRecords, Health!Idle
<1> HIDE DEF r
<1>4. JoinsAll(r, loop')
  BY <1>1, <1>3 DEF JoinsAll, EndedOrIn, Health!Unfinished, HealthInv, Health!UnfinishedAreKept
<1>5. StopsJoinAll'
  <2>1. LaterLoops /\ r.mark <= healthStarted'
    BY <1>1, <1>2, <1>3 DEF LaterLoops
  <2> QED BY <1>1, <1>3, <1>4, <2>1, CallsStillCovered
<1>6. healthCall' \in [HealthCallers -> CallRecords] /\ generation' \in Nat
  BY <1>1, <1>2, <1>3 DEF HealthInv, HealthTypeOK
<1> QED BY <1>1, <1>5, <1>6, StopLockedKeeps

(* Without a deadline the wait ends with the last loop.                      *)
LEMMA EndStopKeeps ==
    ASSUME HealthInv, NEW c \in HealthCallers, Health!EndStop(c) PROVE HealthInv'
<1> DEFINE q == healthCall[c]
           r == [q EXCEPT !.at = "cleaning"]
<1>1. /\ q.at = "stopping" /\ (Health!Joined(c) \/ q.bounded)
      /\ UNCHANGED <<generation, healthStarted, loop, healthStopped, dones, requestGen, quiet>>
  BY DEF Health!EndStop
<1>2. file' => file
  BY DEF Health!EndStop
<1>3. q \in CallRecords /\ q.mark <= healthStarted /\ JoinsAll(q, loop) /\ healthStarted \in Nat
  BY LoopBound DEF HealthInv, HealthTypeOK, StopsJoinAll
<1>4. CASE healthCall' = [healthCall EXCEPT ![c].at = "cleaning"]
  <2>1. r \in CallRecords /\ r.at = "cleaning" /\ r.mark = q.mark /\ r.bounded = q.bounded
    BY <1>3 DEF CallRecords
  <2>2. healthCall' = [healthCall EXCEPT ![c] = r]
    BY <1>4
  <2>3. ~q.bounded => \A k \in q.joins : loop[k] = "done"
    BY <1>1 DEF Health!Joined
  <2> HIDE DEF r, q
  <2>4. JoinsAll(r, loop)
    BY <1>1, <1>3, <2>1, <2>3 DEF JoinsAll, EndedOrIn
  <2> QED BY <1>1, <1>2, <1>3, <2>1, <2>2, <2>4, CallOnlyKeeps
<1>5. CASE healthCall' = [healthCall EXCEPT ![c] = Health!Idle]
  <2>1. JoinsAll(Health!Idle, loop) /\ Health!Idle.mark <= healthStarted
    BY <1>3, IdleCall, JoinsNothing
  <2> QED BY <1>1, <1>2, <1>5, <2>1, IdleCall, CallOnlyKeeps
<1> QED BY <1>4, <1>5 DEF Health!EndStop

(* The file goes; it can come back only through a loop that has not ended.   *)
LEMMA HealthCleanupKeeps ==
    ASSUME HealthInv, NEW c \in HealthCallers, Health!Cleanup(c) PROVE HealthInv'
<1> DEFINE q == healthCall[c]
<1>1. /\ q.at = "cleaning" /\ healthCall' = [healthCall EXCEPT ![c] = Health!Idle]
      /\ UNCHANGED <<generation, healthStarted, loop, healthStopped, dones, requestGen>>
  BY DEF Health!Cleanup
<1>2. q \in CallRecords /\ q.mark <= healthStarted /\ JoinsAll(q, loop) /\ healthStarted \in Nat
  BY LoopBound DEF HealthInv, HealthTypeOK, StopsJoinAll
<1>3. JoinsAll(Health!Idle, loop) /\ Health!Idle.mark <= healthStarted
  BY <1>2, IdleCall, JoinsNothing
<1>4. CASE UNCHANGED <<file, quiet>>
  BY <1>1, <1>3, <1>4, IdleCall, CallOnlyKeeps
<1>5. CASE file' = FALSE /\ quiet' = (quiet \/ (~q.bounded /\ q.mark = healthStarted))
  <2>1. HealthTypeOK'
    BY <1>1, IdleCall DEF HealthInv, HealthTypeOK
  <2>2. StopsJoinAll'
    <3>1. LaterLoops /\ JoinsAll(Health!Idle, loop') /\ Health!Idle.mark <= healthStarted'
      BY <1>1, <1>2, <1>3 DEF LaterLoops
    <3> QED BY <1>1, <3>1, IdleCall, CallsStillCovered
  <2>3. NotStartedYet' /\ Health!UnfinishedAreKept'
    BY <1>1 DEF HealthInv, NotStartedYet, Health!UnfinishedAreKept
  <2>4. Health!StopOvertakesQueuedStart'
    BY <1>1 DEF HealthInv, Health!StopOvertakesQueuedStart
  <2>5. ~q.bounded /\ q.mark = healthStarted => EndedOrIn(loop, healthStarted, {})
    BY <1>1, <1>2 DEF JoinsAll
  <2>6. quiet => EndedOrIn(loop, healthStarted, {})
    BY DEF HealthInv, QuietMeansEnded
  <2>7. quiet' => EndedOrIn(loop, healthStarted, {})
    BY <1>5, <2>5, <2>6, Zenon
  <2>8. ~file'
    BY <1>5
  <2>9. QuietMeansEnded'
    BY <1>1, <2>7, <2>8 DEF QuietMeansEnded
  <2> QED BY <2>1, <2>2, <2>3, <2>4, <2>9 DEF HealthInv
<1> QED BY <1>4, <1>5 DEF Health!Cleanup

(* A loop's own steps; one that writes has not ended, so no Reset is quiet.  *)
LEMMA LoopStepKeeps ==
    ASSUME HealthInv, NEW k \in Health!Loops, NEW s \in {"checking", "admitted", "selecting", "done"},
           loop' = [loop EXCEPT ![k] = s], loop[k] \notin {"none", "done"},
           UNCHANGED <<generation, healthStarted, healthStopped, dones, healthCall, requestGen, quiet>>
    PROVE  HealthInv'
<1>1. HealthTypeOK' /\ healthStarted \in Nat
  BY LoopBound DEF HealthInv, HealthTypeOK
<1>2. \A j \in Health!Loops : loop'[j] = IF j = k THEN s ELSE loop[j]
  BY DEF HealthInv, HealthTypeOK
<1>3. \A j \in 1..healthStarted : j \in Health!Loops
  BY LoopBound DEF HealthInv, HealthTypeOK, Health!Loops
<1>4. StopsJoinAll'
  <2>1. LaterLoops
    BY <1>1, <1>2, <1>3 DEF LaterLoops
  <2> QED BY <2>1, CallsUntouched
<1>5. k <= healthStarted
  BY LoopBound DEF HealthInv, HealthTypeOK, NotStartedYet, Health!Loops
<1>6. NotStartedYet'
  BY <1>1, <1>2, <1>5 DEF HealthInv, NotStartedYet, Health!Loops
<1>7. Health!UnfinishedAreKept'
  BY <1>2, <1>3 DEF HealthInv, Health!UnfinishedAreKept
<1>8. Health!StopOvertakesQueuedStart'
  BY DEF HealthInv, Health!StopOvertakesQueuedStart
<1>9. ~quiet
  <2>1. k \in 1..healthStarted
    BY <1>1, <1>5 DEF Health!Loops
  <2> QED BY <2>1 DEF HealthInv, QuietMeansEnded, EndedOrIn
<1>10. ~quiet'
  BY <1>9
<1> QED BY <1>1, <1>4, <1>6, <1>7, <1>8, <1>10 DEF HealthInv, QuietMeansEnded

LEMMA HealthInvNext == ASSUME HealthInv, [Health!Next]_healthState PROVE HealthInv'
<1>1. ASSUME NEW c \in HealthCallers,
             \/ Health!RequestManaged(c) \/ Health!Replace(c) \/ Health!FinishReplace(c)
             \/ Health!StartAdditional(c) \/ Health!EndStop(c) \/ Health!Cleanup(c)
      PROVE  HealthInv'
  BY <1>1, RequestManagedKeeps, ReplaceKeeps, FinishReplaceKeeps, StartAdditionalKeeps, EndStopKeeps,
     HealthCleanupKeeps
<1>2. ASSUME NEW c \in HealthCallers, NEW b \in BOOLEAN, NEW r \in BOOLEAN, Health!BeginStop(c, b, r)
      PROVE  HealthInv'
  BY <1>2, BeginStopKeeps
<1>3. ASSUME UNCHANGED <<generation, healthStarted, loop, healthStopped, dones, healthCall,
                         requestGen, quiet>>, file' => file
      PROVE  HealthInv'
  <2>1. HealthTypeOK' /\ StopsJoinAll'
    BY <1>3 DEF HealthInv, HealthTypeOK, StopsJoinAll
  <2>2. NotStartedYet' /\ Health!UnfinishedAreKept'
    BY <1>3 DEF HealthInv, NotStartedYet, Health!UnfinishedAreKept
  <2>3. Health!StopOvertakesQueuedStart'
    BY <1>3 DEF HealthInv, Health!StopOvertakesQueuedStart
  <2>4. QuietMeansEnded'
    BY <1>3 DEF HealthInv, QuietMeansEnded
  <2> QED BY <2>1, <2>2, <2>3, <2>4 DEF HealthInv
<1>4. ASSUME NEW d, Health!Register(d) PROVE HealthInv'
  <2>1. UNCHANGED <<generation, healthStarted, loop, healthStopped, dones, healthCall, requestGen, quiet>>
    BY <1>4 DEF Health!Register
  <2>2. file' => file
    BY <1>4 DEF Health!Register
  <2> QED BY <1>3, <2>1, <2>2
<1>5. CASE Health!LateCleanup
  <2>1. UNCHANGED <<generation, healthStarted, loop, healthStopped, dones, healthCall, requestGen, quiet>>
    BY <1>5 DEF Health!LateCleanup
  <2>2. file' => file
    BY <1>5 DEF Health!LateCleanup
  <2> QED BY <1>3, <2>1, <2>2
<1>6. ASSUME NEW k \in Health!Loops, Health!Admit(k) \/ Health!Write(k) \/ Health!Select(k)
      PROVE  HealthInv'
  <2>1. UNCHANGED <<generation, healthStarted, healthStopped, dones, healthCall, requestGen, quiet>>
    BY <1>6 DEF Health!Admit, Health!Write, Health!Select
  <2>2. /\ loop[k] \notin {"none", "done"}
        /\ \E s \in {"checking", "admitted", "selecting", "done"} : loop' = [loop EXCEPT ![k] = s]
    BY <1>6 DEF Health!Admit, Health!Write, Health!Select
  <2> QED BY <2>1, <2>2, LoopStepKeeps
<1>7. CASE UNCHANGED healthState
  <2>1. UNCHANGED <<generation, healthStarted, loop, healthStopped, dones, healthCall, requestGen, quiet>>
    BY <1>7 DEF healthState
  <2>2. file' => file
    BY <1>7 DEF healthState
  <2> QED BY <1>3, <2>1, <2>2
<1> QED BY <1>1, <1>2, <1>4, <1>5, <1>6, <1>7 DEF Health!Next

(* A stop overtakes every start queued before it, an unbounded Reset leaves  *)
(* no liveness file behind, and no loop that can still write is forgotten.   *)
THEOREM HealthStopsAreFinal == ServicesSpec => []HealthStopsHold
<1> DEFINE I == part = "health" => HealthInv
<1>1. ServicesInit => I
  BY ChosenInit, HealthInvInit
<1>2. I /\ [ServicesNext]_servicesVars => I'
  BY ChosenStep, HealthInvNext
<1>3. I => HealthStopsHold
  BY DEF HealthStopsHold, HealthInv, QuietMeansEnded, Health!ResetLeavesNoFile
<1> QED BY <1>1, <1>2, <1>3, PTL DEF ServicesSpec

-----------------------------------------------------------------------------
(* The peer cache.  The server that Close took down stays down because a     *)
(* server that was shut down refuses to listen, whichever goroutine comes    *)
(* with it; a load knows the object it looked up, so what it stores is as    *)
(* new as that object.                                                       *)
ThreadType == [at : {"started", "listening", "ended"}, on : Nat]
ServerOK ==
    /\ servers \in Seq({"new", "listening", "closed"}) /\ server = Len(servers)
    /\ threads \in Seq(ThreadType)
    /\ Len(threads) = Len(servers)
    /\ \A k \in DOMAIN threads : threads[k].at = "listening" => threads[k].on \in DOMAIN servers
    /\ begun \in 0..Len(servers)
    /\ closed = "returned" /\ begun > 0 => servers[begun] = "closed"

ReaderType == [at : {"idle", "found", "loaded"}, of : Nat, key : CacheKeys \cup {"none"}, value : Nat]
GroupType == [born : Nat, cached : [CacheKeys -> Nat]]
FreshGroup(o) == \A k \in CacheKeys : o.cached[k] = 0 \/ o.cached[k] >= o.born
GroupsOK ==
    /\ source \in Nat /\ objects \in Seq(GroupType)
    /\ groups \in [GroupNames -> 0..Len(objects)]
    /\ \A n \in DOMAIN objects : FreshGroup(objects[n]) /\ objects[n].born <= source
    /\ reader \in ReaderType
    /\ reader.at # "idle" => reader.of \in DOMAIN objects /\ reader.key \in CacheKeys
    /\ reader.at = "loaded" => reader.value >= objects[reader.of].born

CacheInv == ServerOK /\ GroupsOK /\ Cache!EmptyOnlyWhenAsked

LEMMA CacheInvInit == ASSUME Cache!Init PROVE CacheInv
<1>1. ServerOK
  BY DEF Cache!Init, ServerOK
<1>2. GroupsOK
  <2>1. objects = <<>> /\ source = 1 /\ groups = [g \in GroupNames |-> 0] /\ reader.at = "idle"
    BY DEF Cache!Init, Cache!NotReading
  <2>2. reader \in ReaderType
    BY DEF Cache!Init, Cache!NotReading, ReaderType
  <2> QED BY <2>1, <2>2 DEF GroupsOK
<1>3. Cache!EmptyOnlyWhenAsked
  BY DEF Cache!Init, Cache!EmptyOnlyWhenAsked
<1> QED BY <1>1, <1>2, <1>3 DEF CacheInv

(* The three kinds of state are changed apart from each other.               *)
LEMMA PeersKept == ASSUME CacheInv, UNCHANGED Cache!peerVars PROVE Cache!EmptyOnlyWhenAsked'
BY DEF CacheInv, Cache!peerVars, Cache!EmptyOnlyWhenAsked

LEMMA ServersKept == ASSUME CacheInv, UNCHANGED Cache!serverVars PROVE ServerOK'
BY DEF CacheInv, Cache!serverVars, ServerOK

LEMMA GroupsKept == ASSUME CacheInv, UNCHANGED Cache!groupVars PROVE GroupsOK'
<1>1. UNCHANGED <<source, objects, groups, reader>> /\ GroupsOK
  BY DEF CacheInv, Cache!groupVars
<1> QED BY <1>1 DEF GroupsOK, FreshGroup

LEMMA StartServerKeeps == ASSUME CacheInv, Cache!StartServer PROVE ServerOK'
<1> DEFINE thread == [at |-> "started", on |-> 0]
<1>1. /\ ServerOK /\ servers' = Append(servers, "new") /\ server' = Len(servers) + 1
      /\ threads' = Append(threads, thread) /\ UNCHANGED <<closed, begun>>
  BY DEF CacheInv, Cache!StartServer
<1>2. thread \in ThreadType /\ thread.at = "started"
  BY DEF ThreadType
<1> HIDE DEF thread
<1>3. /\ servers' \in Seq({"new", "listening", "closed"}) /\ Len(servers') = Len(servers) + 1
      /\ \A k \in DOMAIN servers : servers'[k] = servers[k]
      /\ DOMAIN servers = 1..Len(servers) /\ Len(servers) \in Nat /\ DOMAIN servers \subseteq DOMAIN servers'
  BY <1>1 DEF ServerOK
<1>4. /\ threads' \in Seq(ThreadType)
      /\ Len(threads') = Len(threads) + 1
  BY <1>1, <1>2 DEF ServerOK
<1>5. \A k \in DOMAIN threads' : threads'[k].at = "listening" => k \in DOMAIN threads /\ threads'[k] = threads[k]
  <2> SUFFICES ASSUME NEW k \in DOMAIN threads', threads'[k].at = "listening"
               PROVE  k \in DOMAIN threads /\ threads'[k] = threads[k]
    OBVIOUS
  <2>1. threads \in Seq(ThreadType)
    BY <1>1 DEF ServerOK
  <2>2. k \in DOMAIN threads \/ threads'[k] = thread
    BY <1>1, <1>2, <2>1
  <2>3. k \in DOMAIN threads => threads'[k] = threads[k]
    BY <1>1, <1>2, <2>1
  <2> QED BY <1>2, <2>2, <2>3
<1>6. \A k \in DOMAIN threads' : threads'[k].at = "listening" => threads'[k].on \in DOMAIN servers'
  BY <1>1, <1>3, <1>5 DEF ServerOK
<1>7. begun' \in 0..Len(servers') /\ (closed' = "returned" /\ begun' > 0 => servers'[begun'] = "closed")
  BY <1>1, <1>3 DEF ServerOK
<1> QED BY <1>1, <1>3, <1>4, <1>6, <1>7 DEF ServerOK

LEMMA ThreadKeeps ==
    ASSUME CacheInv, NEW k \in DOMAIN threads, Cache!ReadServer(k) \/ Cache!Listen(k)
    PROVE  ServerOK'
<1>1. ServerOK /\ UNCHANGED <<server, closed, begun>>
  BY DEF CacheInv, Cache!ReadServer, Cache!Listen
<1>2. /\ Len(servers) \in Nat /\ DOMAIN servers = 1..Len(servers)
      /\ DOMAIN threads = DOMAIN servers /\ server \in DOMAIN servers
  BY <1>1 DEF ServerOK
<1>3. CASE Cache!ReadServer(k)
  <2> DEFINE thread == [at |-> "listening", on |-> server]
  <2>1. threads' = [threads EXCEPT ![k] = thread] /\ UNCHANGED servers
    BY <1>3 DEF Cache!ReadServer
  <2>2. thread \in ThreadType /\ thread.on \in DOMAIN servers
    BY <1>2 DEF ThreadType
  <2> HIDE DEF thread
  <2> QED BY <1>1, <1>2, <2>1, <2>2 DEF ServerOK
<1>4. CASE Cache!Listen(k)
  <2> DEFINE s == threads[k].on
             thread == [threads[k] EXCEPT !.at = "ended"]
  <2>1. /\ threads' = [threads EXCEPT ![k] = thread]
        /\ \/ UNCHANGED servers
           \/ servers[s] # "closed" /\ servers' = [servers EXCEPT ![s] = "listening"]
    BY <1>4 DEF Cache!Listen
  <2>2. s \in DOMAIN servers
    BY <1>1, <1>4 DEF ServerOK, Cache!Listen
  <2>3. thread \in ThreadType /\ thread.at = "ended"
    <3>1. threads[k] \in ThreadType
      BY <1>1, <1>2 DEF ServerOK
    <3> QED BY <3>1 DEF ThreadType
  <2> HIDE DEF thread, s
  <2>4. /\ servers' \in Seq({"new", "listening", "closed"}) /\ Len(servers') = Len(servers)
        /\ \A j \in DOMAIN servers : servers[j] = "closed" => servers'[j] = "closed"
    <3>1. CASE UNCHANGED servers
      BY <1>1, <3>1 DEF ServerOK
    <3>2. CASE servers[s] # "closed" /\ servers' = [servers EXCEPT ![s] = "listening"]
      BY <1>1, <1>2, <2>2, <3>2 DEF ServerOK
    <3> QED BY <2>1, <3>1, <3>2
  <2>5. /\ threads' \in Seq(ThreadType)
        /\ Len(threads') = Len(threads) /\ DOMAIN threads' = DOMAIN threads
        /\ \A j \in DOMAIN threads : threads'[j] = IF j = k THEN thread ELSE threads[j]
    BY <1>1, <1>2, <2>1, <2>3 DEF ServerOK
  <2>6. \A j \in DOMAIN threads' : threads'[j].at = "listening" => threads'[j].on \in DOMAIN servers'
    <3>1. DOMAIN servers' = DOMAIN servers
      BY <1>2, <2>4
    <3>2. \A j \in DOMAIN threads : threads[j].at = "listening" => threads[j].on \in DOMAIN servers
      BY <1>1 DEF ServerOK
    <3> QED BY <2>3, <2>5, <3>1, <3>2
  <2> QED BY <1>1, <1>2, <2>4, <2>5, <2>6 DEF ServerOK
<1> QED BY <1>3, <1>4

LEMMA CacheCloseKeeps == ASSUME CacheInv, Cache!Close \/ Cache!EndClose PROVE ServerOK'
<1>1. ServerOK /\ UNCHANGED <<server, threads>> /\ Len(servers) \in Nat /\ DOMAIN servers = 1..Len(servers)
  BY DEF CacheInv, Cache!Close, Cache!EndClose, ServerOK
<1>2. CASE Cache!Close
  BY <1>1, <1>2 DEF ServerOK, Cache!Close
<1>3. CASE Cache!EndClose
  <2>1. servers' = [s \in DOMAIN servers |-> IF s = server THEN "closed" ELSE servers[s]] /\ begun' = Len(servers)
    BY <1>3 DEF Cache!EndClose
  <2>2. servers' \in Seq({"new", "listening", "closed"}) /\ Len(servers') = Len(servers)
    BY <1>1, <2>1 DEF ServerOK
  <2>3. begun' > 0 => servers'[begun'] = "closed"
    BY <1>1, <2>1 DEF ServerOK
  <2> QED BY <1>1, <2>1, <2>2, <2>3 DEF ServerOK
<1> QED BY <1>2, <1>3

LEMMA PeersChange ==
    ASSUME CacheInv,
           \/ Cache!SetPeers
           \/ \E l \in DiscoveryLoops : Cache!StartK8sDiscovery(l) \/ Cache!Tick(l) \/ Cache!Discover(l)
    PROVE  Cache!EmptyOnlyWhenAsked'
BY DEF CacheInv, Cache!SetPeers, Cache!StartK8sDiscovery, Cache!Tick, Cache!Discover, Cache!EmptyOnlyWhenAsked

(* A value is written into an object no older than the object.               *)
LEMMA WriteKeeps ==
    ASSUME GroupsOK, NEW n \in DOMAIN objects, NEW k \in CacheKeys, NEW v \in Nat,
           v = 0 \/ v >= objects[n].born,
           objects' = [objects EXCEPT ![n].cached[k] = v]
    PROVE  /\ objects' \in Seq(GroupType) /\ Len(objects') = Len(objects) /\ DOMAIN objects' = DOMAIN objects
           /\ \A m \in DOMAIN objects : FreshGroup(objects'[m]) /\ objects'[m].born = objects[m].born
<1>1. objects \in Seq(GroupType) /\ objects[n] \in GroupType
  BY DEF GroupsOK
<1> DEFINE o == [objects[n] EXCEPT !.cached[k] = v]
<1>2. /\ o \in GroupType /\ o.born = objects[n].born
      /\ o.cached = [objects[n].cached EXCEPT ![k] = v]
  BY <1>1 DEF GroupType
<1>3. FreshGroup(o)
  BY <1>1, <1>2 DEF GroupsOK, FreshGroup, GroupType
<1>4. objects' = [objects EXCEPT ![n] = o]
  OBVIOUS
<1> HIDE DEF o
<1>5. /\ objects' \in Seq(GroupType) /\ Len(objects') = Len(objects) /\ DOMAIN objects' = DOMAIN objects
      /\ \A m \in DOMAIN objects : objects'[m] = IF m = n THEN o ELSE objects[m]
  BY <1>1, <1>2, <1>4
<1> QED BY <1>2, <1>3, <1>5 DEF GroupsOK

LEMMA CreateGroupKeeps == ASSUME CacheInv, NEW g \in GroupNames, Cache!CreateGroup(g) PROVE GroupsOK'
<1> DEFINE o == [born |-> source, cached |-> [k \in CacheKeys |-> 0]]
<1>1. /\ GroupsOK /\ objects' = Append(objects, o) /\ groups' = [groups EXCEPT ![g] = Len(objects) + 1]
      /\ UNCHANGED <<reader, source>>
  BY DEF CacheInv, Cache!CreateGroup
<1>2. o \in GroupType /\ FreshGroup(o) /\ o.born = source
  BY <1>1 DEF GroupsOK, GroupType, FreshGroup
<1> HIDE DEF o
<1>3. /\ objects' \in Seq(GroupType) /\ Len(objects') = Len(objects) + 1 /\ Len(objects) \in Nat
      /\ DOMAIN objects \subseteq DOMAIN objects' /\ \A n \in DOMAIN objects : objects'[n] = objects[n]
      /\ \A n \in DOMAIN objects' : n \in DOMAIN objects \/ objects'[n] = o
  BY <1>1, <1>2 DEF GroupsOK
<1>4. groups' \in [GroupNames -> 0..Len(objects')]
  BY <1>1, <1>3 DEF GroupsOK
<1>5. \A n \in DOMAIN objects' : FreshGroup(objects'[n]) /\ objects'[n].born <= source
  BY <1>1, <1>2, <1>3 DEF GroupsOK
<1> QED BY <1>1, <1>3, <1>4, <1>5 DEF GroupsOK

LEMMA GroupUseKeeps ==
    ASSUME CacheInv,
           \/ Cache!Load \/ Cache!Store \/ Cache!SourceChanges
           \/ \E g \in GroupNames : Cache!RemoveGroup(g)
           \/ \E g \in GroupNames, k \in CacheKeys : Cache!Get(g, k) \/ Cache!Set(g, k) \/ Cache!Remove(g, k)
    PROVE  GroupsOK'
<1>1. GroupsOK /\ Len(objects) \in Nat /\ DOMAIN objects = 1..Len(objects)
  BY DEF CacheInv, GroupsOK
<1>2. CASE Cache!SourceChanges
  <2>1. source' = source + 1 /\ UNCHANGED <<objects, groups, reader>>
    BY <1>2 DEF Cache!SourceChanges
  <2>2. \A n \in DOMAIN objects : objects[n].born \in Nat
    <3>1. \A n \in DOMAIN objects : objects[n] \in GroupType
      BY <1>1 DEF GroupsOK
    <3> QED BY <3>1 DEF GroupType
  <2> QED BY <1>1, <2>1, <2>2 DEF GroupsOK, FreshGroup
<1>3. CASE \E g \in GroupNames : Cache!RemoveGroup(g)
  <2>1. groups' \in [GroupNames -> 0..Len(objects)] /\ UNCHANGED <<objects, reader, source>>
    BY <1>1, <1>3 DEF GroupsOK, Cache!RemoveGroup
  <2> QED BY <1>1, <2>1 DEF GroupsOK, FreshGroup
<1>4. ASSUME NEW g \in GroupNames, NEW k \in CacheKeys, Cache!Get(g, k) PROVE GroupsOK'
  <2>1. /\ reader' = [at |-> "found", of |-> groups[g], key |-> k, value |-> 0]
        /\ groups[g] # 0 /\ UNCHANGED <<objects, groups, source>>
    BY <1>4 DEF Cache!Get
  <2>2. /\ reader'.of \in DOMAIN objects /\ reader'.at = "found" /\ reader'.key = k
        /\ reader' \in ReaderType
    BY <1>1, <2>1 DEF GroupsOK, ReaderType
  <2> QED BY <1>1, <2>1, <2>2 DEF GroupsOK, FreshGroup
<1>5. CASE Cache!Load
  <2>1. UNCHANGED <<objects, groups, source>> /\ reader.at = "found"
    BY <1>5 DEF Cache!Load
  <2>2. CASE reader' = [reader EXCEPT !.at = "loaded", !.value = source]
    <3>1. /\ reader' \in ReaderType /\ reader'.of = reader.of /\ reader'.key = reader.key
          /\ reader'.value = source /\ reader'.at = "loaded"
      BY <1>1, <2>2 DEF GroupsOK, ReaderType
    <3> QED BY <1>1, <2>1, <3>1 DEF GroupsOK, FreshGroup
  <2>3. CASE reader' = Cache!NotReading
    <3>1. reader' \in ReaderType /\ reader'.at = "idle"
      BY <2>3 DEF Cache!NotReading, ReaderType
    <3> QED BY <1>1, <2>1, <3>1 DEF GroupsOK, FreshGroup
  <2> QED BY <1>5, <2>2, <2>3 DEF Cache!Load
<1>6. CASE Cache!Store
  <2>1. /\ objects' = [objects EXCEPT ![reader.of].cached[reader.key] = reader.value]
        /\ reader.at = "loaded" /\ reader'.at = "idle" /\ UNCHANGED <<groups, source>>
        /\ reader' \in ReaderType
    BY <1>6 DEF Cache!Store, Cache!NotReading, ReaderType
  <2>2. reader.of \in DOMAIN objects /\ reader.key \in CacheKeys /\ reader.value \in Nat
        /\ reader.value >= objects[reader.of].born
    BY <1>1, <2>1 DEF GroupsOK, ReaderType
  <2>3. /\ objects' \in Seq(GroupType) /\ Len(objects') = Len(objects) /\ DOMAIN objects' = DOMAIN objects
        /\ \A m \in DOMAIN objects : FreshGroup(objects'[m]) /\ objects'[m].born = objects[m].born
    BY <1>1, <2>1, <2>2, WriteKeeps
  <2> QED BY <1>1, <2>1, <2>3 DEF GroupsOK
<1>7. ASSUME NEW g \in GroupNames, NEW k \in CacheKeys, Cache!Set(g, k) \/ Cache!Remove(g, k)
      PROVE  GroupsOK'
  <2>1. PICK v \in {source, 0} : objects' = [objects EXCEPT ![groups[g]].cached[k] = v]
    BY <1>7 DEF Cache!Set, Cache!Remove
  <2>2. groups[g] \in DOMAIN objects /\ UNCHANGED <<groups, reader, source>>
    BY <1>1, <1>7 DEF GroupsOK, Cache!Set, Cache!Remove
  <2>3. v \in Nat /\ (v = 0 \/ v >= objects[groups[g]].born)
    BY <1>1, <2>1, <2>2 DEF GroupsOK
  <2>4. /\ objects' \in Seq(GroupType) /\ Len(objects') = Len(objects) /\ DOMAIN objects' = DOMAIN objects
        /\ \A m \in DOMAIN objects : FreshGroup(objects'[m]) /\ objects'[m].born = objects[m].born
    BY <1>1, <2>1, <2>2, <2>3, WriteKeeps
  <2> QED BY <1>1, <2>2, <2>4 DEF GroupsOK
<1> QED BY <1>2, <1>3, <1>4, <1>5, <1>6, <1>7

LEMMA CacheInvNext == ASSUME CacheInv, [Cache!Next]_cacheState PROVE CacheInv'
<1>1. CASE Cache!StartServer \/ Cache!Close \/ Cache!EndClose \/ \E k \in DOMAIN threads : Cache!ReadServer(k) \/ Cache!Listen(k)
  <2>1. UNCHANGED <<Cache!peerVars, Cache!groupVars>>
    BY <1>1 DEF Cache!StartServer, Cache!Close, Cache!EndClose, Cache!ReadServer, Cache!Listen
  <2>2. ServerOK'
    BY <1>1, StartServerKeeps, CacheCloseKeeps, ThreadKeeps
  <2> QED BY <2>1, <2>2, PeersKept, GroupsKept DEF CacheInv
<1>2. CASE Cache!SetPeers \/ \E l \in DiscoveryLoops : Cache!StartK8sDiscovery(l) \/ Cache!Tick(l) \/ Cache!Discover(l)
  <2>1. UNCHANGED <<Cache!groupVars, Cache!serverVars>>
    BY <1>2 DEF Cache!SetPeers, Cache!StartK8sDiscovery, Cache!Tick, Cache!Discover
  <2>2. Cache!EmptyOnlyWhenAsked'
    BY <1>2, PeersChange
  <2> QED BY <2>1, <2>2, ServersKept, GroupsKept DEF CacheInv
<1>3. CASE \/ Cache!Load \/ Cache!Store \/ Cache!SourceChanges
           \/ \E g \in GroupNames : Cache!CreateGroup(g) \/ Cache!RemoveGroup(g)
           \/ \E g \in GroupNames, k \in CacheKeys : Cache!Get(g, k) \/ Cache!Set(g, k) \/ Cache!Remove(g, k)
  <2>1. UNCHANGED <<Cache!peerVars, Cache!serverVars>>
    BY <1>3 DEF Cache!Load, Cache!Store, Cache!SourceChanges, Cache!CreateGroup, Cache!RemoveGroup,
                Cache!Get, Cache!Set, Cache!Remove
  <2>2. GroupsOK'
    BY <1>3, CreateGroupKeeps, GroupUseKeeps
  <2> QED BY <2>1, <2>2, PeersKept, ServersKept DEF CacheInv
<1>4. CASE UNCHANGED cacheState
  <2>1. UNCHANGED <<Cache!peerVars, Cache!groupVars, Cache!serverVars>>
    BY <1>4 DEF cacheState, Cache!peerVars, Cache!groupVars, Cache!serverVars
  <2> QED BY <2>1, PeersKept, ServersKept, GroupsKept DEF CacheInv
<1> QED BY <1>1, <1>2, <1>3, <1>4 DEF Cache!Next

(* The peer server that Close took down never listens again, whichever       *)
(* goroutine comes late; the pool is empty only when a caller asked for it;  *)
(* and a group created again answers nothing older than itself.              *)
THEOREM ClosedCachesStayClosed == ServicesSpec => []CacheIsConsistent
<1> DEFINE I == part = "cache" => CacheInv
<1>1. ServicesInit => I
  BY ChosenInit, CacheInvInit
<1>2. I /\ [ServicesNext]_servicesVars => I'
  BY ChosenStep, CacheInvNext
<1>3. ASSUME CacheInv PROVE Cache!ClosedForGood
  BY <1>3 DEF CacheInv, ServerOK, Cache!ClosedForGood
<1>4. ASSUME CacheInv PROVE Cache!NewGroupsAreFresh
  <2> SUFFICES ASSUME NEW g \in GroupNames, groups[g] # 0 PROVE FreshGroup(objects[groups[g]])
    BY DEF Cache!NewGroupsAreFresh, FreshGroup
  <2>1. groups[g] \in DOMAIN objects
    BY <1>4 DEF CacheInv, GroupsOK
  <2> QED BY <1>4, <2>1 DEF CacheInv, GroupsOK
<1>5. I => CacheIsConsistent
  BY <1>3, <1>4 DEF CacheIsConsistent, CacheInv
<1> QED BY <1>1, <1>2, <1>5, PTL DEF ServicesSpec

-----------------------------------------------------------------------------
(* The gRPC server.  One unary call: the mailbox holds the first result, an   *)
(* answer is taken from it, and every authorization that has run passed the   *)
(* call or has reported a result, so a handler's result that comes first is   *)
(* behind the authorizations in front of the handlers.                        *)
Reported == {"ok", "internal", "unauthenticated"}
Authorized(x) == \A k \in 1..Len(x.chain) : GRPC!Guards(x.chain, k) => k \in x.passed

RPCType ==
    [at : {"unsent", "chain", "waiting", "answered"}, i : Nat, nexts : Nat,
     passed : SUBSET Nat,
     chain : HandlerChains \cup {<<>>}, box : Reported \cup {GRPC!None},
     first : Reported \cup {GRPC!None}, cancelled : BOOLEAN,
     answer : Reported \cup {GRPC!None, "unimplemented", "cancelled"}]

AnswerOK(x) ==
    /\ x.answer \in {"ok", "unauthenticated"} => x.answer = x.first
    /\ x.answer = "internal" => x.first \in {"ok", "internal"} \/ x.i = 1
    /\ x.answer # GRPC!None => x.at = "answered"

(* What has run in front of place i.                                         *)
Passed(x) ==
    \A k \in 1..Len(x.chain) :
        k < x.i /\ x.chain[k] = "authorize" => k \in x.passed \/ x.first # GRPC!None

RPCOK(x) ==
    /\ x \in RPCType
    /\ x.box = x.first
    /\ AnswerOK(x) /\ Passed(x)
    /\ x.first = "ok" => Authorized(x)
    /\ IF x.at = "unsent" THEN x.first = GRPC!None ELSE x.i # 0

CallType ==
    [at : {"idle", "listening", "serving", "served", "drain", "join", "deadline", "returned"},
     active : BOOLEAN,
     got : {GRPC!None, "nil", "already running", "listen failed", "served", "deadline", "stopped"}]

(* The life of the listener, while nobody forced it and it did not fail.  At  *)
(* first nothing is served; then one Start serves, and nobody else can become *)
(* a listener because the server is running or stopping; and once the drain   *)
(* is over, or a stop came before Serve, no call is in a handler and none can *)
(* begin.  Only then has done been closed or a graceful shutdown ended.       *)
NobodyAt(places) == \A c \in GRPCCallers : grpcCall[c].at \notin places
Unended ==
    /\ ~done /\ drain # "ended"
    /\ \A c \in GRPCCallers : ~(grpcCall[c].active /\ grpcCall[c].got = "nil")

NotServing ==
    /\ transport = "fresh" /\ GRPC!Running = {} /\ Unended /\ NobodyAt({"serving", "served"})
    /\ \A c, d \in GRPCCallers :
           grpcCall[c].at = "listening" => /\ running \/ stopping
                                           /\ grpcCall[d].at = "listening" => c = d
Serving ==
    /\ transport \in {"serving", "quit"} /\ Unended /\ NobodyAt({"listening", "served"})
    /\ running \/ stopping
Down == transport \in {"quit", "closed"} /\ GRPC!Running = {}

RPCsOK == rpc = [r \in RPCs |-> rpc[r]] /\ \A r \in RPCs : RPCOK(rpc[r])
CallsOK ==
    /\ grpcCall \in [GRPCCallers -> CallType]
    /\ \A c \in GRPCCallers : grpcCall[c].at # "returned" => grpcCall[c].got = GRPC!None
    /\ grpcRegistered \in HandlerChains \cup {<<>>}
LifeOK == ~forced /\ ~broken => NotServing \/ Serving \/ Down

GRPCInv == RPCsOK /\ CallsOK /\ LifeOK

LEMMA GRPCInvInit == ASSUME GRPC!Init PROVE GRPCInv
<1>1. /\ rpc = [r \in RPCs |-> GRPC!Unsent] /\ grpcCall = [c \in GRPCCallers |-> GRPC!Idle]
      /\ grpcRegistered = <<>> /\ transport = "fresh" /\ ~done /\ drain = GRPC!None
  BY DEF GRPC!Init
<1>2. RPCOK(GRPC!Unsent) /\ GRPC!Unsent.at = "unsent"
  BY DEF RPCOK, RPCType, AnswerOK, Passed, GRPC!Unsent, GRPC!None, Reported
<1>3. RPCsOK /\ GRPC!Running = {}
  BY <1>1, <1>2 DEF RPCsOK, GRPC!Running
<1>4. GRPC!Idle \in CallType /\ GRPC!Idle.at = "idle" /\ GRPC!Idle.got = GRPC!None
  BY DEF CallType, GRPC!Idle, GRPC!None
<1>5. CallsOK
  BY <1>1, <1>4 DEF CallsOK
<1>6. NotServing
  BY <1>1, <1>3, <1>4 DEF NotServing, Unended, NobodyAt, GRPC!None
<1> QED BY <1>3, <1>5, <1>6 DEF GRPCInv, LifeOK

(* The callback keeps a first result and drops the ones after it.            *)
LEMMA PutKeeps ==
    ASSUME NEW x, RPCOK(x), NEW answer \in Reported,
           answer = "ok" /\ x.first = GRPC!None => Authorized(x), x.at # "unsent",
           x.at = "answered" => x.i # 1
    PROVE  RPCOK(GRPC!Put(x, answer)) /\ GRPC!Put(x, answer).at = x.at
<1> DEFINE y == GRPC!Put(x, answer)
<1>1. /\ y \in RPCType /\ y.at = x.at /\ y.i = x.i /\ y.chain = x.chain /\ y.answer = x.answer
      /\ y.passed = x.passed
  BY DEF GRPC!Put, RPCOK, RPCType
<1>2. y.box = IF x.first = GRPC!None THEN answer ELSE x.box
  BY DEF GRPC!Put, RPCOK, RPCType
<1>3. y.first = IF x.first = GRPC!None THEN answer ELSE x.first
  BY DEF GRPC!Put, RPCOK, RPCType
<1>4. Authorized(y) <=> Authorized(x)
  BY <1>1 DEF Authorized
<1>5. AnswerOK(y)
  BY <1>1, <1>3 DEF RPCOK, AnswerOK, Reported, GRPC!None
<1>6. Passed(y)
  BY <1>1, <1>3 DEF RPCOK, Passed, Reported, GRPC!None
<1>7. RPCOK(y)
  BY <1>1, <1>2, <1>3, <1>4, <1>5, <1>6 DEF RPCOK
<1> QED BY <1>1, <1>7

(* A unary call's step, whatever it does to its record, begins a handler only *)
(* while the server serves.                                                   *)
LEMMA RPCStepKeeps ==
    ASSUME GRPCInv, NEW r \in RPCs, NEW y, RPCOK(y), rpc' = [rpc EXCEPT ![r] = y],
           y.at \in {"chain", "waiting"} => r \in GRPC!Running \/ transport = "serving",
           UNCHANGED <<GRPC!setupVars, GRPC!lifeVars, GRPC!wireVars, grpcCall>>
    PROVE  GRPCInv'
<1>1. UNCHANGED <<grpcRegistered, running, stopping, done, forced, transport, broken, drain, grpcCall>>
  BY DEF GRPC!setupVars, GRPC!lifeVars, GRPC!wireVars
<1>2. \A q \in RPCs : rpc'[q] = IF q = r THEN y ELSE rpc[q]
  BY DEF GRPCInv, RPCsOK
<1>3. RPCsOK'
  BY <1>2 DEF GRPCInv, RPCsOK
<1>4. CallsOK'
  BY <1>1 DEF GRPCInv, CallsOK
<1>5. transport # "serving" => GRPC!Running' \subseteq GRPC!Running
  BY <1>2 DEF GRPC!Running
<1>6. NotServing => NotServing'
  BY <1>1, <1>5 DEF NotServing, Unended, NobodyAt
<1>7. Serving => Serving'
  BY <1>1 DEF Serving, Unended, NobodyAt
<1>8. Down => Down'
  BY <1>1, <1>5 DEF Down
<1> QED BY <1>1, <1>3, <1>4, <1>6, <1>7, <1>8 DEF GRPCInv, LifeOK

HandlerKinds == {"authorize", "middleware", "handler"}

LEMMA ChainTypes ==
    ASSUME NEW chain \in HandlerChains \cup {<<>>}
    PROVE  /\ chain \in Seq(HandlerKinds) /\ Len(chain) \in Nat
           /\ \A k \in 1..Len(chain) : chain \in HandlerChains /\ chain[k] \in HandlerKinds
<1>1. chain \in Seq(HandlerKinds)
  <2>1. CASE chain \in HandlerChains
    BY <2>1, ChainKinds DEF HandlerKinds
  <2>2. CASE chain = <<>>
    BY <2>2
  <2> QED BY <2>1, <2>2
<1>2. Len(chain) \in Nat /\ \A k \in 1..Len(chain) : chain[k] \in HandlerKinds
  BY <1>1
<1>3. chain = <<>> => Len(chain) = 0
  OBVIOUS
<1> QED BY <1>1, <1>2, <1>3

LEMMA CallKeeps == ASSUME GRPCInv, NEW r \in RPCs, GRPC!Call(r) PROVE GRPCInv'
<1> DEFINE x == rpc[r]
           y(a) == [x EXCEPT !.at = IF a = GRPC!None THEN "chain" ELSE "answered",
                             !.chain = grpcRegistered, !.i = 1, !.answer = a]
<1>1. x \in RPCType /\ x.first = GRPC!None /\ x.box = x.first
  BY DEF GRPCInv, RPCsOK, RPCOK, GRPC!Call
<1>2. grpcRegistered \in HandlerChains \cup {<<>>}
  BY DEF GRPCInv, CallsOK
<1>3. ASSUME NEW a \in {"unimplemented", "internal", GRPC!None}
      PROVE  RPCOK(y(a))
  <2>1. /\ y(a) \in RPCType /\ y(a).first = GRPC!None /\ y(a).box = y(a).first
        /\ y(a).at # "unsent" /\ y(a).i = 1 /\ y(a).answer = a /\ y(a).chain = grpcRegistered
        /\ a # GRPC!None => y(a).at = "answered"
    <3>1. {"unimplemented", "internal", GRPC!None} \subseteq Reported \cup {GRPC!None, "unimplemented", "cancelled"}
      BY DEF Reported
    <3>2. y(a) \in RPCType
      <4> DEFINE place == IF a = GRPC!None THEN "chain" ELSE "answered"
      <4>1. place \in {"unsent", "chain", "waiting", "answered"} /\ 1 \in Nat
        OBVIOUS
      <4>2. a \in Reported \cup {GRPC!None, "unimplemented", "cancelled"}
        BY <1>3, <3>1
      <4>3. y(a) = [x EXCEPT !.at = place, !.chain = grpcRegistered, !.i = 1, !.answer = a]
        OBVIOUS
      <4> HIDE DEF place, y
      <4> QED BY <1>1, <1>2, <4>1, <4>2, <4>3 DEF RPCType
    <3>3. y(a).first = x.first /\ y(a).box = x.box /\ y(a).i = 1 /\ y(a).answer = a
      BY <1>1 DEF RPCType
    <3>4. y(a).at = (IF a = GRPC!None THEN "chain" ELSE "answered") /\ y(a).chain = grpcRegistered
      BY <1>1 DEF RPCType
    <3> HIDE DEF y
    <3> QED BY <1>1, <3>2, <3>3, <3>4
  <2>2. Len(grpcRegistered) \in Nat
    BY <1>2, ChainTypes
  <2>3. Passed(y(a)) /\ AnswerOK(y(a))
    BY <1>3, <2>1, <2>2 DEF Passed, AnswerOK, GRPC!None
  <2> QED BY <2>1, <2>3 DEF RPCOK, GRPC!None, Reported
<1>4. \E a \in {"unimplemented", "internal", GRPC!None} : rpc' = [rpc EXCEPT ![r] = y(a)]
  BY DEF GRPC!Call
<1>5. transport = "serving" /\ UNCHANGED <<GRPC!setupVars, GRPC!lifeVars, GRPC!wireVars, grpcCall>>
  BY DEF GRPC!Call
<1> HIDE DEF y
<1> QED BY <1>3, <1>4, <1>5, RPCStepKeeps

LEMMA CancelKeeps == ASSUME GRPCInv, NEW r \in RPCs, GRPC!Cancel(r) PROVE GRPCInv'
<1> DEFINE y == [rpc[r] EXCEPT !.cancelled = TRUE]
<1>1. RPCOK(rpc[r])
  BY DEF GRPCInv, RPCsOK
<1>2. RPCOK(y)
  BY <1>1 DEF RPCOK, RPCType, Authorized, AnswerOK, Passed
<1>3. /\ rpc' = [rpc EXCEPT ![r] = y] /\ r \in GRPC!Running
      /\ UNCHANGED <<GRPC!setupVars, GRPC!lifeVars, GRPC!wireVars, grpcCall>>
  BY DEF GRPC!Cancel
<1> HIDE DEF y
<1> QED BY <1>2, <1>3, RPCStepKeeps

LEMMA RunStep ==
    ASSUME GRPCInv, NEW r \in RPCs, GRPC!RunHandler(r), NEW y, RPCOK(y), rpc' = [rpc EXCEPT ![r] = y]
    PROVE  GRPCInv'
<1>1. /\ UNCHANGED <<GRPC!setupVars, GRPC!lifeVars, GRPC!wireVars, grpcCall>>
      /\ r \in GRPC!Running
  BY DEF GRPC!RunHandler, GRPC!Running
<1> QED BY <1>1, RPCStepKeeps

(* A first result of a handler at place j comes after every authorization in *)
(* front of the handlers, and none of them reported, so they passed.         *)
LEMMA HandlerIsBehind ==
    ASSUME NEW x, Passed(x), x.first = GRPC!None, x.i \in Nat, Len(x.chain) \in Nat,
           NEW j \in 1..Len(x.chain), j < x.i, x.chain[j] = "handler"
    PROVE  Authorized(x)
<1> SUFFICES ASSUME NEW k \in 1..Len(x.chain), GRPC!Guards(x.chain, k)
             PROVE  k \in x.passed
  BY DEF Authorized
<1>1. x.chain[k] = "authorize" /\ k < j
  BY DEF GRPC!Guards
<1> QED BY <1>1 DEF Passed

(* A handler runs at its place of the chain; what it reports is dropped      *)
(* unless it is the first.                                                   *)
LEMMA RunHandlerKeeps == ASSUME GRPCInv, NEW r \in RPCs, GRPC!RunHandler(r) PROVE GRPCInv'
<1> DEFINE x == rpc[r]
           handler == x.chain[x.i]
<1>1. RPCOK(x) /\ x.at = "chain" /\ GRPC!Reached(x)
  BY DEF GRPCInv, RPCsOK, GRPC!RunHandler
<1>2. x \in RPCType /\ x.i \in Nat /\ x.chain \in HandlerChains \cup {<<>>}
  BY <1>1 DEF RPCOK, RPCType
<1> HIDE DEF x
<1> DEFINE After(e) == [x EXCEPT !.i = @ + 1, !.nexts = @ + e.nexts,
                                 !.passed = IF e.nexts > 0 THEN @ \cup {x.i} ELSE @]
           Final(e) == IF e.put = GRPC!None THEN After(e) ELSE GRPC!Put(After(e), e.put)
<1>3. \E e \in GRPC!Effects(handler) : rpc' = [rpc EXCEPT ![r] = Final(e)]
  BY Zenon DEF GRPC!RunHandler, x
<1> HIDE DEF Final
<1>9. PICK e \in GRPC!Effects(handler) : rpc' = [rpc EXCEPT ![r] = Final(e)]
  BY <1>3, Zenon
<1> DEFINE z == After(e)
           y == IF e.put = GRPC!None THEN z ELSE GRPC!Put(z, e.put)
<1>4. x.i <= Len(x.chain) /\ x.at # "unsent" /\ x.i # 0
  BY <1>1 DEF GRPC!Reached, RPCOK
<1>5. /\ Len(x.chain) \in Nat
      /\ \A k \in 1..Len(x.chain) : x.chain \in HandlerChains /\ x.chain[k] \in HandlerKinds
  BY <1>2, ChainTypes
<1>6. x.i \in 1..Len(x.chain) /\ handler \in HandlerKinds
  BY <1>2, <1>4, <1>5
<1>7. /\ e.nexts \in Nat /\ e.put \in Reported \cup {GRPC!None}
      /\ e.put = "ok" => handler = "handler"
      /\ handler = "authorize" => e.nexts > 0 \/ e.put # GRPC!None
  BY <1>6, <1>9, ChainKinds DEF GRPC!Effects, Reported, GRPC!None, HandlerKinds
<1>8. /\ z \in RPCType /\ z.at = "chain" /\ z.i = x.i + 1 /\ z.chain = x.chain
      /\ z.box = x.box /\ z.first = x.first /\ z.answer = x.answer
      /\ z.passed = IF e.nexts > 0 THEN x.passed \cup {x.i} ELSE x.passed
  <2>1. z = [x EXCEPT !.i = x.i + 1, !.nexts = x.nexts + e.nexts,
                      !.passed = IF e.nexts > 0 THEN x.passed \cup {x.i} ELSE x.passed]
    OBVIOUS
  <2> HIDE DEF z
  <2> DEFINE n == e.nexts
  <2>2. n \in Nat /\ z = [x EXCEPT !.i = x.i + 1, !.nexts = x.nexts + n,
                                   !.passed = IF n > 0 THEN x.passed \cup {x.i} ELSE x.passed]
    BY <1>7, <2>1
  <2> HIDE DEF n
  <2>3. /\ z \in RPCType /\ z.at = x.at /\ z.i = x.i + 1 /\ z.chain = x.chain
        /\ z.box = x.box /\ z.first = x.first /\ z.answer = x.answer
        /\ z.passed = IF n > 0 THEN x.passed \cup {x.i} ELSE x.passed
    <3>1. /\ x.i + 1 \in Nat /\ x.nexts + n \in Nat
          /\ (IF n > 0 THEN x.passed \cup {x.i} ELSE x.passed) \in SUBSET Nat
      BY <1>2, <2>2 DEF RPCType
    <3>2. \A i, m \in Nat, q \in SUBSET Nat : [x EXCEPT !.i = i, !.nexts = m, !.passed = q] \in RPCType
      BY <1>2 DEF RPCType
    <3>3. z \in RPCType
      BY <2>2, <3>1, <3>2, Zenon
    <3>4. z.at = x.at /\ z.i = x.i + 1 /\ z.chain = x.chain
      BY <1>2, <2>2 DEF RPCType
    <3>5. z.box = x.box /\ z.first = x.first /\ z.answer = x.answer
      BY <1>2, <2>2 DEF RPCType
    <3>6. z.passed = IF n > 0 THEN x.passed \cup {x.i} ELSE x.passed
      BY <1>2, <2>2 DEF RPCType
    <3> QED BY <3>3, <3>4, <3>5, <3>6
  <2>4. z.at = "chain"
    BY <1>1, <2>3
  <2> QED BY <2>3, <2>4, Zenon DEF n
<1> HIDE DEF z
<1>10. Authorized(x) => Authorized(z)
  BY <1>8 DEF Authorized
<1>11. AnswerOK(z)
  BY <1>1, <1>8 DEF RPCOK, AnswerOK, GRPC!None
<1>12. \A k \in 1..Len(x.chain) : k < x.i /\ x.chain[k] = "authorize" => k \in z.passed \/ z.first # GRPC!None
  BY <1>1, <1>8 DEF RPCOK, Passed
<1>13. CASE e.put = GRPC!None
  <2>1. Passed(z)
    <3>1. handler = "authorize" => x.i \in z.passed
      BY <1>7, <1>8, <1>13
    <3>2. \A k \in 1..Len(x.chain) : k < x.i + 1 => k < x.i \/ k = x.i
      BY <1>2
    <3> QED BY <1>8, <1>12, <3>1, <3>2 DEF Passed
  <2>2. RPCOK(z)
    BY <1>1, <1>2, <1>8, <1>10, <1>11, <2>1 DEF RPCOK
  <2> QED BY <1>8, <1>9, <1>13, <2>2, RunStep DEF Final, z, x
<1>14. CASE e.put # GRPC!None
  <2> DEFINE w == GRPC!Put(z, e.put)
  <2>1. e.put \in Reported
    BY <1>7, <1>14
  <2>2. /\ w \in RPCType /\ w.at = "chain" /\ w.i = x.i + 1 /\ w.chain = x.chain
        /\ w.answer = x.answer /\ w.passed = z.passed
    BY <1>8, <2>1 DEF GRPC!Put, RPCType
  <2>3. w.first = (IF x.first = GRPC!None THEN e.put ELSE x.first)
    BY <1>8, <2>1 DEF GRPC!Put, RPCType
  <2>4. w.box = (IF x.first = GRPC!None THEN e.put ELSE x.box)
    BY <1>8, <2>1 DEF GRPC!Put, RPCType
  <2> HIDE DEF w
  <2>5. w.first # GRPC!None /\ w.box = w.first
    BY <1>1, <1>14, <2>3, <2>4 DEF RPCOK
  <2>6. Passed(w)
    BY <2>5 DEF Passed
  <2>7. AnswerOK(w)
    BY <1>11, <1>8, <2>2 DEF AnswerOK, GRPC!None
  <2>8. w.first = "ok" => Authorized(w)
    <3>1. Authorized(z) => Authorized(w)
      BY <1>8, <2>2 DEF Authorized
    <3>2. CASE x.first # GRPC!None
      BY <1>1, <1>10, <2>3, <3>1, <3>2 DEF RPCOK
    <3>3. CASE x.first = GRPC!None /\ e.put = "ok"
      <4>1. handler = "handler"
        BY <1>7, <3>3
      <4>2. Passed(z)
        <5>1. \A k \in 1..Len(x.chain) : k < x.i + 1 => k < x.i \/ k = x.i
          BY <1>2
        <5> QED BY <1>8, <1>12, <4>1, <5>1 DEF Passed
      <4>3. Authorized(z)
        <5>1. z.first = GRPC!None /\ z.i \in Nat /\ Len(z.chain) \in Nat
          BY <1>2, <1>5, <1>8, <3>3
        <5>2. x.i \in 1..Len(z.chain) /\ x.i < z.i /\ z.chain[x.i] = "handler"
          BY <1>2, <1>6, <1>8, <4>1
        <5> QED BY <4>2, <5>1, <5>2, HandlerIsBehind
      <4> QED BY <3>1, <4>3
    <3>4. CASE x.first = GRPC!None /\ e.put # "ok"
      BY <2>3, <3>4
    <3> QED BY <3>2, <3>3, <3>4
  <2>9. RPCOK(w)
    BY <1>2, <2>2, <2>5, <2>6, <2>7, <2>8 DEF RPCOK
  <2> QED BY <1>9, <1>14, <2>2, <2>9, RunStep DEF Final, w, z, x
<1> QED BY <1>13, <1>14

LEMMA EndChainKeeps == ASSUME GRPCInv, NEW r \in RPCs, GRPC!EndChain(r) PROVE GRPCInv'
<1> DEFINE y == [rpc[r] EXCEPT !.at = "waiting"]
<1>1. RPCOK(rpc[r]) /\ r \in GRPC!Running /\ rpc[r].at = "chain"
  BY DEF GRPCInv, RPCsOK, GRPC!EndChain, GRPC!Running
<1>2. RPCOK(y)
  BY <1>1 DEF RPCOK, RPCType, Authorized, AnswerOK, Passed
<1>3. /\ rpc' = [rpc EXCEPT ![r] = y]
      /\ UNCHANGED <<GRPC!setupVars, GRPC!lifeVars, GRPC!wireVars, grpcCall>>
  BY DEF GRPC!EndChain
<1> HIDE DEF y
<1> QED BY <1>1, <1>2, <1>3, RPCStepKeeps

(* A handler that kept the callback has run: it is behind the authorizations *)
(* as it was when it ran.                                                    *)
LEMMA LateCallbackKeeps == ASSUME GRPCInv, NEW r \in RPCs, GRPC!LateCallback(r) PROVE GRPCInv'
<1> DEFINE x == rpc[r]
<1>1. /\ RPCOK(x) /\ x.at \in {"waiting", "answered"}
      /\ \E j \in 1..(x.i - 1) : x.chain[j] = "handler"
      /\ \E answer \in {"ok", "internal"} : rpc' = [rpc EXCEPT ![r] = GRPC!Put(x, answer)]
      /\ UNCHANGED <<GRPC!setupVars, GRPC!lifeVars, GRPC!wireVars, grpcCall>>
  BY DEF GRPCInv, RPCsOK, GRPC!LateCallback
<1>2. x.i \in Nat /\ x.chain \in HandlerChains \cup {<<>>}
  BY <1>1 DEF RPCOK, RPCType
<1>3. x.at \in {"chain", "waiting"} => r \in GRPC!Running
  BY DEF GRPC!Running
<1> HIDE DEF x
<1>4. PICK j \in 1..(x.i - 1) : x.chain[j] = "handler"
  BY <1>1
<1>5. Len(x.chain) \in Nat
  BY <1>2, ChainTypes
<1>6. x.first = GRPC!None => Authorized(x)
  <2> SUFFICES ASSUME x.first = GRPC!None PROVE Authorized(x)
    OBVIOUS
  <2>1. Passed(x)
    BY <1>1 DEF RPCOK
  <2>2. CASE j \in 1..Len(x.chain)
    BY <1>2, <1>4, <1>5, <2>1, <2>2, HandlerIsBehind
  <2>3. CASE j > Len(x.chain)
    <3> SUFFICES ASSUME NEW k \in 1..Len(x.chain), x.chain[k] = "authorize" PROVE k \in x.passed
      BY DEF Authorized, GRPC!Guards
    <3> QED BY <1>2, <1>4, <1>5, <2>1, <2>3 DEF Passed
  <2> QED BY <1>2, <1>4, <1>5, <2>2, <2>3
<1>7. PICK answer \in {"ok", "internal"} : rpc' = [rpc EXCEPT ![r] = GRPC!Put(x, answer)]
  BY <1>1
<1>8. x.i # 1
  BY <1>2, <1>4
<1>9. RPCOK(GRPC!Put(x, answer)) /\ GRPC!Put(x, answer).at = x.at
  BY <1>1, <1>6, <1>8, PutKeeps DEF Reported
<1> QED BY <1>1, <1>3, <1>7, <1>9, RPCStepKeeps

LEMMA AnswerKeeps == ASSUME GRPCInv, NEW r \in RPCs, GRPC!Answer(r) PROVE GRPCInv'
<1> DEFINE x == rpc[r]
           y(a) == [x EXCEPT !.at = "answered", !.answer = a]
<1>1. RPCOK(x) /\ x.at = "waiting"
  BY DEF GRPCInv, RPCsOK, GRPC!Answer
<1>2. x \in RPCType /\ x.box = x.first /\ x.first \in Reported \cup {GRPC!None}
  BY <1>1 DEF RPCOK, RPCType
<1>3. \A a \in GRPC!Answers(x) : a = "cancelled" \/ (a = x.first /\ x.first # GRPC!None)
                               \/ (a = "internal" /\ x.first = "ok")
  BY <1>2 DEF GRPC!Answers, GRPC!None
<1>4. ASSUME NEW a \in GRPC!Answers(x)
      PROVE  RPCOK(y(a)) /\ y(a).at = "answered"
  <2>1. a \in Reported \cup {"cancelled"}
    BY <1>2, <1>3 DEF Reported
  <2>2. /\ y(a) \in RPCType /\ y(a).at = "answered" /\ y(a).i = x.i /\ y(a).chain = x.chain
        /\ y(a).box = x.box /\ y(a).first = x.first /\ y(a).passed = x.passed /\ y(a).answer = a
    BY <1>2, <2>1 DEF RPCType
  <2> HIDE DEF y
  <2>3. AnswerOK(y(a)) /\ Passed(y(a)) /\ (Authorized(x) => Authorized(y(a)))
    BY <1>1, <1>3, <2>2 DEF AnswerOK, Passed, Authorized, RPCOK, GRPC!None, Reported
  <2> QED BY <1>1, <2>2, <2>3 DEF RPCOK
<1>5. \E a \in GRPC!Answers(x) : rpc' = [rpc EXCEPT ![r] = y(a)]
  BY DEF GRPC!Answer
<1>6. UNCHANGED <<GRPC!setupVars, GRPC!lifeVars, GRPC!wireVars, grpcCall>>
  BY DEF GRPC!Answer
<1> HIDE DEF y
<1> QED BY <1>4, <1>5, <1>6, RPCStepKeeps

-----------------------------------------------------------------------------
(* A caller's step changes its own record; every other caller stays where it *)
(* is, and the unary calls are as they were.                                 *)
LEMMA CallerStep ==
    ASSUME GRPCInv, NEW c \in GRPCCallers, NEW q \in CallType, q.at # "returned" => q.got = GRPC!None,
           grpcCall' = [grpcCall EXCEPT ![c] = q], UNCHANGED <<rpc, grpcRegistered>>
    PROVE  /\ RPCsOK' /\ CallsOK' /\ GRPC!Running' = GRPC!Running
           /\ \A d \in GRPCCallers : grpcCall'[d] = IF d = c THEN q ELSE grpcCall[d]
<1>1. RPCsOK' /\ GRPC!Running' = GRPC!Running
  BY DEF GRPCInv, RPCsOK, GRPC!Running
<1>2. \A d \in GRPCCallers : grpcCall'[d] = IF d = c THEN q ELSE grpcCall[d]
  BY DEF GRPCInv, CallsOK
<1>3. CallsOK'
  BY <1>2 DEF GRPCInv, CallsOK
<1> QED BY <1>1, <1>2, <1>3

(* A call that ends without a graceful shutdown leaves the phase as it is.   *)
LEMMA ReturnKeeps ==
    ASSUME GRPCInv, NEW c \in GRPCCallers, NEW got \in {"nil", "already running", "listen failed"},
           GRPC!Return(c, got, FALSE),
           UNCHANGED <<rpc, grpcRegistered, running, stopping, done, forced, transport, broken, drain>>
    PROVE  GRPCInv'
<1> DEFINE q == [at |-> "returned", active |-> FALSE, got |-> got]
<1>1. q \in CallType /\ q.at = "returned" /\ ~q.active
  BY DEF CallType
<1>2. grpcCall' = [grpcCall EXCEPT ![c] = q]
  BY DEF GRPC!Return
<1> HIDE DEF q
<1>3. /\ RPCsOK' /\ CallsOK' /\ GRPC!Running' = GRPC!Running
      /\ \A d \in GRPCCallers : grpcCall'[d] = IF d = c THEN q ELSE grpcCall[d]
  BY <1>1, <1>2, CallerStep
<1>4. NotServing => NotServing'
  BY <1>1, <1>3 DEF NotServing, Unended, NobodyAt
<1>5. Serving => Serving'
  BY <1>1, <1>3 DEF Serving, Unended, NobodyAt
<1>6. Down => Down'
  BY <1>3 DEF Down
<1> QED BY <1>3, <1>4, <1>5, <1>6 DEF GRPCInv, LifeOK

LEMMA StartKeeps == ASSUME GRPCInv, NEW c \in GRPCCallers, GRPC!Start(c) PROVE GRPCInv'
<1>1. /\ grpcCall[c] \in CallType /\ grpcCall[c].at = "idle" /\ grpcCall[c].got = GRPC!None
      /\ UNCHANGED <<rpc, grpcRegistered, stopping, done, forced, transport, broken, drain>>
  BY DEF GRPCInv, CallsOK, GRPC!Start, GRPC!setupVars
<1>2. CASE \E got \in {"already running", "listen failed"} : GRPC!Return(c, got, FALSE) /\ UNCHANGED running
  BY <1>1, <1>2, ReturnKeeps
<1>3. CASE ~running /\ ~stopping /\ running' = TRUE /\ grpcCall' = [grpcCall EXCEPT ![c].at = "listening"]
  <2> DEFINE q == [grpcCall[c] EXCEPT !.at = "listening"]
  <2>1. /\ q \in CallType /\ q.at = "listening" /\ q.got = GRPC!None
        /\ grpcCall' = [grpcCall EXCEPT ![c] = q]
    BY <1>1, <1>3 DEF CallType
  <2> HIDE DEF q
  <2>2. /\ RPCsOK' /\ CallsOK' /\ GRPC!Running' = GRPC!Running
        /\ \A d \in GRPCCallers : grpcCall'[d] = IF d = c THEN q ELSE grpcCall[d]
    BY <1>1, <2>1, CallerStep
  <2>3. NotServing => NotServing'
    <3> SUFFICES ASSUME NotServing PROVE NotServing'
      OBVIOUS
    <3>1. \A d \in GRPCCallers : grpcCall[d].at # "listening"
      BY <1>3 DEF NotServing
    <3>2. Unended' /\ NobodyAt({"serving", "served"})'
      BY <1>1, <2>1, <2>2 DEF NotServing, Unended, NobodyAt, GRPC!None
    <3>3. \A d \in GRPCCallers : grpcCall'[d].at = "listening" => d = c
      BY <2>2, <3>1
    <3> QED BY <1>1, <1>3, <2>2, <3>2, <3>3 DEF NotServing
  <2>4. ~Serving
    BY <1>3 DEF Serving
  <2>5. Down => Down'
    BY <1>1, <2>2 DEF Down
  <2> QED BY <1>1, <2>2, <2>3, <2>4, <2>5 DEF GRPCInv, LifeOK
<1> QED BY <1>2, <1>3 DEF GRPC!Start

LEMMA ServeKeeps == ASSUME GRPCInv, NEW c \in GRPCCallers, GRPC!Serve(c) PROVE GRPCInv'
<1>1. /\ grpcCall[c] \in CallType /\ grpcCall[c].at = "listening" /\ grpcCall[c].got = GRPC!None
      /\ UNCHANGED <<rpc, grpcRegistered, running, stopping, done, forced, broken, drain>>
  BY DEF GRPCInv, CallsOK, GRPC!Serve, GRPC!setupVars, GRPC!lifeVars
<1> DEFINE q == [grpcCall[c] EXCEPT !.at = IF transport = "fresh" THEN "serving" ELSE "served"]
<1>2. /\ q \in CallType /\ q.at = (IF transport = "fresh" THEN "serving" ELSE "served")
      /\ q.got = GRPC!None /\ grpcCall' = [grpcCall EXCEPT ![c] = q]
  BY <1>1 DEF CallType, GRPC!Serve
<1> HIDE DEF q
<1>3. /\ RPCsOK' /\ CallsOK' /\ GRPC!Running' = GRPC!Running
      /\ \A d \in GRPCCallers : grpcCall'[d] = IF d = c THEN q ELSE grpcCall[d]
  BY <1>1, <1>2, CallerStep
<1>4. NotServing => Serving'
  <2> SUFFICES ASSUME NotServing PROVE Serving'
    OBVIOUS
  <2>1. /\ transport = "fresh" /\ q.at = "serving" /\ transport' = "serving"
        /\ running \/ stopping
    BY <1>1, <1>2 DEF NotServing, GRPC!Serve
  <2>2. \A d \in GRPCCallers \ {c} : grpcCall[d].at \notin {"listening", "served"}
    BY <1>1 DEF NotServing, NobodyAt
  <2>3. NobodyAt({"listening", "served"})'
    BY <1>3, <2>1, <2>2 DEF NobodyAt
  <2>4. Unended'
    BY <1>1, <1>2, <1>3 DEF NotServing, Unended, GRPC!None
  <2> QED BY <1>1, <2>1, <2>3, <2>4 DEF Serving
<1>5. ~Serving
  BY <1>1 DEF Serving, NobodyAt
<1>6. Down => Down'
  BY <1>3 DEF Down, GRPC!Serve
<1> QED BY <1>1, <1>3, <1>4, <1>5, <1>6 DEF GRPCInv, LifeOK

(* Serve ends once a stop has completed, and Start then closes done.         *)
LEMMA StartEndsKeeps ==
    ASSUME GRPCInv, NEW c \in GRPCCallers, GRPC!ServeEnds(c) \/ GRPC!EndStart(c)
    PROVE  GRPCInv'
<1>1. /\ grpcCall[c] \in CallType /\ grpcCall[c].got = GRPC!None
      /\ transport = "closed" \/ grpcCall[c].at = "served"
      /\ UNCHANGED <<rpc, grpcRegistered, forced, transport, broken>>
  BY DEF GRPCInv, CallsOK, GRPC!ServeEnds, GRPC!EndStart, GRPC!setupVars, GRPC!lifeVars, GRPC!wireVars
<1>2. \E q \in CallType : /\ q.at # "returned" => q.got = GRPC!None
                          /\ grpcCall' = [grpcCall EXCEPT ![c] = q]
  <2>1. [grpcCall[c] EXCEPT !.at = "served"] \in CallType
    BY <1>1 DEF CallType
  <2>2. [grpcCall[c] EXCEPT !.at = "served"].got = GRPC!None
    BY <1>1 DEF CallType
  <2>3. [at |-> "returned", active |-> FALSE, got |-> "served"] \in CallType
    BY DEF CallType
  <2> QED BY <2>1, <2>2, <2>3 DEF GRPC!ServeEnds, GRPC!EndStart, GRPC!Return
<1>3. RPCsOK' /\ CallsOK' /\ GRPC!Running' = GRPC!Running
  BY <1>1, <1>2, CallerStep
<1>4. ~NotServing /\ ~Serving
  BY <1>1 DEF NotServing, Serving, NobodyAt
<1>5. Down => Down'
  BY <1>1, <1>3 DEF Down
<1> QED BY <1>1, <1>3, <1>4, <1>5 DEF GRPCInv, LifeOK

LEMMA AcceptFailsKeeps == ASSUME GRPCInv, NEW c \in GRPCCallers, GRPC!AcceptFails(c) PROVE GRPCInv'
<1> DEFINE q == [grpcCall[c] EXCEPT !.at = "served"]
<1>1. /\ grpcCall[c] \in CallType /\ grpcCall[c].got = GRPC!None
      /\ UNCHANGED <<rpc, grpcRegistered>> /\ broken' = TRUE
      /\ grpcCall' = [grpcCall EXCEPT ![c].at = "served"]
  BY DEF GRPCInv, CallsOK, GRPC!AcceptFails, GRPC!setupVars
<1>2. q \in CallType /\ q.got = GRPC!None /\ grpcCall' = [grpcCall EXCEPT ![c] = q]
  BY <1>1 DEF CallType
<1> HIDE DEF q
<1>3. RPCsOK' /\ CallsOK'
  BY <1>1, <1>2, CallerStep
<1> QED BY <1>1, <1>3 DEF GRPCInv, LifeOK

(* A graceful shutdown begins or joins a drain; nothing has ended by it.     *)
LEMMA ShutdownKeeps ==
    ASSUME GRPCInv, NEW c \in GRPCCallers, NEW at \in {"deadline", "join", "drain"}, GRPC!Shutdown(c, at)
    PROVE  GRPCInv'
<1>1. /\ grpcCall[c] \in CallType /\ grpcCall[c].at = "idle" /\ grpcCall[c].got = GRPC!None
      /\ UNCHANGED <<rpc, grpcRegistered, done, forced, transport, broken>>
  BY DEF GRPCInv, CallsOK, GRPC!Shutdown
<1>2. CASE GRPC!Inactive
  BY <1>1, <1>2, ReturnKeeps DEF GRPC!Shutdown
<1>3. CASE ~GRPC!Inactive
  <2> DEFINE q == [grpcCall[c] EXCEPT !.at = at, !.active = TRUE]
  <2>1. /\ grpcCall' = [grpcCall EXCEPT ![c] = q] /\ stopping' = TRUE
        /\ drain' = IF stopping THEN drain ELSE "running"
    BY <1>3 DEF GRPC!Shutdown
  <2>2. q \in CallType /\ q.at = at /\ q.got = GRPC!None
    BY <1>1 DEF CallType
  <2> HIDE DEF q
  <2>3. /\ RPCsOK' /\ CallsOK' /\ GRPC!Running' = GRPC!Running
        /\ \A d \in GRPCCallers : grpcCall'[d] = IF d = c THEN q ELSE grpcCall[d]
    BY <1>1, <2>1, <2>2, CallerStep
  <2>4. Unended => Unended'
    BY <1>1, <2>1, <2>2, <2>3 DEF Unended, GRPC!None
  <2>5. NotServing => NotServing'
    BY <1>1, <2>1, <2>2, <2>3, <2>4 DEF NotServing, NobodyAt
  <2>6. Serving => Serving'
    BY <1>1, <2>1, <2>2, <2>3, <2>4 DEF Serving, NobodyAt
  <2>7. Down => Down'
    BY <1>1, <2>3 DEF Down
  <2> QED BY <1>1, <2>3, <2>5, <2>6, <2>7 DEF GRPCInv, LifeOK
<1> QED BY <1>2, <1>3

LEMMA QuitKeeps == ASSUME GRPCInv, GRPC!Quit PROVE GRPCInv'
<1>1. /\ transport \in {"fresh", "serving"} /\ transport' = "quit"
      /\ UNCHANGED <<rpc, grpcRegistered, grpcCall, running, stopping, done, forced, broken, drain>>
  BY DEF GRPC!Quit, GRPC!setupVars, GRPC!lifeVars
<1>2. RPCsOK' /\ CallsOK' /\ GRPC!Running' = GRPC!Running
  BY <1>1 DEF GRPCInv, RPCsOK, CallsOK, GRPC!Running
<1>3. NotServing => Down'
  BY <1>1, <1>2 DEF NotServing, Down
<1>4. Serving => Serving'
  BY <1>1 DEF Serving, Unended, NobodyAt
<1>5. ~Down
  BY <1>1 DEF Down
<1> QED BY <1>1, <1>2, <1>3, <1>4, <1>5 DEF GRPCInv, LifeOK

LEMMA DrainedKeeps == ASSUME GRPCInv, GRPC!Drained PROVE GRPCInv'
<1>1. /\ GRPC!Running = {} /\ transport' = "closed"
      /\ UNCHANGED <<rpc, grpcRegistered, grpcCall>>
  BY DEF GRPC!Drained, GRPC!setupVars
<1>2. RPCsOK' /\ CallsOK' /\ GRPC!Running' = GRPC!Running
  BY <1>1 DEF GRPCInv, RPCsOK, CallsOK, GRPC!Running
<1> QED BY <1>1, <1>2 DEF GRPCInv, LifeOK, Down

(* Whoever waits for the drain or for done returns when the server is down.  *)
LEMMA ShutdownEndsKeeps == ASSUME GRPCInv, NEW c \in GRPCCallers, GRPC!ShutdownEnds(c) PROVE GRPCInv'
<1> DEFINE q == [at |-> "returned", active |-> TRUE, got |-> "nil"]
<1>1. /\ done \/ drain = "ended"
      /\ UNCHANGED <<rpc, grpcRegistered, forced, broken, transport>>
      /\ grpcCall' = [grpcCall EXCEPT ![c] = q]
  BY DEF GRPC!ShutdownEnds, GRPC!setupVars, GRPC!lifeVars, GRPC!wireVars, GRPC!Return
<1>2. q \in CallType /\ q.at = "returned"
  BY DEF CallType
<1> HIDE DEF q
<1>3. RPCsOK' /\ CallsOK' /\ GRPC!Running' = GRPC!Running
  BY <1>1, <1>2, CallerStep
<1>4. ~NotServing /\ ~Serving
  BY <1>1 DEF NotServing, Serving, Unended
<1>5. Down => Down'
  BY <1>1, <1>3 DEF Down
<1> QED BY <1>1, <1>3, <1>4, <1>5 DEF GRPCInv, LifeOK

(* A forced stop cancels calls and promises nothing about them.              *)
LEMMA ForceKeeps ==
    ASSUME GRPCInv, NEW c \in GRPCCallers, NEW got \in {"deadline", "stopped"},
           GRPC!Force, GRPC!Return(c, got, TRUE), UNCHANGED grpcRegistered
    PROVE  GRPCInv'
<1> DEFINE q == [at |-> "returned", active |-> TRUE, got |-> got]
<1>1. q \in CallType /\ q.at = "returned" /\ grpcCall' = [grpcCall EXCEPT ![c] = q]
  BY DEF CallType, GRPC!Return
<1> HIDE DEF q
<1>2. CallsOK'
  BY <1>1 DEF GRPCInv, CallsOK
<1>3. \A x : RPCOK(x) => RPCOK([x EXCEPT !.cancelled = TRUE])
  <2> SUFFICES ASSUME NEW x, RPCOK(x) PROVE RPCOK([x EXCEPT !.cancelled = TRUE])
    OBVIOUS
  <2> QED BY DEF RPCOK, RPCType, Authorized, AnswerOK, Passed
<1>4. RPCsOK'
  BY <1>3 DEF GRPCInv, RPCsOK, GRPC!Force
<1>5. forced'
  BY DEF GRPC!Force
<1> QED BY <1>2, <1>4, <1>5 DEF GRPCInv, LifeOK

LEMMA StopKeeps == ASSUME GRPCInv, NEW c \in GRPCCallers, GRPC!Stop(c) PROVE GRPCInv'
<1>1. UNCHANGED <<grpcRegistered, broken, drain>>
  BY DEF GRPC!Stop
<1>2. CASE GRPC!Inactive
  BY <1>1, <1>2, ReturnKeeps DEF GRPC!Stop, GRPC!lifeVars
<1>3. CASE ~GRPC!Inactive
  BY <1>1, <1>3, ForceKeeps DEF GRPC!Stop
<1> QED BY <1>2, <1>3

LEMMA AddServiceDefinitionsKeeps == ASSUME GRPCInv, GRPC!AddServiceDefinitions PROVE GRPCInv'
<1>1. /\ grpcRegistered' \in HandlerChains \cup {<<>>}
      /\ UNCHANGED <<rpc, grpcCall, running, stopping, done, forced, transport, broken, drain>>
  BY DEF GRPC!AddServiceDefinitions, GRPC!lifeVars, GRPC!wireVars, GRPCInv, CallsOK
<1>2. RPCsOK' /\ CallsOK' /\ GRPC!Running' = GRPC!Running
  BY <1>1 DEF GRPCInv, RPCsOK, CallsOK, GRPC!Running
<1>3. (NotServing \/ Serving \/ Down) => (NotServing \/ Serving \/ Down)'
  BY <1>1, <1>2 DEF NotServing, Serving, Down, Unended, NobodyAt
<1> QED BY <1>1, <1>2, <1>3 DEF GRPCInv, LifeOK

LEMMA GRPCInvNext == ASSUME GRPCInv, [GRPC!Next]_grpcState PROVE GRPCInv'
<1>1. CASE GRPC!AddServiceDefinitions
  BY <1>1, AddServiceDefinitionsKeeps
<1>2. ASSUME NEW c \in GRPCCallers,
             GRPC!Start(c) \/ GRPC!Serve(c) \/ GRPC!ServeEnds(c) \/ GRPC!AcceptFails(c) \/ GRPC!EndStart(c)
      PROVE  GRPCInv'
  BY <1>2, StartKeeps, ServeKeeps, StartEndsKeeps, AcceptFailsKeeps
<1>3. ASSUME NEW c \in GRPCCallers, NEW at \in {"deadline", "join", "drain"}, GRPC!Shutdown(c, at)
      PROVE  GRPCInv'
  BY <1>3, ShutdownKeeps
<1>4. ASSUME NEW c \in GRPCCallers, GRPC!ShutdownEnds(c) \/ GRPC!DeadlineExpires(c) \/ GRPC!Stop(c)
      PROVE  GRPCInv'
  <2>1. CASE GRPC!DeadlineExpires(c)
    BY <2>1, ForceKeeps DEF GRPC!DeadlineExpires, GRPC!setupVars
  <2> QED BY <1>4, <2>1, ShutdownEndsKeeps, StopKeeps
<1>5. CASE GRPC!Quit \/ GRPC!Drained
  BY <1>5, QuitKeeps, DrainedKeeps
<1>6. ASSUME NEW r \in RPCs,
             \/ GRPC!Call(r) \/ GRPC!Cancel(r) \/ GRPC!RunHandler(r)
             \/ GRPC!EndChain(r) \/ GRPC!LateCallback(r) \/ GRPC!Answer(r)
      PROVE  GRPCInv'
  BY <1>6, CallKeeps, CancelKeeps, RunHandlerKeeps, EndChainKeeps, LateCallbackKeeps, AnswerKeeps
<1>7. CASE UNCHANGED grpcState
  <2>1. UNCHANGED <<rpc, grpcCall, grpcRegistered, running, stopping, done, forced, transport, broken, drain>>
    BY <1>7 DEF grpcState
  <2>2. RPCsOK' /\ CallsOK' /\ GRPC!Running' = GRPC!Running
    BY <2>1 DEF GRPCInv, RPCsOK, CallsOK, GRPC!Running
  <2>3. (NotServing \/ Serving \/ Down) => (NotServing \/ Serving \/ Down)'
    BY <2>1, <2>2 DEF NotServing, Serving, Down, Unended, NobodyAt
  <2> QED BY <2>1, <2>2, <2>3 DEF GRPCInv, LifeOK
<1> QED BY <1>1, <1>2, <1>3, <1>4, <1>5, <1>6, <1>7 DEF GRPC!Next

(* However starts, drains, joined shutdowns and forced stops interleave, a   *)
(* graceful shutdown that returned nil left no call in a handler, and a call *)
(* is answered with the first result reported, which is a handler's only     *)
(* when the authorizations in front of the handlers passed the call.         *)
THEOREM GRPCAnswersAreSound == ServicesSpec => []GRPCAnswersHold
<1> DEFINE I == part = "grpc" => GRPCInv
<1>1. ServicesInit => I
  BY ChosenInit, GRPCInvInit
<1>2. I /\ [ServicesNext]_servicesVars => I'
  BY ChosenStep, GRPCInvNext
<1>3. ASSUME GRPCInv PROVE GRPC!NilMeansDrained
  BY <1>3 DEF GRPCInv, LifeOK, NotServing, Serving, Down, Unended, GRPC!NilMeansDrained
<1>4. ASSUME GRPCInv PROVE GRPC!AnswersAreFirst
  BY <1>4 DEF GRPCInv, RPCsOK, RPCOK, AnswerOK, Authorized, GRPC!AnswersAreFirst
<1>5. I => GRPCAnswersHold
  BY <1>3, <1>4 DEF GRPCAnswersHold
<1> QED BY <1>1, <1>2, <1>5, PTL DEF ServicesSpec

-----------------------------------------------------------------------------
(* The cluster transport.  A connection is open because a seed is probed, a  *)
(* node is registered or a redirect's node is being dialled; after Close only *)
(* the last may remain, until Register sees that the transport stopped.      *)
NodeConns == {Cluster!Node(n) : n \in nodes}
Dialling == {Cluster!Dialled(clusterTarget)}
Connecting == {"seed", "probe", "connecting"}
Exchanging == {"node", "dial", "register", "send"}

OpenOK ==
    /\ clusterPc \in {"seed", "failed"} => open = {}
    /\ clusterPc = "probe" => open \subseteq {Cluster!Probe(Seeds[seed])}
    /\ clusterPc = "register" => open \subseteq NodeConns \cup Dialling
    /\ clusterPc \notin {"seed", "failed", "probe", "register"} => open \subseteq NodeConns
    /\ closing = "done" => open \subseteq IF clusterPc = "register" THEN Dialling ELSE {}
StopOK ==
    /\ closing # "no" => clusterStopped
    /\ clusterPc \in Connecting => closing = "no" /\ ~clusterStopped
    /\ clusterPc = "quit" => clusterStopped

(* An exchange in progress has run nothing: whatever runs a command also     *)
(* ends it, and says so.  Only a single command is ever redirected.          *)
RanOK ==
    /\ clusterPc \in Connecting \cup Exchanging \cup {"idle", "failed", "quit"}
    /\ clusterPc \in Exchanging =>
           /\ cmds \in Seq([rule : Cluster!Rules, keys : Seq(Slots)])
           /\ ran = [i \in DOMAIN cmds |-> 0]
           /\ clusterStage # "first" => Len(cmds) = 1
    /\ clusterPc \in Connecting \cup {"failed", "quit"} => ran = <<>>
    /\ clusterPc = "idle" => \A i \in DOMAIN ran : ran[i] \in {0, 1}
    /\ clusterPc = "idle" /\ ~result.may => \A i \in DOMAIN ran : ran[i] = 0
    /\ clusterPc = "idle" /\ result.ok => \A i \in DOMAIN ran : ran[i] = 1

ClusterInv == OpenOK /\ StopOK /\ RanOK

LEMMA ClusterInvInit == ASSUME Cluster!Init PROVE ClusterInv
<1>1. clusterPc = "seed" /\ open = {} /\ closing = "no" /\ clusterStopped = FALSE /\ ran = <<>>
  BY DEF Cluster!Init
<1>2. ~clusterStopped
  BY <1>1
<1> QED BY <1>1, <1>2 DEF ClusterInv, OpenOK, StopOK, RanOK, Connecting, Exchanging

(* Three kinds of connection, told apart by their role.                      *)
LEMMA Roles ==
    ASSUME NEW a, NEW b
    PROVE  /\ Cluster!Node(a) # Cluster!Probe(b) /\ Cluster!Node(a) # Cluster!Dialled(b)
           /\ Cluster!Probe(a) # Cluster!Dialled(b)
BY DEF Cluster!Node, Cluster!Probe, Cluster!Dialled

(* The cluster moved, or nothing did.                                        *)
LEMMA ClientUntouched ==
    ASSUME ClusterInv,
           UNCHANGED <<clusterPc, seed, nodes, open, clusterStopped, closing, cmds, clusterStage,
                       clusterTarget, ran, result>>
    PROVE  ClusterInv'
<1>1. OpenOK'
  BY DEF ClusterInv, OpenOK, NodeConns, Dialling
<1>2. StopOK'
  BY DEF ClusterInv, StopOK
<1>3. RanOK'
  BY DEF ClusterInv, RanOK
<1> QED BY <1>1, <1>2, <1>3 DEF ClusterInv

(* Between and inside exchanges connections are only lost.                   *)
Settled == {"idle", "node", "dial", "send"}

LEMMA ConnectionsOnlyLost ==
    ASSUME ClusterInv, clusterPc \in Settled, clusterPc' \in Settled, open' \subseteq open,
           UNCHANGED <<nodes, clusterStopped, closing>>
    PROVE  OpenOK' /\ StopOK'
<1>1. open \subseteq NodeConns /\ (closing = "done" => open = {})
  BY DEF ClusterInv, OpenOK, Settled
<1>2. NodeConns' = NodeConns
  BY DEF NodeConns
<1>3. OpenOK'
  BY <1>1, <1>2 DEF OpenOK, Settled
<1>4. StopOK'
  BY DEF ClusterInv, StopOK, Settled, Connecting
<1> QED BY <1>3, <1>4

(* An exchange that is refused ran nothing.                                  *)
LEMMA RefusedKeeps ==
    ASSUME ClusterInv, clusterPc \in Exchanging \cup {"quit"}, NEW written, Cluster!Refused(written), ran' = ran
    PROVE  RanOK' /\ clusterPc' = "idle"
<1>1. clusterPc' = "idle" /\ result'.may = FALSE /\ result'.ok = FALSE
  BY DEF Cluster!Refused, Cluster!Answer
<1>2. \A i \in DOMAIN ran : ran[i] = 0
  <2>1. CASE clusterPc \in Exchanging
    BY <2>1 DEF ClusterInv, RanOK
  <2>2. CASE clusterPc = "quit"
    <3>1. ran = <<>>
      BY <2>2 DEF ClusterInv, RanOK
    <3> QED BY <3>1
  <2> QED BY <2>1, <2>2
<1> QED BY <1>1, <1>2 DEF RanOK, Connecting, Exchanging

-----------------------------------------------------------------------------
(* Connect.                                                                  *)

LEMMA ProbeSeedKeeps == ASSUME ClusterInv, Cluster!ProbeSeed PROVE ClusterInv'
<1>1. /\ clusterPc = "seed" /\ open = {}
      /\ UNCHANGED <<nodes, clusterStopped, closing, cmds, clusterStage, clusterTarget, ran, result>>
  BY DEF Cluster!ProbeSeed, Cluster!callVars, ClusterInv, OpenOK
<1>2. \/ clusterPc' = "probe" /\ open' = {Cluster!Probe(Seeds[seed'])}
      \/ clusterPc' = "seed" /\ open' = {}
  BY <1>1 DEF Cluster!ProbeSeed
<1>3. closing = "no" /\ ~clusterStopped /\ ran = <<>>
  BY <1>1 DEF ClusterInv, StopOK, RanOK, Connecting
<1>4. OpenOK'
  BY <1>1, <1>2, <1>3 DEF OpenOK
<1>5. StopOK' /\ RanOK'
  BY <1>1, <1>2, <1>3 DEF StopOK, RanOK, Connecting, Exchanging
<1> QED BY <1>4, <1>5 DEF ClusterInv

LEMMA SeedsExhaustedKeeps == ASSUME ClusterInv, Cluster!SeedsExhausted PROVE ClusterInv'
<1>1. /\ clusterPc = "seed" /\ clusterPc' = "failed"
      /\ UNCHANGED <<seed, nodes, open, clusterStopped, closing, cmds, clusterStage, clusterTarget, ran, result>>
  BY DEF Cluster!SeedsExhausted, Cluster!callVars, Cluster!connVars
<1>2. open = {} /\ closing = "no" /\ ran = <<>>
  BY <1>1 DEF ClusterInv, OpenOK, StopOK, RanOK, Connecting
<1> QED BY <1>1, <1>2 DEF ClusterInv, OpenOK, StopOK, RanOK, Connecting, Exchanging

(* A probe is closed whatever it answered.                                   *)
LEMMA Unprobed ==
    ASSUME ClusterInv, clusterPc = "probe"
    PROVE  /\ open \ {Cluster!Probe(Seeds[seed])} = {}
           /\ closing = "no" /\ ~clusterStopped /\ ran = <<>>
BY DEF ClusterInv, OpenOK, StopOK, RanOK, Connecting

LEMMA ProbedKeeps ==
    ASSUME ClusterInv, clusterPc = "probe", clusterPc' \in {"seed", "connecting", "failed"}, open' = {},
           UNCHANGED <<clusterStopped, closing, ran>>
    PROVE  ClusterInv'
<1>1. closing = "no" /\ ~clusterStopped /\ ran = <<>>
  BY Unprobed
<1> QED BY <1>1 DEF ClusterInv, OpenOK, StopOK, RanOK, Connecting, Exchanging

LEMMA ProbeAnswersKeep ==
    ASSUME ClusterInv, Cluster!BadAnswer \/ Cluster!SlotsAnswer \/ Cluster!MasterAnswer
    PROVE  ClusterInv'
<1>1. CASE Cluster!BadAnswer
  BY <1>1, Unprobed, ProbedKeeps DEF Cluster!BadAnswer, Cluster!Unprobe, Cluster!callVars
<1>2. CASE Cluster!SlotsAnswer
  BY <1>2, Unprobed, ProbedKeeps DEF Cluster!SlotsAnswer, Cluster!Unprobe, Cluster!callVars
<1>3. CASE Cluster!MasterAnswer
  <2>1. clusterPc = "probe" /\ UNCHANGED <<clusterStopped, closing, ran, result>>
    BY <1>3 DEF Cluster!MasterAnswer, Cluster!callVars
  <2>2. CASE clusterPc' = "failed" /\ Cluster!Unprobe
    BY <2>1, <2>2, Unprobed, ProbedKeeps DEF Cluster!Unprobe
  <2>3. ASSUME NEW m, clusterPc' = "idle", nodes' = {m},
               open' = (open \ {Cluster!Probe(Seeds[seed])}) \cup {Cluster!Node(m)}
        PROVE  ClusterInv'
    <3>1. open' = {Cluster!Node(m)} /\ closing = "no" /\ ran = <<>>
      BY <2>1, <2>3, Unprobed
    <3>2. open' \subseteq NodeConns'
      BY <2>3, <3>1 DEF NodeConns
    <3> QED BY <2>1, <2>3, <3>1, <3>2 DEF ClusterInv, OpenOK, StopOK, RanOK, Connecting, Exchanging
  <2> QED BY <1>3, <2>2, <2>3 DEF Cluster!MasterAnswer
<1> QED BY <1>1, <1>2, <1>3

(* A node is connected, or what was connected before is closed.              *)
LEMMA ConnectNodeKeeps == ASSUME ClusterInv, Cluster!ConnectNode PROVE ClusterInv'
<1>1. /\ clusterPc = "connecting" /\ open \subseteq NodeConns /\ closing = "no" /\ ~clusterStopped /\ ran = <<>>
      /\ UNCHANGED <<cmds, clusterStage, clusterTarget, ran, result>>
  BY DEF Cluster!ConnectNode, Cluster!callVars, ClusterInv, OpenOK, StopOK, RanOK, Connecting
<1>2. ASSUME NEW a, nodes' = nodes \cup {a}, open' = open \cup {Cluster!Node(a)},
             clusterPc' = (IF clusterTodo = {a} THEN "idle" ELSE clusterPc),
             UNCHANGED <<clusterStopped, closing>>
      PROVE  ClusterInv'
  <2>1. open' \subseteq NodeConns'
    BY <1>1, <1>2 DEF NodeConns
  <2>2. clusterPc' \in {"connecting", "idle"}
    BY <1>1, <1>2
  <2> QED BY <1>1, <1>2, <2>1, <2>2 DEF ClusterInv, OpenOK, StopOK, RanOK, Connecting, Exchanging
<1>3. CASE /\ clusterPc' = "failed" /\ open' = {k \in open : k \notin {Cluster!Node(n) : n \in nodes}}
           /\ clusterStopped' = TRUE /\ closing' = "done"
  <2>1. open' = {}
    BY <1>1, <1>3 DEF NodeConns
  <2>2. clusterStopped'
    BY <1>3
  <2> QED BY <1>1, <1>3, <2>1, <2>2 DEF ClusterInv, OpenOK, StopOK, RanOK, Connecting, Exchanging
<1> QED BY <1>2, <1>3 DEF Cluster!ConnectNode

-----------------------------------------------------------------------------
(* Exchange.                                                                 *)

LEMMA SubmitKeeps == ASSUME ClusterInv, NEW batch \in ClusterCommands, Cluster!Submit(batch) PROVE ClusterInv'
<1>1. clusterPc = "idle" /\ ran' = [i \in DOMAIN batch |-> 0] /\ UNCHANGED <<nodes, open, clusterStopped, closing>>
  BY DEF Cluster!Submit, Cluster!connVars
<1>2. CASE Cluster!Refused(FALSE)
  <2>1. clusterPc' = "idle" /\ result'.may = FALSE /\ result'.ok = FALSE
    BY <1>2 DEF Cluster!Refused, Cluster!Answer
  <2>2. RanOK'
    BY <1>1, <2>1 DEF RanOK, Connecting, Exchanging
  <2>3. OpenOK' /\ StopOK'
    BY <1>1, <2>1, ConnectionsOnlyLost DEF Settled
  <2> QED BY <2>2, <2>3 DEF ClusterInv
<1>3. CASE clusterPc' = "node" /\ clusterStage' = "first" /\ cmds' = batch
  <2>1. RanOK'
    BY <1>1, <1>3, BatchesAreSequences DEF RanOK, Connecting, Exchanging, Cluster!Rules
  <2>2. OpenOK' /\ StopOK'
    BY <1>1, <1>3, ConnectionsOnlyLost DEF Settled
  <2> QED BY <2>1, <2>2 DEF ClusterInv
<1> QED BY <1>2, <1>3 DEF Cluster!Submit

(* A step inside an exchange that sends nothing.                             *)
LEMMA StillExchanging ==
    ASSUME ClusterInv, clusterPc \in Exchanging, clusterPc' \in Exchanging,
           UNCHANGED <<cmds, clusterStage, ran>>
    PROVE  RanOK'
BY DEF ClusterInv, RanOK, Exchanging, Connecting

LEMMA NodeForAddressKeeps == ASSUME ClusterInv, Cluster!NodeForAddress PROVE ClusterInv'
<1>1. clusterPc = "node" /\ UNCHANGED <<nodes, open, clusterStopped, closing, ran>>
  BY DEF Cluster!NodeForAddress, Cluster!connVars
<1>2. CASE Cluster!Refused(clusterStage # "first")
  <2>1. RanOK' /\ clusterPc' = "idle"
    BY <1>1, <1>2, RefusedKeeps DEF Exchanging
  <2> QED BY <1>1, <2>1, ConnectionsOnlyLost DEF Settled, ClusterInv
<1>3. CASE /\ clusterPc' = IF clusterTarget \in nodes THEN "send" ELSE "dial"
           /\ UNCHANGED <<cmds, clusterStage>>
  <2>1. RanOK'
    BY <1>1, <1>3, StillExchanging DEF Exchanging
  <2> QED BY <1>1, <1>3, <2>1, ConnectionsOnlyLost DEF Settled, ClusterInv
<1> QED BY <1>2, <1>3 DEF Cluster!NodeForAddress

LEMMA DialKeeps == ASSUME ClusterInv, Cluster!Dial PROVE ClusterInv'
<1>1. clusterPc = "dial" /\ UNCHANGED <<nodes, clusterStopped, closing, ran>>
  BY DEF Cluster!Dial
<1>2. CASE Cluster!Refused(clusterStage # "first") /\ UNCHANGED open
  <2>1. RanOK' /\ clusterPc' = "idle"
    BY <1>1, <1>2, RefusedKeeps DEF Exchanging
  <2> QED BY <1>1, <1>2, <2>1, ConnectionsOnlyLost DEF Settled, ClusterInv
<1>3. CASE /\ clusterPc' = "register" /\ open' = open \cup {Cluster!Dialled(clusterTarget)}
           /\ UNCHANGED <<cmds, clusterStage, clusterTarget>>
  <2>1. RanOK'
    BY <1>1, <1>3, StillExchanging DEF Exchanging
  <2>2. open \subseteq NodeConns /\ (closing = "done" => open = {})
    BY <1>1 DEF ClusterInv, OpenOK
  <2>3. NodeConns' = NodeConns /\ Dialling' = {Cluster!Dialled(clusterTarget)}
    BY <1>1, <1>3 DEF NodeConns, Dialling
  <2>4. OpenOK'
    BY <1>1, <1>3, <2>2, <2>3 DEF OpenOK
  <2>5. StopOK'
    BY <1>1, <1>3 DEF ClusterInv, StopOK, Connecting
  <2> QED BY <2>1, <2>4, <2>5 DEF ClusterInv
<1> QED BY <1>2, <1>3 DEF Cluster!Dial

(* The connection dialled is registered, or closed because Close came first. *)
LEMMA RegisterKeeps == ASSUME ClusterInv, Cluster!Register PROVE ClusterInv'
<1>1. /\ clusterPc = "register" /\ UNCHANGED <<clusterStopped, closing, ran>>
      /\ open \subseteq NodeConns \cup {Cluster!Dialled(clusterTarget)}
      /\ closing = "done" => open \subseteq {Cluster!Dialled(clusterTarget)}
      /\ closing # "no" => clusterStopped
  BY DEF Cluster!Register, ClusterInv, OpenOK, StopOK, Dialling
<1>2. CASE clusterStopped
  <2>1. /\ Cluster!Refused(clusterStage # "first") /\ UNCHANGED nodes
        /\ open' = open \ {Cluster!Dialled(clusterTarget)}
    BY <1>2 DEF Cluster!Register
  <2>2. RanOK' /\ clusterPc' = "idle"
    BY <1>1, <2>1, RefusedKeeps DEF Exchanging
  <2>3. open' \subseteq NodeConns' /\ (closing = "done" => open' = {})
    BY <1>1, <2>1 DEF NodeConns
  <2>4. OpenOK'
    BY <1>1, <2>2, <2>3 DEF OpenOK
  <2>5. StopOK'
    BY <1>1, <2>2 DEF StopOK, Connecting
  <2> QED BY <2>2, <2>4, <2>5 DEF ClusterInv
<1>3. CASE ~clusterStopped
  <2>1. /\ clusterPc' = "send" /\ nodes' = nodes \cup {clusterTarget}
        /\ open' = (open \ {Cluster!Dialled(clusterTarget)}) \cup {Cluster!Node(clusterTarget)}
        /\ UNCHANGED <<cmds, clusterStage>>
    BY <1>3 DEF Cluster!Register
  <2>2. RanOK'
    BY <1>1, <2>1, StillExchanging DEF Exchanging
  <2>3. closing = "no"
    BY <1>1, <1>3
  <2>4. open' \subseteq NodeConns'
    BY <1>1, <2>1 DEF NodeConns
  <2>5. OpenOK' /\ StopOK'
    BY <1>1, <2>1, <2>3, <2>4 DEF OpenOK, StopOK, Connecting
  <2> QED BY <2>2, <2>5 DEF ClusterInv
<1> QED BY <1>2, <1>3

(* A node that answers a command has run it; one that redirects has not, and *)
(* one that refuses it may have.                                             *)
LEMMA ReplyRuns ==
    ASSUME NEW n, NEW c, NEW asking, NEW reply \in Cluster!Reply(n, c, asking)
    PROVE  /\ reply.run \in BOOLEAN
           /\ reply.how = "done" => reply.run
           /\ reply.how \notin {"done", "error"} => ~reply.run
<1>1. \E to : \/ reply = [run |-> TRUE, how |-> "done", to |-> to]
             \/ reply = [run |-> TRUE, how |-> "error", to |-> to]
             \/ reply = [run |-> FALSE, how |-> "error", to |-> to]
             \/ reply = [run |-> FALSE, how |-> "ask", to |-> to]
             \/ reply = [run |-> FALSE, how |-> "moved", to |-> to]
  BY Zenon DEF Cluster!Reply, Cluster!Says
<1>2. CASE \E to, how : how \in {"done", "error"} /\ reply = [run |-> TRUE, how |-> how, to |-> to]
  BY <1>2
<1>3. CASE \E to, how : how # "done" /\ reply = [run |-> FALSE, how |-> how, to |-> to]
  BY <1>3
<1> QED BY <1>1, <1>2, <1>3

(* What a node did to the commands of an exchange is all that ever ran.      *)
LEMMA RanOnce ==
    ASSUME ClusterInv, clusterPc = "send", NEW did, Cluster!Ran(did)
    PROVE  /\ DOMAIN ran = DOMAIN cmds /\ DOMAIN ran' = DOMAIN cmds
           /\ \A i \in DOMAIN cmds : ran'[i] = IF did[i] THEN 1 ELSE 0
           /\ (\A i \in DOMAIN cmds : ~did[i]) => ran' = ran
<1>1. ran = [i \in DOMAIN cmds |-> 0]
  BY DEF ClusterInv, RanOK, Exchanging
<1> QED BY <1>1 DEF Cluster!Ran

(* An exchange ends with what ran: in doubt it says that something may have. *)
LEMMA AmbiguousKeeps ==
    ASSUME ClusterInv, clusterPc = "send", NEW did, Cluster!Ran(did), Cluster!Ambiguous
    PROVE  RanOK' /\ clusterPc' = "idle"
<1>1. clusterPc' = "idle" /\ result'.may = TRUE /\ result'.ok = FALSE
  BY DEF Cluster!Ambiguous, Cluster!Answer
<1>2. \A i \in DOMAIN ran' : ran'[i] \in {0, 1}
  BY RanOnce
<1> QED BY <1>1, <1>2 DEF RanOK, Connecting, Exchanging

LEMMA SucceededKeeps ==
    ASSUME ClusterInv, clusterPc = "send", NEW did, Cluster!Ran(did), Cluster!Succeeded,
           \A i \in DOMAIN cmds : did[i]
    PROVE  RanOK' /\ clusterPc' = "idle"
<1>1. clusterPc' = "idle" /\ result'.may = TRUE /\ result'.ok = TRUE
  BY DEF Cluster!Succeeded, Cluster!Answer
<1>2. \A i \in DOMAIN ran' : ran'[i] = 1
  BY RanOnce
<1> QED BY <1>1, <1>2 DEF RanOK, Connecting, Exchanging

LEMMA SendOneKeeps == ASSUME ClusterInv, Cluster!SendOne PROVE ClusterInv'
<1>1. clusterPc = "send" /\ Len(cmds) = 1 /\ UNCHANGED <<nodes, open, clusterStopped, closing>>
  BY DEF Cluster!SendOne, Cluster!Reached, Cluster!connVars
<1>2. cmds \in Seq([rule : Cluster!Rules, keys : Seq(Slots)]) /\ DOMAIN cmds = {1}
  BY <1>1 DEF ClusterInv, RanOK, Exchanging
<1>3. PICK reply \in Cluster!Reply(clusterTarget, cmds[1], clusterStage = "ask") :
          /\ Cluster!Ran(<<reply.run>>)
          /\ reply.how = "done" => Cluster!Succeeded
          /\ reply.how = "error" => Cluster!Ambiguous
          /\ reply.how \notin {"done", "error"} => Cluster!Follow(reply)
  BY DEF Cluster!SendOne
<1>4. /\ reply.run \in BOOLEAN /\ (reply.how = "done" => reply.run)
      /\ reply.how \notin {"done", "error"} => ~reply.run
  BY <1>3, ReplyRuns
<1> DEFINE did == <<reply.run>>
<1>5. \A i \in DOMAIN cmds : did[i] <=> reply.run
  BY <1>2, <1>4
<1>6. Cluster!Ran(did)
  BY <1>3
<1> HIDE DEF did
<1>7. CASE reply.how = "done"
  <2>1. \A i \in DOMAIN cmds : did[i]
    BY <1>4, <1>5, <1>7
  <2>2. RanOK' /\ clusterPc' = "idle"
    BY <1>1, <1>3, <1>6, <1>7, <2>1, SucceededKeeps
  <2> QED BY <1>1, <2>2, ConnectionsOnlyLost DEF Settled, ClusterInv
<1>9. CASE reply.how = "error"
  <2>1. RanOK' /\ clusterPc' = "idle"
    BY <1>1, <1>3, <1>6, <1>9, AmbiguousKeeps
  <2> QED BY <1>1, <2>1, ConnectionsOnlyLost DEF Settled, ClusterInv
<1>8. CASE reply.how \notin {"done", "error"}
  <2>1. \A i \in DOMAIN cmds : ~did[i]
    BY <1>4, <1>5, <1>8
  <2>2. ran' = ran
    BY <1>1, <1>6, <2>1, RanOnce
  <2>3. CASE Cluster!Refused(TRUE)
    <3>1. RanOK' /\ clusterPc' = "idle"
      BY <1>1, <2>2, <2>3, RefusedKeeps DEF Exchanging
    <3> QED BY <1>1, <3>1, ConnectionsOnlyLost DEF Settled, ClusterInv
  <2>4. CASE clusterPc' = "node" /\ UNCHANGED cmds
    <3>1. RanOK'
      BY <1>1, <2>2, <2>4 DEF ClusterInv, RanOK, Exchanging, Connecting
    <3> QED BY <1>1, <2>4, <3>1, ConnectionsOnlyLost DEF Settled, ClusterInv
  <2> QED BY <1>3, <1>8, <2>3, <2>4 DEF Cluster!Follow
<1> QED BY <1>7, <1>8, <1>9

LEMMA AskingRejectedKeeps == ASSUME ClusterInv, Cluster!AskingRejected PROVE ClusterInv'
<1>1. /\ clusterPc = "send" /\ Cluster!Ambiguous /\ UNCHANGED <<nodes, open, clusterStopped, closing>>
      /\ \E did : Cluster!Ran(did)
  BY DEF Cluster!AskingRejected, Cluster!Reached, Cluster!connVars
<1>2. RanOK' /\ clusterPc' = "idle"
  BY <1>1, AmbiguousKeeps
<1> QED BY <1>1, <1>2, ConnectionsOnlyLost DEF Settled, ClusterInv

LEMMA SendPipelineKeeps == ASSUME ClusterInv, Cluster!SendPipeline PROVE ClusterInv'
<1>1. clusterPc = "send" /\ UNCHANGED <<nodes, open, clusterStopped, closing>>
  BY DEF Cluster!SendPipeline, Cluster!Reached, Cluster!connVars
<1>2. PICK replies :
          /\ \A i \in DOMAIN cmds : replies[i] \in Cluster!Reply(clusterTarget, cmds[i], FALSE)
          /\ Cluster!Ran([i \in DOMAIN cmds |-> replies[i].run])
          /\ IF \A i \in DOMAIN cmds : replies[i].how = "done" THEN Cluster!Succeeded ELSE Cluster!Ambiguous
  BY DEF Cluster!SendPipeline
<1> DEFINE did == [i \in DOMAIN cmds |-> replies[i].run]
<1>3. \A i \in DOMAIN cmds : replies[i].how = "done" => did[i]
  <2>1. \A i \in DOMAIN cmds : replies[i].how = "done" => replies[i].run
    <3> SUFFICES ASSUME NEW i \in DOMAIN cmds
                 PROVE  replies[i].how = "done" => replies[i].run
      OBVIOUS
    <3>1. replies[i] \in Cluster!Reply(clusterTarget, cmds[i], FALSE)
      BY <1>2
    <3>2. \A reply \in Cluster!Reply(clusterTarget, cmds[i], FALSE) :
              reply.how = "done" => reply.run
      BY ReplyRuns
    <3> QED BY <3>1, <3>2, Zenon
  <2>2. \A i \in DOMAIN cmds : did[i] = replies[i].run
    OBVIOUS
  <2> QED BY <2>1, <2>2, Zenon
<1>4. Cluster!Ran(did)
  BY <1>2
<1> HIDE DEF did
<1>5. CASE \A i \in DOMAIN cmds : replies[i].how = "done"
  <2>1. \A i \in DOMAIN cmds : did[i]
    BY <1>3, <1>5
  <2>2. RanOK' /\ clusterPc' = "idle"
    BY <1>1, <1>2, <1>4, <1>5, <2>1, SucceededKeeps
  <2> QED BY <1>1, <2>2, ConnectionsOnlyLost DEF Settled, ClusterInv
<1>6. CASE ~\A i \in DOMAIN cmds : replies[i].how = "done"
  <2>1. RanOK' /\ clusterPc' = "idle"
    BY <1>1, <1>2, <1>4, <1>6, AmbiguousKeeps
  <2> QED BY <1>1, <2>1, ConnectionsOnlyLost DEF Settled, ClusterInv
<1> QED BY <1>5, <1>6

LEMMA RefreshSlotsKeeps == ASSUME ClusterInv, Cluster!RefreshSlots PROVE ClusterInv'
<1>1. /\ clusterPc = "send" /\ clusterStage = "refresh"
      /\ UNCHANGED <<nodes, open, clusterStopped, closing, ran>>
  BY DEF Cluster!RefreshSlots, Cluster!Reached, Cluster!connVars
<1>2. CASE Cluster!Refused(TRUE)
  <2>1. RanOK' /\ clusterPc' = "idle"
    BY <1>1, <1>2, RefusedKeeps DEF Exchanging
  <2> QED BY <1>1, <2>1, ConnectionsOnlyLost DEF Settled, ClusterInv
<1>3. CASE clusterPc' = "node" /\ UNCHANGED cmds
  <2>1. RanOK'
    BY <1>1, <1>3 DEF ClusterInv, RanOK, Exchanging, Connecting
  <2> QED BY <1>1, <1>3, <2>1, ConnectionsOnlyLost DEF Settled, ClusterInv
<1> QED BY <1>2, <1>3 DEF Cluster!RefreshSlots

LEMMA SendFailsKeeps == ASSUME ClusterInv, Cluster!SendFails PROVE ClusterInv'
<1>1. clusterPc = "send" /\ UNCHANGED <<nodes, clusterStopped, closing>>
  BY DEF Cluster!SendFails
<1>2. open' \subseteq open
  BY DEF Cluster!SendFails
<1>3. RanOK' /\ clusterPc' = "idle"
  <2>1. CASE ran' = ran /\ \E written : Cluster!Refused(written)
    BY <1>1, <2>1, RefusedKeeps DEF Exchanging
  <2>2. CASE Cluster!Ambiguous /\ \E did : Cluster!Ran(did)
    BY <1>1, <2>2, AmbiguousKeeps
  <2> QED BY <2>1, <2>2 DEF Cluster!SendFails
<1> QED BY <1>1, <1>2, <1>3, ConnectionsOnlyLost DEF Settled, ClusterInv

-----------------------------------------------------------------------------
(* The end of a connection, Close and quit.                                  *)

LEMMA NodeDiesKeeps == ASSUME ClusterInv, NEW a, Cluster!NodeDies(a) PROVE ClusterInv'
<1>1. /\ open' \subseteq open
      /\ UNCHANGED <<clusterPc, seed, nodes, clusterStopped, closing, cmds, clusterStage, clusterTarget,
                     ran, result>>
  BY DEF Cluster!NodeDies, Cluster!callVars
<1>2. OpenOK'
  BY <1>1 DEF ClusterInv, OpenOK, NodeConns, Dialling
<1>3. StopOK' /\ RanOK'
  BY <1>1 DEF ClusterInv, StopOK, RanOK
<1> QED BY <1>2, <1>3 DEF ClusterInv

LEMMA BeginCloseKeeps == ASSUME ClusterInv, Cluster!BeginClose PROVE ClusterInv'
<1>1. /\ clusterPc \notin Connecting /\ closing = "no" /\ closing' = "begun" /\ clusterStopped' = TRUE
      /\ UNCHANGED <<clusterPc, seed, nodes, open, cmds, clusterStage, clusterTarget, ran, result>>
  BY DEF Cluster!BeginClose, Cluster!callVars, Connecting
<1>2. OpenOK'
  BY <1>1 DEF ClusterInv, OpenOK, NodeConns, Dialling
<1>3. clusterStopped'
  BY <1>1
<1>4. StopOK'
  BY <1>1, <1>3 DEF StopOK
<1>5. RanOK'
  BY <1>1 DEF ClusterInv, RanOK
<1> QED BY <1>2, <1>4, <1>5 DEF ClusterInv

LEMMA FinishCloseKeeps == ASSUME ClusterInv, Cluster!FinishClose PROVE ClusterInv'
<1>1. /\ closing = "begun" /\ closing' = "done"
      /\ open' = {k \in open : k \notin {Cluster!Node(n) : n \in nodes}}
      /\ UNCHANGED <<clusterPc, seed, nodes, clusterStopped, cmds, clusterStage, clusterTarget, ran, result>>
  BY DEF Cluster!FinishClose, Cluster!callVars
<1>2. clusterStopped /\ clusterPc \notin Connecting
  BY <1>1 DEF ClusterInv, StopOK
<1>3. open' \subseteq open \ NodeConns
  BY <1>1 DEF NodeConns
<1>4. open' \subseteq IF clusterPc = "register" THEN Dialling ELSE {}
  BY <1>2, <1>3 DEF ClusterInv, OpenOK, Connecting
<1>5. Dialling' = Dialling
  BY <1>1 DEF Dialling
<1>6. OpenOK'
  BY <1>1, <1>2, <1>4, <1>5 DEF OpenOK, Connecting
<1>7. StopOK' /\ RanOK'
  BY <1>1, <1>2 DEF ClusterInv, StopOK, RanOK
<1> QED BY <1>6, <1>7 DEF ClusterInv

LEMMA ClusterQuitKeeps == ASSUME ClusterInv, Cluster!Quit PROVE ClusterInv'
<1>1. clusterPc = "idle" /\ ran' = <<>> /\ UNCHANGED <<nodes, open, closing>>
  BY DEF Cluster!Quit
<1>2. CASE UNCHANGED <<clusterPc, clusterStopped>>
  <2>1. RanOK'
    BY <1>1, <1>2 DEF RanOK, Connecting, Exchanging
  <2> QED BY <1>1, <1>2, <2>1, ConnectionsOnlyLost DEF Settled, ClusterInv
<1>3. CASE clusterStopped' = TRUE /\ clusterPc' = "quit"
  <2>1. RanOK'
    BY <1>1, <1>3 DEF RanOK, Connecting, Exchanging
  <2>2. clusterStopped'
    BY <1>3
  <2>3. StopOK'
    BY <1>3, <2>2 DEF StopOK, Connecting
  <2>4. open \subseteq NodeConns /\ (closing = "done" => open = {})
    BY <1>1 DEF ClusterInv, OpenOK
  <2>5. OpenOK'
    BY <1>1, <1>3, <2>4 DEF OpenOK, NodeConns
  <2> QED BY <2>1, <2>3, <2>5 DEF ClusterInv
<1> QED BY <1>2, <1>3 DEF Cluster!Quit

LEMMA EndQuitKeeps == ASSUME ClusterInv, Cluster!EndQuit PROVE ClusterInv'
<1>1. /\ clusterPc = "quit" /\ closing' = "done" /\ UNCHANGED <<nodes, clusterStopped, ran>>
      /\ open' = {k \in open : k \notin {Cluster!Node(n) : n \in nodes}}
  BY DEF Cluster!EndQuit
<1>2. clusterStopped /\ ran = <<>> /\ open \subseteq NodeConns
  BY <1>1 DEF ClusterInv, StopOK, RanOK, OpenOK
<1>3. open' = {}
  BY <1>1, <1>2 DEF NodeConns
<1>4. RanOK' /\ clusterPc' = "idle"
  <2>1. CASE Cluster!Refused(TRUE)
    BY <1>1, <2>1, RefusedKeeps
  <2>2. CASE Cluster!Answer([ok |-> TRUE, may |-> TRUE, written |-> TRUE])
    <3>1. clusterPc' = "idle"
      BY <2>2 DEF Cluster!Answer
    <3> QED BY <1>1, <1>2, <3>1 DEF RanOK, Connecting, Exchanging
  <2> QED BY <2>1, <2>2 DEF Cluster!EndQuit
<1>5. OpenOK' /\ StopOK'
  BY <1>1, <1>2, <1>3, <1>4 DEF OpenOK, StopOK, Connecting
<1> QED BY <1>4, <1>5 DEF ClusterInv

LEMMA ClusterInvNext == ASSUME ClusterInv, [Cluster!Next]_clusterState PROVE ClusterInv'
<1>1. ASSUME NEW s \in Slots, Cluster!Move(s) PROVE ClusterInv'
  BY <1>1, ClientUntouched DEF Cluster!Move, Cluster!connVars, Cluster!callVars
<1>2. CASE UNCHANGED clusterState
  BY <1>2, ClientUntouched DEF clusterState
<1>3. CASE \/ Cluster!ProbeSeed \/ Cluster!SeedsExhausted \/ Cluster!BadAnswer
           \/ Cluster!SlotsAnswer \/ Cluster!MasterAnswer \/ Cluster!ConnectNode
  BY <1>3, ProbeSeedKeeps, SeedsExhaustedKeeps, ProbeAnswersKeep, ConnectNodeKeeps
<1>4. ASSUME NEW batch \in ClusterCommands, Cluster!Submit(batch) PROVE ClusterInv'
  BY <1>4, SubmitKeeps
<1>5. CASE Cluster!NodeForAddress \/ Cluster!Dial \/ Cluster!Register
  BY <1>5, NodeForAddressKeeps, DialKeeps, RegisterKeeps
<1>6. CASE \/ Cluster!SendOne \/ Cluster!AskingRejected \/ Cluster!SendPipeline
           \/ Cluster!RefreshSlots \/ Cluster!SendFails
  BY <1>6, SendOneKeeps, AskingRejectedKeeps, SendPipelineKeeps, RefreshSlotsKeeps, SendFailsKeeps
<1>7. ASSUME NEW a \in RedisNodes, Cluster!NodeDies(a) PROVE ClusterInv'
  BY <1>7, NodeDiesKeeps
<1>8. CASE Cluster!BeginClose \/ Cluster!FinishClose \/ Cluster!Quit \/ Cluster!EndQuit
  BY <1>8, BeginCloseKeeps, FinishCloseKeeps, ClusterQuitKeeps, EndQuitKeeps
<1> QED BY <1>1, <1>2, <1>3, <1>4, <1>5, <1>6, <1>7, <1>8 DEF Cluster!Next

(* Close and a failed Connect leave no connection open, not even one dialled *)
(* for a redirect meanwhile; no exchange runs a command twice, and what it   *)
(* reports is what ran.                                                      *)
THEOREM ClusterExchangesAreHonest == ServicesSpec => []ClusterIsHonest
<1> DEFINE I == part = "cluster" => ClusterInv
<1>1. ServicesInit => I
  BY ChosenInit, ClusterInvInit
<1>2. I /\ [ServicesNext]_servicesVars => I'
  BY ChosenStep, ClusterInvNext
<1>3. ASSUME ClusterInv PROVE Cluster!NoConnectionLeft
  BY <1>3 DEF ClusterInv, OpenOK, NodeConns, Cluster!NoConnectionLeft
<1>4. ASSUME ClusterInv PROVE Cluster!OutcomeIsTruthful
  <2>1. \A i \in DOMAIN ran : ran[i] <= 1
    <3>1. CASE clusterPc \in Exchanging
      BY <1>4, <3>1 DEF ClusterInv, RanOK
    <3>2. CASE clusterPc = "idle"
      BY <1>4, <3>2 DEF ClusterInv, RanOK
    <3>3. CASE clusterPc \notin Exchanging \cup {"idle"}
      <4>1. ran = <<>>
        BY <1>4, <3>3 DEF ClusterInv, RanOK
      <4> QED BY <4>1
    <3> QED BY <3>1, <3>2, <3>3
  <2> QED BY <1>4, <2>1 DEF ClusterInv, RanOK, Cluster!OutcomeIsTruthful
<1>5. I => ClusterIsHonest
  BY <1>3, <1>4 DEF ClusterIsHonest
<1> QED BY <1>1, <1>2, <1>5, PTL DEF ServicesSpec

-----------------------------------------------------------------------------
(* The database clients.  An open connection belongs to the goroutine that   *)
(* dialled it, to a result still in the channel, to the service that is half *)
(* open, or to an installed service; once every result is collected it can   *)
(* only belong to a service.                                                 *)
Results == Seq(ConfiguredPools \X BOOLEAN)
Arrived == {c \in ConfiguredPools : \E k \in 1..Len(results) : results[k] = <<c, TRUE>>}
Holder(c) == job[c] \in {"probing", "pinging", "opened"} \/ c \in Arrived \/ c \in installed

DatabasesTypeOK ==
    /\ driver \in Databases!Drivers
    /\ attempt \in [ConfiguredPools -> {1, 2}]
    /\ job \in [ConfiguredPools -> {"dialing", "probing", "pinging", "opened", "sent"}]
    /\ results \in Results
AllAccounted == \A o \in opened : \E c \in ConfiguredPools : o = <<c, attempt[c]>> /\ Holder(c)
GoroutinesEnd ==
    /\ driver \notin Databases!Concurrent =>
           /\ results = <<>>
           /\ \A c \in ConfiguredPools : job[c] = "dialing" \/ (job[c] = "opened" /\ dbPc = "opening")
    /\ driver \in Databases!Concurrent /\ dbPc # "opening" =>
           results = <<>> /\ \A c \in ConfiguredPools : job[c] = "sent"

DatabasesInv ==
    /\ DatabasesTypeOK /\ AllAccounted /\ GoroutinesEnd
    /\ driver # "postgres" => dbRegistered = {}
    /\ Databases!NothingStaysOpen

LEMMA DatabasesInvInit == ASSUME Databases!Init PROVE DatabasesInv
<1>1. /\ dbPc = "opening" /\ attempt = [c \in ConfiguredPools |-> 1]
      /\ job = [c \in ConfiguredPools |-> "dialing"] /\ results = <<>> /\ opened = {} /\ dbRegistered = {}
  BY DEF Databases!Init
<1>2. DatabasesTypeOK
  BY <1>1 DEF DatabasesTypeOK, Results, Databases!Init
<1>3. AllAccounted /\ GoroutinesEnd
  BY <1>1 DEF AllAccounted, GoroutinesEnd
<1> QED BY <1>1, <1>2, <1>3 DEF DatabasesInv, Databases!NothingStaysOpen

(* A result in the channel stays there until it is collected.                *)
LEMMA ResultSent ==
    ASSUME results \in Results, NEW c \in ConfiguredPools, NEW ok \in BOOLEAN,
           results' = Append(results, <<c, ok>>)
    PROVE  results' \in Results /\ Arrived \subseteq Arrived' /\ (ok => c \in Arrived')
<1>1. results' \in Results /\ Len(results') = Len(results) + 1 /\ Len(results) \in Nat
  BY DEF Results
<1>2. \A k \in 1..Len(results) : results'[k] = results[k]
  BY DEF Results
<1>3. results'[Len(results) + 1] = <<c, ok>>
  BY DEF Results
<1>4. ASSUME NEW d \in Arrived PROVE d \in Arrived'
  <2>1. PICK k \in 1..Len(results) : results[k] = <<d, TRUE>>
    BY DEF Arrived
  <2>2. k \in 1..Len(results')
    BY <1>1, <2>1
  <2>3. results'[k] = <<d, TRUE>>
    BY <1>2, <2>1, Zenon
  <2> QED BY <1>4, <2>2, <2>3 DEF Arrived
<1>5. ASSUME ok PROVE c \in Arrived'
  <2>1. ok = TRUE
    BY <1>5
  <2>2. results'[Len(results')] = <<c, TRUE>>
    BY <1>1, <1>3, <2>1
  <2>3. Len(results') \in 1..Len(results')
    BY <1>1
  <2> QED BY <2>2, <2>3 DEF Arrived
<1> QED BY <1>1, <1>4, <1>5

LEMMA ResultCollected ==
    ASSUME results \in Results, results # <<>>, results' = Tail(results)
    PROVE  /\ results' \in Results
           /\ \A c \in Arrived : c \in Arrived' \/ Head(results) = <<c, TRUE>>
<1>1. /\ results' \in Results /\ Len(results') = Len(results) - 1 /\ Len(results) \in Nat
      /\ Head(results) = results[1]
  BY DEF Results
<1>2. \A k \in 1..Len(results') : results'[k] = results[k + 1]
  BY DEF Results
<1>3. ASSUME NEW c \in Arrived PROVE c \in Arrived' \/ Head(results) = <<c, TRUE>>
  <2>1. PICK k \in 1..Len(results) : results[k] = <<c, TRUE>>
    BY DEF Arrived
  <2>2. CASE k = 1
    BY <1>1, <2>1, <2>2
  <2>3. CASE k # 1
    <3>1. k - 1 \in 1..Len(results') /\ (k - 1) + 1 = k
      BY <1>1, <2>1, <2>3
    <3>2. results'[k - 1] = <<c, TRUE>>
      BY <1>2, <2>1, <3>1
    <3> QED BY <1>3, <3>1, <3>2 DEF Arrived
  <2> QED BY <2>2, <2>3
<1> QED BY <1>1, <1>3

(* Closing the installed services closes everything once no goroutine runs   *)
(* and the channel is empty.                                                 *)
LEMMA NobodyHolds ==
    ASSUME DatabasesInv, results = <<>>, \A c \in ConfiguredPools : job[c] \in {"dialing", "sent"},
           Databases!CloseAll
    PROVE  opened' = {} /\ dbRegistered' = {} /\ installed' = {}
<1>1. opened' = opened \ {<<c, attempt[c]>> : c \in installed} /\ dbRegistered' = {} /\ installed' = {}
  BY DEF Databases!CloseAll, Databases!CloseWith, Databases!Held
<1>2. Arrived = {}
  BY DEF Arrived
<1>3. \A c \in ConfiguredPools : Holder(c) => c \in installed
  BY <1>2 DEF Holder
<1>4. \A o \in opened : \E c \in installed : o = <<c, attempt[c]>>
  BY <1>3 DEF DatabasesInv, AllAccounted
<1> QED BY <1>1, <1>4

(* A client that is closed, after a failure or when it was up.               *)
LEMMA ClosedKeeps ==
    ASSUME DatabasesInv, dbPc # "opening" \/ driver \in Databases!Concurrent,
           dbPc' \in {"failed", "closed"}, Databases!CloseAll, results = <<>>,
           driver \in Databases!Concurrent => \A c \in ConfiguredPools : job[c] = "sent",
           UNCHANGED <<driver, attempt, job, results>>
    PROVE  DatabasesInv'
<1>1. \A c \in ConfiguredPools : job[c] \in {"dialing", "sent"}
  BY DEF DatabasesInv, GoroutinesEnd
<1>2. opened' = {} /\ dbRegistered' = {}
  BY <1>1, NobodyHolds
<1>3. DatabasesTypeOK' /\ AllAccounted'
  BY <1>2 DEF DatabasesInv, DatabasesTypeOK, AllAccounted
<1>4. GoroutinesEnd'
  BY DEF DatabasesInv, GoroutinesEnd
<1> QED BY <1>2, <1>3, <1>4 DEF DatabasesInv, Databases!NothingStaysOpen

(* While a client opens, only who accounts for what is open matters.         *)
LEMMA OpeningKeeps ==
    ASSUME DatabasesInv, DatabasesTypeOK', AllAccounted', GoroutinesEnd',
           dbPc' \notin {"failed", "closed"}, driver' = driver, driver # "postgres" => dbRegistered' = {}
    PROVE  DatabasesInv'
BY DEF DatabasesInv, Databases!NothingStaysOpen

LEMMA DBDialKeeps == ASSUME DatabasesInv, NEW c \in ConfiguredPools, Databases!Dial(c) PROVE DatabasesInv'
<1>1. /\ driver \in Databases!Concurrent /\ dbPc = "opening" /\ job[c] = "dialing"
      /\ UNCHANGED <<driver, dbPc, attempt, installed, dbRegistered>>
  BY DEF Databases!Dial
<1>2. CASE /\ job' = [job EXCEPT ![c] = IF driver = "redisAdvanced" THEN "probing" ELSE "pinging"]
           /\ opened' = opened \cup Databases!Held({c}) /\ UNCHANGED results
  <2>1. DatabasesTypeOK' /\ Arrived' = Arrived
    BY <1>1, <1>2 DEF DatabasesInv, DatabasesTypeOK, Arrived
  <2>2. opened' = opened \cup {<<c, attempt[c]>>}
    BY <1>2 DEF Databases!Held
  <2>3. Holder(c)' /\ \A d \in ConfiguredPools : Holder(d) => Holder(d)'
    BY <1>1, <1>2, <2>1 DEF DatabasesInv, DatabasesTypeOK, Holder
  <2>4. AllAccounted'
    BY <1>1, <2>2, <2>3 DEF DatabasesInv, AllAccounted
  <2>5. GoroutinesEnd'
    BY <1>1 DEF GoroutinesEnd
  <2> QED BY <1>1, <2>1, <2>4, <2>5, OpeningKeeps DEF DatabasesInv
<1>3. CASE /\ job' = [job EXCEPT ![c] = "sent"]
           /\ results' = Append(results, <<c, FALSE>>) /\ UNCHANGED opened
  <2>1. results' \in Results /\ Arrived \subseteq Arrived'
    BY <1>3, ResultSent DEF DatabasesInv, DatabasesTypeOK
  <2>2. DatabasesTypeOK'
    BY <1>1, <1>3, <2>1 DEF DatabasesInv, DatabasesTypeOK
  <2>3. \A d \in ConfiguredPools : Holder(d) => Holder(d)'
    BY <1>1, <1>3, <2>1 DEF DatabasesInv, DatabasesTypeOK, Holder
  <2>4. AllAccounted'
    BY <1>1, <1>3, <2>3 DEF DatabasesInv, AllAccounted
  <2>5. GoroutinesEnd'
    BY <1>1 DEF GoroutinesEnd
  <2> QED BY <1>1, <2>2, <2>4, <2>5, OpeningKeeps DEF DatabasesInv
<1> QED BY <1>2, <1>3 DEF Databases!Dial

(* The client that replaces a refused one is the only one open.              *)
LEMMA ProbeHandshakeKeeps ==
    ASSUME DatabasesInv, NEW c \in ConfiguredPools, Databases!ProbeHandshake(c) PROVE DatabasesInv'
<1>1. /\ job[c] = "probing" /\ job' = [job EXCEPT ![c] = "pinging"]
      /\ UNCHANGED <<driver, dbPc, results, installed, dbRegistered>>
  BY DEF Databases!ProbeHandshake
<1>2. driver \in Databases!Concurrent /\ dbPc = "opening"
  BY <1>1 DEF DatabasesInv, GoroutinesEnd
<1>3. GoroutinesEnd'
  BY <1>1, <1>2 DEF GoroutinesEnd
<1>4. Arrived' = Arrived /\ Holder(c)'
  BY <1>1 DEF DatabasesInv, DatabasesTypeOK, Arrived, Holder
<1>5. \A d \in ConfiguredPools : Holder(d) => Holder(d)'
  BY <1>1, <1>4 DEF DatabasesInv, DatabasesTypeOK, Holder
<1>6. CASE UNCHANGED <<opened, attempt>>
  <2>1. DatabasesTypeOK'
    BY <1>1, <1>6 DEF DatabasesInv, DatabasesTypeOK
  <2>2. AllAccounted'
    BY <1>5, <1>6 DEF DatabasesInv, AllAccounted
  <2> QED BY <1>1, <1>2, <1>3, <2>1, <2>2, OpeningKeeps DEF DatabasesInv
<1>7. CASE opened' = (opened \ {<<c, 1>>}) \cup {<<c, 2>>} /\ attempt' = [attempt EXCEPT ![c] = 2]
  <2>1. DatabasesTypeOK'
    BY <1>1, <1>7 DEF DatabasesInv, DatabasesTypeOK
  <2>2. \A d \in ConfiguredPools : attempt'[d] = IF d = c THEN 2 ELSE attempt[d]
    BY <1>7 DEF DatabasesInv, DatabasesTypeOK
  <2>3. attempt[c] \in {1, 2}
    BY DEF DatabasesInv, DatabasesTypeOK
  <2>4. ASSUME NEW o \in opened'
        PROVE  \E d \in ConfiguredPools : o = <<d, attempt'[d]>> /\ Holder(d)'
    <3>1. CASE o = <<c, 2>>
      BY <1>4, <2>2, <3>1
    <3>2. CASE o \in opened /\ o # <<c, 1>> /\ o # <<c, 2>>
      <4>1. PICK d \in ConfiguredPools : o = <<d, attempt[d]>> /\ Holder(d)
        BY <3>2 DEF DatabasesInv, AllAccounted
      <4>2. d # c
        BY <2>3, <3>2, <4>1
      <4> QED BY <1>5, <2>2, <4>1, <4>2
    <3> QED BY <1>7, <2>4, <3>1, <3>2
  <2>5. AllAccounted'
    BY <2>4 DEF AllAccounted
  <2> QED BY <1>1, <1>2, <1>3, <2>1, <2>5, OpeningKeeps DEF DatabasesInv
<1> QED BY <1>6, <1>7 DEF Databases!ProbeHandshake, Databases!Replaced

LEMMA PingDialedKeeps ==
    ASSUME DatabasesInv, NEW c \in ConfiguredPools, Databases!PingDialed(c) PROVE DatabasesInv'
<1>1. /\ driver \in Databases!Concurrent /\ dbPc = "opening" /\ job[c] = "pinging"
      /\ job' = [job EXCEPT ![c] = "sent"]
      /\ UNCHANGED <<driver, dbPc, attempt, installed, dbRegistered>>
  BY DEF Databases!PingDialed
<1>2. PICK ok \in BOOLEAN : /\ results' = Append(results, <<c, ok>>)
                            /\ opened' = IF ok THEN opened ELSE opened \ {<<c, attempt[c]>>}
  BY DEF Databases!PingDialed, Databases!Held
<1>3. results' \in Results /\ Arrived \subseteq Arrived' /\ (ok => c \in Arrived')
  BY <1>2, ResultSent DEF DatabasesInv, DatabasesTypeOK
<1>4. DatabasesTypeOK'
  BY <1>1, <1>3 DEF DatabasesInv, DatabasesTypeOK
<1>5. \A d \in ConfiguredPools : Holder(d) /\ (d # c \/ ok) => Holder(d)'
  BY <1>1, <1>3 DEF DatabasesInv, DatabasesTypeOK, Holder
<1>6. ASSUME NEW o \in opened' PROVE \E d \in ConfiguredPools : o = <<d, attempt'[d]>> /\ Holder(d)'
  <2>1. PICK d \in ConfiguredPools : o = <<d, attempt[d]>> /\ Holder(d)
    BY <1>2, <1>6 DEF DatabasesInv, AllAccounted
  <2>2. d # c \/ ok
    BY <1>2, <1>6, <2>1
  <2> QED BY <1>1, <1>5, <2>1, <2>2
<1>7. AllAccounted' /\ GoroutinesEnd'
  BY <1>1, <1>6 DEF AllAccounted, GoroutinesEnd
<1> QED BY <1>1, <1>4, <1>7, OpeningKeeps DEF DatabasesInv

LEMMA CollectKeeps == ASSUME DatabasesInv, Databases!Collect PROVE DatabasesInv'
<1>1. /\ driver \in Databases!Concurrent /\ dbPc = "opening" /\ results # <<>> /\ results' = Tail(results)
      /\ UNCHANGED <<driver, dbPc, attempt, job, opened, dbRegistered>>
  BY DEF Databases!Collect
<1>2. results' \in Results /\ \A c \in Arrived : c \in Arrived' \/ Head(results) = <<c, TRUE>>
  BY <1>1, ResultCollected DEF DatabasesInv, DatabasesTypeOK
<1>3. installed \subseteq installed'
  BY DEF Databases!Collect
<1>4. \A c : Head(results) = <<c, TRUE>> => c \in installed'
  <2> SUFFICES ASSUME NEW c, Head(results) = <<c, TRUE>> PROVE c \in installed'
    OBVIOUS
  <2>1. Head(results)[2] = TRUE /\ Head(results)[1] = c
    <3>1. \A h : h = <<c, TRUE>> => h[2] = TRUE /\ h[1] = c
      OBVIOUS
    <3> QED BY <3>1, Zenon
  <2>2. Head(results)[2]
    BY <2>1
  <2> QED BY <2>1, <2>2 DEF Databases!Collect
<1>5. DatabasesTypeOK'
  BY <1>1, <1>2 DEF DatabasesInv, DatabasesTypeOK
<1>6. \A c \in ConfiguredPools : Holder(c) => Holder(c)'
  BY <1>1, <1>2, <1>3, <1>4 DEF Holder
<1>7. AllAccounted' /\ GoroutinesEnd'
  BY <1>1, <1>6 DEF DatabasesInv, AllAccounted, GoroutinesEnd
<1> QED BY <1>1, <1>5, <1>7, OpeningKeeps DEF DatabasesInv

LEMMA EndCollectKeeps == ASSUME DatabasesInv, Databases!EndCollect PROVE DatabasesInv'
<1>1. /\ driver \in Databases!Concurrent /\ results = <<>> /\ \A c \in ConfiguredPools : job[c] = "sent"
      /\ UNCHANGED <<driver, attempt, job, results>>
  BY DEF Databases!EndCollect, Databases!Collected
<1>2. CASE dbPc' = "failed" /\ Databases!CloseAll
  BY <1>1, <1>2, ClosedKeeps
<1>3. CASE dbPc' = "up" /\ UNCHANGED <<opened, installed, dbRegistered>>
  <2>1. DatabasesTypeOK' /\ AllAccounted' /\ GoroutinesEnd'
    BY <1>1, <1>3 DEF DatabasesInv, DatabasesTypeOK, AllAccounted, Holder, Arrived, GoroutinesEnd
  <2> QED BY <1>1, <1>3, <2>1, OpeningKeeps DEF DatabasesInv
<1> QED BY <1>2, <1>3 DEF Databases!EndCollect

LEMMA OpenWriteKeeps == ASSUME DatabasesInv, NEW s, Databases!OpenWrite(s) PROVE DatabasesInv'
<1> DEFINE firsts == Databases!First(s)
<1>1. /\ driver \notin Databases!Concurrent /\ dbPc = "opening"
      /\ UNCHANGED <<driver, dbPc, attempt, results, installed>>
      /\ opened' = opened \cup {<<c, attempt[c]>> : c \in firsts} /\ firsts \subseteq ConfiguredPools
      /\ job' = [c \in ConfiguredPools |-> IF c \in firsts THEN "opened" ELSE job[c]]
  BY DEF Databases!OpenWrite, Databases!Held, Databases!First
<1>2. driver # "postgres" => dbRegistered' = {}
  BY DEF DatabasesInv, Databases!OpenWrite, Databases!Registrable
<1> HIDE DEF firsts
<1>3. DatabasesTypeOK' /\ Arrived' = Arrived
  BY <1>1 DEF DatabasesInv, DatabasesTypeOK, Arrived
<1>4. \A c \in ConfiguredPools : Holder(c) \/ c \in firsts => Holder(c)'
  BY <1>1, <1>3 DEF Holder
<1>5. AllAccounted'
  BY <1>1, <1>4 DEF DatabasesInv, AllAccounted
<1>6. GoroutinesEnd'
  BY <1>1 DEF DatabasesInv, GoroutinesEnd
<1> QED BY <1>1, <1>2, <1>3, <1>5, <1>6, OpeningKeeps

LEMMA OpenServiceKeeps == ASSUME DatabasesInv, NEW s, Databases!OpenService(s) PROVE DatabasesInv'
<1>1. /\ driver \notin Databases!Concurrent /\ UNCHANGED <<driver, attempt, results>>
      /\ opened' = opened \cup {<<c, attempt[c]>> : c \in Databases!Of(s)}
      /\ installed' = installed \cup Databases!Of(s) /\ Databases!Of(s) \subseteq ConfiguredPools
      /\ job' = [c \in ConfiguredPools |-> "dialing"]
      /\ dbPc' \in {"pinging", "opening"}
  BY DEF Databases!OpenService, Databases!Held, Databases!Of, Databases!Unopened
<1>2. DatabasesTypeOK' /\ Arrived' = Arrived
  BY <1>1 DEF DatabasesInv, DatabasesTypeOK, Arrived
<1>3. \A c \in ConfiguredPools : Holder(c) \/ c \in Databases!Of(s) => Holder(c)'
  <2>1. \A c \in ConfiguredPools : job[c] = "opened" => c \in Databases!Of(s)
    BY DEF Databases!OpenService, Databases!HalfOpen, Databases!First, Databases!Of
  <2>2. \A c \in ConfiguredPools : job[c] \in {"dialing", "opened"}
    BY <1>1 DEF DatabasesInv, GoroutinesEnd
  <2> QED BY <1>1, <1>2, <2>1, <2>2 DEF Holder
<1>4. AllAccounted'
  BY <1>1, <1>3 DEF DatabasesInv, AllAccounted
<1>5. GoroutinesEnd'
  BY <1>1 DEF DatabasesInv, GoroutinesEnd
<1>6. driver # "postgres" => dbRegistered' = {}
  BY DEF DatabasesInv, Databases!OpenService, Databases!Registrable
<1> QED BY <1>1, <1>2, <1>4, <1>5, <1>6, OpeningKeeps

LEMMA OpenFailsKeeps == ASSUME DatabasesInv, NEW s, Databases!OpenFails(s) PROVE DatabasesInv'
<1>1. /\ driver \notin Databases!Concurrent /\ dbPc' = "failed" /\ UNCHANGED <<driver, attempt, results>>
      /\ job' = [c \in ConfiguredPools |-> "dialing"]
  BY DEF Databases!OpenFails, Databases!Unopened
<1>2. results = <<>> /\ Arrived = {} /\ Arrived' = {}
  <2>1. results = <<>> /\ results' = <<>>
    BY <1>1 DEF DatabasesInv, GoroutinesEnd
  <2> QED BY <2>1 DEF Arrived
<1>3. DatabasesTypeOK' /\ GoroutinesEnd'
  BY <1>1, <1>2 DEF DatabasesInv, DatabasesTypeOK, GoroutinesEnd
<1>4. \A c \in ConfiguredPools : Holder(c) => c \in installed \/ c \in Databases!HalfOpen
  BY <1>1, <1>2 DEF DatabasesInv, GoroutinesEnd, Holder, Databases!HalfOpen
<1>5. CASE Databases!CloseWith(Databases!HalfOpen)
  <2>1. /\ opened' = opened \ {<<c, attempt[c]>> : c \in installed \cup Databases!HalfOpen}
        /\ dbRegistered' = {}
    BY <1>5 DEF Databases!CloseWith, Databases!Held
  <2>2. opened' = {}
    BY <1>4, <2>1 DEF DatabasesInv, AllAccounted
  <2>3. AllAccounted'
    BY <2>2 DEF AllAccounted
  <2> QED BY <1>1, <1>3, <2>1, <2>2, <2>3 DEF DatabasesInv, Databases!NothingStaysOpen
<1>6. CASE /\ driver # "postgres" /\ opened' = opened \ Databases!Held(Databases!HalfOpen)
           /\ UNCHANGED <<installed, dbRegistered>>
  <2>1. opened' = opened \ {<<c, attempt[c]>> : c \in Databases!HalfOpen}
    BY <1>6 DEF Databases!Held
  <2>2. ASSUME NEW o \in opened' PROVE \E c \in ConfiguredPools : o = <<c, attempt'[c]>> /\ Holder(c)'
    <3>1. PICK c \in ConfiguredPools : o = <<c, attempt[c]>> /\ Holder(c)
      BY <2>1, <2>2 DEF DatabasesInv, AllAccounted
    <3>2. c \in installed
      BY <1>4, <2>1, <2>2, <3>1
    <3> QED BY <1>1, <1>6, <3>1, <3>2 DEF Holder
  <2>3. AllAccounted'
    BY <2>2 DEF AllAccounted
  <2>4. dbRegistered' = {} /\ driver = "mysql"
    BY <1>1, <1>6 DEF DatabasesInv, DatabasesTypeOK, Databases!Drivers
  <2> QED BY <1>1, <1>3, <2>3, <2>4 DEF DatabasesInv, Databases!NothingStaysOpen
<1> QED BY <1>5, <1>6 DEF Databases!OpenFails, Databases!ClosesOnFailure

LEMMA VerifyKeeps == ASSUME DatabasesInv, NEW c, Databases!Verify(c) PROVE DatabasesInv'
<1>1. dbPc = "pinging" /\ UNCHANGED <<driver, attempt, job, results>>
  BY DEF Databases!Verify
<1>2. results = <<>> /\ (driver \in Databases!Concurrent => \A d \in ConfiguredPools : job[d] = "sent")
  BY <1>1 DEF DatabasesInv, GoroutinesEnd
<1>3. CASE dbPc' = "failed" /\ Databases!CloseAll
  BY <1>1, <1>2, <1>3, ClosedKeeps
<1>4. CASE dbPc' \in {"up", "pinging"} /\ UNCHANGED <<opened, installed, dbRegistered>>
  <2>1. DatabasesTypeOK' /\ GoroutinesEnd'
    BY <1>1, <1>4 DEF DatabasesInv, DatabasesTypeOK, GoroutinesEnd
  <2>2. AllAccounted'
    <3>1. \A d \in ConfiguredPools : Holder(d) => Holder(d)'
      BY <1>1, <1>4 DEF Holder, Arrived
    <3> QED BY <1>1, <1>4, <3>1 DEF DatabasesInv, AllAccounted
  <2> QED BY <1>1, <1>4, <2>1, <2>2, OpeningKeeps DEF DatabasesInv
<1> QED BY <1>3, <1>4 DEF Databases!Verify

LEMMA DBCloseKeeps == ASSUME DatabasesInv, Databases!Close PROVE DatabasesInv'
<1>1. /\ dbPc # "opening" /\ dbPc' = "closed" /\ Databases!CloseAll
      /\ UNCHANGED <<driver, attempt, job, results>>
  BY DEF Databases!Close
<1>2. results = <<>> /\ (driver \in Databases!Concurrent => \A d \in ConfiguredPools : job[d] = "sent")
  BY <1>1 DEF DatabasesInv, GoroutinesEnd
<1> QED BY <1>1, <1>2, ClosedKeeps

LEMMA DatabasesInvNext == ASSUME DatabasesInv, [Databases!Next]_databasesState PROVE DatabasesInv'
<1>1. ASSUME NEW c \in ConfiguredPools,
             \/ Databases!Dial(c) \/ Databases!ProbeHandshake(c)
             \/ Databases!PingDialed(c) \/ Databases!Verify(c)
      PROVE  DatabasesInv'
  BY <1>1, DBDialKeeps, ProbeHandshakeKeeps, PingDialedKeeps, VerifyKeeps
<1>2. ASSUME NEW s, Databases!OpenWrite(s) \/ Databases!OpenService(s) \/ Databases!OpenFails(s)
      PROVE  DatabasesInv'
  BY <1>2, OpenWriteKeeps, OpenServiceKeeps, OpenFailsKeeps
<1>3. CASE Databases!Collect \/ Databases!EndCollect \/ Databases!Close
  BY <1>3, CollectKeeps, EndCollectKeeps, DBCloseKeeps
<1>4. CASE UNCHANGED databasesState
  <2>1. UNCHANGED <<driver, dbPc, attempt, job, results, opened, installed, dbRegistered>>
    BY <1>4 DEF databasesState
  <2>2. DatabasesTypeOK' /\ GoroutinesEnd'
    BY <2>1 DEF DatabasesInv, DatabasesTypeOK, GoroutinesEnd
  <2>3. AllAccounted'
    <3>1. \A d \in ConfiguredPools : Holder(d) => Holder(d)'
      BY <2>1 DEF Holder, Arrived
    <3> QED BY <2>1, <3>1 DEF DatabasesInv, AllAccounted
  <2> QED BY <2>1, <2>2, <2>3 DEF DatabasesInv, Databases!NothingStaysOpen
<1> QED BY <1>1, <1>2, <1>3, <1>4 DEF Databases!Next

-----------------------------------------------------------------------------
(* The framework object.  A part that runs is reached by a field, a default  *)
(* of the process by a restore function; an initialisation has started only  *)
(* parts of the stages behind it, and a shutdown has left only the fields    *)
(* and restore functions of the stages before it.                            *)
Started == {Fit!Pipeline[j] : j \in 1..(fitStage - 1)}
ToStop == {p \in Fit!Parts : \E j \in fitStage..14 : Fit!ShutdownOrder[j] = <<"stop", p>>}
ToUndo == {p \in Fit!Parts : \E j \in fitStage..14 : Fit!ShutdownOrder[j] = <<"undo", p>>}

FitTypeOK ==
    /\ mode \in {"off", "legacy", "advanced"} /\ doing \in {"none", "init", "shutdown"}
    /\ fitStage \in 1..15
    /\ doing = "init" => fitStage \in 1..10
FitHeld ==
    /\ fitLive \subseteq fields /\ fields \subseteq Fit!Parts
    /\ defaults \subseteq undo /\ undo \subseteq Fit!WithDefault
FitPhase ==
    /\ doing = "none" /\ mode = "off" => fitLive = {} /\ undo = {}
    /\ mode = "legacy" => doing = "none" /\ fitLive \subseteq Fit!LegacyParts /\ undo = {}
    /\ doing = "init" => mode = "off" /\ fields \subseteq Started /\ undo \subseteq fields
    /\ mode = "advanced" /\ doing = "none" => undo \subseteq fields
    /\ doing = "shutdown" => /\ mode = "advanced" /\ fields \subseteq ToStop
                             /\ undo \subseteq ToUndo

FitInv == FitTypeOK /\ FitHeld /\ FitPhase /\ Fit!DefaultsAreReachable

(* The orders of fit.go, place by place.                                     *)
LEMMA PipelineOrder ==
    /\ Len(Fit!Pipeline) = 9
    /\ Fit!Pipeline[1] = "feature" /\ Fit!Pipeline[2] = "logger" /\ Fit!Pipeline[3] = "errors"
    /\ Fit!Pipeline[4] = "tracer" /\ Fit!Pipeline[5] = "otel" /\ Fit!Pipeline[6] = "hooks"
    /\ Fit!Pipeline[7] = "postgres" /\ Fit!Pipeline[8] = "metrics" /\ Fit!Pipeline[9] = "profiler"
BY DEF Fit!Pipeline

LEMMA PartNames ==
    Fit!Parts = {"feature", "logger", "errors", "tracer", "otel", "hooks", "postgres", "metrics", "profiler"}
<1>1. DOMAIN Fit!Pipeline = 1..9
  BY DEF Fit!Pipeline
<1>2. Fit!Parts = {Fit!Pipeline[i] : i \in 1..9}
  BY <1>1 DEF Fit!Parts, Fit!ToSet
<1>3. \A i \in 1..9 : i = 1 \/ i = 2 \/ i = 3 \/ i = 4 \/ i = 5 \/ i = 6 \/ i = 7 \/ i = 8 \/ i = 9
  OBVIOUS
<1>4. /\ 1 \in 1..9 /\ 2 \in 1..9 /\ 3 \in 1..9 /\ 4 \in 1..9 /\ 5 \in 1..9 /\ 6 \in 1..9
      /\ 7 \in 1..9 /\ 8 \in 1..9 /\ 9 \in 1..9
  OBVIOUS
<1>5. \A p \in Fit!Parts : p \in {"feature", "logger", "errors", "tracer", "otel", "hooks", "postgres", "metrics", "profiler"}
  BY <1>2, <1>3, PipelineOrder
<1>6. \A p \in {"feature", "logger", "errors", "tracer", "otel", "hooks", "postgres", "metrics", "profiler"} : p \in Fit!Parts
  BY <1>2, <1>4, PipelineOrder
<1> QED BY <1>5, <1>6

LEMMA ShutdownPlaces ==
    /\ Len(Fit!ShutdownOrder) = 14
    /\ Fit!ShutdownOrder[1] = <<"stop", "hooks">> /\ Fit!ShutdownOrder[2] = <<"stop", "postgres">>
    /\ Fit!ShutdownOrder[3] = <<"stop", "feature">> /\ Fit!ShutdownOrder[4] = <<"stop", "profiler">>
    /\ Fit!ShutdownOrder[5] = <<"undo", "profiler">> /\ Fit!ShutdownOrder[6] = <<"undo", "tracer">>
    /\ Fit!ShutdownOrder[7] = <<"stop", "otel">> /\ Fit!ShutdownOrder[8] = <<"undo", "otel">>
    /\ Fit!ShutdownOrder[9] = <<"stop", "tracer">> /\ Fit!ShutdownOrder[10] = <<"undo", "metrics">>
    /\ Fit!ShutdownOrder[11] = <<"stop", "metrics">> /\ Fit!ShutdownOrder[12] = <<"undo", "logger">>
    /\ Fit!ShutdownOrder[13] = <<"stop", "logger">> /\ Fit!ShutdownOrder[14] = <<"stop", "errors">>
BY DEF Fit!ShutdownOrder

(* Every part has its stop and every default its restore.                    *)
LEMMA ShutdownCoversAll ==
    /\ \A p \in Fit!Parts : \E j \in 1..14 : Fit!ShutdownOrder[j] = <<"stop", p>>
    /\ \A p \in Fit!WithDefault : p \in Fit!Parts /\ \E j \in 1..14 : Fit!ShutdownOrder[j] = <<"undo", p>>
<1>1. \A j \in {1, 2, 3, 4, 5, 6, 7, 8, 9, 10, 11, 12, 13, 14} : j \in 1..14
  OBVIOUS
<1>2. ASSUME NEW p \in Fit!Parts PROVE \E j \in 1..14 : Fit!ShutdownOrder[j] = <<"stop", p>>
  BY <1>1, PartNames, ShutdownPlaces
<1>3. ASSUME NEW p \in Fit!WithDefault
      PROVE  p \in Fit!Parts /\ \E j \in 1..14 : Fit!ShutdownOrder[j] = <<"undo", p>>
  BY <1>1, PartNames, ShutdownPlaces DEF Fit!WithDefault
<1> QED BY <1>2, <1>3

(* A default is restored before the part behind it is stopped, but for two.  *)
LEMMA UndoneBeforeStopped ==
    ASSUME NEW k \in 1..14, NEW j \in 1..14, NEW p,
           Fit!ShutdownOrder[k] = <<"stop", p>>, Fit!ShutdownOrder[j] = <<"undo", p>>,
           p \notin {"profiler", "otel"}
    PROVE  j < k
<1>1. \A i \in 1..14 : \/ i = 1 \/ i = 2 \/ i = 3 \/ i = 4 \/ i = 5 \/ i = 6 \/ i = 7
                       \/ i = 8 \/ i = 9 \/ i = 10 \/ i = 11 \/ i = 12 \/ i = 13 \/ i = 14
  OBVIOUS
<1>2. \/ j = 6 /\ p = "tracer"
      \/ j = 10 /\ p = "metrics"
      \/ j = 12 /\ p = "logger"
  BY <1>1, ShutdownPlaces
<1>3. CASE j = 6 /\ p = "tracer"
  BY <1>1, <1>3, ShutdownPlaces
<1>4. CASE j = 10 /\ p = "metrics"
  BY <1>1, <1>4, ShutdownPlaces
<1>5. CASE j = 12 /\ p = "logger"
  BY <1>1, <1>5, ShutdownPlaces
<1> QED BY <1>2, <1>3, <1>4, <1>5

LEMMA FitInvInit == ASSUME Fit!Init PROVE FitInv
BY DEF Fit!Init, FitInv, FitTypeOK, FitHeld, FitPhase, Fit!DefaultsAreReachable

(* The original lifecycle installs no default.                               *)
LEMMA LegacyInitKeeps ==
    ASSUME FitInv, NEW configured \in SUBSET Fit!LegacyParts, Fit!LegacyInit(configured) PROVE FitInv'
<1>1. /\ doing = "none" /\ mode # "advanced" /\ mode' = "legacy"
      /\ fields' = fields \cup {"logger"} \cup configured
      /\ fitLive' \subseteq fitLive \cup configured
      /\ UNCHANGED <<doing, fitStage, undo, defaults>>
  BY DEF Fit!LegacyInit
<1>2. undo = {} /\ fitLive \subseteq Fit!LegacyParts
  BY <1>1 DEF FitInv, FitTypeOK, FitPhase
<1>3. {"logger"} \cup configured \subseteq Fit!Parts
  BY PartNames DEF Fit!LegacyParts
<1>4. FitTypeOK' /\ FitPhase'
  BY <1>1, <1>2 DEF FitInv, FitTypeOK, FitPhase
<1>5. FitHeld' /\ Fit!DefaultsAreReachable'
  BY <1>1, <1>3 DEF FitInv, FitHeld, Fit!DefaultsAreReachable
<1> QED BY <1>4, <1>5 DEF FitInv

LEMMA BeginInitKeeps == ASSUME FitInv, Fit!BeginInit PROVE FitInv'
<1>1. /\ doing = "none" /\ mode = "off" /\ fields' = {}
      /\ \/ doing' = "init" /\ fitStage' = 1
         \/ UNCHANGED <<doing, fitStage>>
      /\ UNCHANGED <<mode, undo, fitLive, defaults>>
  BY DEF Fit!BeginInit
<1>2. fitLive = {} /\ undo = {} /\ defaults = {}
  BY <1>1 DEF FitInv, FitHeld, FitPhase
<1> QED BY <1>1, <1>2 DEF FitInv, FitTypeOK, FitHeld, FitPhase, Fit!DefaultsAreReachable

(* A stage that is passed over, and one whose part starts.                   *)
LEMMA StageBehind ==
    ASSUME fitStage \in 1..9, fitStage' = fitStage + 1
    PROVE  Started \subseteq Started' /\ Fit!Part \in Started' /\ Fit!Part \in Fit!Parts
<1>1. \A j \in 1..(fitStage - 1) : j \in 1..(fitStage' - 1)
  OBVIOUS
<1>2. fitStage \in 1..(fitStage' - 1)
  OBVIOUS
<1>3. Fit!Part \in Fit!Parts
  <2>1. DOMAIN Fit!Pipeline = 1..9
    BY DEF Fit!Pipeline
  <2> QED BY <2>1 DEF Fit!Part, Fit!Parts, Fit!ToSet
<1> QED BY <1>1, <1>2, <1>3 DEF Started, Fit!Part

LEMMA PassStageKeeps == ASSUME FitInv, Fit!SkipStage \/ Fit!TolerateFailure PROVE FitInv'
<1>1. /\ doing = "init" /\ fitStage <= 9 /\ fitStage' = fitStage + 1
      /\ UNCHANGED <<mode, doing, fields, undo, fitLive, defaults>>
  BY PipelineOrder DEF Fit!SkipStage, Fit!TolerateFailure
<1>2. fitStage \in 1..9
  BY <1>1 DEF FitInv, FitTypeOK
<1>3. Started \subseteq Started'
  BY <1>1, <1>2, StageBehind
<1>4. FitTypeOK' /\ FitHeld' /\ Fit!DefaultsAreReachable'
  BY <1>1, <1>2 DEF FitInv, FitTypeOK, FitHeld, Fit!DefaultsAreReachable
<1>5. FitPhase'
  BY <1>1, <1>3 DEF FitInv, FitPhase
<1> QED BY <1>4, <1>5 DEF FitInv

LEMMA StartStageKeeps == ASSUME FitInv, Fit!StartStage PROVE FitInv'
<1> DEFINE p == Fit!Part
<1>1. /\ doing = "init" /\ fitStage <= 9 /\ fitStage' = fitStage + 1
      /\ fields' = fields \cup {p} /\ fitLive' = fitLive \cup {p}
      /\ undo' = undo \cup ({p} \cap Fit!WithDefault)
      /\ defaults' = defaults \cup ({p} \cap Fit!WithDefault)
      /\ UNCHANGED <<mode, doing>>
  BY PipelineOrder DEF Fit!StartStage
<1>2. fitStage \in 1..9
  BY <1>1 DEF FitInv, FitTypeOK
<1>3. Started \subseteq Started' /\ p \in Started' /\ p \in Fit!Parts
  BY <1>1, <1>2, StageBehind
<1> HIDE DEF p
<1>4. FitTypeOK'
  BY <1>1, <1>2 DEF FitInv, FitTypeOK
<1>5. FitHeld' /\ Fit!DefaultsAreReachable'
  BY <1>1, <1>3 DEF FitInv, FitHeld, Fit!DefaultsAreReachable
<1>6. FitPhase'
  BY <1>1, <1>3 DEF FitInv, FitPhase
<1> QED BY <1>4, <1>5, <1>6 DEF FitInv

(* A stage that fails has everything behind it cleaned up.                   *)
LEMMA FailureCleansAll ==
    ASSUME fitStage \in 1..9, Fit!Part \notin Fit!Tolerated \cup Fit!CannotFail
    PROVE  Started \subseteq Fit!CleanedBy[Fit!Part]
<1>1. fitStage \in {1, 2, 3, 6, 7}
  <2>1. \/ fitStage = 1 \/ fitStage = 2 \/ fitStage = 3 \/ fitStage = 4 \/ fitStage = 5
        \/ fitStage = 6 \/ fitStage = 7 \/ fitStage = 8 \/ fitStage = 9
    OBVIOUS
  <2> QED BY <2>1, PipelineOrder DEF Fit!Part, Fit!Tolerated, Fit!CannotFail
<1>2. \A x \in Started : \E j \in 1..(fitStage - 1) : x = Fit!Pipeline[j]
  BY DEF Started
<1> DEFINE Rest == {"postgres", "hooks", "otel", "tracer", "logger", "errors", "feature"}
<1>3. /\ Fit!CleanedBy["feature"] = {} /\ Fit!CleanedBy["logger"] = {"feature"}
      /\ Fit!CleanedBy["errors"] = {"logger", "feature"}
  BY PartNames DEF Fit!CleanedBy
<1>4. Fit!CleanedBy["hooks"] = Rest /\ Fit!CleanedBy["postgres"] = Rest
  BY PartNames DEF Fit!CleanedBy
<1>5. CASE fitStage = 1
  BY <1>2, <1>5
<1>6. CASE fitStage = 2
  <2>1. Started \subseteq {"feature"}
    BY <1>2, <1>6, PipelineOrder
  <2> QED BY <1>3, <1>6, <2>1, PipelineOrder DEF Fit!Part
<1>7. CASE fitStage = 3
  <2>1. \A j \in 1..2 : j = 1 \/ j = 2
    OBVIOUS
  <2>2. Started \subseteq {"logger", "feature"}
    BY <1>2, <1>7, <2>1, PipelineOrder
  <2> QED BY <1>3, <1>7, <2>2, PipelineOrder DEF Fit!Part
<1>8. CASE fitStage = 6 \/ fitStage = 7
  <2>1. \A j \in 1..(fitStage - 1) : j = 1 \/ j = 2 \/ j = 3 \/ j = 4 \/ j = 5 \/ j = 6
    BY <1>8
  <2>2. Started \subseteq Rest
    BY <1>2, <2>1, PipelineOrder
  <2> QED BY <1>4, <1>8, <2>2, PipelineOrder DEF Fit!Part
<1> QED BY <1>1, <1>5, <1>6, <1>7, <1>8

LEMMA FailStageKeeps == ASSUME FitInv, Fit!FailStage PROVE FitInv'
<1> DEFINE cleaned == Fit!CleanedBy[Fit!Part]
<1>1. /\ doing = "init" /\ fitStage <= 9 /\ Fit!Part \notin Fit!Tolerated \cup Fit!CannotFail
      /\ fields' = fields \ cleaned /\ fitLive' = fitLive \ cleaned /\ undo' = undo \ cleaned
      /\ defaults' = defaults \ (cleaned \cap undo)
      /\ doing' = "none" /\ fitStage' = 1 /\ UNCHANGED mode
  BY PipelineOrder DEF Fit!FailStage
<1>2. fitStage \in 1..9
  BY <1>1 DEF FitInv, FitTypeOK
<1>3. Started \subseteq cleaned
  BY <1>1, <1>2, FailureCleansAll
<1> HIDE DEF cleaned
<1>4. mode = "off" /\ fields \subseteq cleaned /\ undo \subseteq fields
  BY <1>1, <1>3 DEF FitInv, FitPhase
<1>5. fitLive' = {} /\ undo' = {} /\ defaults' = {}
  BY <1>1, <1>4 DEF FitInv, FitHeld
<1> QED BY <1>1, <1>4, <1>5 DEF FitInv, FitTypeOK, FitHeld, FitPhase, Fit!DefaultsAreReachable

LEMMA FinishInitKeeps == ASSUME FitInv, Fit!FinishInit PROVE FitInv'
<1>1. /\ doing = "init" /\ doing' = "none" /\ fitStage' = 1 /\ mode' = "advanced"
      /\ UNCHANGED <<fields, undo, fitLive, defaults>>
  BY DEF Fit!FinishInit
<1> QED BY <1>1 DEF FitInv, FitTypeOK, FitHeld, FitPhase, Fit!DefaultsAreReachable

LEMMA LegacyShutdownKeeps == ASSUME FitInv, Fit!LegacyShutdown PROVE FitInv'
<1>1. /\ doing = "none" /\ mode # "advanced" /\ mode' = "off"
      /\ fitLive' = fitLive \ (fields \cap Fit!LegacyParts)
      /\ UNCHANGED <<doing, fitStage, fields, undo, defaults>>
  BY DEF Fit!LegacyShutdown
<1>2. fitLive' = {} /\ undo = {}
  BY <1>1 DEF FitInv, FitTypeOK, FitHeld, FitPhase
<1> QED BY <1>1, <1>2 DEF FitInv, FitTypeOK, FitHeld, FitPhase, Fit!DefaultsAreReachable

LEMMA BeginShutdownKeeps == ASSUME FitInv, Fit!BeginShutdown PROVE FitInv'
<1>1. /\ doing = "none" /\ mode = "advanced" /\ doing' = "shutdown" /\ fitStage' = 1
      /\ UNCHANGED <<mode, fields, undo, fitLive, defaults>>
  BY DEF Fit!BeginShutdown
<1>2. FitTypeOK' /\ FitHeld' /\ Fit!DefaultsAreReachable'
  BY <1>1 DEF FitInv, FitTypeOK, FitHeld, Fit!DefaultsAreReachable
<1>3. fields' \subseteq ToStop'
  BY <1>1, ShutdownCoversAll DEF FitInv, FitHeld, ToStop
<1>4. undo' \subseteq ToUndo'
  BY <1>1, ShutdownCoversAll DEF FitInv, FitHeld, ToUndo
<1>5. FitPhase'
  BY <1>1, <1>3, <1>4 DEF FitPhase
<1> QED BY <1>2, <1>5 DEF FitInv

(* One step of Shutdown: what is stopped or undone at this place is gone,    *)
(* everything else still has its place ahead.                                *)
LEMMA ShutdownStepKeeps == ASSUME FitInv, Fit!ShutdownStep PROVE FitInv'
<1> DEFINE how == Fit!ShutdownOrder[fitStage][1]
           p == Fit!ShutdownOrder[fitStage][2]
<1>1. /\ doing = "shutdown" /\ mode = "advanced" /\ fitStage \in 1..14 /\ fitStage' = fitStage + 1
      /\ UNCHANGED <<mode, doing>>
  BY ShutdownPlaces DEF Fit!ShutdownStep, FitInv, FitTypeOK, FitPhase
<1>2. fields \subseteq ToStop /\ undo \subseteq ToUndo
  BY <1>1 DEF FitInv, FitPhase
<1>3. Fit!ShutdownOrder[fitStage] = <<how, p>> /\ how \in {"stop", "undo"}
  <2>1. \/ fitStage = 1 \/ fitStage = 2 \/ fitStage = 3 \/ fitStage = 4 \/ fitStage = 5
        \/ fitStage = 6 \/ fitStage = 7 \/ fitStage = 8 \/ fitStage = 9 \/ fitStage = 10
        \/ fitStage = 11 \/ fitStage = 12 \/ fitStage = 13 \/ fitStage = 14
    BY <1>1
  <2> QED BY <2>1, ShutdownPlaces
<1>4. \A j \in fitStage..14 : j # fitStage => j \in fitStage'..14
  BY <1>1
<1>5. \A q \in ToStop : <<how, p>> # <<"stop", q>> => q \in ToStop'
  BY <1>3, <1>4 DEF ToStop
<1>6. \A q \in ToUndo : <<how, p>> # <<"undo", q>> => q \in ToUndo'
  BY <1>3, <1>4 DEF ToUndo
<1>7. CASE how = "stop"
  <2>1. /\ fitLive' = IF p \in fields THEN fitLive \ {p} ELSE fitLive
        /\ fields' = fields \ {p} /\ UNCHANGED <<undo, defaults>>
    BY <1>7 DEF Fit!ShutdownStep
  <2>2. p \in {"profiler", "otel"} \/ p \notin undo
    <3> SUFFICES ASSUME p \notin {"profiler", "otel"}, p \in undo PROVE FALSE
      OBVIOUS
    <3>1. PICK j \in fitStage..14 : Fit!ShutdownOrder[j] = <<"undo", p>>
      BY <1>2 DEF ToUndo
    <3>2. j \in 1..14 /\ fitStage \in 1..14 /\ ~(j < fitStage)
      BY <1>1
    <3>3. Fit!ShutdownOrder[fitStage] = <<"stop", p>>
      BY <1>3, <1>7
    <3> HIDE DEF p, how
    <3> QED BY <3>1, <3>2, <3>3, UndoneBeforeStopped
  <2> HIDE DEF p
  <2>3. FitTypeOK'
    BY <1>1 DEF FitInv, FitTypeOK
  <2>4. FitHeld'
    BY <2>1 DEF FitInv, FitHeld
  <2>5. fields' \subseteq ToStop' /\ undo' \subseteq ToUndo'
    BY <1>2, <1>5, <1>6, <1>7, <2>1
  <2>6. FitPhase'
    BY <1>1, <2>5 DEF FitPhase
  <2>7. Fit!DefaultsAreReachable'
    BY <2>1, <2>2 DEF FitInv, FitHeld, Fit!DefaultsAreReachable
  <2> QED BY <2>3, <2>4, <2>6, <2>7 DEF FitInv
<1>8. CASE how = "undo"
  <2>1. /\ defaults' = IF p \in undo THEN defaults \ {p} ELSE defaults
        /\ undo' = undo \ {p} /\ UNCHANGED <<fitLive, fields>>
    BY <1>8 DEF Fit!ShutdownStep
  <2> HIDE DEF p
  <2>2. FitTypeOK'
    BY <1>1 DEF FitInv, FitTypeOK
  <2>3. FitHeld' /\ Fit!DefaultsAreReachable'
    BY <2>1 DEF FitInv, FitHeld, Fit!DefaultsAreReachable
  <2>4. fields' \subseteq ToStop' /\ undo' \subseteq ToUndo'
    BY <1>2, <1>5, <1>6, <1>8, <2>1
  <2>5. FitPhase'
    BY <1>1, <2>4 DEF FitPhase
  <2> QED BY <2>2, <2>3, <2>5 DEF FitInv
<1> QED BY <1>3, <1>7, <1>8

LEMMA FinishShutdownKeeps == ASSUME FitInv, Fit!FinishShutdown PROVE FitInv'
<1>1. /\ doing = "shutdown" /\ fitStage > 14 /\ fitStage \in 1..15
      /\ doing' = "none" /\ fitStage' = 1 /\ mode' = "off"
      /\ UNCHANGED <<fields, undo, fitLive, defaults>>
  BY ShutdownPlaces DEF Fit!FinishShutdown, FitInv, FitTypeOK
<1>2. ToStop = {} /\ ToUndo = {}
  BY <1>1 DEF ToStop, ToUndo
<1>3. fitLive = {} /\ undo = {}
  BY <1>1, <1>2 DEF FitInv, FitHeld, FitPhase
<1> QED BY <1>1, <1>3 DEF FitInv, FitTypeOK, FitHeld, FitPhase, Fit!DefaultsAreReachable

LEMMA FitInvNext == ASSUME FitInv, [Fit!Next]_fitState PROVE FitInv'
<1>1. ASSUME NEW configured \in SUBSET Fit!LegacyParts, Fit!LegacyInit(configured) PROVE FitInv'
  BY <1>1, LegacyInitKeeps
<1>2. CASE \/ Fit!BeginInit \/ Fit!SkipStage \/ Fit!StartStage
           \/ Fit!TolerateFailure \/ Fit!FailStage \/ Fit!FinishInit
  BY <1>2, BeginInitKeeps, PassStageKeeps, StartStageKeeps, FailStageKeeps, FinishInitKeeps
<1>3. CASE Fit!LegacyShutdown \/ Fit!BeginShutdown \/ Fit!ShutdownStep \/ Fit!FinishShutdown
  BY <1>3, LegacyShutdownKeeps, BeginShutdownKeeps, ShutdownStepKeeps, FinishShutdownKeeps
<1>4. CASE UNCHANGED fitState
  <2>1. UNCHANGED <<mode, doing, fitStage, fields, undo, fitLive, defaults>>
    BY <1>4 DEF fitState
  <2>2. UNCHANGED <<Started, ToStop, ToUndo>>
    BY <2>1 DEF Started, ToStop, ToUndo
  <2> QED BY <2>1, <2>2 DEF FitInv, FitTypeOK, FitHeld, FitPhase, Fit!DefaultsAreReachable
<1> QED BY <1>1, <1>2, <1>3, <1>4 DEF Fit!Next

-----------------------------------------------------------------------------
(* The instrumentation registry.  An item is registered at most once, since  *)
(* its canonical name then belongs to it; hence the selection has no item    *)
(* twice, whatever names and aliases were requested, and what was shut down  *)
(* is the part of what was started that Manager.started no longer has, from  *)
(* its end.                                                                  *)
Distinct(s) == \A j, k \in 1..Len(s) : s[j] = s[k] => j = k
Apart(s, t) == \A j \in 1..Len(s), k \in 1..Len(t) : s[j] # t[k]

RegistryTypeOK ==
    /\ ordered \in Seq(Hooks) /\ candidates \in Seq(Hooks) /\ pending \in Seq(Hooks)
    /\ registryStarted \in Seq(Hooks) /\ extra \in Seq(HookNames)
    /\ byName \in [HookNames -> Hooks \cup {Registry!Unregistered}]
    /\ calls \in [start : Seq(Hooks), stop : Seq(Hooks)]
    /\ registryPhase \in {"idle", "selecting", "starting", "running", "stopping", "ended"}

OrderedOnce ==
    /\ Distinct(ordered)
    /\ \A k \in 1..Len(ordered) : byName[NamesOfHook[ordered[k]][1]] = ordered[k]

Untouched == registryStarted = <<>> /\ calls.start = <<>> /\ calls.stop = <<>>

Selecting ==
    /\ Untouched
    /\ Distinct(candidates) /\ Distinct(pending) /\ Apart(candidates, pending)
    /\ \A k \in 1..Len(extra) : byName[extra[k]] # Registry!Unregistered

Starting ==
    /\ calls.start = registryStarted /\ calls.stop = <<>>
    /\ Distinct(registryStarted) /\ Distinct(pending) /\ Apart(registryStarted, pending)

Stopping ==
    /\ Distinct(calls.start)
    /\ Len(registryStarted) + Len(calls.stop) = Len(calls.start)
    /\ \A k \in 1..Len(registryStarted) : registryStarted[k] = calls.start[k]
    /\ \A k \in 1..Len(calls.stop) : calls.stop[k] = calls.start[Len(calls.start) - k + 1]

RegistryPhases ==
    /\ registryPhase = "idle" => Untouched /\ pending = <<>>
    /\ registryPhase = "selecting" => Selecting
    /\ registryPhase \in {"starting", "running"} => Starting
    /\ registryPhase \in {"stopping", "ended"} => Stopping
    /\ registryPhase = "ended" => registryStarted = <<>>

RegistryInv == RegistryTypeOK /\ OrderedOnce /\ RegistryPhases

(* Sequences without repetition.                                             *)
LEMMA AppendDistinct ==
    ASSUME NEW S, NEW s \in Seq(S), NEW e \in S, Distinct(s), \A k \in 1..Len(s) : s[k] # e
    PROVE  Distinct(Append(s, e)) /\ Append(s, e) \in Seq(S)
BY DEF Distinct

LEMMA TailDistinct ==
    ASSUME NEW S, NEW s \in Seq(S), s # <<>>, Distinct(s)
    PROVE  /\ Distinct(Tail(s)) /\ Tail(s) \in Seq(S) /\ Head(s) \in S
           /\ Head(s) = s[1] /\ Len(s) \in Nat /\ Len(s) > 0 /\ Len(Tail(s)) = Len(s) - 1
           /\ \A k \in 1..Len(Tail(s)) : Tail(s)[k] = s[k + 1] /\ Tail(s)[k] # Head(s)
<1>1. /\ Tail(s) \in Seq(S) /\ Head(s) \in S /\ Head(s) = s[1]
      /\ Len(s) \in Nat /\ Len(s) > 0 /\ Len(Tail(s)) = Len(s) - 1
      /\ \A k \in 1..Len(Tail(s)) : Tail(s)[k] = s[k + 1]
  OBVIOUS
<1>2. \A k \in 1..Len(Tail(s)) : Tail(s)[k] # Head(s)
  <2> SUFFICES ASSUME NEW k \in 1..Len(Tail(s)) PROVE Tail(s)[k] # Head(s)
    OBVIOUS
  <2>1. k + 1 \in 1..Len(s) /\ 1 \in 1..Len(s) /\ k + 1 # 1
    BY <1>1
  <2> QED BY <1>1, <2>1 DEF Distinct
<1>3. Distinct(Tail(s))
  <2> SUFFICES ASSUME NEW j \in 1..Len(Tail(s)), NEW k \in 1..Len(Tail(s)), Tail(s)[j] = Tail(s)[k]
               PROVE  j = k
    BY DEF Distinct
  <2>1. j + 1 \in 1..Len(s) /\ k + 1 \in 1..Len(s)
    BY <1>1
  <2>2. j + 1 = k + 1
    BY <1>1, <2>1 DEF Distinct
  <2> QED BY <2>2
<1> QED BY <1>1, <1>2, <1>3

LEMMA RegistryInvInit == ASSUME Registry!Init PROVE RegistryInv
<1>1. /\ ordered = <<>> /\ byName = [n \in HookNames |-> Registry!Unregistered]
      /\ registryPhase = "idle" /\ candidates = <<>> /\ extra = <<>>
      /\ pending = <<>> /\ registryStarted = <<>> /\ calls = [start |-> <<>>, stop |-> <<>>]
  BY DEF Registry!Init
<1>2. RegistryTypeOK
  BY <1>1 DEF RegistryTypeOK
<1>3. OrderedOnce /\ RegistryPhases
  BY <1>1 DEF OrderedOnce, Distinct, RegistryPhases, Untouched
<1> QED BY <1>2, <1>3 DEF RegistryInv

(* Register: the canonical name of a new item was free, so the item is not   *)
(* in the list, and the names of the listed ones keep their owners.          *)
LEMMA HookRegisterKeeps ==
    ASSUME RegistryInv, NEW i \in Hooks, Registry!Register(i) PROVE RegistryInv'
<1> DEFINE nameOf(h) == NamesOfHook[h][1]
           taken == Registry!ToSet(NamesOfHook[i])
<1>1. /\ registryPhase = "idle" /\ ordered' = Append(ordered, i)
      /\ \A n \in taken : byName[n] = Registry!Unregistered
      /\ byName' = [n \in HookNames |-> IF n \in taken THEN i ELSE byName[n]]
      /\ UNCHANGED <<registryPhase, candidates, extra, pending, registryStarted, registryFailed, calls>>
  BY DEF Registry!Register
<1>2. RegistryTypeOK /\ OrderedOnce /\ RegistryPhases
  BY DEF RegistryInv
<1>3. \A h \in Hooks : nameOf(h) \in HookNames
  <2> SUFFICES ASSUME NEW h \in Hooks PROVE nameOf(h) \in HookNames
    OBVIOUS
  <2>1. NamesOfHook[h] \in Seq(HookNames) /\ NamesOfHook[h] # <<>>
    BY HookTypes
  <2> QED BY <2>1
<1>4. nameOf(i) \in taken
  <2>1. NamesOfHook[i] \in Seq(HookNames) /\ NamesOfHook[i] # <<>>
    BY HookTypes
  <2>2. 1 \in DOMAIN NamesOfHook[i]
    BY <2>1
  <2> QED BY <2>2 DEF Registry!ToSet
<1>5. Registry!Unregistered \notin Hooks
  BY HookTypes
<1>6. ordered \in Seq(Hooks) /\ byName \in [HookNames -> Hooks \cup {Registry!Unregistered}]
  BY <1>2 DEF RegistryTypeOK
<1>7. \A k \in 1..Len(ordered) : ordered[k] \in Hooks /\ byName[nameOf(ordered[k])] = ordered[k]
  BY <1>2, <1>6 DEF OrderedOnce
<1>8. \A k \in 1..Len(ordered) : ordered[k] # i /\ nameOf(ordered[k]) \notin taken
  BY <1>1, <1>4, <1>5, <1>7
<1>9. RegistryTypeOK'
  <2>1. ordered' \in Seq(Hooks)
    BY <1>1, <1>6
  <2>2. byName' \in [HookNames -> Hooks \cup {Registry!Unregistered}]
    BY <1>1, <1>6
  <2> QED BY <1>1, <1>2, <2>1, <2>2 DEF RegistryTypeOK
<1>10. OrderedOnce'
  <2>1. Distinct(ordered')
    BY <1>1, <1>2, <1>6, <1>8, AppendDistinct DEF OrderedOnce
  <2>2. ASSUME NEW k \in 1..Len(ordered') PROVE byName'[nameOf(ordered'[k])] = ordered'[k]
    <3>1. CASE k \in 1..Len(ordered)
      <4>1. ordered'[k] = ordered[k]
        BY <1>1, <1>6, <3>1
      <4> QED BY <1>1, <1>3, <1>7, <1>8, <3>1, <4>1
    <3>2. CASE k = Len(ordered) + 1
      <4>1. ordered'[k] = i
        BY <1>1, <1>6, <3>2
      <4> QED BY <1>1, <1>3, <1>4, <4>1
    <3> QED BY <1>1, <1>6, <2>2, <3>1, <3>2
  <2> QED BY <2>1, <2>2 DEF OrderedOnce
<1>11. RegistryPhases'
  BY <1>1, <1>2 DEF RegistryPhases, Untouched
<1> QED BY <1>9, <1>10, <1>11 DEF RegistryInv

(* Start: names that are not registered end it before any hook runs.         *)
LEMMA HooksBeginKeeps ==
    ASSUME RegistryInv, NEW r \in HookRequests, Registry!Start(r) PROVE RegistryInv'
<1>1. /\ registryPhase = "idle"
      /\ UNCHANGED <<ordered, byName, pending, registryStarted, calls>>
  BY DEF Registry!Start
<1>2. RegistryTypeOK /\ OrderedOnce /\ Untouched /\ pending = <<>>
  BY <1>1 DEF RegistryInv, RegistryPhases
<1>3. OrderedOnce'
  BY <1>1, <1>2 DEF OrderedOnce
<1>4. CASE Registry!Valid(r)
  <2>1. registryPhase' = "selecting" /\ candidates' = ordered /\ extra' = r.extra
    BY <1>4 DEF Registry!Start
  <2>2. r.extra \in Seq(HookNames)
    BY HookTypes
  <2>3. \A k \in 1..Len(r.extra) : byName[r.extra[k]] # Registry!Unregistered
    BY <1>4, <2>2 DEF Registry!Valid, Registry!ToSet
  <2>4. RegistryTypeOK'
    BY <1>1, <1>2, <2>1, <2>2 DEF RegistryTypeOK
  <2>5. Selecting'
    BY <1>1, <1>2, <2>1, <2>3 DEF Selecting, Untouched, OrderedOnce, Distinct, Apart
  <2> QED BY <1>3, <2>1, <2>4, <2>5 DEF RegistryInv, RegistryPhases
<1>5. CASE ~Registry!Valid(r)
  <2>1. registryPhase' = "ended" /\ UNCHANGED <<candidates, extra>>
    BY <1>5 DEF Registry!Start
  <2>2. RegistryTypeOK'
    BY <1>1, <1>2, <2>1 DEF RegistryTypeOK
  <2>3. Stopping' /\ registryStarted' = <<>>
    BY <1>1, <1>2 DEF Stopping, Untouched, Distinct
  <2> QED BY <1>3, <2>1, <2>2, <2>3 DEF RegistryInv, RegistryPhases
<1> QED BY <1>4, <1>5

(* The selection: a default item is a new one, and a requested one is added  *)
(* only if it is not selected yet.                                           *)
LEMMA SelectDefaultKeeps == ASSUME RegistryInv, Registry!SelectDefault PROVE RegistryInv'
<1>1. /\ registryPhase = "selecting" /\ candidates # <<>> /\ candidates' = Tail(candidates)
      /\ pending' = IF Head(candidates) \in DefaultHooks THEN Append(pending, Head(candidates)) ELSE pending
      /\ UNCHANGED <<ordered, byName, registryPhase, extra, registryStarted, registryFailed, calls>>
  BY DEF Registry!SelectDefault
<1>2. RegistryTypeOK /\ OrderedOnce /\ Selecting
  BY <1>1 DEF RegistryInv, RegistryPhases
<1>3. candidates \in Seq(Hooks) /\ pending \in Seq(Hooks)
  BY <1>2 DEF RegistryTypeOK
<1> DEFINE h == Head(candidates)
<1>4. /\ Distinct(Tail(candidates)) /\ Tail(candidates) \in Seq(Hooks) /\ h \in Hooks
      /\ h = candidates[1] /\ Len(candidates) \in Nat /\ Len(candidates) > 0
      /\ Len(Tail(candidates)) = Len(candidates) - 1
      /\ \A k \in 1..Len(Tail(candidates)) : Tail(candidates)[k] = candidates[k + 1] /\ Tail(candidates)[k] # h
  BY <1>1, <1>2, <1>3, TailDistinct DEF Selecting
<1>5. \A k \in 1..Len(pending) : pending[k] # h
  BY <1>2, <1>4 DEF Selecting, Apart
<1>6. \A j \in 1..Len(Tail(candidates)), k \in 1..Len(pending) : Tail(candidates)[j] # pending[k]
  <2> SUFFICES ASSUME NEW j \in 1..Len(Tail(candidates)), NEW k \in 1..Len(pending)
               PROVE  Tail(candidates)[j] # pending[k]
    OBVIOUS
  <2>1. j + 1 \in 1..Len(candidates) /\ Tail(candidates)[j] = candidates[j + 1]
    BY <1>4
  <2> QED BY <1>2, <2>1 DEF Selecting, Apart
<1>7. Distinct(pending') /\ pending' \in Seq(Hooks)
  BY <1>1, <1>2, <1>3, <1>4, <1>5, AppendDistinct DEF Selecting
<1>8. Apart(candidates', pending')
  <2>1. CASE pending' = pending
    BY <1>1, <1>6, <2>1 DEF Apart
  <2>2. CASE pending' = Append(pending, h)
    <3> SUFFICES ASSUME NEW j \in 1..Len(Tail(candidates)), NEW k \in 1..Len(pending')
                 PROVE  Tail(candidates)[j] # pending'[k]
      BY <1>1 DEF Apart
    <3>1. Len(pending) \in Nat /\ Len(pending') = Len(pending) + 1
      BY <1>3, <2>2
    <3>2. CASE k = Len(pending) + 1
      <4>1. pending'[k] = h
        BY <1>3, <2>2, <3>2
      <4> QED BY <1>4, <4>1
    <3>3. CASE k \in 1..Len(pending)
      <4>1. pending'[k] = pending[k]
        BY <1>3, <2>2, <3>3
      <4> QED BY <1>6, <3>3, <4>1
    <3> QED BY <3>1, <3>2, <3>3
  <2> QED BY <1>1, <2>1, <2>2
<1>9. RegistryTypeOK'
  BY <1>1, <1>2, <1>4, <1>7 DEF RegistryTypeOK
<1>10. OrderedOnce'
  BY <1>1, <1>2 DEF OrderedOnce
<1>11. Selecting'
  BY <1>1, <1>2, <1>4, <1>7, <1>8 DEF Selecting, Untouched
<1> QED BY <1>1, <1>9, <1>10, <1>11 DEF RegistryInv, RegistryPhases

LEMMA SelectRequestedKeeps == ASSUME RegistryInv, Registry!SelectRequested PROVE RegistryInv'
<1> DEFINE h == byName[Head(extra)]
<1>1. /\ registryPhase = "selecting" /\ candidates = <<>> /\ extra # <<>> /\ extra' = Tail(extra)
      /\ pending' = IF h \in Registry!ToSet(pending) THEN pending ELSE Append(pending, h)
      /\ UNCHANGED <<ordered, byName, registryPhase, candidates, registryStarted, registryFailed, calls>>
  BY DEF Registry!SelectRequested
<1>2. RegistryTypeOK /\ OrderedOnce /\ Selecting
  BY <1>1 DEF RegistryInv, RegistryPhases
<1>3. /\ extra \in Seq(HookNames) /\ pending \in Seq(Hooks)
      /\ byName \in [HookNames -> Hooks \cup {Registry!Unregistered}]
  BY <1>2 DEF RegistryTypeOK
<1>4. /\ Tail(extra) \in Seq(HookNames) /\ Head(extra) \in HookNames /\ Head(extra) = extra[1]
      /\ Len(extra) \in Nat /\ Len(extra) > 0 /\ Len(Tail(extra)) = Len(extra) - 1
      /\ \A k \in 1..Len(Tail(extra)) : Tail(extra)[k] = extra[k + 1]
  BY <1>1, <1>3
<1>5. h \in Hooks
  <2>1. h # Registry!Unregistered
    BY <1>2, <1>4 DEF Selecting
  <2> QED BY <1>3, <1>4, <2>1
<1>6. Distinct(pending') /\ pending' \in Seq(Hooks)
  <2>1. CASE h \in Registry!ToSet(pending)
    BY <1>1, <1>2, <1>3, <2>1 DEF Selecting
  <2>2. CASE h \notin Registry!ToSet(pending)
    <3>1. \A k \in 1..Len(pending) : pending[k] # h
      BY <1>3, <2>2 DEF Registry!ToSet
    <3> QED BY <1>1, <1>2, <1>3, <1>5, <2>2, <3>1, AppendDistinct DEF Selecting
  <2> QED BY <2>1, <2>2
<1>7. \A k \in 1..Len(Tail(extra)) : byName[Tail(extra)[k]] # Registry!Unregistered
  <2> SUFFICES ASSUME NEW k \in 1..Len(Tail(extra)) PROVE byName[Tail(extra)[k]] # Registry!Unregistered
    OBVIOUS
  <2>1. k + 1 \in 1..Len(extra) /\ Tail(extra)[k] = extra[k + 1]
    BY <1>4
  <2> QED BY <1>2, <2>1 DEF Selecting
<1>8. RegistryTypeOK'
  BY <1>1, <1>2, <1>4, <1>6 DEF RegistryTypeOK
<1>9. OrderedOnce'
  BY <1>1, <1>2 DEF OrderedOnce
<1>10. Selecting'
  BY <1>1, <1>2, <1>6, <1>7 DEF Selecting, Untouched, Distinct, Apart
<1> QED BY <1>1, <1>8, <1>9, <1>10 DEF RegistryInv, RegistryPhases

LEMMA AllSelectedKeeps == ASSUME RegistryInv, Registry!AllSelected PROVE RegistryInv'
<1>1. /\ registryPhase = "selecting" /\ registryPhase' = "starting"
      /\ UNCHANGED <<ordered, byName, candidates, extra, pending, registryStarted, registryFailed, calls>>
  BY DEF Registry!AllSelected
<1>2. RegistryTypeOK /\ OrderedOnce /\ Selecting
  BY <1>1 DEF RegistryInv, RegistryPhases
<1>3. Starting'
  BY <1>1, <1>2 DEF Selecting, Starting, Untouched, Distinct, Apart
<1>4. RegistryTypeOK' /\ OrderedOnce'
  BY <1>1, <1>2 DEF RegistryTypeOK, OrderedOnce
<1> QED BY <1>1, <1>3, <1>4 DEF RegistryInv, RegistryPhases

(* The hooks start one after the other.                                      *)
LEMMA StartHookKeeps == ASSUME RegistryInv, Registry!StartHook PROVE RegistryInv'
<1> DEFINE h == Head(pending)
<1>1. /\ registryPhase = "starting" /\ pending # <<>> /\ pending' = Tail(pending)
      /\ registryStarted' = Append(registryStarted, h)
      /\ calls' = [calls EXCEPT !.start = Append(@, h)]
      /\ UNCHANGED <<ordered, byName, registryPhase, candidates, extra, registryFailed>>
  BY DEF Registry!StartHook
<1>2. RegistryTypeOK /\ OrderedOnce /\ Starting
  BY <1>1 DEF RegistryInv, RegistryPhases
<1>3. /\ pending \in Seq(Hooks) /\ registryStarted \in Seq(Hooks)
      /\ calls \in [start : Seq(Hooks), stop : Seq(Hooks)]
  BY <1>2 DEF RegistryTypeOK
<1>4. /\ Distinct(Tail(pending)) /\ Tail(pending) \in Seq(Hooks) /\ h \in Hooks
      /\ h = pending[1] /\ Len(pending) \in Nat /\ Len(pending) > 0
      /\ Len(Tail(pending)) = Len(pending) - 1
      /\ \A k \in 1..Len(Tail(pending)) : Tail(pending)[k] = pending[k + 1] /\ Tail(pending)[k] # h
  BY <1>1, <1>2, <1>3, TailDistinct DEF Starting
<1>5. \A k \in 1..Len(registryStarted) : registryStarted[k] # h
  BY <1>2, <1>4 DEF Starting, Apart
<1>6. Distinct(registryStarted') /\ registryStarted' \in Seq(Hooks)
  BY <1>1, <1>2, <1>3, <1>4, <1>5, AppendDistinct DEF Starting
<1>7. calls' = [start |-> registryStarted', stop |-> <<>>]
  BY <1>1, <1>2, <1>3 DEF Starting
<1>8. Apart(registryStarted', pending')
  <2> SUFFICES ASSUME NEW j \in 1..Len(registryStarted'), NEW k \in 1..Len(Tail(pending))
               PROVE  registryStarted'[j] # Tail(pending)[k]
    BY <1>1 DEF Apart
  <2>1. Len(registryStarted) \in Nat /\ Len(registryStarted') = Len(registryStarted) + 1
    BY <1>1, <1>3
  <2>2. k + 1 \in 1..Len(pending) /\ Tail(pending)[k] = pending[k + 1] /\ Tail(pending)[k] # h
    BY <1>4
  <2>3. CASE j = Len(registryStarted) + 1
    <3>1. registryStarted'[j] = h
      BY <1>1, <1>3, <2>3
    <3> QED BY <2>2, <3>1
  <2>4. CASE j \in 1..Len(registryStarted)
    <3>1. registryStarted'[j] = registryStarted[j]
      BY <1>1, <1>3, <2>4
    <3> QED BY <1>2, <2>2, <2>4, <3>1 DEF Starting, Apart
  <2> QED BY <2>1, <2>3, <2>4
<1>9. RegistryTypeOK'
  <2>1. calls' \in [start : Seq(Hooks), stop : Seq(Hooks)]
    BY <1>6, <1>7
  <2> QED BY <1>1, <1>2, <1>4, <1>6, <2>1 DEF RegistryTypeOK
<1>10. OrderedOnce'
  BY <1>1, <1>2 DEF OrderedOnce
<1>11. Starting'
  BY <1>1, <1>4, <1>6, <1>7, <1>8 DEF Starting
<1> QED BY <1>1, <1>9, <1>10, <1>11 DEF RegistryInv, RegistryPhases

(* What the shutdown still has to do when it begins: all that was started,   *)
(* but for a hook whose own Start failed, which was shut down already.       *)
LEMMA FailureKeeps ==
    ASSUME RegistryInv, Registry!CreateFails \/ Registry!StartFails PROVE RegistryInv'
<1>1. /\ registryPhase = "starting" /\ pending # <<>> /\ registryPhase' = "stopping"
      /\ UNCHANGED <<ordered, byName, candidates, extra, pending, registryStarted>>
  BY DEF Registry!CreateFails, Registry!StartFails
<1>2. RegistryTypeOK /\ OrderedOnce /\ Starting
  BY <1>1 DEF RegistryInv, RegistryPhases
<1>3. /\ pending \in Seq(Hooks) /\ registryStarted \in Seq(Hooks)
      /\ calls \in [start : Seq(Hooks), stop : Seq(Hooks)]
  BY <1>2 DEF RegistryTypeOK
<1>4. OrderedOnce'
  BY <1>1, <1>2 DEF OrderedOnce
<1>5. CASE UNCHANGED calls
  <2>1. RegistryTypeOK'
    BY <1>1, <1>2, <1>5 DEF RegistryTypeOK
  <2>2. Stopping'
    BY <1>1, <1>2, <1>3, <1>5 DEF Starting, Stopping, Distinct
  <2> QED BY <1>1, <1>4, <2>1, <2>2 DEF RegistryInv, RegistryPhases
<1>6. CASE Registry!StartFails
  <2> DEFINE h == Head(pending)
  <2>1. /\ calls'.start = Append(registryStarted, h) /\ calls'.stop = <<h>>
        /\ calls' = [start |-> Append(registryStarted, h), stop |-> <<h>>]
    BY <1>2, <1>6 DEF Registry!StartFails, Starting
  <2>2. h \in Hooks /\ h = pending[1] /\ 1 \in 1..Len(pending)
    BY <1>1, <1>3
  <2>3. \A k \in 1..Len(registryStarted) : registryStarted[k] # h
    BY <1>2, <2>2 DEF Starting, Apart
  <2>4. Distinct(calls'.start) /\ calls'.start \in Seq(Hooks)
    BY <1>2, <1>3, <2>1, <2>2, <2>3, AppendDistinct DEF Starting
  <2>5. RegistryTypeOK'
    BY <1>1, <1>2, <2>1, <2>2, <2>4 DEF RegistryTypeOK
  <2>6. /\ Len(registryStarted) \in Nat /\ Len(calls'.start) = Len(registryStarted) + 1
        /\ Len(calls'.stop) = 1 /\ calls'.stop[1] = h
        /\ calls'.start[Len(registryStarted) + 1] = h
        /\ \A k \in 1..Len(registryStarted) : calls'.start[k] = registryStarted[k]
    BY <1>3, <2>1, <2>2
  <2>7. Stopping'
    BY <1>1, <2>4, <2>6 DEF Stopping
  <2> QED BY <1>1, <1>4, <2>5, <2>7 DEF RegistryInv, RegistryPhases
<1> QED BY <1>5, <1>6 DEF Registry!CreateFails

LEMMA RunningKeeps ==
    ASSUME RegistryInv, Registry!AllStarted \/ Registry!Shutdown PROVE RegistryInv'
<1>1. /\ UNCHANGED <<ordered, byName, candidates, extra, pending, registryStarted, registryFailed, calls>>
      /\ \/ registryPhase = "starting" /\ registryPhase' = "running"
         \/ registryPhase = "running" /\ registryPhase' = "stopping"
  BY DEF Registry!AllStarted, Registry!Shutdown
<1>2. RegistryTypeOK /\ OrderedOnce /\ Starting
  BY <1>1 DEF RegistryInv, RegistryPhases
<1>3. registryStarted \in Seq(Hooks)
  BY <1>2 DEF RegistryTypeOK
<1>4. RegistryTypeOK' /\ OrderedOnce'
  BY <1>1, <1>2 DEF RegistryTypeOK, OrderedOnce
<1>5. Starting'
  BY <1>1, <1>2 DEF Starting
<1>6. Stopping'
  BY <1>1, <1>2, <1>3 DEF Starting, Stopping, Distinct
<1> QED BY <1>1, <1>4, <1>5, <1>6 DEF RegistryInv, RegistryPhases

(* The shutdown takes the hooks from the end.                                *)
LEMMA StopNextKeeps == ASSUME RegistryInv, Registry!StopNext PROVE RegistryInv'
<1> DEFINE n == Len(registryStarted)
           h == registryStarted[n]
<1>1. /\ registryPhase = "stopping" /\ registryStarted # <<>>
      /\ calls' = [calls EXCEPT !.stop = Append(@, h)]
      /\ registryStarted' = SubSeq(registryStarted, 1, n - 1)
      /\ UNCHANGED <<ordered, byName, registryPhase, candidates, extra, pending, registryFailed>>
  BY DEF Registry!StopNext, Registry!Last, Registry!Front
<1>2. RegistryTypeOK /\ OrderedOnce /\ Stopping
  BY <1>1 DEF RegistryInv, RegistryPhases
<1>3. registryStarted \in Seq(Hooks) /\ calls \in [start : Seq(Hooks), stop : Seq(Hooks)]
  BY <1>2 DEF RegistryTypeOK
<1>4. n \in Nat /\ n > 0 /\ h \in Hooks
  BY <1>1, <1>3
<1>5. /\ registryStarted' \in Seq(Hooks) /\ Len(registryStarted') = n - 1
      /\ \A k \in 1..(n - 1) : registryStarted'[k] = registryStarted[k]
  <2>1. \A k \in 1..(n - 1) : registryStarted[k] \in Hooks
    BY <1>3, <1>4
  <2>2. n - 1 \in Nat
    BY <1>4
  <2>3. registryStarted' = [k \in 1..(n - 1) |-> registryStarted[k]]
    BY <1>1, <1>3, <1>4
  <2> QED BY <2>1, <2>2, <2>3
<1>6. /\ calls' \in [start : Seq(Hooks), stop : Seq(Hooks)] /\ calls'.start = calls.start
      /\ calls'.stop = Append(calls.stop, h)
  <2>1. calls' = [start |-> calls.start, stop |-> Append(calls.stop, h)]
    BY <1>1, <1>3
  <2>2. Append(calls.stop, h) \in Seq(Hooks) /\ calls.start \in Seq(Hooks)
    BY <1>3, <1>4
  <2> QED BY <2>1, <2>2
<1>7. RegistryTypeOK'
  BY <1>1, <1>2, <1>5, <1>6 DEF RegistryTypeOK
<1>8. OrderedOnce'
  BY <1>1, <1>2 DEF OrderedOnce
<1>9. /\ Len(calls.stop) \in Nat /\ Len(calls'.stop) = Len(calls.stop) + 1 /\ Len(calls.start) \in Nat
      /\ calls'.stop[Len(calls.stop) + 1] = h
      /\ \A k \in 1..Len(calls.stop) : calls'.stop[k] = calls.stop[k]
  BY <1>3, <1>4, <1>6
<1>10. n + Len(calls.stop) = Len(calls.start) /\ h = calls.start[n]
  BY <1>2, <1>4 DEF Stopping
<1>11. Stopping'
  <2>1. /\ Distinct(calls.start)
        /\ \A k \in 1..n : registryStarted[k] = calls.start[k]
        /\ \A k \in 1..Len(calls.stop) : calls.stop[k] = calls.start[Len(calls.start) - k + 1]
    BY <1>2 DEF Stopping
  <2>2. Len(registryStarted') + Len(calls'.stop) = Len(calls'.start)
    <3>1. /\ Len(registryStarted') = Len(registryStarted) - 1 /\ Len(registryStarted) \in Nat
          /\ Len(calls'.stop) = Len(calls.stop) + 1 /\ Len(calls'.start) = Len(calls.start)
          /\ Len(registryStarted) + Len(calls.stop) = Len(calls.start)
      BY <1>4, <1>5, <1>6, <1>9, <1>10
    <3>2. \A a, b, c \in Nat : a + b = c => (a - 1) + (b + 1) = c
      OBVIOUS
    <3>3. (Len(registryStarted) - 1) + (Len(calls.stop) + 1) = Len(calls.start)
      BY <1>9, <3>1, <3>2, SMTT(60)
    <3> QED BY <3>1, <3>3
  <2>4. \A k \in 1..Len(registryStarted') : registryStarted'[k] = calls'.start[k]
    BY <1>4, <1>5, <1>6, <2>1
  <2>3. ASSUME NEW k \in 1..Len(calls'.stop)
        PROVE  calls'.stop[k] = calls'.start[Len(calls'.start) - k + 1]
    <3>1. CASE k = Len(calls.stop) + 1
      <4>1. Len(calls'.start) - k + 1 = n
        BY <1>4, <1>6, <1>9, <1>10, <3>1
      <4> QED BY <1>6, <1>9, <1>10, <3>1, <4>1
    <3>2. CASE k \in 1..Len(calls.stop)
      BY <1>6, <1>9, <2>1, <3>2
    <3> QED BY <1>9, <2>3, <3>1, <3>2
  <2> QED BY <1>6, <2>1, <2>2, <2>3, <2>4 DEF Stopping
<1> QED BY <1>1, <1>7, <1>8, <1>11 DEF RegistryInv, RegistryPhases

LEMMA StoppedKeeps == ASSUME RegistryInv, Registry!Stopped PROVE RegistryInv'
<1>1. /\ registryPhase = "stopping" /\ registryStarted = <<>> /\ registryPhase' = "ended"
      /\ UNCHANGED <<ordered, byName, candidates, extra, pending, registryStarted, registryFailed, calls>>
  BY DEF Registry!Stopped
<1>2. RegistryTypeOK /\ OrderedOnce /\ Stopping
  BY <1>1 DEF RegistryInv, RegistryPhases
<1>3. RegistryTypeOK' /\ OrderedOnce' /\ Stopping'
  BY <1>1, <1>2 DEF RegistryTypeOK, OrderedOnce, Stopping
<1> QED BY <1>1, <1>3 DEF RegistryInv, RegistryPhases

LEMMA RegistryInvNext == ASSUME RegistryInv, [Registry!Next]_registryState PROVE RegistryInv'
<1>1. CASE UNCHANGED registryState
  <2>1. UNCHANGED <<ordered, byName, registryPhase, candidates, extra, pending, registryStarted, calls>>
    BY <1>1 DEF registryState
  <2>2. RegistryTypeOK' /\ OrderedOnce'
    BY <2>1 DEF RegistryInv, RegistryTypeOK, OrderedOnce
  <2>3. (Untouched' <=> Untouched) /\ (Selecting' <=> Selecting)
    BY <2>1 DEF Untouched, Selecting
  <2>4. (Starting' <=> Starting) /\ (Stopping' <=> Stopping)
    BY <2>1 DEF Starting, Stopping
  <2> QED BY <2>1, <2>2, <2>3, <2>4 DEF RegistryInv, RegistryPhases
<1>2. CASE Registry!Next
  BY <1>2, HookRegisterKeeps, HooksBeginKeeps, SelectDefaultKeeps, SelectRequestedKeeps, AllSelectedKeeps,
     StartHookKeeps, FailureKeeps, RunningKeeps, StopNextKeeps, StoppedKeeps DEF Registry!Next
<1> QED BY <1>1, <1>2

(* Once ended, the shutdowns are the starts in reverse.                      *)
LEMMA RegistryIsBalanced == ASSUME RegistryInv PROVE Registry!HooksBalanced
<1>1. /\ registryStarted \in Seq(Hooks) /\ calls.start \in Seq(Hooks) /\ calls.stop \in Seq(Hooks)
      /\ registryPhase \in {"idle", "selecting", "starting", "running", "stopping", "ended"}
  BY DEF RegistryInv, RegistryTypeOK
<1>2. Distinct(calls.start)
  <2>1. CASE registryPhase \in {"idle", "selecting"}
    BY <2>1 DEF RegistryInv, RegistryPhases, Selecting, Untouched, Distinct
  <2>2. CASE registryPhase \in {"starting", "running"}
    BY <2>2 DEF RegistryInv, RegistryPhases, Starting
  <2>3. CASE registryPhase \in {"stopping", "ended"}
    BY <2>3 DEF RegistryInv, RegistryPhases, Stopping
  <2> QED BY <1>1, <2>1, <2>2, <2>3
<1>3. DOMAIN calls.start = 1..Len(calls.start)
  BY <1>1
<1>4. Registry!IsInjective(calls.start)
  BY <1>2, <1>3 DEF Registry!IsInjective, Distinct
<1>5. ASSUME registryPhase = "ended" PROVE calls.stop = Registry!Reverse(calls.start)
  <2> DEFINE n == Len(calls.start)
  <2>1. Stopping /\ registryStarted = <<>>
    BY <1>5 DEF RegistryInv, RegistryPhases
  <2>2. n \in Nat /\ Len(calls.stop) = n
    BY <1>1, <2>1 DEF Stopping
  <2>3. calls.stop = [k \in 1..n |-> calls.stop[k]]
    BY <1>1, <2>2
  <2>4. \A k \in 1..n : calls.stop[k] = calls.start[(n - k) + 1]
    BY <2>1, <2>2 DEF Stopping
  <2>5. calls.stop = [k \in 1..n |-> calls.start[(n - k) + 1]]
    BY <2>3, <2>4
  <2> QED BY <2>5 DEF Registry!Reverse
<1> QED BY <1>4, <1>5 DEF Registry!HooksBalanced

(* Whichever hook or stage of an initialisation fails, and however the       *)
(* lifecycles follow each other, hooks are shut down once each and in the    *)
(* reverse of the order they were started in, nothing that was started is left running and no        *)
(* default of the process is left behind; a database client that failed to   *)
(* start or was closed holds no connection, whatever its goroutines did.     *)
THEOREM FailedStartsAreUndone == ServicesSpec => []StartsAreUndone
<1> DEFINE I == /\ part = "registry" => RegistryInv
                /\ part = "fit" => FitInv
                /\ part = "databases" => DatabasesInv
<1>1. ServicesInit => I
  BY ChosenInit, RegistryInvInit, FitInvInit, DatabasesInvInit
<1>2. I /\ [ServicesNext]_servicesVars => I'
  BY ChosenStep, RegistryInvNext, FitInvNext, DatabasesInvNext
<1>3. ASSUME FitInv PROVE Fit!NothingLeftBehind /\ Fit!DefaultsAreReachable
  BY <1>3 DEF FitInv, FitHeld, FitPhase, Fit!NothingLeftBehind
<1>4. I => StartsAreUndone
  BY <1>3, RegistryIsBalanced DEF StartsAreUndone, DatabasesInv
<1> QED BY <1>1, <1>2, <1>4, PTL DEF ServicesSpec

-----------------------------------------------------------------------------
(* How the datastore clients turn their settings into connections and pools, *)
(* for every setting; int32 wraps at 2^31.                                   *)
Connections == INSTANCE ConnectionSettings WITH Int32Half <- 2147483648

(* TLS that was loaded without an error is verified, if any was asked for.   *)
LEMMA LoadedTLS ==
    ASSUME NEW client, NEW material
    PROVE  LET loaded == Connections!LoadTLS(client, material)
           IN  \/ loaded.err
               \/ loaded.config = "verified"
               \/ /\ loaded.config = "none"
                  /\ material.given \cap Connections!Material(client) = {}
<1> DEFINE given == material.given \cap Connections!Material(client)
<1>1. CASE given = {}
  BY <1>1 DEF Connections!LoadTLS
<1>2. CASE given # {} /\ (given # Connections!Material(client) \/ material.files = "unreadable")
  BY <1>2 DEF Connections!LoadTLS
<1>3. CASE given # {} /\ given = Connections!Material(client) /\ material.files = "badCA"
  BY <1>3 DEF Connections!LoadTLS
<1>4. CASE /\ given # {} /\ given = Connections!Material(client)
           /\ material.files \notin {"unreadable", "badCA"}
  BY <1>4 DEF Connections!LoadTLS
<1> QED BY <1>1, <1>2, <1>3, <1>4

(* Every redis route dials with the TLS settings it was given, or fails.     *)
LEMMA RoutesKeepTLS ==
    ASSUME NEW via, NEW service, NEW dialers, NEW protocol, NEW controls, NEW tls
    PROVE  LET r == Connections!DialRoute(via, service, dialers, protocol, controls, tls)
           IN  r.err \/ r.tls = {tls}
<1> DEFINE r == Connections!DialRoute(via, service, dialers, protocol, controls, tls)
<1>1. \/ r = Connections!Failure
      \/ \E by : r = Connections!Dialled(via, by, tls)
  BY Zenon DEF Connections!DialRoute
<1> HIDE DEF r
<1>2. r.err \/ r.tls = {tls}
  BY <1>1 DEF Connections!Failure, Connections!Dialled
<1> QED BY <1>2 DEF r

RedisAsked(uri, loaded) ==
    \/ loaded.err \/ loaded.config = "verified"
    \/ loaded.config = "none" /\ (uri.scheme = "rediss" \/ "true" \in {uri.tls, uri.ssl})
Kept(r) == r.err \/ r.tls = {"verified"}

(* A redis connection is verified when TLS was loaded or its URI asks for it.*)
LEMMA RedisKeepsTLS ==
    ASSUME NEW uri, NEW service, NEW dialers, NEW controls, NEW loaded,
           RedisAsked(uri, loaded)
    PROVE  Kept(Connections!DialFromURI(uri, service, dialers, controls, loaded, TRUE))
<1> SUFFICES ASSUME loaded.err \/ loaded.config = "verified"
               \/ (loaded.config = "none" /\ (uri.scheme = "rediss" \/ "true" \in {uri.tls, uri.ssl}))
             PROVE  LET r == Connections!DialFromURI(uri, service, dialers, controls, loaded, TRUE)
                    IN  r.err \/ r.tls = {"verified"}
  BY Zenon DEF RedisAsked, Kept
<1> DEFINE r == Connections!DialFromURI(uri, service, dialers, controls, loaded, TRUE)
           tls == Connections!ApplyRedisURITLS(uri, loaded.config).config
           protocol == Connections!Protocol(service).value
           Route(w) == Connections!DialRoute(w, service, dialers, protocol, controls, tls)
<1>1. Connections!Failure.err
  BY DEF Connections!Failure
<1>2. loaded.err => r = Connections!Failure
  BY Zenon DEF Connections!DialFromURI
<1>3. ~loaded.err => tls = "verified"
  BY DEF Connections!ApplyRedisURITLS
<1>4. r = Connections!Failure \/ \E w : r = Route(w)
  BY Zenon DEF Connections!DialFromURI, Connections!RouteSentinel, Connections!RouteCluster,
               Connections!RouteStandalone
<1>5. \A w : Route(w).err \/ Route(w).tls = {tls}
  BY RoutesKeepTLS
<1> HIDE DEF r, tls, Route
<1>6. r.err \/ r.tls = {"verified"}
  BY <1>1, <1>2, <1>3, <1>4, <1>5
<1> QED BY <1>6 DEF r

(* MySQL: the registered config is the connection's, unless the URI's own    *)
(* tls option or the caller's hook displaces it.                             *)
LEMMA MySQLKeepsTLS ==
    ASSUME NEW q, q.client = "mysql", NEW loaded, loaded.err \/ loaded.config = "verified",
           q.conn.option \in {"absent", "true", "false", "insecure"}
    PROVE  LET r == Connections!OpenMySQL(q.conn, q.registrar, loaded, TRUE)
           IN  r.err \/ (r.tls = {"verified"} <=> ~Connections!SaysOtherwise(q))
<1> DEFINE r == Connections!OpenMySQL(q.conn, q.registrar, loaded, TRUE)
           tls == Connections!DriverTLS(q.conn, "verified")
<1>1. r.err \/ r.tls = {tls}
  BY DEF Connections!OpenMySQL, Connections!Failure, Connections!Dialled
<1>2. Connections!SaysOtherwise(q) <=>
        \/ q.conn.dsn = "unnamed"
        \/ /\ q.conn.dsn = "default" /\ q.conn.form = "uri"
           /\ q.conn.option \in {"false", "insecure"}
  BY DEF Connections!SaysOtherwise
<1>3. tls = "verified" <=> ~Connections!SaysOtherwise(q)
  BY <1>2 DEF Connections!DriverTLS, Connections!OptionTLS
<1> HIDE DEF r, tls
<1>4. r.err \/ (r.tls = {"verified"} <=> ~Connections!SaysOtherwise(q))
  BY <1>1, <1>3
<1> QED BY <1>4 DEF r

(* Postgres: the first attempt has the loaded config and the others what     *)
(* sslmode says.                                                             *)
LEMMA PostgresKeepsTLS ==
    ASSUME NEW q, q.client = "postgres", NEW loaded, loaded.err \/ loaded.config = "verified",
           q.conn.sslmode \in {"disable", "allow", "prefer", "require", "verify"}
    PROVE  LET r == Connections!OpenPostgres(q.conn, loaded)
           IN  r.err \/ (r.tls = {"verified"} <=> ~Connections!SaysOtherwise(q))
<1> DEFINE r == Connections!OpenPostgres(q.conn, loaded)
           ssl == q.conn.sslmode
           others == Connections!SecondAttempts[ssl] \cup
                       (IF q.conn.hosts > 1 THEN {Connections!FirstAttempt[ssl]} ELSE {})
<1>1. r.err \/ r.tls = {"verified"} \cup others
  BY DEF Connections!OpenPostgres, Connections!Failure
<1>2. Connections!SaysOtherwise(q) <=>
        ssl \in {"allow", "prefer"} \/ (q.conn.hosts > 1 /\ ssl # "verify")
  BY DEF Connections!SaysOtherwise
<1>3. others \subseteq {"verified"} <=> ~Connections!SaysOtherwise(q)
  BY <1>2 DEF Connections!FirstAttempt, Connections!SecondAttempts
<1> HIDE DEF r, others
<1>4. r.err \/ (r.tls = {"verified"} <=> ~Connections!SaysOtherwise(q))
  BY <1>1, <1>3
<1> QED BY <1>4 DEF r

(* A strict client that was asked for TLS, by any of its variables or by the *)
(* URI of a redis service, opens a verified connection or none, whatever the *)
(* route, dialer, compatibility profile and driver registration are; the     *)
(* connection may be a weaker one exactly if a mysql tls option or DSN hook, *)
(* or the fallbacks of a postgres sslmode, say so.                           *)
THEOREM TLSIsKeptUnlessOverridden ==
    ASSUME NEW q, q.strict \in BOOLEAN, q.client \in {"redis", "mysql", "postgres", "mongo"},
           q.client = "mysql" => q.conn.option \in {"absent", "true", "false", "insecure"},
           q.client = "postgres" =>
               q.conn.sslmode \in {"disable", "allow", "prefer", "require", "verify"}
    PROVE  Connections!TLSKeptUnlessOverridden(q)
<1> DEFINE loaded == Connections!LoadTLS(q.client, q.material)
           r == Connections!Connect(q)
<1> SUFFICES ASSUME q.strict = TRUE, Connections!AsksForTLS(q)
             PROVE  r.err \/ (r.tls = {"verified"} <=> ~Connections!SaysOtherwise(q))
  BY DEF Connections!TLSKeptUnlessOverridden
<1>1. \/ loaded.err
      \/ loaded.config = "verified"
      \/ loaded.config = "none" /\ q.material.given \cap Connections!Material(q.client) = {}
  BY LoadedTLS
<1>2. Connections!TLSForMode(q.client, q.material, q.strict) = loaded
  BY DEF Connections!TLSForMode
<1> HIDE DEF loaded
<1>3. CASE q.client = "redis"
  <2>1. r = Connections!DialFromURI(q.uri, q.service, q.dialers, q.controls, loaded, TRUE)
    BY <1>2, <1>3 DEF Connections!Connect
  <2>2. RedisAsked(q.uri, loaded)
    BY <1>1 DEF Connections!AsksForTLS, RedisAsked
  <2> DEFINE dialled == Connections!DialFromURI(q.uri, q.service, q.dialers, q.controls, loaded, TRUE)
  <2>3. Kept(dialled)
    BY ONLY <2>2, RedisKeepsTLS, Zenon
  <2>4. ~Connections!SaysOtherwise(q)
    BY <1>3 DEF Connections!SaysOtherwise
  <2> HIDE DEF r, dialled
  <2>5. r = dialled
    BY <2>1 DEF dialled
  <2> QED BY <2>3, <2>4, <2>5 DEF Kept
<1>4. CASE q.client # "redis"
  <2>1. loaded.err \/ loaded.config = "verified"
    BY <1>1, <1>4 DEF Connections!AsksForTLS
  <2>2. CASE q.client = "mysql"
    <3>1. r = Connections!OpenMySQL(q.conn, q.registrar, loaded, TRUE)
      BY <1>2, <2>2 DEF Connections!Connect
    <3> DEFINE dialled == Connections!OpenMySQL(q.conn, q.registrar, loaded, TRUE)
    <3>2. q.conn.option \in {"absent", "true", "false", "insecure"}
      BY <2>2
    <3>3. dialled.err \/ (dialled.tls = {"verified"} <=> ~Connections!SaysOtherwise(q))
      BY <2>1, <2>2, <3>2, MySQLKeepsTLS, ZenonT(60)
    <3> HIDE DEF r, dialled
    <3>4. r = dialled
      BY <3>1 DEF dialled
    <3> QED BY <3>3, <3>4
  <2>3. CASE q.client = "postgres"
    <3>1. r = Connections!OpenPostgres(q.conn, loaded)
      BY <1>2, <2>3 DEF Connections!Connect
    <3> DEFINE dialled == Connections!OpenPostgres(q.conn, loaded)
    <3>2. q.conn.sslmode \in {"disable", "allow", "prefer", "require", "verify"}
      BY <2>3
    <3>3. dialled.err \/ (dialled.tls = {"verified"} <=> ~Connections!SaysOtherwise(q))
      BY <2>1, <2>3, <3>2, PostgresKeepsTLS, ZenonT(60)
    <3> HIDE DEF r, dialled
    <3>4. r = dialled
      BY <3>1 DEF dialled
    <3> QED BY <3>3, <3>4
  <2>4. CASE q.client = "mongo"
    <3>1. r = Connections!OpenMongo(loaded)
      BY <1>2, <2>4 DEF Connections!Connect
    <3>2. ~Connections!SaysOtherwise(q)
      BY <2>4 DEF Connections!SaysOtherwise
    <3> HIDE DEF r
    <3> QED BY <2>1, <3>1, <3>2 DEF Connections!OpenMongo, Connections!Failure, Connections!Dialled
  <2> QED BY <1>4, <2>2, <2>3, <2>4
<1> QED BY <1>3, <1>4

(* Where the strict postgres initialiser accepts a configuration written for *)
(* the original one, both open the same pool: no count that int32 would wrap *)
(* and no value that only one of them parses goes unnoticed.                 *)
THEOREM PoolsStayTheSame ==
    ASSUME NEW q, Connections!Fields \cup {"renamed"} \subseteq DOMAIN q.env
    PROVE  Connections!PoolsAgree(q)
<1> DEFINE options == Connections!Defaulted(q.options, q.defaults)
           strict == Connections!StrictPool(options, q.env, q.override)
           legacy == Connections!LegacyPool(options, q.env, q.override)
           S == [f \in Connections!Fields |->
                    IF Connections!Read(f, q.env).form \in {"number", "padded"}
                    THEN Connections!Read(f, q.env).n ELSE options[f]]
           G == [f \in Connections!LegacyFields |->
                    IF q.env[f].form # "number" THEN options[f]
                    ELSE IF f \in Connections!Counts THEN Connections!Wrapped(q.env[f].n)
                    ELSE q.env[f].n]
<1> SUFFICES ASSUME ~strict.err, q.env["renamed"].form \notin {"number", "padded"},
                    \A f \in Connections!Fields : q.env[f].form # "padded",
                    NEW f \in Connections!LegacyFields
             PROVE  legacy[f] = strict.settings[f]
  BY Zenon DEF Connections!PoolsAgree
<1>1. ~Connections!EnvError(q.env) /\ strict.settings = Connections!Overridden(S, q.override)
  BY DEF Connections!StrictPool
<1>2. legacy = Connections!Overridden(G, q.override)
  BY DEF Connections!LegacyPool
<1>3. f \in Connections!Fields /\ f \in DOMAIN q.env
  BY DEF Connections!Fields
<1>4. Connections!Read(f, q.env) = q.env[f]
  BY DEF Connections!Read
<1>5. q.env[f].form # "padded"
  BY <1>3
<1>6. f \in Connections!Counts /\ q.env[f].form = "number" =>
        Connections!Wrapped(q.env[f].n) = q.env[f].n
  BY <1>1, <1>3 DEF Connections!EnvError
<1>7. G[f] = S[f]
  BY <1>3, <1>4, <1>5, <1>6
<1>8. DOMAIN S = Connections!Fields /\ DOMAIN G = Connections!LegacyFields
  OBVIOUS
<1> HIDE DEF S, G, strict, legacy, options
<1> QED BY <1>1, <1>2, <1>3, <1>7, <1>8 DEF Connections!Overridden
============================================================================
