------------------------ MODULE FeatureClientProofs ------------------------
(***************************************************************************)
(* Proofs about the streaming feature client, for every set of contexts,   *)
(* keys, edge states and waiters and every number of changes and faults.   *)
(***************************************************************************)
EXTENDS FeatureClient, TLAPS

(* Revisions only follow the callers': a stream, a cached namespace and    *)
(* readiness are never of a context that was not set yet, and readiness is *)
(* never of a later one than the cached values.                            *)
RevisionsOrdered ==
    /\ revision <= contextRevision
    /\ namespace <= contextRevision
    /\ readyRevision <= namespace

(* A stream of the present revision asked with the present attributes,     *)
(* although the revision is read before the attributes and the lock is     *)
(* free in between.                                                        *)
SentIsCurrent ==
    stream \in {"open", "signal", "served"} /\ revision = contextRevision => sent = attributes

(* Cached values of the present revision were evaluated for the present    *)
(* attributes, whether the client is ready or not.                         *)
CacheIsCurrent ==
    namespace = contextRevision =>
        \A k \in Keys : features[k] = Absent \/ features[k].context = attributes

(* Only the caller that is changing the context sees readiness of the      *)
(* previous one.                                                           *)
ReadyIsCurrent == ready /\ setter # "locked" => namespace = contextRevision

(* What a waiter that returned nil saw stays reached.                      *)
OkIsReached == \A w \in Waiters : waiter[w].pc = "ok" => waiter[w].target <= readyRevision

ContextInv ==
    RevisionsOrdered /\ SentIsCurrent /\ CacheIsCurrent /\ ReadyIsCurrent /\ OkIsReached

(* A request inside an open window has used the window's one interrupt: it *)
(* was set before the loop came back to its start.                         *)
WindowInv ==
    /\ requests <= 1
    /\ window # "open" => requests = 0
    /\ window = "open" =>
         /\ regime
         /\ ~interrupted => requests = 0
         /\ pc = "start" => interrupted /\ requests = 0
         /\ pc \in {"select", "cancel", "stopping", "settle", "classify"} => interrupted
         /\ pc = "wait" => stale \/ interrupted

IInv == TypeOK /\ ContextInv /\ WindowInv /\ RetentionBounded
----------------------------------------------------------------------------
(* Waiters keep their type when one of them moves, and when all are        *)
(* signalled.                                                              *)
LEMMA SignalledType ==
    ASSUME waiter \in [Waiters -> Waiter]
    PROVE  Signalled \in [Waiters -> Waiter]
BY DEF Signalled, Waiter

LEMMA SignalledKeeps ==
    ASSUME waiter \in [Waiters -> Waiter], NEW w \in Waiters
    PROVE  Signalled[w].pc = waiter[w].pc /\ Signalled[w].target = waiter[w].target
BY DEF Signalled, Waiter

(* The namespace an event is merged into holds features or nothing.        *)
LEMMA NamespaceType ==
    ASSUME features \in [Keys -> Feature \cup {Absent}]
    PROVE  Namespace \in [Keys -> Feature \cup {Absent}]
BY DEF Namespace

LEMMA EvaluatedType ==
    ASSUME sent \in Attributes, NEW e \in EdgeStates
    PROVE  Evaluated(e) \in Feature /\ Evaluated(e).context = sent
BY FeatureAssumption DEF Evaluated, Feature

LEMMA TypeInit == Init => TypeOK
<1> SUFFICES ASSUME Init PROVE FlagsOK /\ ValuesOK
  BY DEF TypeOK
<1>1. FlagsOK
  BY Zenon DEF Init, FlagsOK
<1>2. waiter \in [Waiters -> Waiter]
  <2>1. [pc |-> "idle", target |-> 0, signalled |-> FALSE] \in Waiter
    BY FeatureAssumption DEF Waiter
  <2> QED BY <2>1 DEF Init
<1>3. ValuesOK
  BY <1>2, FeatureAssumption DEF Init, ValuesOK
<1> QED BY <1>1, <1>3

(* The flags of the client stay Boolean.                                   *)
LEMMA FlagsNext == ASSUME FlagsOK, [Next]_vars PROVE FlagsOK'
<1>1. ASSUME NEW a \in Attributes, SetAttributes(a) PROVE FlagsOK'
  BY <1>1, Zenon DEF SetAttributes, FlagsOK, repository, readiness, loopVars, pacing, streamVars, retention
<1>2. CASE Invalidate \/ NotifyContextChanged
  BY <1>2, ZenonT(60) DEF Invalidate, NotifyContextChanged, FlagsOK, readiness, loopVars, pacing, retention
<1>3. ASSUME NEW w \in Waiters, WaitReady(w) \/ WaitStep(w) \/ GiveUp(w) PROVE FlagsOK'
  <2>1. UNCHANGED <<readiness, refresh, loopVars, received, pacing, terminal, retention>>
    BY <1>3, Zenon DEF SetWaiter, WaitReady, WaitStep, GiveUp, LoadReady, LoadRevision, Subscribe, Wake
  <2> QED BY <2>1, Zenon DEF FlagsOK, readiness, loopVars, pacing, retention
<1>4. CASE Elapse
  BY <1>4, Zenon DEF Elapse, FlagsOK, readiness, loopVars, pacing
<1>5. ASSUME NEW old \in BOOLEAN, RetentionEnds(old) PROVE FlagsOK'
  BY <1>5, Zenon DEF RetentionEnds, FlagsOK, loopVars, pacing
<1>6. CASE Request
  BY <1>6, Zenon DEF Request, FlagsOK, readiness, loopVars, pacing, retention
<1>7. CASE SignalReadyChange
  BY <1>7, Zenon DEF SignalReadyChange, FlagsOK, readiness, loopVars, pacing, retention
<1>8. CASE StreamFails \/ StreamCancelled
  <2>1. PICK r : EndStream(r)
    BY <1>8, Zenon DEF StreamFails, StreamCancelled
  <2> QED
    BY <2>1, Zenon DEF EndStream, FlagsOK, readiness, loopVars, pacing, retention
<1>9. ASSUME NEW new, Apply(new), ready' = TRUE \/ UNCHANGED ready
      PROVE  FlagsOK'
  BY <1>9, Zenon DEF Apply, ClearStaleRetention, FlagsOK, readiness, loopVars, pacing
<1>10. ASSUME NEW s \in Snapshots, ApplyFullFeatureSet(s) PROVE FlagsOK'
  BY <1>9, <1>10, Zenon DEF ApplyFullFeatureSet
<1>11. ASSUME NEW k \in Keys, NEW e \in EdgeStates, ApplyFeature(k, e) \/ DeleteFeature(k, e)
       PROVE  FlagsOK'
  BY <1>9, <1>11, Zenon DEF ApplyFeature, DeleteFeature, readiness
<1>12. CASE BeginRequest
  BY <1>12, Zenon DEF BeginRequest, FlagsOK, readiness, pacing, retention
<1>19. CASE AwaitStream
  <2>1. /\ refresh' = FALSE \/ UNCHANGED refresh
        /\ refreshed' = TRUE \/ UNCHANGED refreshed
    BY <1>19, Zenon DEF AwaitStream
  <2> QED
    BY <1>19, <2>1, Zenon DEF AwaitStream, FlagsOK, readiness, pacing, retention
<1>20. CASE AwaitCancelled
  BY <1>20, Zenon DEF AwaitCancelled, FlagsOK, readiness, pacing, retention
<1>13. CASE Settle
  BY <1>13, Zenon DEF Settle, FlagsOK, readiness, retention
<1>14. CASE AskAgain \/ AskLater
  BY <1>14, Zenon DEF AskAgain, AskLater, EndIteration, FlagsOK
<1>18. CASE StaleReply \/ StreamLost
  BY <1>18, Zenon DEF StaleReply, StreamLost, EndIteration, FlagsOK
<1>15. CASE Delay
  <2>1. /\ refresh' = FALSE \/ UNCHANGED refresh
        /\ interrupted' = (interrupted \/ InterruptsWait) \/ UNCHANGED interrupted
    BY <1>15, Zenon DEF Delay
  <2> QED
    BY <1>15, <2>1, Zenon DEF Delay, FlagsOK, readiness, retention
<1>21. CASE WindowEnds
  BY <1>21, Zenon DEF WindowEnds, FlagsOK, readiness, loopVars, retention
<1>16. CASE Stop
  BY <1>16, ZenonT(60) DEF Stop, ClearStaleRetention, FlagsOK, readiness, loopVars, pacing
<1>17. CASE UNCHANGED vars
  BY <1>17, Zenon DEF vars, FlagsOK, readiness, loopVars, pacing, retention
<1> QED
  BY <1>1, <1>2, <1>3, <1>4, <1>5, <1>6, <1>7, <1>8, <1>10, <1>11, <1>12, <1>13, <1>14,
     <1>15, <1>16, <1>17, <1>18, <1>19, <1>20, <1>21, Zenon DEF Next, Run

LEMMA ValuesNext == ASSUME TypeOK, [Next]_vars PROVE ValuesOK'
<1> USE FeatureAssumption DEF TypeOK
<1>1. ASSUME NEW a \in Attributes, SetAttributes(a) PROVE ValuesOK'
  BY <1>1 DEF SetAttributes, Bumped, ValuesOK, repository, readiness, loopVars, pacing, streamVars, retention
<1>2. CASE Invalidate \/ NotifyContextChanged
  BY <1>2 DEF Invalidate, NotifyContextChanged, ValuesOK, repository, readiness, loopVars, pacing,
     streamVars, retention
<1>3. ASSUME NEW w \in Waiters, WaitReady(w) \/ WaitStep(w) \/ GiveUp(w) PROVE ValuesOK'
  <2>1. ASSUME NEW new \in Waiter, SetWaiter(w, new) PROVE ValuesOK'
    BY <2>1 DEF SetWaiter, ValuesOK, repository, readiness, callers, loopVars, pacing, streamVars, retention
  <2>2. waiter[w] \in Waiter /\ contextRevision \in 0 .. MaxRevision
    BY DEF ValuesOK
  <2>3. ASSUME NEW where \in Waiting \cup {"idle", "ok", "error"}, NEW flag \in BOOLEAN
        PROVE  /\ [waiter[w] EXCEPT !.pc = where] \in Waiter
               /\ [waiter[w] EXCEPT !.pc = where, !.signalled = flag] \in Waiter
    BY <2>2 DEF Waiter
  <2>4. ASSUME NEW where \in Waiting \cup {"idle", "ok", "error"}, NEW target \in 0 .. MaxRevision
        PROVE  [pc |-> where, target |-> target, signalled |-> FALSE] \in Waiter
    BY DEF Waiter
  <2>5. CASE WaitReady(w) \/ GiveUp(w)
    BY <2>1, <2>2, <2>4, <2>5 DEF WaitReady, GiveUp, Waiting
  <2>6. CASE LoadReady(w) \/ Subscribe(w)
    BY <2>1, <2>3, <2>6 DEF LoadReady, Subscribe, At, Waiting
  <2>7. CASE LoadRevision(w)
    <3> DEFINE seen == RevisionReached(w)
    <3>1. (waiter[w].signalled /\ ~seen) \in BOOLEAN
      BY Zenon
    <3>2. CASE waiter[w].pc = "revision"
      BY <2>1, <2>3, <2>7, <3>2 DEF LoadRevision, At, Waiting
    <3>3. CASE waiter[w].pc = "revisionAgain"
      <4>1. SetWaiter(w, [waiter[w] EXCEPT !.pc = IF seen THEN "ok" ELSE "wait",
                                           !.signalled = waiter[w].signalled /\ ~seen])
        BY <2>7, <3>3, Zenon DEF LoadRevision
      <4> HIDE DEF seen
      <4> QED BY <2>1, <2>3, <3>1, <4>1 DEF Waiting
    <3> QED BY <2>7, <3>2, <3>3 DEF LoadRevision
  <2>8. CASE Wake(w)
    BY <2>1, <2>3, <2>8 DEF Wake, Waiting
  <2> QED BY <1>3, <2>5, <2>6, <2>7, <2>8 DEF WaitStep
<1>4. CASE Elapse
  BY <1>4 DEF Elapse, ValuesOK, repository, readiness, callers, loopVars, pacing, streamVars
<1>5. ASSUME NEW old \in BOOLEAN, RetentionEnds(old) PROVE ValuesOK'
  BY <1>5, SignalledType DEF RetentionEnds, ValuesOK, repository, callers, loopVars, pacing, streamVars
<1>6. CASE Request
  BY <1>6 DEF Request, ValuesOK, repository, readiness, callers, loopVars, pacing, retention
<1>7. CASE SignalReadyChange
  BY <1>7, SignalledType DEF SignalReadyChange, ValuesOK, repository, readiness, callers, loopVars,
     pacing, retention
<1>8. CASE StreamFails \/ StreamCancelled
  BY <1>8 DEF StreamFails, StreamCancelled, EndStream, ValuesOK, repository, readiness, callers,
     loopVars, pacing, retention
<1>9. ASSUME NEW new \in [Keys -> Feature \cup {Absent}], Apply(new),
             \/ readyRevision' = revision /\ ready' = TRUE /\ stream' = "signal"
             \/ UNCHANGED <<readiness, stream>>
      PROVE  ValuesOK'
  BY <1>9 DEF Apply, ClearStaleRetention, ValuesOK, readiness, callers, loopVars, pacing
<1>10. ASSUME NEW s \in Snapshots, ApplyFullFeatureSet(s) PROVE ValuesOK'
  BY <1>9, <1>10, NamespaceType, EvaluatedType DEF ApplyFullFeatureSet, Snapshots, ValuesOK
<1>11. ASSUME NEW k \in Keys, NEW e \in EdgeStates, ApplyFeature(k, e) \/ DeleteFeature(k, e)
       PROVE  ValuesOK'
  BY <1>9, <1>11, NamespaceType, EvaluatedType DEF ApplyFeature, DeleteFeature, ValuesOK
<1>12. CASE BeginRequest \/ AwaitStream \/ AwaitCancelled
  BY <1>12 DEF BeginRequest, AwaitStream, AwaitCancelled, ValuesOK, repository, readiness, callers,
     pacing, streamVars, retention
<1>13. CASE Settle
  BY <1>13 DEF Settle, ValuesOK, repository, readiness, callers, retention
<1>14. CASE AskAgain \/ AskLater \/ StaleReply \/ StreamLost
  BY <1>14 DEF AskAgain, AskLater, StaleReply, StreamLost, EndIteration, ValuesOK, repository, callers
<1>15. CASE Delay \/ WindowEnds
  BY <1>15 DEF Delay, WindowEnds, ValuesOK, repository, readiness, callers, loopVars, streamVars,
     retention
<1>16. CASE Stop
  BY <1>16 DEF Stop, ClearStaleRetention, ValuesOK, repository, readiness, callers, loopVars, pacing,
     streamVars
<1>17. CASE UNCHANGED vars
  BY <1>17 DEF vars, ValuesOK, repository, readiness, callers, loopVars, pacing, streamVars, retention
<1> QED
  BY <1>1, <1>2, <1>3, <1>4, <1>5, <1>6, <1>7, <1>8, <1>10, <1>11, <1>12, <1>13, <1>14,
     <1>15, <1>16, <1>17 DEF Next, Run

LEMMA TypeNext == TypeOK /\ [Next]_vars => TypeOK'
BY FlagsNext, ValuesNext DEF TypeOK

(* Every reachable state of the feature client has the declared types.     *)
THEOREM TypeCorrect == Spec => []TypeOK
BY TypeInit, TypeNext, PTL DEF Spec
----------------------------------------------------------------------------
(* Whose values are cached                                                 *)

LEMMA ContextInit == Init => ContextInv
BY FeatureAssumption
   DEF Init, ContextInv, RevisionsOrdered, SentIsCurrent, CacheIsCurrent, ReadyIsCurrent, OkIsReached

(* An applied event is of the present revision, so what it merges was      *)
(* evaluated for the present attributes.                                   *)
LEMMA MergedIsCurrent ==
    ASSUME TypeOK, ContextInv, stream \in {"open", "served"}, CurrentContext
    PROVE  /\ sent = attributes
           /\ \A k \in Keys : Namespace[k] = Absent \/ Namespace[k].context = attributes
BY DEF TypeOK, ValuesOK, ContextInv, SentIsCurrent, CacheIsCurrent, CurrentContext, Namespace

LEMMA ApplyKeepsContext ==
    ASSUME TypeOK, TypeOK', ContextInv,
           NEW new \in [Keys -> Feature \cup {Absent}], Apply(new),
           \A k \in Keys : new[k] = Absent \/ new[k].context = attributes,
           \/ readyRevision' = revision /\ ready' = TRUE /\ stream' = "signal"
           \/ UNCHANGED <<readiness, stream>>
    PROVE  ContextInv'
<1> USE DEF ContextInv, TypeOK, ValuesOK
<1>1. /\ namespace' = contextRevision /\ features' = new /\ revision = contextRevision
      /\ UNCHANGED <<attributes, contextRevision, setter, waiter, revision, sent>>
      /\ stream \in {"open", "served"} /\ setter # "locked"
  BY DEF Apply, CurrentContext, callers, loopVars
<1>2. RevisionsOrdered'
  BY <1>1 DEF RevisionsOrdered, readiness
<1>3. SentIsCurrent' /\ CacheIsCurrent' /\ ReadyIsCurrent'
  BY <1>1 DEF SentIsCurrent, CacheIsCurrent, ReadyIsCurrent
<1>4. readyRevision <= readyRevision'
  BY <1>1 DEF RevisionsOrdered, readiness
<1>5. OkIsReached'
  BY <1>1, <1>4 DEF OkIsReached, Waiter
<1> QED BY <1>2, <1>3, <1>5

LEMMA ContextNext == ASSUME TypeOK, TypeOK', ContextInv, [Next]_vars PROVE ContextInv'
<1> USE DEF ContextInv, TypeOK, ValuesOK
<1> DEFINE Quiet == UNCHANGED <<attributes, contextRevision, features, namespace, ready,
                                readyRevision, setter, stream, sent, revision, waiter>>
<1>1. ASSUME NEW a \in Attributes, SetAttributes(a) PROVE ContextInv'
  BY <1>1 DEF SetAttributes, Bumped, RevisionsOrdered, SentIsCurrent, CacheIsCurrent,
     ReadyIsCurrent, OkIsReached, repository, readiness, loopVars, streamVars
<1>2. CASE Invalidate \/ NotifyContextChanged
  BY <1>2 DEF Invalidate, NotifyContextChanged, RevisionsOrdered, SentIsCurrent, CacheIsCurrent,
     ReadyIsCurrent, OkIsReached, repository, readiness, loopVars, streamVars
<1>3. ASSUME NEW w \in Waiters, WaitReady(w) \/ WaitStep(w) \/ GiveUp(w) PROVE ContextInv'
  <2>1. PICK new : /\ SetWaiter(w, new)
                   /\ new.pc = "ok" => new.target = waiter[w].target /\ RevisionReached(w)
    <3>1. CASE WaitReady(w)
      BY <3>1 DEF WaitReady
    <3>4. CASE GiveUp(w)
      BY <3>4 DEF GiveUp
    <3>5. CASE Wake(w)
      <4> DEFINE new == [waiter[w] EXCEPT !.pc = "ready", !.signalled = FALSE]
      <4>1. SetWaiter(w, new) /\ new.pc = "ready"
        BY <3>5 DEF Wake, Waiter
      <4> HIDE DEF new
      <4> QED BY <4>1
    <3>2. CASE LoadReady(w) \/ Subscribe(w)
      BY <3>2 DEF LoadReady, Subscribe, At, Waiter
    <3>3. CASE LoadRevision(w)
      <4> DEFINE seen == RevisionReached(w)
      <4>1. CASE waiter[w].pc = "revision"
        BY <3>3, <4>1 DEF LoadRevision, At, Waiter
      <4>2. CASE waiter[w].pc = "revisionAgain"
        <5> DEFINE new == [waiter[w] EXCEPT !.pc = IF seen THEN "ok" ELSE "wait",
                                            !.signalled = waiter[w].signalled /\ ~seen]
        <5>1. SetWaiter(w, new)
          BY <3>3, <4>2, Zenon DEF LoadRevision
        <5>2. waiter[w] \in Waiter
          OBVIOUS
        <5>3. new.pc = (IF seen THEN "ok" ELSE "wait") /\ new.target = waiter[w].target
          BY <5>2, Zenon DEF Waiter
        <5> HIDE DEF new
        <5> QED BY <5>1, <5>3
      <4> QED BY <3>3, <4>1, <4>2 DEF LoadRevision
    <3> QED BY <1>3, <3>1, <3>2, <3>3, <3>4, <3>5 DEF WaitStep
  <2>2. UNCHANGED <<attributes, contextRevision, features, namespace, ready, readyRevision,
                    setter, stream, sent, revision>>
    BY <2>1 DEF SetWaiter, repository, readiness, callers, loopVars, streamVars
  <2>3. OkIsReached'
    BY <2>1, <2>2 DEF OkIsReached, SetWaiter, RevisionReached, Waiter
  <2> QED
    BY <2>2, <2>3 DEF RevisionsOrdered, SentIsCurrent, CacheIsCurrent, ReadyIsCurrent
<1>4. CASE Elapse \/ AwaitStream \/ AwaitCancelled \/ Delay \/ WindowEnds \/ Stop \/ UNCHANGED vars
  <2>1. Quiet
    BY <1>4 DEF Elapse, AwaitStream, AwaitCancelled, Delay, WindowEnds, Stop, vars, repository,
       readiness, callers, loopVars, streamVars
  <2> QED
    BY <2>1 DEF RevisionsOrdered, SentIsCurrent, CacheIsCurrent, ReadyIsCurrent, OkIsReached
<1>5. ASSUME NEW old \in BOOLEAN, RetentionEnds(old) PROVE ContextInv'
  <2>1. /\ UNCHANGED <<attributes, contextRevision, features, namespace, readyRevision, setter,
                       stream, sent, revision>>
        /\ ready' => ready
    BY <1>5 DEF RetentionEnds, repository, callers, loopVars, streamVars
  <2>2. waiter' = Signalled \/ waiter' = waiter
    BY <1>5 DEF RetentionEnds
  <2>3. OkIsReached'
    BY <2>1, <2>2, SignalledKeeps DEF OkIsReached
  <2> QED
    BY <2>1, <2>3 DEF RevisionsOrdered, SentIsCurrent, CacheIsCurrent, ReadyIsCurrent
<1>6. CASE Request
  BY <1>6 DEF Request, RevisionsOrdered, SentIsCurrent, CacheIsCurrent, ReadyIsCurrent,
     OkIsReached, repository, readiness, callers, loopVars
<1>7. CASE SignalReadyChange
  <2>1. OkIsReached'
    BY <1>7, SignalledKeeps DEF SignalReadyChange, OkIsReached, readiness
  <2> QED
    BY <1>7, <2>1 DEF SignalReadyChange, RevisionsOrdered, SentIsCurrent, CacheIsCurrent,
       ReadyIsCurrent, repository, readiness, callers, loopVars
<1>8. CASE StreamFails \/ StreamCancelled
  <2>1. PICK r : EndStream(r)
    BY <1>8, Zenon DEF StreamFails, StreamCancelled
  <2> QED
    BY <2>1 DEF EndStream, RevisionsOrdered, SentIsCurrent, CacheIsCurrent, ReadyIsCurrent,
       OkIsReached, repository, readiness, callers, loopVars
<1>9. ASSUME NEW s \in Snapshots, ApplyFullFeatureSet(s) PROVE ContextInv'
  <2> DEFINE new == [k \in Keys |->
          IF s[k] = Absent THEN Absent
          ELSE IF Replaces(Evaluated(s[k]), Namespace[k]) THEN Evaluated(s[k])
          ELSE Namespace[k]]
  <2>1. Apply(new) /\ readyRevision' = revision /\ ready' = TRUE /\ stream' = "signal"
    BY <1>9 DEF ApplyFullFeatureSet
  <2>2. \A k \in Keys : s[k] = Absent \/ s[k] \in EdgeStates
    BY DEF Snapshots
  <2>3. /\ new \in [Keys -> Feature \cup {Absent}]
        /\ \A k \in Keys : new[k] = Absent \/ new[k].context = attributes
    BY <2>1, <2>2, NamespaceType, EvaluatedType, MergedIsCurrent DEF Apply
  <2> HIDE DEF new
  <2> QED BY <2>1, <2>3, ApplyKeepsContext
<1>10. ASSUME NEW k \in Keys, NEW e \in EdgeStates, ApplyFeature(k, e) \/ DeleteFeature(k, e)
       PROVE  ContextInv'
  <2>1. PICK new : /\ Apply(new) /\ UNCHANGED <<readiness, stream>>
                   /\ \/ new = [Namespace EXCEPT ![k] = Evaluated(e)]
                      \/ new = [Namespace EXCEPT ![k] = Absent]
                      \/ new = Namespace
    BY <1>10, Zenon DEF ApplyFeature, DeleteFeature
  <2>2. /\ new \in [Keys -> Feature \cup {Absent}]
        /\ \A j \in Keys : new[j] = Absent \/ new[j].context = attributes
    BY <2>1, NamespaceType, EvaluatedType, MergedIsCurrent DEF Apply
  <2> QED BY <2>1, <2>2, ApplyKeepsContext
<1>11. CASE BeginRequest
  BY <1>11 DEF BeginRequest, RevisionsOrdered, SentIsCurrent, CacheIsCurrent, ReadyIsCurrent,
     OkIsReached, repository, readiness, callers
<1>12. CASE Settle
  BY <1>12 DEF Settle, RevisionsOrdered, SentIsCurrent, CacheIsCurrent, ReadyIsCurrent,
     OkIsReached, repository, readiness, callers
<1>13. CASE AskAgain \/ AskLater \/ StaleReply \/ StreamLost
  <2>1. /\ UNCHANGED <<attributes, contextRevision, features, namespace, readyRevision, setter,
                       stream, sent, waiter>>
        /\ revision' = 0 /\ (ready' => ready)
    BY <1>13 DEF AskAgain, AskLater, StaleReply, StreamLost, EndIteration, repository, callers
  <2> QED
    BY <2>1 DEF RevisionsOrdered, SentIsCurrent, CacheIsCurrent, ReadyIsCurrent, OkIsReached
<1> QED
  BY <1>1, <1>2, <1>3, <1>4, <1>5, <1>6, <1>7, <1>8, <1>9, <1>10, <1>11, <1>12, <1>13
  DEF Next, Run
----------------------------------------------------------------------------
(* What a stale edge is granted                                            *)

LEMMA WindowInit == Init => WindowInv
BY DEF Init, WindowInv

LEMMA WindowNext == ASSUME TypeOK, WindowInv, [Next]_vars PROVE WindowInv'
<1> USE DEF WindowInv, TypeOK, ValuesOK, FlagsOK
<1>1. ASSUME UNCHANGED <<requests, window, regime, interrupted, stale, pc>> PROVE WindowInv'
  BY <1>1
<1>2. CASE \/ \E a \in Attributes : SetAttributes(a)
           \/ Invalidate \/ NotifyContextChanged \/ Elapse \/ Request \/ SignalReadyChange \/ Stop
  BY <1>1, <1>2 DEF SetAttributes, Invalidate, NotifyContextChanged, Elapse, Request,
     SignalReadyChange, Stop, pacing, loopVars
<1>3. CASE \E w \in Waiters : WaitReady(w) \/ WaitStep(w) \/ GiveUp(w)
  BY <1>1, <1>3 DEF SetWaiter, WaitReady, WaitStep, GiveUp, LoadReady, LoadRevision, Subscribe,
     Wake, pacing, loopVars
<1>4. CASE \/ \E old \in BOOLEAN : RetentionEnds(old)
           \/ StreamFails \/ StreamCancelled \/ UNCHANGED vars
  BY <1>1, <1>4 DEF RetentionEnds, StreamFails, StreamCancelled, EndStream, vars, pacing, loopVars
<1>5. CASE \/ \E s \in Snapshots : ApplyFullFeatureSet(s)
           \/ \E k \in Keys, e \in EdgeStates : ApplyFeature(k, e) \/ DeleteFeature(k, e)
  BY <1>1, <1>5 DEF ApplyFullFeatureSet, ApplyFeature, DeleteFeature, Apply, pacing, loopVars
<1>6. CASE BeginRequest \/ AwaitStream \/ AwaitCancelled
  BY <1>6 DEF BeginRequest, AwaitStream, AwaitCancelled, pacing
<1>7. CASE Settle
  BY <1>7 DEF Settle
<1>8. CASE AskAgain \/ AskLater
  BY <1>8 DEF AskAgain, AskLater, MayAskAgain
<1>9. CASE StaleReply \/ StreamLost
  BY <1>9 DEF StaleReply, StreamLost
<1>10. CASE Delay
  BY <1>10 DEF Delay, InterruptsWait
<1>11. CASE WindowEnds
  BY <1>11 DEF WindowEnds, loopVars
<1> QED
  BY <1>2, <1>3, <1>4, <1>5, <1>6, <1>7, <1>8, <1>9, <1>10, <1>11 DEF Next, Run

LEMMA RetentionInit == Init => RetentionBounded
BY DEF Init, RetentionBounded

LEMMA RetentionNext == ASSUME TypeOK, RetentionBounded, [Next]_vars PROVE RetentionBounded'
<1> USE DEF RetentionBounded, Stopping, TypeOK, ValuesOK, FlagsOK
<1>1. ASSUME UNCHANGED <<timer, stop>>, ready' /\ kept' => ready /\ kept PROVE RetentionBounded'
  BY <1>1
<1>2. CASE \/ \E a \in Attributes : SetAttributes(a)
           \/ Invalidate \/ NotifyContextChanged \/ Request \/ SignalReadyChange
  BY <1>1, <1>2 DEF SetAttributes, Invalidate, NotifyContextChanged, Request,
     SignalReadyChange, readiness, retention
<1>3. CASE \E w \in Waiters : WaitReady(w) \/ WaitStep(w) \/ GiveUp(w)
  BY <1>1, <1>3 DEF SetWaiter, WaitReady, WaitStep, GiveUp, LoadReady, LoadRevision, Subscribe,
     Wake, readiness, retention
<1>4. CASE StreamFails \/ StreamCancelled \/ UNCHANGED vars
  BY <1>1, <1>4 DEF StreamFails, StreamCancelled, EndStream, vars, readiness, retention
<1>5. ASSUME NEW old \in BOOLEAN, RetentionEnds(old) PROVE RetentionBounded'
  BY <1>5 DEF RetentionEnds, Expires
<1>6. CASE Elapse
  BY <1>6 DEF Elapse, readiness
<1>7. ASSUME NEW new, Apply(new) PROVE RetentionBounded'
  BY <1>7 DEF Apply, ClearStaleRetention
<1>8. CASE \/ \E s \in Snapshots : ApplyFullFeatureSet(s)
           \/ \E k \in Keys, e \in EdgeStates : ApplyFeature(k, e) \/ DeleteFeature(k, e)
  BY <1>7, <1>8 DEF ApplyFullFeatureSet, ApplyFeature, DeleteFeature
<1>9. CASE BeginRequest \/ AwaitStream \/ AwaitCancelled \/ Settle \/ Delay \/ WindowEnds
  BY <1>1, <1>9 DEF BeginRequest, AwaitStream, AwaitCancelled, Settle, Delay, WindowEnds,
     readiness, retention
<1>10. CASE AskAgain \/ AskLater \/ StaleReply \/ StreamLost
  BY <1>10 DEF AskAgain, AskLater, StaleReply, StreamLost, EndIteration, MayArm
<1>11. CASE Stop
  BY <1>11 DEF Stop, ClearStaleRetention, readiness
<1> QED
  BY <1>2, <1>3, <1>4, <1>5, <1>6, <1>8, <1>9, <1>10, <1>11 DEF Next, Run
----------------------------------------------------------------------------
LEMMA IInvInit == Init => IInv
BY TypeInit, ContextInit, WindowInit, RetentionInit DEF IInv

LEMMA IInvNext == IInv /\ [Next]_vars => IInv'
BY TypeNext, ContextNext, WindowNext, RetentionNext DEF IInv

LEMMA IInvImplies == IInv => ReadyMeansCurrent /\ WaitOkMeansCurrent /\ StaleIsBounded
<1> SUFFICES ASSUME IInv PROVE ReadyMeansCurrent /\ WaitOkMeansCurrent /\ StaleIsBounded
  OBVIOUS
<1> USE DEF IInv, ContextInv
<1>1. ReadyMeansCurrent
  BY DEF ReadyMeansCurrent, ValuesCurrent, ReadyIsCurrent, CacheIsCurrent
<1>2. ASSUME NEW w \in Waiters, waiter[w].pc = "ok", waiter[w].target = contextRevision
      PROVE  ValuesCurrent
  <2>1. namespace = contextRevision
    BY <1>2 DEF OkIsReached, RevisionsOrdered, TypeOK, ValuesOK
  <2> QED
    BY <2>1 DEF ValuesCurrent, CacheIsCurrent
<1>3. WaitOkMeansCurrent
  BY <1>2 DEF WaitOkMeansCurrent
<1>4. StaleIsBounded
  BY DEF StaleIsBounded, OneRequestPerWindow, WindowInv
<1> QED BY <1>1, <1>3, <1>4

(* Whatever streams of older contexts still deliver and however callers    *)
(* change the context meanwhile, a ready client holds values of the        *)
(* present context only (applyFullFeatureSet, invalidateReadyLocked).      *)
THEOREM ReadyValuesAreCurrent == Spec => []ReadyMeansCurrent
BY IInvInit, IInvNext, IInvImplies, PTL DEF Spec

(* WaitReady answers nil only for a context whose values are cached,       *)
(* although it loads readiness and revision without the lock.              *)
THEOREM WaitReadyTellsTheTruth == Spec => []WaitOkMeansCurrent
BY IInvInit, IInvNext, IInvImplies, PTL DEF Spec

(* A stale window admits one request, and a stale snapshot is kept ready   *)
(* only while the retention timer runs.                                    *)
THEOREM StaleEdgeIsBounded == Spec => []StaleIsBounded
BY IInvInit, IInvNext, IInvImplies, PTL DEF Spec
============================================================================
