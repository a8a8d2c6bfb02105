---------------------- MODULE ConfluentProducerProofs ----------------------
(***************************************************************************)
(* Proofs about the advanced producer, for every finite set of calls, any  *)
(* number of messages per call, of Close calls, of acknowledgement levels  *)
(* and of faults, and every close policy.                                  *)
(***************************************************************************)
EXTENDS ConfluentProducer, FiniteSetTheorems, TLAPS

(* A call that holds an in-flight mark: it is in Produce, or its drainer   *)
(* is at work.                                                             *)
Active(k) == k.pc \in {"metadata", "enqueue"} \/ k.draining
ActiveCalls == {c \in Calls : Active(call[c])}

Count(condition) == IF condition THEN 1 ELSE 0

(* The WaitGroup counts the active calls and the metadata refresh.         *)
InFlightInv == inFlight = Cardinality(ActiveCalls) + Count(refresh # NoRefresh)

(* What a call knows of its messages: a report is missing only while the   *)
(* call enqueues or its drainer works, and ok is earned.                   *)
Outstanding(k) == k.owed + k.queued

CallOK(k) ==
    /\ k.left + k.accepted = Messages
    /\ Outstanding(k) <= k.accepted
    /\ k.pc \in {"idle", "metadata", "enqueue"} => Outstanding(k) = k.accepted
    /\ Outstanding(k) > 0 => k.pc = "enqueue" \/ k.draining
    /\ k.draining => k.pc \in {"wait", "returned"} /\ Outstanding(k) > 0
    /\ k.failed => k.accepted > 0
    /\ k.pc = "wait" /\ ~k.failed => k.left = 0
    /\ k.result # "none" => k.pc = "returned"
    /\ k.result = "ok" => k.left = 0 /\ Outstanding(k) = 0 /\ ~k.failed

CallsOK == \A c \in Calls : CallOK(call[c])

(* The messages without a drained report: those pendingReports counts.     *)
Unreported ==
    {p \in Calls \X (1 .. Messages) : p[2] <= Outstanding(call[p[1]])}

PendingInv == pending = Cardinality(Unreported)

(* Close stops admission before it collects the drivers, and closes them   *)
(* when nothing is in flight.                                              *)
ShutdownInv ==
    /\ closed <=> shutdown # "none"
    /\ shutdown = "running" => unique = {a \in Acks : driver[a] = "open"}
    /\ \A a \in Acks : driver[a] = "closed" => shutdown = "done"
    /\ shutdown = "done" =>
         inFlight = 0 /\ ~connected /\ \A a \in Acks : driver[a] # "open"

CloseInv ==
    policy # "disconnect" =>
        /\ closeErr = "ok" => shutdown = "done"
        /\ \A k \in Closers : closer[k] = "ok" => shutdown = "done"

IInv == TypeOK /\ CallsOK /\ InFlightInv /\ PendingInv /\ ShutdownInv /\ CloseInv
----------------------------------------------------------------------------
LEMMA ActiveFinite ==
    ASSUME NEW S, S \subseteq Calls
    PROVE  IsFiniteSet(S) /\ Cardinality(S) \in Nat
BY FS_Subset, FS_CardinalityType, ProducerAssumption

LEMMA PairsFinite ==
    ASSUME NEW S, S \subseteq Calls \X (1 .. Messages)
    PROVE  IsFiniteSet(S) /\ Cardinality(S) \in Nat
<1>1. IsFiniteSet(1 .. Messages)
  BY FS_Interval, ProducerAssumption
<1>2. IsFiniteSet(Calls \X (1 .. Messages))
  BY <1>1, FS_Product, ProducerAssumption
<1> QED BY <1>2, FS_Subset, FS_CardinalityType

LEMMA CallNumbers ==
    ASSUME NEW k \in Call
    PROVE  /\ k.left \in Nat /\ k.accepted \in Nat /\ k.owed \in Nat /\ k.queued \in Nat
           /\ k.left <= Messages /\ k.accepted <= Messages
           /\ k.owed <= Messages /\ k.queued <= Messages
           /\ Outstanding(k) \in Nat
BY ProducerAssumption DEF Call, Outstanding

LEMMA SetCallFacts ==
    ASSUME TypeOK, NEW c \in Calls, NEW k \in Call, SetCall(c, k)
    PROVE  /\ call' \in [Calls -> Call] /\ call'[c] = k
           /\ \A d \in Calls : d # c => call'[d] = call[d]
BY DEF TypeOK, SetCall

(* How the counts follow the job of one call.                              *)
LEMMA ActiveKept ==
    ASSUME TypeOK, NEW c \in Calls, NEW k \in Call, SetCall(c, k),
           Active(k) <=> Active(call[c])
    PROVE  ActiveCalls' = ActiveCalls
BY SetCallFacts DEF ActiveCalls

LEMMA ActiveAdded ==
    ASSUME TypeOK, NEW c \in Calls, NEW k \in Call, SetCall(c, k),
           Active(k), ~Active(call[c])
    PROVE  Cardinality(ActiveCalls') = Cardinality(ActiveCalls) + 1
<1>1. ActiveCalls' = ActiveCalls \cup {c} /\ c \notin ActiveCalls
  BY SetCallFacts DEF ActiveCalls
<1> QED BY <1>1, ActiveFinite, FS_AddElement DEF ActiveCalls

LEMMA ActiveRemoved ==
    ASSUME TypeOK, NEW c \in Calls, NEW k \in Call, SetCall(c, k),
           ~Active(k), Active(call[c])
    PROVE  Cardinality(ActiveCalls') = Cardinality(ActiveCalls) - 1
<1>1. ActiveCalls' = ActiveCalls \ {c} /\ c \in ActiveCalls
  BY SetCallFacts DEF ActiveCalls
<1> QED BY <1>1, ActiveFinite, FS_RemoveElement DEF ActiveCalls

LEMMA UnreportedKept ==
    ASSUME TypeOK, NEW c \in Calls, NEW k \in Call, SetCall(c, k),
           Outstanding(k) = Outstanding(call[c])
    PROVE  Unreported' = Unreported
<1>1. \A d \in Calls : Outstanding(call[d])' = Outstanding(call[d])
  BY SetCallFacts DEF Outstanding
<1> QED BY <1>1 DEF Unreported

LEMMA UnreportedAdded ==
    ASSUME TypeOK, NEW c \in Calls, NEW k \in Call, SetCall(c, k),
           Outstanding(k) = Outstanding(call[c]) + 1, Outstanding(k) <= Messages
    PROVE  Cardinality(Unreported') = Cardinality(Unreported) + 1
<1> DEFINE n == Outstanding(k)
<1>1. /\ \A d \in Calls : d # c => Outstanding(call[d])' = Outstanding(call[d])
      /\ Outstanding(call[c])' = n
  BY SetCallFacts DEF Outstanding
<1>2. call[c] \in Call /\ Messages \in Nat
  BY ProducerAssumption DEF TypeOK
<1>3. n \in Nat /\ Outstanding(call[c]) \in Nat
  BY <1>2, CallNumbers
<1> HIDE DEF n
<1>4. n \in 1 .. Messages /\ Outstanding(call[c]) = n - 1
  BY <1>2, <1>3 DEF n
<1>5. <<c, n>> \notin Unreported
  BY <1>4 DEF Unreported
<1>6. Unreported' = Unreported \cup {<<c, n>>}
  <2>1. ASSUME NEW d \in Calls, NEW i \in 1 .. Messages
        PROVE  <<d, i>> \in Unreported' <=> (<<d, i>> \in Unreported \/ <<d, i>> = <<c, n>>)
    BY <1>1, <1>2, <1>3, <1>4 DEF Unreported
  <2>2. <<c, n>> \in Calls \X (1 .. Messages)
    BY <1>4
  <2> QED BY <2>1, <2>2 DEF Unreported
<1> QED BY <1>5, <1>6, PairsFinite, FS_AddElement, ZenonT(60) DEF Unreported

LEMMA UnreportedRemoved ==
    ASSUME TypeOK, NEW c \in Calls, NEW k \in Call, SetCall(c, k),
           Outstanding(k) = Outstanding(call[c]) - 1, Outstanding(call[c]) <= Messages
    PROVE  Cardinality(Unreported') = Cardinality(Unreported) - 1
<1> DEFINE n == Outstanding(call[c])
<1>1. /\ \A d \in Calls : d # c => Outstanding(call[d])' = Outstanding(call[d])
      /\ Outstanding(call[c])' = Outstanding(k)
  BY SetCallFacts DEF Outstanding
<1>2. call[c] \in Call /\ Messages \in Nat
  BY ProducerAssumption DEF TypeOK
<1>3. n \in Nat /\ Outstanding(k) \in Nat
  BY <1>2, CallNumbers
<1> HIDE DEF n
<1>4. n \in 1 .. Messages /\ Outstanding(k) = n - 1 /\ Outstanding(call[c]) = n
  BY <1>2, <1>3 DEF n
<1>5. <<c, n>> \in Unreported
  BY <1>4 DEF Unreported
<1>6. Unreported' = Unreported \ {<<c, n>>}
  <2>1. ASSUME NEW d \in Calls, NEW i \in 1 .. Messages
        PROVE  <<d, i>> \in Unreported' <=> (<<d, i>> \in Unreported /\ <<d, i>> # <<c, n>>)
    BY <1>1, <1>2, <1>3, <1>4 DEF Unreported
  <2> QED BY <2>1 DEF Unreported
<1> QED BY <1>5, <1>6, PairsFinite, FS_RemoveElement DEF Unreported
----------------------------------------------------------------------------
LEMMA Numbers ==
    ASSUME IInv
    PROVE  /\ inFlight \in Nat /\ pending \in Nat /\ faults \in Nat
           /\ Cardinality(ActiveCalls) \in Nat /\ Cardinality(Unreported) \in Nat
           /\ \A c \in Calls : call[c] \in Call /\ CallOK(call[c])
<1>1. Cardinality(ActiveCalls) \in Nat /\ Cardinality(Unreported) \in Nat
  BY ActiveFinite, PairsFinite DEF ActiveCalls, Unreported
<1> QED BY <1>1 DEF IInv, TypeOK, CallsOK

(* While a call is active, or a refresh runs, the shutdown has not closed  *)
(* the drivers.                                                            *)
LEMMA BusyNotDone ==
    ASSUME IInv, refresh # NoRefresh \/ \E c \in Calls : Active(call[c])
    PROVE  inFlight > 0 /\ shutdown # "done"
<1>1. ASSUME NEW c \in Calls, Active(call[c]) PROVE Cardinality(ActiveCalls) # 0
  <2>1. ActiveCalls # {} /\ IsFiniteSet(ActiveCalls)
    BY <1>1, ActiveFinite DEF ActiveCalls
  <2> QED BY <2>1, FS_EmptySet
<1>2. inFlight > 0
  BY <1>1, Numbers DEF IInv, InFlightInv, Count
<1> QED BY <1>2, Numbers DEF IInv, ShutdownInv

(* A step of one call keeps the invariant if the call stays in order and   *)
(* the two counters follow it.                                             *)
LEMMA CallStep ==
    ASSUME IInv, NEW c \in Calls, NEW k \in Call, SetCall(c, k), CallOK(k),
           UNCHANGED <<policy, connected, cached, closed, shutdown, unique,
                       flushing, remaining, closeErr, closer>>,
           driver' \in [Acks -> {"none", "open", "closed"}],
           driver' # driver => ~closed,
           \A a \in Acks : driver'[a] = "closed" => driver[a] = "closed",
           faults' \in Nat, refresh' \in Acks \cup {NoRefresh},
           inFlight' = Cardinality(ActiveCalls') + Count(refresh' # NoRefresh),
           pending' = Cardinality(Unreported'),
           inFlight' = inFlight \/ shutdown # "done"
    PROVE  IInv'
<1> USE DEF IInv
<1>1. /\ call' \in [Calls -> Call] /\ call'[c] = k
      /\ \A d \in Calls : d # c => call'[d] = call[d]
  BY SetCallFacts
<1>2. Cardinality(ActiveCalls') \in Nat /\ Cardinality(Unreported') \in Nat
  BY ActiveFinite, PairsFinite DEF ActiveCalls, Unreported
<1>3. inFlight' \in Nat /\ pending' \in Nat
  BY <1>2 DEF Count
<1>4. TypeOK'
  BY <1>1, <1>3 DEF TypeOK
<1>5. CallsOK'
  BY <1>1 DEF CallsOK
<1>6. InFlightInv' /\ PendingInv'
  BY DEF InFlightInv, PendingInv
<1>7. ShutdownInv'
  BY DEF ShutdownInv
<1>8. CloseInv'
  BY DEF CloseInv
<1> QED BY <1>4, <1>5, <1>6, <1>7, <1>8

(* ... and when it changes neither of them.                                *)
LEMMA PlainStep ==
    ASSUME IInv, NEW c \in Calls, NEW k \in Call, SetCall(c, k), CallOK(k),
           Active(k) <=> Active(call[c]), Outstanding(k) = Outstanding(call[c]),
           UNCHANGED <<policy, connected, driver, inFlight, pending, cached, refresh,
                       closed, shutdown, unique, flushing, remaining, closeErr, closer>>,
           faults' \in Nat
    PROVE  IInv'
<1>1. TypeOK /\ InFlightInv /\ PendingInv
  BY DEF IInv
<1>2. ActiveCalls' = ActiveCalls /\ Unreported' = Unreported
  BY <1>1, ActiveKept, UnreportedKept
<1>3. /\ inFlight' = Cardinality(ActiveCalls') + Count(refresh' # NoRefresh)
      /\ pending' = Cardinality(Unreported')
  BY <1>1, <1>2 DEF InFlightInv, PendingInv
<1>4. driver' \in [Acks -> {"none", "open", "closed"}] /\ refresh' \in Acks \cup {NoRefresh}
  BY <1>1 DEF TypeOK
<1> QED BY <1>3, <1>4, CallStep

(* A call gives its in-flight mark back without a change to its messages.  *)
LEMMA LeaveStep ==
    ASSUME IInv, NEW c \in Calls, NEW k \in Call, SetCall(c, k), CallOK(k),
           Active(call[c]), ~Active(k), Outstanding(k) = Outstanding(call[c]),
           inFlight' = inFlight - 1,
           UNCHANGED <<policy, connected, driver, pending, cached, refresh, closed,
                       shutdown, unique, flushing, remaining, closeErr, closer, faults>>
    PROVE  IInv'
<1>1. TypeOK /\ InFlightInv /\ PendingInv
  BY DEF IInv
<1>2. Cardinality(ActiveCalls') = Cardinality(ActiveCalls) - 1 /\ Unreported' = Unreported
  BY <1>1, ActiveRemoved, UnreportedKept
<1>3. /\ inFlight' = Cardinality(ActiveCalls') + Count(refresh' # NoRefresh)
      /\ pending' = Cardinality(Unreported')
  BY <1>1, <1>2, Numbers DEF InFlightInv, PendingInv, Count
<1>4. /\ driver' \in [Acks -> {"none", "open", "closed"}]
      /\ refresh' \in Acks \cup {NoRefresh} /\ faults' \in Nat
  BY <1>1 DEF TypeOK
<1>5. shutdown # "done"
  BY BusyNotDone
<1> QED BY <1>3, <1>4, <1>5, CallStep
----------------------------------------------------------------------------
LEMMA ReturnedFacts ==
    ASSUME NEW k \in Call, NEW r \in {"ok", "error"}
    PROVE  /\ Returned(k, r) \in Call
           /\ Returned(k, r).pc = "returned" /\ Returned(k, r).result = r
           /\ Returned(k, r).draining = k.draining /\ Returned(k, r).failed = k.failed
           /\ Returned(k, r).left = k.left /\ Returned(k, r).accepted = k.accepted
           /\ Returned(k, r).owed = k.owed /\ Returned(k, r).queued = k.queued
BY DEF Returned, Call, PCs

LEMMA ReturnedErrorOK ==
    ASSUME NEW k \in Call, CallOK(k), k.pc = "enqueue" => k.accepted = 0
    PROVE  /\ CallOK(Returned(k, "error"))
           /\ Outstanding(Returned(k, "error")) = Outstanding(k)
           /\ Active(Returned(k, "error")) <=> k.draining
BY ReturnedFacts, CallNumbers DEF CallOK, Outstanding, Active

LEMMA BeginProduceKeeps ==
    ASSUME IInv, NEW c \in Calls, NEW a \in Acks, BeginProduce(c, a)
    PROVE  IInv'
<1> DEFINE j == call[c]
<1>1. /\ j \in Call /\ CallOK(j) /\ j.pc = "idle" /\ faults \in Nat
      /\ TypeOK /\ InFlightInv /\ PendingInv
      /\ UNCHANGED <<policy, connected, cached, closed, shutdown, unique, pending,
                     refresh, flushing, remaining, closeErr, closer>>
  BY Numbers DEF BeginProduce, IInv, metaVars, closeVars, shutdownVars
<1>2. CASE /\ Admitted
           /\ driver' = [driver EXCEPT ![a] = IF @ = "none" THEN "open" ELSE @]
           /\ inFlight' = inFlight + 1
           /\ SetCall(c, [j EXCEPT !.acks = a,
                            !.pc = IF NeedsMetadata THEN "metadata" ELSE "enqueue"])
           /\ UNCHANGED faults
  <2> DEFINE k == [j EXCEPT !.acks = a,
                            !.pc = IF NeedsMetadata THEN "metadata" ELSE "enqueue"]
  <2>1. /\ k \in Call /\ k.pc \in {"metadata", "enqueue"} /\ k.left = j.left
        /\ k.accepted = j.accepted /\ k.owed = j.owed /\ k.queued = j.queued
        /\ k.draining = j.draining /\ k.failed = j.failed /\ k.result = j.result
    BY <1>1 DEF Call, PCs
  <2> HIDE DEF k
  <2>2. CallOK(k) /\ Outstanding(k) = Outstanding(j) /\ Active(k) /\ ~Active(j)
    BY <1>1, <2>1, CallNumbers DEF CallOK, Outstanding, Active
  <2>3. SetCall(c, k)
    BY <1>2 DEF k
  <2>4. Cardinality(ActiveCalls') = Cardinality(ActiveCalls) + 1 /\ Unreported' = Unreported
    BY <1>1, <2>1, <2>2, <2>3, ActiveAdded, UnreportedKept
  <2>5. /\ inFlight' = Cardinality(ActiveCalls') + Count(refresh' # NoRefresh)
        /\ pending' = Cardinality(Unreported')
    BY <1>1, <1>2, <2>4, Numbers DEF InFlightInv, PendingInv, Count
  <2>6. ~closed /\ shutdown # "done"
    BY <1>2 DEF Admitted, IInv, ShutdownInv
  <2>7. /\ driver' \in [Acks -> {"none", "open", "closed"}]
        /\ \A b \in Acks : driver'[b] = "closed" => driver[b] = "closed"
    BY <1>1, <1>2 DEF TypeOK
  <2>8. faults' \in Nat /\ refresh' \in Acks \cup {NoRefresh}
    BY <1>1, <1>2 DEF TypeOK
  <2> QED BY <1>1, <2>1, <2>2, <2>3, <2>5, <2>6, <2>7, <2>8, CallStep
<1>3. CASE /\ faults' \in {faults, faults + 1}
           /\ SetCall(c, Returned(j, "error"))
           /\ UNCHANGED <<driver, inFlight>>
  <2>1. /\ Returned(j, "error") \in Call /\ CallOK(Returned(j, "error"))
        /\ Outstanding(Returned(j, "error")) = Outstanding(j)
        /\ Active(Returned(j, "error")) <=> j.draining
    BY <1>1, ReturnedFacts, ReturnedErrorOK
  <2>2. Active(Returned(j, "error")) <=> Active(j)
    BY <1>1, <2>1 DEF Active
  <2>3. faults' \in Nat
    BY <1>1, <1>3
  <2> QED BY <1>1, <1>3, <2>1, <2>2, <2>3, PlainStep
<1>4. \/ /\ Admitted
         /\ driver' = [driver EXCEPT ![a] = IF @ = "none" THEN "open" ELSE @]
         /\ inFlight' = inFlight + 1
         /\ SetCall(c, [j EXCEPT !.acks = a,
                          !.pc = IF NeedsMetadata THEN "metadata" ELSE "enqueue"])
         /\ UNCHANGED faults
      \/ /\ faults' \in {faults, faults + 1}
         /\ SetCall(c, Returned(j, "error"))
         /\ UNCHANGED <<driver, inFlight>>
  BY DEF BeginProduce, Fault
<1> QED BY <1>2, <1>3, <1>4

(* A call that waits for metadata gives up.                                *)
LEMMA AbandonKeeps ==
    ASSUME IInv, NEW c \in Calls, call[c].pc = "metadata", Abandon(c),
           UNCHANGED <<policy, connected, driver, pending, cached, refresh, closed,
                       shutdown, unique, flushing, remaining, closeErr, closer, faults>>
    PROVE  IInv'
<1> DEFINE k == Returned(call[c], "error")
<1>1. call[c] \in Call /\ CallOK(call[c]) /\ SetCall(c, k) /\ inFlight' = inFlight - 1
  BY Numbers DEF Abandon
<1>2. /\ k \in Call /\ CallOK(k) /\ Outstanding(k) = Outstanding(call[c])
      /\ Active(k) <=> call[c].draining
  BY <1>1, ReturnedFacts, ReturnedErrorOK
<1> HIDE DEF k
<1>3. Active(call[c]) /\ ~call[c].draining
  BY <1>1 DEF Active, CallOK
<1> QED BY <1>1, <1>2, <1>3, LeaveStep

LEMMA ToEnqueue ==
    ASSUME NEW j \in Call, CallOK(j), j.pc = "metadata"
    PROVE  LET k == [j EXCEPT !.pc = "enqueue"] IN
           /\ k \in Call /\ CallOK(k) /\ Outstanding(k) = Outstanding(j)
           /\ Active(k) /\ Active(j)
<1> DEFINE k == [j EXCEPT !.pc = "enqueue"]
<1>1. /\ k \in Call /\ k.pc = "enqueue" /\ k.left = j.left
      /\ k.accepted = j.accepted /\ k.owed = j.owed /\ k.queued = j.queued
      /\ k.draining = j.draining /\ k.failed = j.failed /\ k.result = j.result
  BY DEF Call, PCs
<1> HIDE DEF k
<1>2. CallOK(k) /\ Outstanding(k) = Outstanding(j) /\ Active(k) /\ Active(j)
  BY <1>1, CallNumbers DEF CallOK, Outstanding, Active
<1> QED BY <1>1, <1>2 DEF k

LEMMA ToWaiting ==
    ASSUME NEW j \in Call, CallOK(j), NEW m \in {"waiting", "ok", "error"}
    PROVE  LET k == [j EXCEPT !.meta = m] IN
           /\ k \in Call /\ CallOK(k) /\ Outstanding(k) = Outstanding(j)
           /\ Active(k) <=> Active(j)
<1> DEFINE k == [j EXCEPT !.meta = m]
<1>1. /\ k \in Call /\ k.pc = j.pc /\ k.left = j.left
      /\ k.accepted = j.accepted /\ k.owed = j.owed /\ k.queued = j.queued
      /\ k.draining = j.draining /\ k.failed = j.failed /\ k.result = j.result
  BY DEF Call
<1> HIDE DEF k
<1>2. CallOK(k) /\ Outstanding(k) = Outstanding(j) /\ (Active(k) <=> Active(j))
  BY <1>1 DEF CallOK, Outstanding, Active
<1> QED BY <1>1, <1>2 DEF k

LEMMA AskMetadataKeeps ==
    ASSUME IInv, NEW c \in Calls, AskMetadata(c)
    PROVE  IInv'
<1>1. /\ call[c].pc = "metadata" /\ call[c] \in Call /\ CallOK(call[c]) /\ Active(call[c])
      /\ TypeOK /\ InFlightInv /\ PendingInv /\ faults \in Nat
      /\ UNCHANGED <<policy, connected, driver, pending, cached, closed, shutdown,
                     unique, flushing, remaining, closeErr, closer, faults>>
  BY Numbers DEF AskMetadata, IInv, Active, closeVars, shutdownVars
<1>2. CASE Abandon(c) /\ UNCHANGED refresh
  BY <1>1, <1>2, AbandonKeeps
<1>3. CASE SetCall(c, [call[c] EXCEPT !.pc = "enqueue"]) /\ UNCHANGED <<inFlight, refresh>>
  BY <1>1, <1>3, ToEnqueue, PlainStep
<1>4. CASE SetCall(c, [call[c] EXCEPT !.meta = "waiting"]) /\ UNCHANGED <<inFlight, refresh>>
  BY <1>1, <1>4, ToWaiting, PlainStep
<1>5. CASE refresh = NoRefresh /\ StartRefresh(c)
  <2> DEFINE k == [call[c] EXCEPT !.meta = "waiting"]
  <2>1. /\ k \in Call /\ CallOK(k) /\ Outstanding(k) = Outstanding(call[c])
        /\ Active(k) <=> Active(call[c])
    BY <1>1, ToWaiting
  <2>2. SetCall(c, k) /\ inFlight' = inFlight + 1 /\ refresh' = call[c].acks
    BY <1>5 DEF StartRefresh
  <2> HIDE DEF k
  <2>3. refresh' \in Acks /\ refresh' # NoRefresh
    BY <1>1, <2>2, ProducerAssumption DEF Call
  <2>4. ActiveCalls' = ActiveCalls /\ Unreported' = Unreported
    BY <1>1, <2>1, <2>2, ActiveKept, UnreportedKept
  <2>5. /\ inFlight' = Cardinality(ActiveCalls') + Count(refresh' # NoRefresh)
        /\ pending' = Cardinality(Unreported')
    BY <1>1, <1>5, <2>2, <2>3, <2>4, Numbers DEF InFlightInv, PendingInv, Count
  <2>6. shutdown # "done"
    BY <1>1, BusyNotDone
  <2>7. driver' \in [Acks -> {"none", "open", "closed"}]
    BY <1>1 DEF TypeOK
  <2> QED BY <1>1, <2>1, <2>2, <2>3, <2>5, <2>6, <2>7, CallStep
<1> QED BY <1>2, <1>3, <1>4, <1>5 DEF AskMetadata

LEMMA GotMetadataKeeps ==
    ASSUME IInv, NEW c \in Calls, GotMetadata(c)
    PROVE  IInv'
<1>1. /\ call[c].pc = "metadata" /\ call[c] \in Call /\ CallOK(call[c]) /\ faults \in Nat
      /\ UNCHANGED <<policy, connected, driver, pending, cached, refresh, closed,
                     shutdown, unique, flushing, remaining, closeErr, closer, faults>>
  BY Numbers DEF GotMetadata, metaVars, closeVars, shutdownVars
<1>2. CASE Abandon(c)
  BY <1>1, <1>2, AbandonKeeps
<1>3. CASE SetCall(c, [call[c] EXCEPT !.pc = "enqueue"]) /\ UNCHANGED inFlight
  BY <1>1, <1>3, ToEnqueue, PlainStep
<1> QED BY <1>2, <1>3 DEF GotMetadata

LEMMA EnqueueKeeps ==
    ASSUME IInv, NEW c \in Calls, Enqueue(c)
    PROVE  IInv'
<1> DEFINE j == call[c]
<1>1. /\ j.pc = "enqueue" /\ j.left > 0 /\ j \in Call /\ CallOK(j) /\ faults \in Nat
      /\ TypeOK /\ InFlightInv /\ PendingInv /\ Active(j)
      /\ UNCHANGED <<policy, connected, driver, inFlight, cached, refresh, closed,
                     shutdown, unique, flushing, remaining, closeErr, closer>>
  BY Numbers DEF Enqueue, IInv, Active, metaVars, closeVars, shutdownVars
<1>2. /\ j.left \in Nat /\ j.accepted \in Nat /\ j.owed \in Nat /\ j.queued \in Nat
      /\ Messages \in Nat /\ j.left + j.accepted = Messages
      /\ j.owed + j.queued = j.accepted
  BY <1>1, CallNumbers, ProducerAssumption DEF CallOK, Outstanding
<1>3. CASE /\ SetCall(c, [j EXCEPT !.left = @ - 1, !.accepted = @ + 1, !.owed = @ + 1])
           /\ pending' = pending + 1
           /\ UNCHANGED faults
  <2> DEFINE k == [j EXCEPT !.left = @ - 1, !.accepted = @ + 1, !.owed = @ + 1]
  <2>1. /\ j.left - 1 \in 0 .. Messages /\ j.accepted + 1 \in 0 .. Messages
        /\ j.owed + 1 \in 0 .. Messages
    BY <1>1, <1>2
  <2>2. /\ k \in Call /\ k.pc = "enqueue" /\ k.left = j.left - 1
        /\ k.accepted = j.accepted + 1 /\ k.owed = j.owed + 1 /\ k.queued = j.queued
        /\ k.draining = j.draining /\ k.failed = j.failed /\ k.result = j.result
    BY <1>1, <2>1 DEF Call
  <2>3. SetCall(c, k)
    BY <1>3
  <2> HIDE DEF k
  <2>4. Outstanding(k) = Outstanding(j) + 1 /\ Outstanding(k) <= Messages
    BY <1>1, <1>2, <2>2 DEF Outstanding
  <2>5. CallOK(k) /\ Active(k)
    BY <1>1, <1>2, <2>2 DEF CallOK, Outstanding, Active
  <2>6. ActiveCalls' = ActiveCalls /\ Cardinality(Unreported') = Cardinality(Unreported) + 1
    BY <1>1, <2>2, <2>3, <2>4, <2>5, ActiveKept, UnreportedAdded
  <2>7. /\ inFlight' = Cardinality(ActiveCalls') + Count(refresh' # NoRefresh)
        /\ pending' = Cardinality(Unreported')
    BY <1>1, <1>3, <2>6, Numbers DEF InFlightInv, PendingInv
  <2>8. driver' \in [Acks -> {"none", "open", "closed"}] /\ refresh' \in Acks \cup {NoRefresh}
    BY <1>1 DEF TypeOK
  <2> QED BY <1>1, <1>3, <2>2, <2>3, <2>5, <2>7, <2>8, CallStep
<1>4. CASE Fault /\ SetCall(c, [j EXCEPT !.stopped = TRUE]) /\ UNCHANGED pending
  <2> DEFINE k == [j EXCEPT !.stopped = TRUE]
  <2>1. /\ k \in Call /\ k.pc = j.pc /\ k.left = j.left
        /\ k.accepted = j.accepted /\ k.owed = j.owed /\ k.queued = j.queued
        /\ k.draining = j.draining /\ k.failed = j.failed /\ k.result = j.result
    BY <1>1 DEF Call
  <2>2. SetCall(c, k) /\ faults' \in Nat
    BY <1>1, <1>4 DEF Fault
  <2> HIDE DEF k
  <2>3. CallOK(k) /\ Outstanding(k) = Outstanding(j) /\ Active(k)
    BY <1>1, <2>1 DEF CallOK, Outstanding, Active
  <2> QED BY <1>1, <1>4, <2>1, <2>2, <2>3, PlainStep
<1> QED BY <1>3, <1>4 DEF Enqueue

LEMMA StartDrainKeeps ==
    ASSUME IInv, NEW c \in Calls, StartDrain(c)
    PROVE  IInv'
<1> DEFINE j == call[c]
<1>1. /\ j.pc = "enqueue" /\ j \in Call /\ CallOK(j) /\ faults \in Nat /\ Active(j)
      /\ UNCHANGED <<policy, connected, driver, pending, cached, refresh, closed,
                     shutdown, unique, flushing, remaining, closeErr, closer, faults>>
  BY Numbers DEF StartDrain, EnqueueEnds, Active, metaVars, closeVars, shutdownVars
<1>2. /\ j.left \in Nat /\ j.accepted \in Nat /\ j.owed \in Nat /\ j.queued \in Nat
      /\ j.left + j.accepted = Messages /\ j.owed + j.queued = j.accepted
      /\ ~j.draining /\ j.result = "none"
  BY <1>1, CallNumbers DEF CallOK, Outstanding
<1>3. CASE /\ j.accepted = 0 /\ inFlight' = inFlight - 1
           /\ SetCall(c, Returned(j, IF j.left > 0 THEN "error" ELSE "ok"))
  <2> DEFINE o == IF j.left > 0 THEN "error" ELSE "ok"
             k == Returned(j, o)
  <2>1. o \in {"ok", "error"} /\ (o = "ok" => j.left = 0)
    BY <1>2
  <2> HIDE DEF o
  <2>2. /\ k \in Call /\ k.pc = "returned" /\ k.result = o
        /\ k.draining = j.draining /\ k.failed = j.failed
        /\ k.left = j.left /\ k.accepted = j.accepted
        /\ k.owed = j.owed /\ k.queued = j.queued
    BY <1>1, <2>1, ReturnedFacts
  <2>3. SetCall(c, k)
    BY <1>3 DEF o
  <2> HIDE DEF k
  <2>4. CallOK(k) /\ Outstanding(k) = Outstanding(j) /\ ~Active(k)
    BY <1>1, <1>2, <1>3, <2>1, <2>2 DEF CallOK, Outstanding, Active
  <2> QED BY <1>1, <1>3, <2>2, <2>3, <2>4, LeaveStep
<1>4. CASE j.accepted # 0 /\ SetCall(c, Drainer(j)) /\ UNCHANGED inFlight
  <2> DEFINE k == Drainer(j)
  <2>1. /\ k \in Call /\ k.left = j.left /\ k.accepted = j.accepted
        /\ k.owed = j.owed /\ k.queued = j.queued /\ k.draining
        /\ \/ k.pc = "returned" /\ k.result = "error" /\ k.failed = j.failed
           \/ k.pc = "wait" /\ k.result = j.result /\ (k.failed <=> (j.failed \/ j.left > 0))
    <3>1. CASE j.cancelled
      <4>1. /\ Returned(j, "error") \in Call
            /\ k = [Returned(j, "error") EXCEPT !.draining = TRUE]
        BY <1>1, <3>1, ReturnedFacts DEF Drainer
      <4> HIDE DEF k
      <4>2. /\ k \in Call /\ k.draining /\ k.left = Returned(j, "error").left
            /\ k.accepted = Returned(j, "error").accepted
            /\ k.owed = Returned(j, "error").owed /\ k.queued = Returned(j, "error").queued
            /\ k.pc = Returned(j, "error").pc /\ k.result = Returned(j, "error").result
            /\ k.failed = Returned(j, "error").failed
        BY <4>1 DEF Call
      <4> QED BY <1>1, <4>2, ReturnedFacts
    <3>2. CASE ~j.cancelled
      <4>1. k = [j EXCEPT !.pc = "wait", !.draining = TRUE, !.failed = j.failed \/ j.left > 0]
        BY <1>1, <3>2 DEF Drainer, Call
      <4>2. (j.failed \/ j.left > 0) \in BOOLEAN
        OBVIOUS
      <4> HIDE DEF k
      <4> QED BY <1>1, <4>1, <4>2 DEF Call, PCs
    <3> QED BY <3>1, <3>2
  <2> HIDE DEF k
  <2>2. CallOK(k) /\ Outstanding(k) = Outstanding(j) /\ Active(k)
    BY <1>1, <1>2, <1>4, <2>1 DEF CallOK, Outstanding, Active
  <2> QED BY <1>1, <1>4, <2>1, <2>2, PlainStep DEF k
<1> QED BY <1>3, <1>4 DEF StartDrain

LEMMA ReportKeeps ==
    ASSUME IInv, NEW c \in Calls, Report(c)
    PROVE  IInv'
<1> DEFINE j == call[c]
<1>1. /\ j.owed > 0 /\ j \in Call /\ CallOK(j) /\ faults \in Nat
      /\ UNCHANGED <<policy, connected, driver, inFlight, pending, cached, refresh, closed,
                     shutdown, unique, flushing, remaining, closeErr, closer>>
  BY Numbers DEF Report, metaVars, closeVars, shutdownVars
<1>2. /\ j.left \in Nat /\ j.accepted \in Nat /\ j.owed \in Nat /\ j.queued \in Nat
      /\ j.owed + j.queued <= j.accepted /\ j.accepted <= Messages /\ Messages \in Nat
  BY <1>1, CallNumbers, ProducerAssumption DEF CallOK, Outstanding
<1>3. j.owed - 1 \in 0 .. Messages /\ j.queued + 1 \in 0 .. Messages
  BY <1>1, <1>2
<1>4. ASSUME NEW k \in Call, SetCall(c, k), faults' \in Nat,
             k.owed = j.owed - 1, k.queued = j.queued + 1,
             k.pc = j.pc, k.left = j.left, k.accepted = j.accepted,
             k.draining = j.draining, k.result = j.result,
             k.failed = j.failed \/ k.failed = TRUE
      PROVE  IInv'
  <2>1. CallOK(k) /\ Outstanding(k) = Outstanding(j) /\ (Active(k) <=> Active(j))
    BY <1>1, <1>2, <1>4 DEF CallOK, Outstanding, Active
  <2> QED BY <1>1, <1>4, <2>1, PlainStep
<1>5. CASE SetCall(c, [j EXCEPT !.owed = @ - 1, !.queued = @ + 1]) /\ UNCHANGED faults
  <2> DEFINE k == [j EXCEPT !.owed = @ - 1, !.queued = @ + 1]
  <2>1. /\ k \in Call /\ k.owed = j.owed - 1 /\ k.queued = j.queued + 1
        /\ k.pc = j.pc /\ k.left = j.left /\ k.accepted = j.accepted
        /\ k.draining = j.draining /\ k.result = j.result /\ k.failed = j.failed
    BY <1>1, <1>3 DEF Call
  <2>2. SetCall(c, k) /\ faults' \in Nat
    BY <1>1, <1>5
  <2> HIDE DEF k
  <2> QED BY <1>4, <2>1, <2>2
<1>6. CASE Fault /\ SetCall(c, [j EXCEPT !.owed = @ - 1, !.queued = @ + 1, !.failed = TRUE])
  <2> DEFINE k == [j EXCEPT !.owed = @ - 1, !.queued = @ + 1, !.failed = TRUE]
  <2>1. /\ k \in Call /\ k.owed = j.owed - 1 /\ k.queued = j.queued + 1
        /\ k.pc = j.pc /\ k.left = j.left /\ k.accepted = j.accepted
        /\ k.draining = j.draining /\ k.result = j.result /\ k.failed = TRUE
    BY <1>1, <1>3 DEF Call
  <2>2. SetCall(c, k) /\ faults' \in Nat
    BY <1>1, <1>6 DEF Fault
  <2> HIDE DEF k
  <2> QED BY <1>4, <2>1, <2>2
<1> QED BY <1>5, <1>6 DEF Report

LEMMA DrainKeeps ==
    ASSUME IInv, NEW c \in Calls, Drain(c)
    PROVE  IInv'
<1> DEFINE j == call[c]
           last == j.owed = 0 /\ j.queued = 1
           k == [j EXCEPT !.queued = @ - 1, !.draining = ~last]
<1>1. /\ j.draining /\ j.queued > 0 /\ j \in Call /\ CallOK(j) /\ faults \in Nat
      /\ pending' = pending - 1 /\ SetCall(c, k)
      /\ inFlight' = IF last THEN inFlight - 1 ELSE inFlight
      /\ TypeOK /\ InFlightInv /\ PendingInv /\ Active(j)
      /\ UNCHANGED <<policy, connected, driver, cached, refresh, closed, shutdown,
                     unique, flushing, remaining, closeErr, closer, faults>>
  BY Numbers DEF Drain, IInv, Active, metaVars, closeVars, shutdownVars
<1>2. /\ j.left \in Nat /\ j.accepted \in Nat /\ j.owed \in Nat /\ j.queued \in Nat
      /\ j.owed + j.queued <= j.accepted /\ j.accepted <= Messages /\ Messages \in Nat
  BY <1>1, CallNumbers, ProducerAssumption DEF CallOK, Outstanding
<1>3. j.queued - 1 \in 0 .. Messages /\ (~last) \in BOOLEAN
  BY <1>1, <1>2
<1>4. last <=> j.owed + j.queued = 1
  BY <1>1, <1>2
<1> HIDE DEF last
<1>5. /\ k \in Call /\ k.queued = j.queued - 1 /\ k.owed = j.owed
      /\ k.pc = j.pc /\ k.left = j.left /\ k.accepted = j.accepted
      /\ k.result = j.result /\ k.failed = j.failed /\ (k.draining <=> ~last)
  BY <1>1, <1>3 DEF Call
<1> HIDE DEF k
<1>6. Outstanding(k) = Outstanding(j) - 1 /\ Outstanding(j) <= Messages
  BY <1>2, <1>5 DEF Outstanding
<1>7. CallOK(k)
  BY <1>1, <1>2, <1>4, <1>5 DEF CallOK, Outstanding
<1>8. Cardinality(Unreported') = Cardinality(Unreported) - 1
  BY <1>1, <1>5, <1>6, UnreportedRemoved
<1>9. Active(k) <=> ~last
  BY <1>1, <1>5 DEF Active, CallOK
<1>10. Cardinality(ActiveCalls') =
         IF last THEN Cardinality(ActiveCalls) - 1 ELSE Cardinality(ActiveCalls)
  BY <1>1, <1>5, <1>9, ActiveKept, ActiveRemoved
<1>11. /\ inFlight' = Cardinality(ActiveCalls') + Count(refresh' # NoRefresh)
       /\ pending' = Cardinality(Unreported')
  BY <1>1, <1>8, <1>10, Numbers DEF InFlightInv, PendingInv, Count
<1>12. driver' \in [Acks -> {"none", "open", "closed"}] /\ refresh' \in Acks \cup {NoRefresh}
  BY <1>1 DEF TypeOK
<1>13. shutdown # "done"
  BY <1>1, BusyNotDone
<1> QED BY <1>1, <1>5, <1>7, <1>11, <1>12, <1>13, CallStep

LEMMA ReturnKeeps ==
    ASSUME IInv, NEW c \in Calls, Return(c)
    PROVE  IInv'
<1> DEFINE j == call[c]
<1>1. /\ j.pc = "wait" /\ j \in Call /\ CallOK(j) /\ faults \in Nat
      /\ UNCHANGED <<policy, connected, driver, inFlight, pending, cached, refresh, closed,
                     shutdown, unique, flushing, remaining, closeErr, closer, faults>>
  BY Numbers DEF Return, metaVars, closeVars, shutdownVars
<1>2. ASSUME NEW o \in {"ok", "error"}, SetCall(c, Returned(j, o)),
             o = "ok" => ~j.draining /\ ~j.failed
      PROVE  IInv'
  <2> DEFINE k == Returned(j, o)
  <2>1. /\ k \in Call /\ k.pc = "returned" /\ k.result = o
        /\ k.draining = j.draining /\ k.failed = j.failed
        /\ k.left = j.left /\ k.accepted = j.accepted
        /\ k.owed = j.owed /\ k.queued = j.queued
    BY <1>1, ReturnedFacts
  <2> HIDE DEF k
  <2>2. Outstanding(k) = Outstanding(j) /\ Outstanding(j) \in Nat /\ (Active(k) <=> Active(j))
    BY <1>1, <2>1, CallNumbers DEF Outstanding, Active
  <2>3. CallOK(k)
    BY <1>1, <1>2, <2>1, <2>2 DEF CallOK
  <2> QED BY <1>1, <1>2, <2>1, <2>2, <2>3, PlainStep DEF k
<1>3. CASE ~j.draining /\ SetCall(c, Returned(j, IF j.failed THEN "error" ELSE "ok"))
  <2>1. CASE j.failed
    BY <1>2, <1>3, <2>1
  <2>2. CASE ~j.failed
    BY <1>2, <1>3, <2>2
  <2> QED BY <2>1, <2>2
<1>4. CASE SetCall(c, Returned(j, "error"))
  BY <1>2, <1>4
<1> QED BY <1>3, <1>4 DEF Return

LEMMA CancelKeeps ==
    ASSUME IInv, NEW c \in Calls, Cancel(c)
    PROVE  IInv'
<1> DEFINE j == call[c]
           k == [j EXCEPT !.cancelled = TRUE]
<1>1. /\ j \in Call /\ CallOK(j) /\ faults \in Nat /\ SetCall(c, k)
      /\ UNCHANGED <<policy, connected, driver, inFlight, pending, cached, refresh, closed,
                     shutdown, unique, flushing, remaining, closeErr, closer, faults>>
  BY Numbers DEF Cancel, metaVars, closeVars, shutdownVars
<1>2. /\ k \in Call /\ k.pc = j.pc /\ k.left = j.left
      /\ k.accepted = j.accepted /\ k.owed = j.owed /\ k.queued = j.queued
      /\ k.draining = j.draining /\ k.failed = j.failed /\ k.result = j.result
  BY <1>1 DEF Call
<1> HIDE DEF k
<1>3. CallOK(k) /\ Outstanding(k) = Outstanding(j) /\ (Active(k) <=> Active(j))
  BY <1>1, <1>2 DEF CallOK, Outstanding, Active
<1> QED BY <1>1, <1>2, <1>3, PlainStep
----------------------------------------------------------------------------
(* The steps that are not a call's.                                        *)
LEMMA EndRefreshKeeps ==
    ASSUME IInv, EndRefresh
    PROVE  IInv'
<1> USE DEF IInv
<1>1. PICK ok \in BOOLEAN : /\ IF ok THEN UNCHANGED faults ELSE Fault
                            /\ cached' = (cached \/ ok)
                            /\ call' = Refreshed(ok)
  BY DEF EndRefresh
<1>2. /\ refresh # NoRefresh /\ refresh' = NoRefresh /\ inFlight' = inFlight - 1
      /\ UNCHANGED <<policy, connected, driver, pending, closed, shutdown, unique,
                     flushing, remaining, closeErr, closer>>
  BY DEF EndRefresh, closeVars, shutdownVars
<1>3. \A c \in Calls : call[c] \in Call /\ CallOK(call[c])
  BY Numbers
<1>4. ASSUME NEW c \in Calls
      PROVE  /\ call'[c] \in Call /\ CallOK(call'[c])
             /\ Outstanding(call'[c]) = Outstanding(call[c])
             /\ Active(call'[c]) <=> Active(call[c])
  <2> DEFINE m == IF ok THEN "ok" ELSE "error"
  <2>1. call'[c] \in {call[c], [call[c] EXCEPT !.meta = m]}
    BY <1>1 DEF Refreshed
  <2>2. m \in {"waiting", "ok", "error"}
    OBVIOUS
  <2> HIDE DEF m
  <2> DEFINE k == [call[c] EXCEPT !.meta = m]
  <2>3. /\ k \in Call /\ CallOK(k) /\ Outstanding(k) = Outstanding(call[c])
        /\ Active(k) <=> Active(call[c])
    BY <1>3, <2>2, ToWaiting
  <2> HIDE DEF k
  <2>4. CASE call'[c] = k
    BY <2>3, <2>4
  <2>5. CASE call'[c] = call[c]
    BY <1>3, <2>5
  <2> QED BY <2>1, <2>4, <2>5 DEF k
<1>5. call' \in [Calls -> Call]
  <2>1. call' = [c \in Calls |-> call'[c]]
    BY <1>1 DEF Refreshed
  <2> QED BY <1>4, <2>1
<1>6. ActiveCalls' = ActiveCalls /\ Unreported' = Unreported
  BY <1>4 DEF ActiveCalls, Unreported, Outstanding
<1>7. /\ inFlight > 0 /\ shutdown # "done" /\ inFlight \in Nat /\ faults \in Nat
      /\ Cardinality(ActiveCalls) \in Nat
  BY <1>2, BusyNotDone, Numbers
<1>8. faults' \in Nat
  BY <1>1, <1>7 DEF Fault
<1>9. inFlight' \in Nat
  BY <1>2, <1>7
<1>10. cached' \in BOOLEAN
  BY <1>1, Zenon
<1>11. TypeOK'
  BY <1>2, <1>5, <1>8, <1>9, <1>10 DEF TypeOK
<1>12. CallsOK'
  BY <1>4 DEF CallsOK
<1>13. InFlightInv' /\ PendingInv'
  BY <1>2, <1>6, <1>7 DEF InFlightInv, PendingInv, Count
<1>14. ShutdownInv' /\ CloseInv'
  BY <1>2, <1>7 DEF ShutdownInv, CloseInv
<1> QED BY <1>11, <1>12, <1>13, <1>14

(* A step that leaves the calls and their counters alone.                  *)
LEMMA CallsAlone ==
    ASSUME IInv, UNCHANGED <<call, inFlight, pending, refresh>>
    PROVE  CallsOK' /\ InFlightInv' /\ PendingInv'
<1>1. ActiveCalls' = ActiveCalls /\ Unreported' = Unreported
  BY DEF ActiveCalls, Unreported
<1> QED BY <1>1 DEF IInv, CallsOK, InFlightInv, PendingInv

LEMMA DropMetadataKeeps ==
    ASSUME IInv, DropMetadata
    PROVE  IInv'
<1>1. /\ cached' = FALSE
      /\ UNCHANGED <<policy, connected, driver, call, inFlight, pending, refresh, closed,
                     shutdown, unique, flushing, remaining, closeErr, closer, faults>>
  BY DEF DropMetadata, closeVars, shutdownVars
<1>2. CallsOK' /\ InFlightInv' /\ PendingInv'
  BY <1>1, CallsAlone
<1>3. TypeOK' /\ ShutdownInv' /\ CloseInv'
  BY <1>1 DEF IInv, TypeOK, ShutdownInv, CloseInv
<1> QED BY <1>2, <1>3 DEF IInv

LEMMA ConnectKeeps ==
    ASSUME IInv, Connect
    PROVE  IInv'
<1> USE DEF IInv
<1>1. /\ ~closed /\ connected' = TRUE
      /\ driver' = [driver EXCEPT ![ConfiguredAcks] = "open"]
      /\ UNCHANGED <<policy, call, inFlight, pending, cached, refresh, closed,
                     shutdown, unique, flushing, remaining, closeErr, closer, faults>>
  BY DEF Connect, metaVars, closeVars, shutdownVars
<1>2. CallsOK' /\ InFlightInv' /\ PendingInv'
  BY <1>1, CallsAlone
<1>3. TypeOK'
  BY <1>1, ProducerAssumption DEF TypeOK
<1>4. shutdown = "none"
  BY <1>1 DEF ShutdownInv
<1>5. ShutdownInv'
  BY <1>1, <1>4 DEF ShutdownInv, TypeOK
<1>6. CloseInv'
  BY <1>1 DEF CloseInv
<1> QED BY <1>2, <1>3, <1>5, <1>6

LEMMA CloseKeeps ==
    ASSUME IInv, NEW k \in Closers, Close(k)
    PROVE  IInv'
<1> USE DEF IInv
<1>1. /\ closer[k] = "idle" /\ closed' = TRUE
      /\ UNCHANGED <<policy, connected, driver, call, inFlight, pending, cached, refresh,
                     remaining, faults>>
  BY DEF Close, metaVars
<1>2. CallsOK' /\ InFlightInv' /\ PendingInv'
  BY <1>1, CallsAlone
<1>3. CASE closed
  <2>1. /\ closer' = [closer EXCEPT ![k] = "waiting"]
        /\ UNCHANGED <<shutdown, unique, flushing, closeErr>>
    BY <1>3 DEF Close
  <2>2. TypeOK'
    BY <1>1, <2>1 DEF TypeOK
  <2>3. ShutdownInv' /\ CloseInv'
    BY <1>1, <1>3, <2>1 DEF ShutdownInv, CloseInv, TypeOK
  <2> QED BY <1>2, <2>2, <2>3
<1>4. CASE ~closed
  <2>1. /\ shutdown' = "running"
        /\ unique' = {a \in Acks : driver[a] = "open"}
        /\ flushing' = IF policy = "await" THEN {} ELSE unique'
        /\ closer' = [closer EXCEPT ![k] = IF policy = "disconnect" THEN "ok" ELSE "leading"]
        /\ closeErr' = IF policy = "disconnect" THEN "ok" ELSE "none"
    BY <1>4 DEF Close
  <2>2. unique' \subseteq Acks /\ flushing' \subseteq unique'
    BY <2>1
  <2>3. closer' \in [Closers -> Results \cup {"idle", "leading", "waiting"}]
    BY <2>1 DEF TypeOK, Results
  <2>4. closeErr' \in Results \cup {"none"}
    BY <2>1 DEF Results
  <2>5. TypeOK'
    BY <1>1, <2>1, <2>2, <2>3, <2>4 DEF TypeOK
  <2>6. shutdown = "none"
    BY <1>4 DEF ShutdownInv
  <2>7. ShutdownInv'
    BY <1>1, <2>1, <2>6 DEF ShutdownInv
  <2>8. CloseInv'
    BY <1>1, <2>1, <2>6 DEF CloseInv, TypeOK
  <2> QED BY <1>2, <2>5, <2>7, <2>8
<1> QED BY <1>3, <1>4

LEMMA EndFlushKeeps ==
    ASSUME IInv, NEW a \in Acks, EndFlush(a)
    PROVE  IInv'
<1> USE DEF IInv
<1>1. /\ flushing' = flushing \ {a} /\ remaining' = remaining + Owed(a)
      /\ faults' \in {faults, faults + 1}
      /\ UNCHANGED <<policy, connected, closed, driver, call, inFlight, pending, cached,
                     refresh, shutdown, unique, closeErr, closer>>
  BY DEF EndFlush, Fault, metaVars
<1>2. CallsOK' /\ InFlightInv' /\ PendingInv'
  BY <1>1, CallsAlone
<1>3. Owed(a) \in Nat
  BY PairsFinite DEF Owed
<1>4. TypeOK'
  BY <1>1, <1>3 DEF TypeOK
<1>5. ShutdownInv' /\ CloseInv'
  BY <1>1 DEF ShutdownInv, CloseInv
<1> QED BY <1>2, <1>4, <1>5

LEMMA CloseDriversKeeps ==
    ASSUME IInv, CloseDrivers
    PROVE  IInv'
<1> USE DEF IInv
<1>1. /\ shutdown = "running" /\ Drained /\ shutdown' = "done"
      /\ remaining' = IF policy = "await" THEN pending ELSE remaining
      /\ driver' = [a \in Acks |-> IF a \in unique THEN "closed" ELSE driver[a]]
      /\ connected' = FALSE
      /\ UNCHANGED <<policy, closed, call, inFlight, pending, cached, refresh, unique,
                     flushing, closeErr, closer, faults>>
  BY DEF CloseDrivers, metaVars
<1>2. CallsOK' /\ InFlightInv' /\ PendingInv'
  BY <1>1, CallsAlone
<1>3. remaining' \in Nat
  BY <1>1 DEF TypeOK
<1>4. driver' \in [Acks -> {"none", "open", "closed"}]
  BY <1>1 DEF TypeOK
<1>5. TypeOK'
  BY <1>1, <1>3, <1>4 DEF TypeOK
<1>6. ShutdownInv'
  BY <1>1 DEF ShutdownInv, Drained
<1>7. CloseInv'
  BY <1>1 DEF CloseInv
<1> QED BY <1>2, <1>5, <1>6, <1>7

LEMMA EndCloseKeeps ==
    ASSUME IInv, NEW k \in Closers, EndClose(k) \/ JoinClose(k)
    PROVE  IInv'
<1> USE DEF IInv
<1>1. /\ closer' = [closer EXCEPT ![k] = closeErr']
      /\ UNCHANGED <<policy, connected, closed, driver, call, inFlight, pending, cached,
                     refresh, shutdown, unique, flushing, remaining, faults>>
  BY DEF EndClose, JoinClose, metaVars, shutdownVars
<1>2. CallsOK' /\ InFlightInv' /\ PendingInv'
  BY <1>1, CallsAlone
<1>3. /\ closeErr' \in Results
      /\ policy # "disconnect" /\ closeErr' = "ok" => shutdown = "done"
  <2>1. CASE EndClose(k)
    BY <2>1 DEF EndClose, TimeoutResult, ShutdownResult, Results
  <2>2. CASE JoinClose(k)
    BY <2>2 DEF JoinClose, TypeOK, CloseInv
  <2> QED BY <2>1, <2>2
<1>4. TypeOK'
  BY <1>1, <1>3 DEF TypeOK
<1>5. ShutdownInv'
  BY <1>1 DEF ShutdownInv
<1>6. CloseInv'
  BY <1>1, <1>3 DEF CloseInv, TypeOK
<1> QED BY <1>2, <1>4, <1>5, <1>6
----------------------------------------------------------------------------
LEMMA InitEstablishes ==
    ASSUME Init
    PROVE  IInv
<1>1. IdleCall \in Call
  BY ProducerAssumption DEF IdleCall, Call, PCs
<1>2. CallOK(IdleCall) /\ ~Active(IdleCall) /\ Outstanding(IdleCall) = 0
  BY ProducerAssumption DEF IdleCall, CallOK, Active, Outstanding
<1>3. \A c \in Calls : call[c] = IdleCall
  BY DEF Init
<1>4. TypeOK
  BY <1>1 DEF Init, TypeOK, Results
<1>5. CallsOK
  BY <1>2, <1>3 DEF CallsOK
<1>6. ActiveCalls = {}
  BY <1>2, <1>3 DEF ActiveCalls
<1>7. Unreported = {}
  BY <1>2, <1>3, ProducerAssumption DEF Unreported
<1>8. InFlightInv /\ PendingInv
  BY <1>6, <1>7, FS_EmptySet DEF InFlightInv, PendingInv, Count, Init
<1>9. ShutdownInv /\ CloseInv
  BY DEF ShutdownInv, CloseInv, Init
<1> QED BY <1>4, <1>5, <1>8, <1>9 DEF IInv

LEMMA NextKeeps ==
    ASSUME IInv, [Next]_vars
    PROVE  IInv'
<1>1. ASSUME NEW c \in Calls, Progress(c) PROVE IInv'
  BY <1>1, AskMetadataKeeps, GotMetadataKeeps, EnqueueKeeps, StartDrainKeeps,
     DrainKeeps, ReturnKeeps DEF Progress
<1>2. ASSUME NEW c \in Calls, NEW a \in Acks, BeginProduce(c, a) PROVE IInv'
  BY <1>2, BeginProduceKeeps
<1>3. ASSUME NEW c \in Calls, Report(c) \/ Cancel(c) PROVE IInv'
  BY <1>3, ReportKeeps, CancelKeeps
<1>4. ASSUME NEW k \in Closers, Close(k) \/ EndClose(k) \/ JoinClose(k) PROVE IInv'
  BY <1>4, CloseKeeps, EndCloseKeeps
<1>5. ASSUME NEW a \in Acks, EndFlush(a) PROVE IInv'
  BY <1>5, EndFlushKeeps
<1>6. CASE Connect \/ EndRefresh \/ DropMetadata \/ CloseDrivers
  BY <1>6, ConnectKeeps, EndRefreshKeeps, DropMetadataKeeps, CloseDriversKeeps
<1>7. CASE UNCHANGED vars
  <2>1. CallsOK' /\ InFlightInv' /\ PendingInv'
    BY <1>7, CallsAlone DEF vars
  <2>2. TypeOK' /\ ShutdownInv' /\ CloseInv'
    BY <1>7 DEF vars, IInv, TypeOK, ShutdownInv, CloseInv
  <2> QED BY <2>1, <2>2 DEF IInv
<1> QED BY <1>1, <1>2, <1>3, <1>4, <1>5, <1>6, <1>7 DEF Next

(* The inductive invariant: the counters say what the calls do, a missing  *)
(* report has a drainer, and Close closes what it collected at rest.       *)
THEOREM Invariance == Spec => []IInv
<1>1. Init => IInv
  BY InitEstablishes
<1>2. IInv /\ [Next]_vars => IInv'
  BY NextKeeps
<1> QED BY <1>1, <1>2, PTL DEF Spec

(* Every variable keeps its type: inFlight and pendingReports in           *)
(* particular never become negative, at which WaitGroup.Done would panic.  *)
THEOREM TypeCorrect == Spec => []TypeOK
<1>1. IInv => TypeOK
  BY DEF IInv
<1> QED BY <1>1, Invariance, PTL

(* finishClose closes a driver only when no call can hand it a message any *)
(* more, no report is owed and no metadata request runs on it.             *)
THEOREM ClosedDriversAreIdle == Spec => []DriverNotInUse
<1>1. ASSUME IInv, NEW a \in Acks, driver[a] = "closed"
      PROVE  ~InUse(a)
  <2>1. shutdown = "done"
    BY <1>1 DEF IInv, ShutdownInv
  <2>2. refresh = NoRefresh /\ \A c \in Calls : ~Active(call[c])
    BY <1>1, <2>1, BusyNotDone
  <2>3. \A c \in Calls : call[c] \in Call /\ CallOK(call[c])
    BY <1>1, Numbers
  <2>4. ASSUME NEW c \in Calls
        PROVE  call[c].pc \notin {"metadata", "enqueue"} /\ ~(call[c].owed > 0)
    <3>1. call[c].pc \notin {"metadata", "enqueue"} /\ ~call[c].draining
      BY <2>2 DEF Active
    <3>2. ~(Outstanding(call[c]) > 0)
      BY <2>3, <3>1 DEF CallOK
    <3>3. call[c].owed \in Nat /\ call[c].queued \in Nat
      BY <2>3, CallNumbers
    <3> QED BY <3>1, <3>2, <3>3 DEF Outstanding
  <2> QED BY <2>2, <2>4, ProducerAssumption DEF InUse
<1>2. IInv => DriverNotInUse
  BY <1>1 DEF DriverNotInUse
<1> QED BY <1>2, Invariance, PTL

(* nil is the truth: from Produce, all messages were accepted and reported *)
(* without an error; from a Close that waits, every report was drained and *)
(* no driver is left open.                                                 *)
THEOREM SuccessIsTruthful == Spec => []OkIsTruthful
<1>1. ASSUME IInv PROVE NoDriverLeaked
  BY <1>1 DEF IInv, ShutdownInv, NoDriverLeaked
<1>2. ASSUME IInv PROVE OkMeansDelivered
  <2>1. ASSUME NEW c \in Calls, call[c].result = "ok"
        PROVE  /\ call[c].accepted = Messages /\ call[c].owed = 0 /\ call[c].queued = 0
               /\ ~call[c].failed
    <3>1. call[c] \in Call /\ CallOK(call[c])
      BY <1>2, Numbers
    <3>2. /\ call[c].left \in Nat /\ call[c].accepted \in Nat
          /\ call[c].owed \in Nat /\ call[c].queued \in Nat
      BY <3>1, CallNumbers
    <3> QED BY <2>1, <3>1, <3>2 DEF CallOK, Outstanding
  <2> QED BY <2>1 DEF OkMeansDelivered
<1>3. ASSUME IInv PROVE CloseOkMeansDrained
  <2> SUFFICES ASSUME policy # "disconnect", NEW k \in Closers, closer[k] = "ok"
               PROVE  /\ shutdown = "done" /\ pending = 0
                      /\ \A c \in Calls : /\ call[c].owed = 0 /\ call[c].queued = 0
                                          /\ ~call[c].draining
    BY DEF CloseOkMeansDrained
  <2>1. shutdown = "done"
    BY <1>3 DEF IInv, CloseInv
  <2>2. \A c \in Calls : ~Active(call[c])
    BY <1>3, <2>1, BusyNotDone
  <2>3. ASSUME NEW c \in Calls
        PROVE  /\ call[c].owed = 0 /\ call[c].queued = 0 /\ ~call[c].draining
               /\ Outstanding(call[c]) = 0
    <3>1. call[c] \in Call /\ CallOK(call[c])
      BY <1>3, Numbers
    <3>2. call[c].owed \in Nat /\ call[c].queued \in Nat
      BY <3>1, CallNumbers
    <3>3. call[c].pc # "enqueue" /\ ~call[c].draining
      BY <2>2 DEF Active
    <3>4. ~(Outstanding(call[c]) > 0)
      BY <3>1, <3>3 DEF CallOK
    <3> QED BY <3>2, <3>3, <3>4 DEF Outstanding
  <2>4. Unreported = {}
    BY <2>3, ProducerAssumption DEF Unreported
  <2>5. pending = 0
    BY <1>3, <2>4, FS_EmptySet DEF IInv, PendingInv
  <2> QED BY <2>1, <2>3, <2>5
<1>4. IInv => OkIsTruthful
  BY <1>1, <1>2, <1>3 DEF OkIsTruthful
<1> QED BY <1>4, Invariance, PTL
============================================================================
