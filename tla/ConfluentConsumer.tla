------------------------- MODULE ConfluentConsumer -------------------------
(***************************************************************************)
(* The advanced consume loop of kafka/confluent.go: one group member that  *)
(* gathers a wave of records, dispatches it as partition groups, commits   *)
(* or stores offsets, and rewinds the driver after a failure, while        *)
(* partitions are revoked and assigned, other members take over, and the   *)
(* process crashes.                                                        *)
(*                                                                         *)
(* A partition is an append-only log of LogEnd records; an offset is an    *)
(* index in it.  None stands for "no offset" and is larger than every      *)
(* offset, so that the earliest of two optional offsets is their minimum.  *)
(* At first committed is 0: the group has a commit there or reads from the *)
(* beginning.  A group without a commit that starts at the end             *)
(* (auto.offset.reset=latest, 1226-1230) and an Assign that the driver     *)
(* refuses (1326-1332) are left out.                                       *)
(***************************************************************************)
EXTENDS Integers, Sequences, SequencesExt

CONSTANTS
    Partitions,      \* the partitions of the subscribed topics
    LogEnd,          \* records in each partition: offsets 0 .. LogEnd - 1
    WaveSize,        \* opts.MaxRecords: records gathered per wave
    Concurrency,     \* opts.PartitionsConsumedConcurrently
    CommitMode,      \* when an offset is resolved, see Modes
    BatchMode,       \* TRUE: consumeBatches, FALSE: consumeMessages
    Cooperative,     \* TRUE: cooperative-sticky rebalances, FALSE: eager
    AsyncCallbacks,  \* TRUE: rebalance callbacks also outside ReadMessage
    MaxGeneration,   \* bound on rebalance callbacks per member
    MaxFaults        \* bound on failures, fencings, crashes

(* "commit": CommitMessage after the handler; "store": StoreMessage after  *)
(* the handler, committed in the background; "before": CommitBeforeHandler *)
Modes == {"commit", "store", "before"}

ASSUME ConsumerAssumption ==
    /\ LogEnd \in Nat
    /\ WaveSize \in Nat \ {0}
    /\ Concurrency \in Nat \ {0}
    /\ CommitMode \in Modes
    /\ BatchMode \in BOOLEAN
    /\ Cooperative \in BOOLEAN
    /\ AsyncCallbacks \in BOOLEAN
    /\ MaxGeneration \in Nat
    /\ MaxFaults \in Nat

Records == 0 .. LogEnd - 1
Offsets == 0 .. LogEnd
None == LogEnd + 1
OptOffsets == 0 .. None

VARIABLES
    \* the group member (ConfluentConsumer) and the driver it owns
    pc,          \* where the Consume call stands
    generation,  \* assignmentGeneration; 0 while assignmentKnown is false
    owned,       \* assignedPartitions: generation per partition, 0 if absent
    pending,     \* pendingRewinds: offset per partition, None if absent
    revoked,     \* revokedRewinds
    wave,        \* the gathered partition groups, in launch order
    deferred,    \* deferredReadErr # nil
    plan,        \* the rewind positions of the error being returned
    closing,     \* the run context is cancelled by Close
    assigned,    \* driver: Assignment()
    position,    \* driver: next offset ReadMessage returns
    stored,      \* driver: offset stored for the background commit
    \* the broker and the rest of the group
    committed,   \* committed offset of the group
    fenced,      \* the broker has removed this member from the group
    \* history
    handled,     \* offsets some handler returned nil for
    started,     \* offsets some handler was called with
    repeated,    \* offsets a handler was called with more than once
    excused,     \* offsets committed by a call that reported an error, or
                 \* committed before the handler call a crash prevented
    faults       \* faults so far

driverVars == <<assigned, position, stored>>
brokerVars == <<committed, fenced>>
history == <<handled, started, repeated, excused>>
rebalanceVars == <<generation, owned, revoked>>
runVars == <<pc, wave, deferred, plan, pending, closing>>
vars == <<runVars, rebalanceVars, driverVars, brokerVars, history, faults>>

(* A partition group: the records lo .. hi of one partition read under one *)
(* assignment generation.  at is the record being processed and, once the  *)
(* group failed, the offset its error asks to rewind to.                   *)
GroupStates == {"queued", "admitted", "precommitted", "handled",
                "done", "dropped", "failed"}
Group == [part : Partitions, gen : Nat, lo : Records, hi : Records,
          at : OptOffsets, st : GroupStates]

NoOffsets == [p \in Partitions |-> None]

PCs == {"idle", "poll", "dispatch", "filter", "seek", "record", "reseek",
        "closed"}

TypeOK ==
    /\ pc \in PCs
    /\ generation \in Nat
    /\ owned \in [Partitions -> Nat]
    /\ pending \in [Partitions -> OptOffsets]
    /\ revoked \subseteq Partitions
    /\ wave \in Seq(Group)
    /\ deferred \in BOOLEAN
    /\ plan \in [Partitions -> OptOffsets]
    /\ closing \in BOOLEAN
    /\ assigned \subseteq Partitions
    /\ position \in [Partitions -> Offsets]
    /\ stored \in [Partitions -> OptOffsets]
    /\ committed \in [Partitions -> Offsets]
    /\ fenced \in BOOLEAN
    /\ handled \in [Partitions -> SUBSET Nat]
    /\ started \in [Partitions -> SUBSET Nat]
    /\ repeated \in [Partitions -> SUBSET Nat]
    /\ excused \in [Partitions -> SUBSET Nat]
    /\ faults \in Nat

----------------------------------------------------------------------------
Earliest(a, b) == IF a <= b THEN a ELSE b

Fault == faults < MaxFaults /\ faults' = faults + 1

(* Mutant: the generation a group was read in is not compared.             *)
AdmissibleAnyGeneration(g) == owned[g.part] # 0

(* beginPartitionDispatch: the partition is owned, under the generation    *)
(* the group was read in.                                                  *)
Admissible(g) == owned[g.part] # 0 /\ owned[g.part] = g.gen

(* The records of the group that are being processed as one unit.          *)
Unit(g) == IF BatchMode THEN g.lo .. g.hi ELSE {g.at}

(* Mutant: the caller adds one to an offset the driver increments itself.  *)
ResolvedOneTooFar(g) == IF BatchMode THEN g.hi + 2 ELSE g.at + 2

(* CommitMessage and StoreMessage resolve to the offset after the record;  *)
(* a batch resolves its last record.                                       *)
Resolved(g) == IF BatchMode THEN g.hi + 1 ELSE g.at + 1

Mark(g, state) == [g EXCEPT !.st = state]

(* The unit is complete: on to the next record, or the group is done.      *)
Advance(g) == [g EXCEPT !.at = Resolved(g),
                        !.st = IF Resolved(g) > g.hi THEN "done" ELSE "admitted"]

(* Mutants: a failed message rewinds past itself, a failed batch to its    *)
(* last record.                                                            *)
FailPast(g) == [g EXCEPT !.at = Resolved(g), !.st = "failed"]
FailAtLast(g) == [g EXCEPT !.at = g.hi, !.st = "failed"]

(* The group fails and asks to rewind to the unit being processed ...      *)
FailAt(g) == Mark(g, "failed")

(* Mutant: the rest of a group is given up with its committed record.      *)
FailWhole(g) == [g EXCEPT !.at = None, !.st = "failed"]

(* ... or, when the unit was committed before its handler ran, to the      *)
(* first record after it, or to nothing.                                   *)
FailAfter(g) == [g EXCEPT !.at = IF Resolved(g) > g.hi THEN None ELSE Resolved(g),
                          !.st = "failed"]

(* Mutant: a failed handler rewinds to its record although it is committed. *)
HandlerFailedRetries(g) == FailAt(g)

HandlerFailed(g) == IF CommitMode = "before" THEN FailAfter(g) ELSE FailAt(g)

Running(g) == g.st \in {"admitted", "precommitted", "handled"}

(* No handler holds a read lease of assignmentMu.                          *)
NoLease == \A i \in DOMAIN wave : ~Running(wave[i])

(* rewindPositionsStillOwned                                               *)
StillOwned(positions) ==
    [p \in Partitions |->
        IF p \in revoked \/ p \notin assigned THEN None ELSE positions[p]]

Requested(positions) == {p \in Partitions : positions[p] # None}

(* consumerRewindPositions of the joined errors: the earliest offset per   *)
(* partition that a failed group asks for.                                 *)
IsPlan(positions, groups) ==
    \A p \in Partitions :
        LET asks == {groups[i].at : i \in {j \in DOMAIN groups :
                        groups[j].part = p /\ groups[j].st = "failed"}}
        IN  IF asks = {} THEN positions[p] = None
            ELSE positions[p] \in asks /\ \A a \in asks : positions[p] <= a
----------------------------------------------------------------------------
(* A fresh member: Connect has subscribed, nothing is assigned yet.        *)
FreshMember ==
    /\ pc = "idle"
    /\ generation = 0
    /\ owned = [p \in Partitions |-> 0]
    /\ pending = NoOffsets
    /\ revoked = {}
    /\ wave = <<>>
    /\ deferred = FALSE
    /\ plan = NoOffsets
    /\ closing = FALSE
    /\ assigned = {}
    /\ position = [p \in Partitions |-> 0]
    /\ stored = NoOffsets
    /\ fenced = FALSE

Init ==
    /\ FreshMember
    /\ committed = [p \in Partitions |-> 0]
    /\ handled = [p \in Partitions |-> {}]
    /\ started = [p \in Partitions |-> {}]
    /\ repeated = [p \in Partitions |-> {}]
    /\ excused = [p \in Partitions |-> {}]
    /\ faults = 0
----------------------------------------------------------------------------
(* The Consume call                                                        *)

(* beginConsumeRun and the start of applyPendingRewinds: without pending   *)
(* rewinds the run starts reading, otherwise the ones still owned must be  *)
(* sought first.                                                           *)
BeginRun ==
    /\ pc = "idle" /\ ~closing
    /\ IF Requested(pending) = {}
       THEN pc' = "poll" /\ UNCHANGED plan
       ELSE pc' = "reseek" /\ plan' = StillOwned(pending)
    /\ UNCHANGED <<pending, wave, deferred, closing, rebalanceVars,
                   driverVars, brokerVars, history, faults>>

(* SeekPartitions succeeds for every requested partition.                  *)
SeekSucceeds ==
    /\ Requested(plan) \subseteq assigned
    /\ position' = [p \in Partitions |->
                      IF plan[p] # None THEN plan[p] ELSE position[p]]
    /\ UNCHANGED <<assigned, stored, faults>>

(* SeekPartitions reports an error; some partitions may have been sought.  *)
SeekFails ==
    /\ IF Requested(plan) \subseteq assigned THEN Fault ELSE UNCHANGED faults
    /\ \E sought \in SUBSET (Requested(plan) \cap assigned) :
          position' = [p \in Partitions |->
                         IF p \in sought THEN plan[p] ELSE position[p]]
    /\ UNCHANGED <<assigned, stored>>

(* applyPendingRewinds: the pending positions are forgotten only after     *)
(* every seek succeeded; otherwise Consume returns without reading.        *)
Reseek ==
    /\ pc = "reseek"
    /\ \/ /\ SeekSucceeds
          /\ pending' = NoOffsets
          /\ pc' = "poll"
       \/ /\ SeekFails
          /\ pc' = "idle"
          /\ UNCHANGED pending
    /\ plan' = NoOffsets
    /\ UNCHANGED <<wave, deferred, closing, rebalanceVars, brokerVars, history>>

(* len(messages)                                                           *)
Gathered == FoldSeq(LAMBDA g, n : n + g.hi + 1 - g.lo, 0, wave)

NewGroup(p, gen, off) ==
    [part |-> p, gen |-> gen, lo |-> off, hi |-> off, at |-> off, st |-> "queued"]

Extend(g, off) == [g EXCEPT !.hi = off]

(* groupConfluentBatchMessagesWithAssignments: a record joins the group of *)
(* its partition and generation, or opens a new one at the end.            *)
Grouped(p) ==
    LET same == {i \in DOMAIN wave : wave[i].part = p /\ wave[i].gen = owned[p]}
    IN  IF same = {}
        THEN Append(wave, NewGroup(p, owned[p], position[p]))
        ELSE [i \in DOMAIN wave |->
                 IF i \in same THEN Extend(wave[i], position[p]) ELSE wave[i]]

(* ReadMessage returns a record, and assignmentSnapshot is taken for it.   *)
(* The context is checked before every read; a read that returns after     *)
(* Close cancelled it is dropped by CancelPoll like the rest of the wave.  *)
Read(p) ==
    /\ pc = "poll" /\ ~closing
    /\ Gathered < WaveSize
    /\ p \in assigned /\ position[p] < LogEnd
    /\ wave' = Grouped(p)
    /\ position' = [position EXCEPT ![p] = @ + 1]
    /\ UNCHANGED <<pc, deferred, plan, pending, closing, rebalanceVars,
                   assigned, stored, brokerVars, history, faults>>

(* The wave is full, or ReadMessage times out with records at hand.        *)
EndGather ==
    /\ pc = "poll" /\ ~closing
    /\ wave # <<>>
    /\ pc' = "dispatch"
    /\ UNCHANGED <<wave, deferred, plan, pending, closing, rebalanceVars,
                   driverVars, brokerVars, history, faults>>

(* ReadMessage reports an error other than a timeout.  consumeMessages     *)
(* still dispatches what it gathered; consumeBatches dispatches nothing    *)
(* and asks to rewind every group whose partition it still owns.           *)
PollError ==
    /\ pc = "poll" /\ ~closing
    /\ Fault
    /\ \/ wave = <<>> /\ pc' = "idle" /\ UNCHANGED <<wave, deferred>>
       \/ /\ wave # <<>> /\ ~BatchMode
          /\ pc' = "dispatch" /\ deferred' = TRUE
          /\ UNCHANGED wave
       \/ /\ wave # <<>> /\ BatchMode
          /\ pc' = "filter"
          /\ wave' = [i \in DOMAIN wave |-> IF Admissible(wave[i]) THEN FailAt(wave[i])
                                           ELSE Mark(wave[i], "dropped")]
          /\ UNCHANGED deferred
    /\ UNCHANGED <<plan, pending, closing, rebalanceVars, driverVars,
                   brokerVars, history>>

(* The run context is cancelled while reading: what was gathered is        *)
(* dropped and Consume returns nil.                                        *)
CancelPoll ==
    /\ pc = "poll" /\ closing
    /\ pc' = "idle" /\ wave' = <<>>
    /\ UNCHANGED <<deferred, plan, pending, closing, rebalanceVars,
                   driverVars, brokerVars, history, faults>>
----------------------------------------------------------------------------
(* Partition workers: runConfluentPartitionGroups and processMessageGroup  *)
(* or processBatchGroup.                                                   *)

SetGroup(i, g) == wave' = [wave EXCEPT ![i] = g]

runUnchanged == <<pc, deferred, plan, pending, closing, rebalanceVars>>

(* Mutant: a group whose partition was taken away waits instead.           *)
LaunchWaits(i) ==
    /\ wave[i].st = "queued" /\ Admissible(wave[i])
    /\ \A j \in 1 .. i - 1 : wave[j].st # "queued"
    /\ Len(SelectSeq(wave, Running)) < Concurrency
    /\ SetGroup(i, Mark(wave[i], "admitted"))
    /\ UNCHANGED <<runUnchanged, driverVars, brokerVars, history, faults>>

(* A semaphore slot is free: the next group starts, in order, and is       *)
(* dropped when a rebalance has taken its partition away.                  *)
Launch(i) ==
    /\ wave[i].st = "queued"
    /\ \A j \in 1 .. i - 1 : wave[j].st # "queued"
    /\ Len(SelectSeq(wave, Running)) < Concurrency
    /\ SetGroup(i, Mark(wave[i], IF Admissible(wave[i]) THEN "admitted" ELSE "dropped"))
    /\ UNCHANGED <<runUnchanged, driverVars, brokerVars, history, faults>>

(* The context is cancelled before a slot is free: nothing more starts.    *)
StopLaunching ==
    /\ pc = "dispatch" /\ closing
    /\ \E i \in DOMAIN wave : wave[i].st = "queued"
    /\ wave' = [i \in DOMAIN wave |->
                  IF wave[i].st = "queued" THEN Mark(wave[i], "dropped")
                  ELSE wave[i]]
    /\ UNCHANGED <<runUnchanged, driverVars, brokerVars, history, faults>>

(* processMessageGroup checks the context before every record.             *)
CancelWorker(i) ==
    /\ closing /\ ~BatchMode
    /\ wave[i].st = "admitted"
    /\ SetGroup(i, Mark(wave[i], "dropped"))
    /\ UNCHANGED <<runUnchanged, driverVars, brokerVars, history, faults>>

(* CommitMessage: accepted from a member of the group ...                  *)
CommitSucceeds(g) ==
    /\ ~fenced
    /\ committed' = [committed EXCEPT ![g.part] = Resolved(g)]
    /\ UNCHANGED <<fenced, excused, faults>>

(* ... refused from a fenced one, or failed by the transport, in which     *)
(* case the broker may have applied it.                                    *)
CommitFails(g) ==
    \/ fenced /\ UNCHANGED <<brokerVars, excused, faults>>
    \/ ~fenced /\ Fault /\ UNCHANGED <<brokerVars, excused>>
    \/ /\ ~fenced /\ Fault
       /\ committed' = [committed EXCEPT ![g.part] = Resolved(g)]
       /\ excused' = [excused EXCEPT ![g.part] = @ \cup Unit(g)]
       /\ UNCHANGED fenced

PreCommit(i) ==
    /\ CommitMode = "before"
    /\ wave[i].st = "admitted"
    /\ \/ /\ CommitSucceeds(wave[i])
          /\ SetGroup(i, Mark(wave[i], "precommitted"))
       \/ /\ CommitFails(wave[i])
          /\ SetGroup(i, FailAt(wave[i]))
    /\ UNCHANGED <<runUnchanged, driverVars, handled, started, repeated>>

(* The handler is called with the unit, and returns nil, an error (or      *)
(* leaves through runtime.Goexit), or the cancellation of the run.         *)
Handle(i) ==
    LET g == wave[i] IN
    /\ g.st = IF CommitMode = "before" THEN "precommitted" ELSE "admitted"
    /\ started' = [started EXCEPT ![g.part] = @ \cup Unit(g)]
    /\ repeated' = [repeated EXCEPT ![g.part] = @ \cup (Unit(g) \cap started[g.part])]
    /\ \/ /\ handled' = [handled EXCEPT ![g.part] = @ \cup Unit(g)]
          /\ SetGroup(i, IF CommitMode = "before" THEN Advance(g)
                         ELSE Mark(g, "handled"))
          /\ UNCHANGED faults
       \/ /\ Fault
          /\ SetGroup(i, HandlerFailed(g))
          /\ UNCHANGED handled
       \/ /\ closing
          /\ SetGroup(i, Mark(g, "dropped"))
          /\ UNCHANGED <<handled, faults>>
    /\ UNCHANGED <<runUnchanged, driverVars, brokerVars, excused>>

(* resolveMessageOffset after the handler returned nil.                    *)
Resolve(i) ==
    LET g == wave[i] IN
    /\ g.st = "handled"
    /\ \/ /\ CommitMode = "commit"
          /\ \/ CommitSucceeds(g) /\ SetGroup(i, Advance(g))
             \/ CommitFails(g) /\ SetGroup(i, FailAt(g))
          /\ UNCHANGED driverVars
       \/ /\ CommitMode = "store"
          /\ \/ /\ g.part \in assigned
                /\ stored' = [stored EXCEPT ![g.part] = Resolved(g)]
                /\ SetGroup(i, Advance(g))
                /\ UNCHANGED faults
             \/ Fault /\ SetGroup(i, FailAt(g)) /\ UNCHANGED stored
          /\ UNCHANGED <<assigned, position, brokerVars, excused>>
    /\ UNCHANGED <<runUnchanged, handled, started, repeated>>

(* Every worker has returned: read on, return the deferred read error, or  *)
(* return the joined failures after a rewind.                              *)
EndWave ==
    /\ pc = "dispatch"
    /\ \A i \in DOMAIN wave : wave[i].st \in {"done", "dropped", "failed"}
    /\ IF \E i \in DOMAIN wave : wave[i].st = "failed"
       THEN pc' = "filter" /\ UNCHANGED wave
       ELSE pc' = (IF deferred THEN "idle" ELSE "poll") /\ wave' = <<>>
    /\ deferred' = FALSE
    /\ UNCHANGED <<plan, pending, closing, rebalanceVars, driverVars,
                   brokerVars, history, faults>>
----------------------------------------------------------------------------
(* prepareHandlerRunRetry                                                  *)

(* The positions the errors ask for, limited to partitions still owned;    *)
(* without any, Consume returns the error at once.                         *)
FilterRewinds ==
    /\ pc = "filter"
    /\ \E positions \in [Partitions -> OptOffsets] :
          /\ IsPlan(positions, wave)
          /\ plan' = StillOwned(positions)
          /\ pc' = IF Requested(StillOwned(positions)) = {} THEN "idle" ELSE "seek"
    /\ wave' = <<>>
    /\ UNCHANGED <<deferred, pending, closing, rebalanceVars, driverVars,
                   brokerVars, history, faults>>

SeekRewinds ==
    /\ pc = "seek"
    /\ \/ SeekSucceeds /\ pc' = "idle" /\ plan' = NoOffsets
       \/ SeekFails /\ pc' = "record" /\ UNCHANGED plan
    /\ UNCHANGED <<wave, deferred, pending, closing, rebalanceVars,
                   brokerVars, history>>

(* mergeConsumerRewindPositions                                            *)
Merged(current, added) == [p \in Partitions |-> Earliest(current[p], added[p])]

(* Mutant: a revocation that won the race with the failed seek is ignored. *)
RecordRewindsUnchecked ==
    /\ pc = "record"
    /\ pending' = IF closing THEN pending ELSE Merged(pending, plan)
    /\ pc' = "idle" /\ plan' = NoOffsets
    /\ UNCHANGED <<wave, deferred, closing, rebalanceVars, driverVars,
                   brokerVars, history, faults>>

(* A failed seek is remembered, unless the partition was revoked meanwhile *)
(* or the consumer closed.                                                 *)
RecordRewinds ==
    /\ pc = "record"
    /\ pending' = IF closing THEN pending
                  ELSE Merged(pending, [p \in Partitions |->
                                 IF p \in revoked THEN None ELSE plan[p]])
    /\ pc' = "idle" /\ plan' = NoOffsets
    /\ UNCHANGED <<wave, deferred, closing, rebalanceVars, driverVars,
                   brokerVars, history, faults>>
----------------------------------------------------------------------------
(* rebalanceCb.  The driver serves it from ReadMessage; with               *)
(* AsyncCallbacks also at any other time that assignmentMu allows.         *)

OwnedPartitions == {p \in Partitions : owned[p] # 0}

CallbackServed ==
    /\ generation < MaxGeneration
    /\ pc # "closed"
    /\ pc = "poll" \/ (AsyncCallbacks /\ NoLease)

(* markPartitionsAssigned and markRewindPartitionsAssigned.  The driver    *)
(* starts reading at the committed offset.  A fenced member rejoins only   *)
(* after all it held was revoked.                                          *)
AssignPartitions(S) ==
    /\ CallbackServed
    /\ S # {} /\ S \cap OwnedPartitions = {}
    /\ ~Cooperative \/ fenced => OwnedPartitions = {}
    /\ generation' = generation + 1
    /\ owned' = [p \in Partitions |-> IF p \in S THEN generation + 1
                                     ELSE IF Cooperative THEN owned[p] ELSE 0]
    /\ revoked' = revoked \ S
    /\ assigned' = IF Cooperative THEN assigned \cup S ELSE S
    /\ position' = [p \in Partitions |-> IF p \in S THEN committed[p] ELSE position[p]]
    /\ stored' = [p \in Partitions |-> IF p \in S THEN None ELSE stored[p]]
    /\ fenced' = FALSE
    /\ UNCHANGED <<runVars, committed, history, faults>>

(* The offsets the driver still holds stored are committed when it gives   *)
(* the partitions up, if the broker lets it.                               *)
FlushStored(S) ==
    committed' = [p \in Partitions |->
                    IF p \in S \cap assigned /\ ~fenced /\ stored[p] # None
                    THEN stored[p] ELSE committed[p]]

(* markPartitionsRevoked and clearPendingRewindsForPartitions, then        *)
(* Unassign, which may fail and leave the driver's assignment as it was.   *)
RevokePartitions(S) ==
    /\ CallbackServed
    /\ S # {} /\ S \subseteq OwnedPartitions
    /\ ~Cooperative \/ fenced => S = OwnedPartitions
    /\ generation' = generation + 1
    /\ owned' = [p \in Partitions |-> IF ~Cooperative \/ p \in S THEN 0 ELSE owned[p]]
    /\ revoked' = revoked \cup S
    /\ pending' = [p \in Partitions |-> IF p \in S THEN None ELSE pending[p]]
    /\ \/ /\ assigned' = IF Cooperative THEN assigned \ S ELSE {}
          /\ FlushStored(S) \/ UNCHANGED committed
          /\ stored' = [p \in Partitions |-> IF p \in S THEN None ELSE stored[p]]
          /\ UNCHANGED faults
       \/ Fault /\ UNCHANGED <<assigned, committed, stored>>
    /\ UNCHANGED <<pc, wave, deferred, plan, closing, position, fenced, history>>
----------------------------------------------------------------------------
(* The broker, the other members of the group, and the process             *)

(* auto.commit.interval.ms                                                 *)
BackgroundCommit(p) ==
    /\ p \in assigned /\ ~fenced
    /\ stored[p] # None /\ stored[p] # committed[p]
    /\ committed' = [committed EXCEPT ![p] = stored[p]]
    /\ UNCHANGED <<runVars, rebalanceVars, driverVars, fenced, history, faults>>

(* session.timeout.ms or max.poll.interval.ms expires at the broker; this  *)
(* member learns of it at its next commit or callback.                     *)
Fence ==
    /\ assigned # {} /\ ~fenced
    /\ Fault
    /\ fenced' = TRUE
    /\ UNCHANGED <<runVars, rebalanceVars, driverVars, committed, history>>

(* Another member handles the next record of a partition this member does  *)
(* not hold, and commits it.                                               *)
OtherMember(p) ==
    /\ p \notin assigned \/ fenced
    /\ committed[p] < LogEnd
    /\ committed' = [committed EXCEPT ![p] = @ + 1]
    /\ handled' = [handled EXCEPT ![p] = @ \cup {committed[p]}]
    /\ started' = [started EXCEPT ![p] = @ \cup {committed[p]}]
    /\ repeated' = [repeated EXCEPT ![p] = @ \cup ({committed[p]} \cap started[p])]
    /\ UNCHANGED <<runVars, rebalanceVars, driverVars, fenced, excused, faults>>

(* Close cancels the run context ...                                       *)
RequestClose ==
    /\ ~closing /\ pc # "closed"
    /\ closing' = TRUE
    /\ UNCHANGED <<pc, wave, deferred, plan, pending, rebalanceVars,
                   driverVars, brokerVars, history, faults>>

(* ... and closes the driver once the run has returned.  The driver        *)
(* revokes what it holds on the way out.                                   *)
CloseDriver ==
    /\ closing /\ pc = "idle"
    /\ pc' = "closed"
    /\ generation' = generation + 1
    /\ owned' = [p \in Partitions |-> 0]
    /\ revoked' = revoked \cup OwnedPartitions
    /\ pending' = [p \in Partitions |-> IF p \in OwnedPartitions THEN None ELSE pending[p]]
    /\ FlushStored(Partitions) \/ UNCHANGED committed
    /\ assigned' = {} /\ stored' = NoOffsets
    /\ UNCHANGED <<wave, deferred, plan, closing, position, fenced, history, faults>>

(* The process stops, by a crash or after Close, and is started again.     *)
Restart ==
    /\ Fault
    /\ pc' = "idle" /\ generation' = 0 /\ owned' = [p \in Partitions |-> 0]
    /\ pending' = NoOffsets /\ revoked' = {} /\ wave' = <<>> /\ deferred' = FALSE
    /\ plan' = NoOffsets /\ closing' = FALSE /\ assigned' = {}
    /\ position' = [p \in Partitions |-> 0] /\ stored' = NoOffsets /\ fenced' = FALSE
    /\ excused' = [p \in Partitions |-> excused[p] \cup
          UNION {Unit(wave[i]) : i \in {j \in DOMAIN wave :
                    wave[j].part = p /\ wave[j].st = "precommitted"}}]
    /\ UNCHANGED <<committed, handled, started, repeated>>

Worker(i) ==
    /\ pc = "dispatch"
    /\ Launch(i) \/ CancelWorker(i) \/ PreCommit(i) \/ Handle(i) \/ Resolve(i)

Run ==
    \/ BeginRun \/ Reseek \/ EndGather \/ PollError \/ CancelPoll
    \/ \E p \in Partitions : Read(p)
    \/ StopLaunching \/ EndWave
    \/ \E i \in DOMAIN wave : Worker(i)
    \/ FilterRewinds \/ SeekRewinds \/ RecordRewinds

Environment ==
    \/ \E S \in SUBSET Partitions : AssignPartitions(S) \/ RevokePartitions(S)
    \/ \E p \in Partitions : BackgroundCommit(p) \/ OtherMember(p)
    \/ Fence \/ RequestClose \/ CloseDriver \/ Restart

Next == Run \/ Environment

Spec == Init /\ [][Next]_vars
----------------------------------------------------------------------------
(* Every offset below x is in the set.                                     *)
Covers(offsets, x) == \A o \in 0 .. x - 1 : o \in offsets

Done(p, x) == Covers(handled[p], x)

(* At-least-once: an offset is committed only after a handler has returned *)
(* nil for every record before it, whoever in the group handled it         *)
(* (resolveMessageOffset after the handler, dropped stale groups, and the  *)
(* rewinds of prepareHandlerRunRetry together).                            *)
NoSkip == CommitMode # "before" => \A p \in Partitions : Done(p, committed[p])

(* A run that reads starts each owned partition at or before its first     *)
(* unhandled record: a failed wave, a failed seek or a poll error never    *)
(* leaves the driver positioned past a record nobody handled.              *)
NothingPassedOver ==
    CommitMode # "before" /\ pc = "poll" /\ wave = <<>> /\ ~closing =>
        \A p \in OwnedPartitions : Done(p, position[p])

(* A retained rewind is for a partition this member owns, so a later       *)
(* Consume call cannot stay blocked on a seek that can never succeed       *)
(* (clearPendingRewindsForPartitions and the revokedRewinds check).        *)
PendingOnlyOwned ==
    \A p \in Partitions : pending[p] # None => p \in OwnedPartitions

(* While callbacks are served by ReadMessage only, this member never moves *)
(* the group's committed offset backwards: groups of an older assignment   *)
(* are dropped and rewinds never pass a commit.                            *)
CommitsMoveForward ==
    [][\A p \in Partitions : committed'[p] >= committed[p]]_vars

Progress == INSTANCE GroupProgress WITH
    Partitions <- Partitions, LogEnd <- LogEnd, handled <- handled, committed <- committed

(* With offsets resolved after the handler, the loop implements the        *)
(* group's at-least-once promise: every commit covers handled records.     *)
ImplementsGroupProgress == Progress!Spec

(* At-most-once: with CommitBeforeHandler, and callbacks served by         *)
(* ReadMessage, no record reaches a handler twice.                         *)
AtMostOnce == CommitMode = "before" => \A p \in Partitions : repeated[p] = {}

(* With CommitBeforeHandler a committed record did reach a handler, or is  *)
(* about to, unless its commit reported an error or the process stopped    *)
(* first: a failed handler gives up its own record and no later one.       *)
NoSilentLoss ==
    CommitMode = "before" =>
        \A p \in Partitions : \A o \in 0 .. committed[p] - 1 :
            \/ o \in started[p] \cup excused[p]
            \/ \E i \in DOMAIN wave : /\ wave[i].part = p
                                      /\ wave[i].st = "precommitted"
                                      /\ o \in Unit(wave[i])
----------------------------------------------------------------------------
(* Fairness: the application calls Consume again after it returned, the    *)
(* goroutines of a run are scheduled, the coordinator hands out partitions *)
(* nobody holds, and the other members and the background commit work.     *)
Fairness ==
    /\ WF_vars(Run)
    /\ WF_vars(\E S \in SUBSET Partitions : AssignPartitions(S))
    /\ \A p \in Partitions : WF_vars(BackgroundCommit(p)) /\ WF_vars(OtherMember(p))

LiveSpec == Spec /\ Fairness

(* Unless the consumer is closed, every record is eventually committed,    *)
(* whatever failed before: no failure leaves the group stuck.  A partition *)
(* the driver refuses to give up is out of the loop's hands.               *)
EventuallyCommitted ==
    <>(\/ closing
       \/ \A p \in Partitions : committed[p] = LogEnd \/ p \in assigned \ OwnedPartitions)
============================================================================
