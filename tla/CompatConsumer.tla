--------------------------- MODULE CompatConsumer ---------------------------
(* The franz-go consumer of kafka/franz_kafkajs2_compat_consumer.go.  A poll *)
(* holds the rebalance gate until its records reached their offset boundary, *)
(* so partitions move only between waves, but the broker may fence the       *)
(* member at any time.  The group may start at the end of the log when it    *)
(* has no committed offset: what was fetched and not resolved must then      *)
(* survive in pendingRecovery across retries, reassignment and a rebuilt     *)
(* client.  franz-go and the brokers are external.                           *)
EXTENDS Integers, FiniteSets

CONSTANTS
    Partitions,
    LogEnd,         \* bound: records per partition, offsets 0..LogEnd-1
    MaxRecords,     \* records of one partition a poll returns at most
    Modes,          \* offset handling: "auto", "after", "before", and two with an
                    \* OffsetFinalizer: "finalizer", "redeliver" (its Redeliver option)
    Batches,        \* whether a wave's group is handled as one batch
    FromBeginning,  \* where a group without commits starts
    MaxFaults       \* bound: failures of handlers, commits, polls and members

ASSUME CompatBounds == LogEnd \in Nat /\ MaxRecords \in Nat /\ Batches \subseteq BOOLEAN

VARIABLES
    mode, batch,    \* the options of every run
    end,            \* the log: records appended so far
    committed,      \* the group's committed offset, -1 for none
    client,         \* "up", or "none" after it was discarded
    owned,          \* partitions assigned to this member
    fenced,         \* the broker no longer accepts this member
    position,       \* next offset the client fetches
    marked,         \* resolved without a commit: MarkCommitRecords leaves it to
                    \* the background loop, a finalizer that commits nothing to nobody
    pending,        \* pendingRecovery: earliest unresolved offset, -1 for none
    run,            \* idle, polling, wave or dead
    wave,           \* per partition: offsets of the group still unresolved
    phase,          \* per partition: what its worker does next
    failed,         \* per partition: position to rewind to, -1 none, -2 rewound
    closing,        \* no, requested or done
    handled,        \* history: records a handler succeeded on, or others did
    fetched,        \* history: records a poll returned
    excused,        \* history: records given up, each where the code gives it up
    attempts,       \* history: handler calls per record, counted to 2
    faults

runVars == <<mode, batch, run, wave, phase, failed>>
groupVars == <<committed, client, owned, fenced, position, marked, pending>>
history == <<handled, fetched, excused, attempts>>
compatVars == <<runVars, end, groupVars, closing, history, faults>>

Offsets == 0..(LogEnd - 1)
None == -1
Rewound == -2
Least(S) == CHOOSE x \in S : \A y \in S : x <= y
Most(S) == CHOOSE x \in S : \A y \in S : y <= x
Each(x) == [p \in Partitions |-> x]
Finalizers == {"finalizer", "redeliver"}

(* Connect: the client is created and joins the group.                      *)
Init ==
    /\ mode \in Modes /\ batch \in Batches /\ ~(batch /\ mode \in Finalizers)
    /\ end = Each(0) /\ committed = Each(None)
    /\ client = "up" /\ owned = {} /\ fenced = FALSE
    /\ position = Each(0) /\ marked = Each(None) /\ pending = Each(None)
    /\ run = "idle" /\ wave = Each({}) /\ phase = Each("done") /\ failed = Each(None)
    /\ closing = "no"
    /\ handled = Each({}) /\ fetched = Each({}) /\ excused = Each({})
    /\ attempts = Each([r \in Offsets |-> 0])
    /\ faults = 0

Fault == faults < MaxFaults /\ faults' = faults + 1
NoFault == UNCHANGED faults

Append1(p) ==
    /\ end[p] < LogEnd /\ end' = [end EXCEPT ![p] = @ + 1]
    /\ UNCHANGED <<runVars, groupVars, closing, history, faults>>

-----------------------------------------------------------------------------
(* Group membership, outside waves.                                         *)

GateOpen == run # "wave"

\* Mutant: a group without committed offsets starts at the reset position.
ResetStart(p) ==
    IF committed[p] >= 0 THEN committed[p]
    ELSE IF FromBeginning THEN 0 ELSE end[p]

(* adjustRecoveryOffsets: a committed offset always wins and settles what   *)
(* lies before it; without one a remembered position replaces the reset.    *)
AdjustedStart(p) ==
    IF committed[p] >= 0 THEN committed[p]
    ELSE IF pending[p] >= 0 THEN pending[p]
    ELSE IF FromBeginning THEN 0 ELSE end[p]
AdjustedPending(p) ==
    IF committed[p] >= 0 /\ committed[p] >= pending[p] THEN None ELSE pending[p]

(* Records were resolved and the group still has no commit.                 *)
Uncommitted(p) == committed[p] = None /\ marked[p] >= 0

AssignPartition(p) ==
    /\ GateOpen /\ client = "up" /\ ~fenced /\ closing # "done" /\ p \notin owned
    /\ owned' = owned \cup {p}
    /\ position' = [position EXCEPT ![p] = AdjustedStart(p)]
    /\ pending' = [pending EXCEPT ![p] = AdjustedPending(p)]
    /\ marked' = [marked EXCEPT ![p] = None]
    /\ excused' = [excused EXCEPT ![p] =
           IF Uncommitted(p) THEN @ \cup {r \in fetched[p] : r < AdjustedStart(p)} ELSE @]
    /\ UNCHANGED <<runVars, end, committed, client, fenced, closing, handled, fetched, attempts, faults>>

(* CommitMarkedOffsets, on behalf of partitions S.                          *)
Larger(a, b) == IF a > b THEN a ELSE b
CommitMarked(S) ==
    committed' = [p \in Partitions |->
        IF p \in S /\ mode = "auto" /\ ~fenced THEN Larger(committed[p], marked[p]) ELSE committed[p]]

(* handlePartitionsRevoked commits first; the commit may fail.              *)
HandleRevoked(p) ==
    /\ GateOpen /\ p \in owned
    /\ \/ CommitMarked({p}) /\ NoFault
       \/ mode = "auto" /\ Fault /\ UNCHANGED committed
    /\ owned' = owned \ {p}
    /\ UNCHANGED <<runVars, end, client, fenced, position, marked, pending, closing, history>>

(* handlePartitionsLost never commits.                                      *)
Fence ==
    /\ ~fenced /\ owned # {} /\ Fault /\ fenced' = TRUE
    /\ UNCHANGED <<runVars, end, committed, client, owned, position, marked, pending, closing, history>>

HandleLost ==
    /\ GateOpen /\ fenced
    /\ owned' = {} /\ fenced' = FALSE
    /\ UNCHANGED <<runVars, end, committed, client, position, marked, pending, closing, history, faults>>

(* Another member handles one record and commits behind it.  Without a      *)
(* committed offset it starts where the reset policy says, whatever this    *)
(* member remembers: at the end it waits for the next append, and gives up  *)
(* all that lies before.                                                    *)
OtherMember(p) ==
    /\ (p \notin owned \/ fenced)
    /\ LET atEnd == committed[p] < 0 /\ ~FromBeginning
           start == IF committed[p] >= 0 THEN committed[p] ELSE IF FromBeginning THEN 0 ELSE end[p]
       IN /\ IF atEnd THEN end[p] < LogEnd /\ end' = [end EXCEPT ![p] = @ + 1]
                      ELSE start < end[p] /\ UNCHANGED end
          /\ committed' = [committed EXCEPT ![p] = start + 1]
          /\ handled' = [handled EXCEPT ![p] = @ \cup {start}]
          /\ excused' = [excused EXCEPT ![p] = IF atEnd THEN @ \cup 0..(start - 1) ELSE @]
    /\ UNCHANGED <<runVars, client, owned, fenced, position, marked, pending,
                   closing, fetched, attempts, faults>>

BackgroundCommit ==
    /\ mode = "auto" /\ ~fenced /\ \E p \in owned : marked[p] > committed[p]
    /\ CommitMarked(owned)
    /\ UNCHANGED <<runVars, end, client, owned, fenced, position, marked, pending,
                   closing, history, faults>>

-----------------------------------------------------------------------------
(* A run.                                                                   *)

(* beginRun: a discarded client is rebuilt and joins again.                 *)
BeginRun ==
    /\ run = "idle" /\ closing = "no"
    /\ run' = "polling" /\ client' = "up"
    /\ UNCHANGED <<mode, batch, wave, phase, failed, end, committed, owned, fenced,
                   position, marked, pending, closing, history, faults>>

(* rememberRecoveryPositions merges by the earliest offset; closed          *)
(* consumers remember nothing.                                              *)
Remember(at) ==
    [p \in Partitions |->
        IF closing # "no" \/ at[p] < 0 THEN pending[p]
        ELSE IF pending[p] >= 0 /\ pending[p] < at[p] THEN pending[p] ELSE at[p]]
(* SetOffsets: the client fetches from there again, if it still owns it.    *)
SetOffsets(at) ==
    [p \in Partitions |-> IF at[p] >= 0 /\ p \in owned THEN at[p] ELSE position[p]]

Fetchable(p, n) == {position[p] + i : i \in 0..(n - 1)}

(* PollRecords moves every position past what it returns.                   *)
Polled(count) ==
    /\ \A p \in Partitions : count[p] > 0 => p \in owned /\ position[p] + count[p] <= end[p]
    /\ fetched' = [p \in Partitions |-> fetched[p] \cup Fetchable(p, count[p])]

(* A good poll starts one worker per partition returned.                    *)
Poll ==
    /\ run = "polling" /\ closing = "no"
    /\ \E count \in [Partitions -> 0..MaxRecords] :
         /\ Polled(count) /\ \E p \in Partitions : count[p] > 0
         /\ position' = [p \in Partitions |-> position[p] + count[p]]
         /\ wave' = [p \in Partitions |-> Fetchable(p, count[p])]
         /\ phase' = [p \in Partitions |-> IF count[p] > 0 THEN "next" ELSE "done"]
    /\ run' = "wave" /\ failed' = Each(None)
    /\ UNCHANGED <<mode, batch, end, committed, client, owned, fenced, marked, pending,
                   closing, handled, excused, attempts, faults>>

(* pollKafkaJSRecords with a transient error beside records: no handler saw *)
(* them, so each partition goes back to its first one.                      *)
PollErrorWithRecords ==
    /\ run = "polling" /\ closing = "no" /\ Fault
    /\ \E count \in [Partitions -> 0..MaxRecords] :
         /\ Polled(count) /\ \E p \in Partitions : count[p] > 0
         /\ LET first == [p \in Partitions |-> IF count[p] > 0 THEN position[p] ELSE None]
            IN pending' = Remember(first)
    /\ run' = "idle"
    /\ UNCHANGED <<mode, batch, wave, phase, failed, end, committed, client, owned, fenced,
                   position, marked, closing, handled, excused, attempts>>

(* prepareTransientRunRetry without a position discards the client, whose   *)
(* last revoke may still commit the marks.                                  *)
PollErrorAlone ==
    /\ run = "polling" /\ closing = "no" /\ Fault
    /\ CommitMarked(owned)
    /\ run' = "idle" /\ client' = "none" /\ owned' = {} /\ fenced' = FALSE
    /\ UNCHANGED <<mode, batch, wave, phase, failed, end, position, marked, pending,
                   closing, history>>

(* Any other error fails the run for good.                                  *)
PollErrorForGood ==
    /\ run = "polling" /\ closing = "no" /\ Fault
    /\ run' = "dead"
    /\ UNCHANGED <<mode, batch, wave, phase, failed, end, groupVars, closing, history>>

(* The records a worker resolves next: one message, or its whole group.     *)
Unit(p) == IF batch THEN wave[p] ELSE {Least(wave[p])}
First(p) == Least(Unit(p))
\* Mutant: the offset committed is the one behind the whole group.
LastOfGroup(p) == Most(wave[p])
Last(p) == Most(Unit(p))

(* completeRecoveryPosition.                                                *)
Complete(p) == [pending EXCEPT ![p] = IF @ <= Last(p) THEN None ELSE @]

Fail(p, at) ==
    /\ failed' = [failed EXCEPT ![p] = at] /\ phase' = [phase EXCEPT ![p] = "done"]
    /\ UNCHANGED wave
Resolved(p) ==
    /\ wave' = [wave EXCEPT ![p] = @ \ Unit(p)]
    /\ phase' = [phase EXCEPT ![p] = IF wave[p] = Unit(p) THEN "done" ELSE "next"]
    /\ UNCHANGED failed

(* A synchronous commit is refused to a fenced member; it may also be       *)
(* applied and its answer lost.                                             *)
CommitTo(p, ok) ==
    \/ /\ ok /\ ~fenced /\ NoFault
       /\ committed' = [committed EXCEPT ![p] = Last(p) + 1]
    \/ /\ ~ok /\ fenced /\ NoFault /\ UNCHANGED committed
    \/ /\ ~ok /\ ~fenced /\ Fault
       /\ committed' \in {committed, [committed EXCEPT ![p] = Last(p) + 1]}

(* CommitBeforeHandler.                                                     *)
PreCommit(p) ==
    /\ run = "wave" /\ phase[p] = "next" /\ mode = "before"
    /\ \/ /\ CommitTo(p, TRUE)
          /\ pending' = Complete(p) /\ phase' = [phase EXCEPT ![p] = "handle"]
          /\ UNCHANGED <<wave, failed>>
          /\ UNCHANGED excused
       \/ /\ CommitTo(p, FALSE)
          /\ Fail(p, First(p)) /\ UNCHANGED pending
          /\ excused' = [excused EXCEPT ![p] = IF committed'[p] = committed[p] THEN @ ELSE @ \cup Unit(p)]
    /\ UNCHANGED <<mode, batch, run, end, client, owned, fenced, position, marked, closing,
                   handled, fetched, attempts>>

Called(p) == [attempts EXCEPT ![p] = [r \in Offsets |->
                 IF r \in Unit(p) /\ @[r] < 2 THEN @[r] + 1 ELSE @[r]]]

(* processRecord: the handler.  A failure after the commit is not delivered *)
(* again, and the run goes back only to the record that follows.            *)
\* Mutant: the run goes back to the record whose handler failed.
FailedOne(p) == First(p)
NextOf(p) == IF wave[p] = Unit(p) THEN None ELSE Last(p) + 1

Handle(p) ==
    /\ run = "wave" /\ phase[p] = (IF mode = "before" THEN "handle" ELSE "next")
    /\ attempts' = Called(p)
    /\ \/ /\ NoFault /\ handled' = [handled EXCEPT ![p] = @ \cup Unit(p)]
          /\ IF mode = "before" THEN Resolved(p) /\ pending' = Complete(p)
             ELSE /\ phase' = [phase EXCEPT ![p] = "resolve"]
                  /\ UNCHANGED <<wave, failed, pending>>
          /\ UNCHANGED <<excused, position>>
       \/ /\ Fault /\ UNCHANGED handled
          /\ \/ /\ mode = "before"
                /\ excused' = [excused EXCEPT ![p] = @ \cup Unit(p)]
                /\ Fail(p, NextOf(p)) /\ UNCHANGED <<pending, position>>
             \/ /\ mode \in {"auto", "after"}
                /\ Fail(p, First(p)) /\ UNCHANGED <<excused, pending, position>>
             \/ /\ mode \in Finalizers /\ phase' = [phase EXCEPT ![p] = "failed"]
                /\ UNCHANGED <<wave, failed, excused, pending, position>>
    /\ UNCHANGED <<mode, batch, run, end, committed, client, owned, fenced, marked, closing, fetched>>

(* The finalizer runs after every handler.  It may commit the record's own  *)
(* offset; a commit that fails is the error it returns.                     *)
FinalizerCommits(p) ==
    /\ run = "wave" /\ mode \in Finalizers /\ phase[p] \in {"resolve", "failed"} /\ ~fenced
    /\ committed' = [committed EXCEPT ![p] = First(p)]
    /\ UNCHANGED <<runVars, end, client, owned, fenced, position, marked, pending, closing,
                   history, faults>>

(* After a failed handler the finalizer returns an error, and the run goes  *)
(* back to the record; or it does not, and then the record is delivered     *)
(* again (RedeliverUnresolvedFinalizer) or passed over.                     *)
Finalize(p) ==
    /\ run = "wave" /\ phase[p] = "failed"
    /\ \/ Fail(p, First(p)) /\ UNCHANGED <<excused, marked, pending, position>>
       \/ /\ mode = "redeliver"
          /\ LET at == [Each(None) EXCEPT ![p] = First(p)]
             IN pending' = Remember(at) /\ position' = SetOffsets(at)
          /\ Fail(p, Rewound) /\ UNCHANGED <<excused, marked>>
       \/ /\ mode = "finalizer"
          /\ excused' = [excused EXCEPT ![p] = @ \cup Unit(p)]
          /\ marked' = [marked EXCEPT ![p] = Last(p) + 1]
          /\ Resolved(p) /\ pending' = Complete(p) /\ UNCHANGED position
    /\ UNCHANGED <<mode, batch, run, end, committed, client, owned, fenced, closing,
                   handled, fetched, attempts, faults>>

(* resolveKafkaJSRecord after the handler, or after its finalizer, which    *)
(* may also do without a commit (ResolveAfterSuccessfulFinalizer unset).    *)
Resolve(p) ==
    /\ run = "wave" /\ phase[p] = "resolve"
    /\ \/ /\ mode \in {"auto"} \cup Finalizers /\ NoFault
          /\ marked' = [marked EXCEPT ![p] = Last(p) + 1]
          /\ Resolved(p) /\ pending' = Complete(p) /\ UNCHANGED committed
       \/ /\ mode # "auto" /\ CommitTo(p, TRUE)
          /\ Resolved(p) /\ pending' = Complete(p) /\ UNCHANGED marked
       \/ /\ mode # "auto" /\ CommitTo(p, FALSE)
          /\ Fail(p, First(p)) /\ UNCHANGED <<marked, pending>>
    /\ UNCHANGED <<mode, batch, run, end, client, owned, fenced, position, closing, history>>

(* A cancelled run starts no further group.                                 *)
SkipGroup(p) ==
    /\ run = "wave" /\ phase[p] = "next" /\ closing = "requested"
    /\ phase' = [phase EXCEPT ![p] = "done"]
    /\ UNCHANGED <<mode, batch, run, wave, failed, end, groupVars, closing, history, faults>>

(* The end of a wave: any failure rewinds every failed partition and ends   *)
(* the run; a mere redelivery goes on polling; so does success.             *)
EndWave ==
    /\ run = "wave" /\ \A p \in Partitions : phase[p] = "done"
    /\ position' = SetOffsets(failed) /\ pending' = Remember(failed)
    /\ run' = IF closing = "requested" \/ (\E p \in Partitions : wave[p] # {} /\ failed[p] # Rewound)
              THEN "idle" ELSE "polling"
    /\ wave' = Each({}) /\ failed' = Each(None)
    /\ UNCHANGED <<mode, batch, phase, end, committed, client, owned, fenced, marked,
                   closing, history, faults>>

-----------------------------------------------------------------------------
(* Close, from a caller, a handler or a rebalance hook; finishClose waits   *)
(* for the run, then closes the client.                                     *)
RequestClose ==
    /\ closing = "no" /\ closing' = "requested"
    /\ run' = IF run = "polling" THEN "idle" ELSE run
    /\ UNCHANGED <<mode, batch, wave, phase, failed, end, groupVars, history, faults>>

FinishClose ==
    /\ closing = "requested" /\ run # "wave"
    /\ closing' = "done" /\ client' = "none" /\ owned' = {}
    /\ CommitMarked(owned)
    /\ UNCHANGED <<runVars, end, fenced, position, marked, pending, history, faults>>

Next ==
    \/ \E p \in Partitions :
         \/ Append1(p) \/ AssignPartition(p) \/ HandleRevoked(p) \/ OtherMember(p)
         \/ PreCommit(p) \/ Handle(p) \/ FinalizerCommits(p) \/ Finalize(p)
         \/ Resolve(p) \/ SkipGroup(p)
    \/ Fence \/ HandleLost \/ BackgroundCommit
    \/ BeginRun \/ Poll \/ PollErrorWithRecords \/ PollErrorAlone \/ PollErrorForGood
    \/ EndWave \/ RequestClose \/ FinishClose

Spec == Init /\ [][Next]_compatVars

-----------------------------------------------------------------------------
(* Properties.                                                              *)

Settled(p) == handled[p] \cup excused[p]

(* Where the member reads p from next: its position, or what the next       *)
(* assignment would start from.                                             *)
NextStart(p) == IF p \in owned /\ ~fenced THEN position[p] ELSE AdjustedStart(p)

(* Every record a poll ever returned is handled, still in its wave, or      *)
(* ahead of where reading will resume, through failed handlers, failed      *)
(* commits, mixed polls, reassignment and a rebuilt client, although the    *)
(* group has no committed offset and starts at the end of the log.  Records *)
(* are given up in four ways: committed before a handler that failed;       *)
(* passed over by a finalizer; skipped because what was resolved before     *)
(* them was not committed, by a failed last commit of the marks or by a     *)
(* finalizer that commits nothing; and lying before the end of the log      *)
(* where another member of a group without a commit began:                  *)
(* adjustRecoveryOffsets takes that member's commit for the completion of   *)
(* what this one remembers.                                                 *)
FetchedNeverLost ==
    (closing = "no" /\ run # "dead") =>
        \A p \in Partitions : \A r \in fetched[p] \ Settled(p) :
            r \in wave[p] \/ NextStart(p) <= r \/ Uncommitted(p)

(* No commit, by any mode, finalizer or other member, covers a record that  *)
(* was fetched and neither handled nor given up in one of those ways, save  *)
(* that CommitBeforeHandler covers the record in progress.                  *)
CommitsCoverSettled ==
    \A p \in Partitions : \A r \in fetched[p] \ Settled(p) :
        (r < committed[p]) => (mode = "before" /\ phase[p] = "handle")

(* With CommitBeforeHandler no record is handed to a handler twice.         *)
AtMostOnceDelivery ==
    mode = "before" => \A p \in Partitions, r \in Offsets : attempts[p][r] <= 1
=============================================================================
