-------------------------- MODULE MigrationRunner --------------------------
(***************************************************************************)
(* migration.Runner: processes with possibly different binaries apply and  *)
(* revert migrations under a lock or a renewable lease, and checkpoint     *)
(* each step in a shared state document.  A runner may crash, lose its     *)
(* lease without noticing, be cancelled, and see any call fail.            *)
(*                                                                         *)
(* Migrations are numbered in the order NewRunner sorts them.  Timestamps  *)
(* are left out: only whether a migration is recorded as applied matters.  *)
(***************************************************************************)
EXTENDS Integers, FiniteSets, FiniteSetsExt

CONSTANTS
    Runners,       \* processes that run migration commands
    N,             \* migrations 1 .. N exist
    Version,       \* the version of each migration
    Compiled,      \* per runner, the migrations of its binary
    Checksum,      \* per runner and migration, its checksum, 0 if none
    Irreversible,  \* migrations without a Down function
    LockKinds,     \* the kinds of lock in use, see fenced
    Commands,      \* the operations runners are asked for
    Nobody,        \* no lock holder
    MaxLeases,     \* bound on lock acquisitions
    MaxFaults      \* bound on failures, crashes, lease losses

Migrations == 1 .. N

ASSUME RunnerAssumption ==
    /\ N \in Nat
    /\ Version \in [Migrations -> Nat]
    /\ \A m, n \in Migrations : m <= n => Version[m] <= Version[n]
    /\ Compiled \in [Runners -> (SUBSET Migrations) \ {{}}]
    /\ Checksum \in [Runners -> [Migrations -> Nat]]
    /\ Irreversible \subseteq Migrations
    /\ LockKinds \subseteq BOOLEAN
    /\ Nobody \notin Runners
    /\ MaxLeases \in Nat /\ MaxFaults \in Nat

(* State: what the document records.  last is LastRunMigration, 0 if none. *)
Document == [applied : SUBSET Migrations, skipped : SUBSET Migrations,
             sums : [Migrations -> Nat], last : 0 .. N]
EmptyDocument == [applied |-> {}, skipped |-> {},
                  sums |-> [m \in Migrations |-> 0], last |-> 0]

(* A target is "latest", a version, or the ID of a migration.              *)
Targets == {[kind |-> "latest", n |-> 0]}
           \cup {[kind |-> "version", n |-> v] : v \in {Version[m] : m \in Migrations}}
           \cup {[kind |-> "id", n |-> m] : m \in Migrations}
NoTarget == [kind |-> "none", n |-> 0]

Operations == [kind : {"run"}, from : Targets \cup {NoTarget}, to : Targets]
              \cup [kind : {"revert"}, from : {NoTarget}, to : Targets]
              \cup {[kind |-> "revertOne", from |-> NoTarget, to |-> NoTarget]}

ASSUME CommandsAssumption == Commands \subseteq Operations

VARIABLES
    fenced,   \* TRUE: LeaseLocker and FencedStore; FALSE: Locker
    doc,      \* the state document in the store
    up,       \* migrations whose effect is in the application's datastore
    token,    \* fence token of the latest acquisition
    holder,   \* who holds the lock or the lease
    job,      \* what each runner is doing
    faults    \* faults so far

vars == <<fenced, doc, up, token, holder, job, faults>>

(* from and to are the resolved range, st the runner's copy of the state,  *)
(* ok the outcome so far; "held" is a process whose unlock failed.         *)
Job == [pc : {"idle", "load", "save", "step", "unlock", "held"}, op : Operations,
        from : 0 .. N, to : 0 .. N, tok : Nat, st : Document,
        cancelled : BOOLEAN, ok : BOOLEAN]

IdleJob == [pc |-> "idle",
            op |-> [kind |-> "revertOne", from |-> NoTarget, to |-> NoTarget],
            from |-> 0, to |-> 0, tok |-> 0, st |-> EmptyDocument,
            cancelled |-> FALSE, ok |-> FALSE]

TypeOK ==
    /\ fenced \in LockKinds
    /\ doc \in Document
    /\ up \subseteq Migrations
    /\ token \in Nat
    /\ holder \in Runners \cup {Nobody}
    /\ job \in [Runners -> Job]
    /\ faults \in Nat

Init ==
    /\ fenced \in LockKinds
    /\ doc = EmptyDocument
    /\ up = {}
    /\ token = 0
    /\ holder = Nobody
    /\ job = [r \in Runners |-> IdleJob]
    /\ faults = 0
----------------------------------------------------------------------------
Fault == faults < MaxFaults /\ faults' = faults + 1

SetJob(r, j) == job' = [job EXCEPT ![r] = j]

(* Mutant: an error returns without the deferred unlock.                   *)
FailedHoldsLock(j) == [j EXCEPT !.pc = "idle", !.ok = FALSE]

Failed(j) == [j EXCEPT !.pc = "unlock", !.ok = FALSE]
Finished(j) == [j EXCEPT !.pc = "unlock", !.ok = TRUE]

(* Mutant: a version target always resolves to its first migration.        *)
ResolveTargetFirst(r, target, firstInVersion) ==
    LET match == CASE target.kind = "latest"  -> Compiled[r]
                   [] target.kind = "version" -> {m \in Compiled[r] : Version[m] = target.n}
                   [] target.kind = "id"      -> {target.n} \cap Compiled[r]
    IN  IF match = {} THEN 0
        ELSE IF target.kind = "latest" THEN Max(match) ELSE Min(match)

(* resolveTarget: the first or the last migration of a version; 0 stands   *)
(* for a target that is not registered.                                    *)
ResolveTarget(r, target, firstInVersion) ==
    LET match == CASE target.kind = "latest"  -> Compiled[r]
                   [] target.kind = "version" -> {m \in Compiled[r] : Version[m] = target.n}
                   [] target.kind = "id"      -> {target.n} \cap Compiled[r]
    IN  IF match = {} THEN 0
        ELSE IF firstInVersion /\ target.kind # "latest" THEN Min(match) ELSE Max(match)

(* resolveRunRange: without From the range starts at the first migration.  *)
RunFrom(r, op) ==
    IF op.from = NoTarget THEN Min(Compiled[r]) ELSE ResolveTarget(r, op.from, TRUE)
RunTo(r, op) == ResolveTarget(r, op.to, FALSE)

(* validateState: no drift between the document and this binary.           *)
Valid(r, st) ==
    /\ \A m \in st.applied : /\ m \in Compiled[r]
                             /\ st.sums[m] # 0 => st.sums[m] = Checksum[r][m]
    /\ st.skipped \subseteq st.applied
    /\ \A m \in Migrations : st.sums[m] # 0 => m \in Compiled[r]

(* backfillChecksums                                                       *)
Backfilled(r, st) ==
    [st EXCEPT !.sums = [m \in Migrations |->
        IF m \in st.applied \cap Compiled[r] /\ st.sums[m] = 0
        THEN Checksum[r][m] ELSE st.sums[m]]]

SumOf(r, st, m) == IF Checksum[r][m] # 0 THEN Checksum[r][m] ELSE st.sums[m]

(* The document after migration m was applied ...                          *)
Recorded(r, st, m) ==
    [applied |-> st.applied \cup {m}, skipped |-> st.skipped \ {m},
     sums |-> [st.sums EXCEPT ![m] = SumOf(r, st, m)], last |-> m]

(* ... marked as skipped ...                                               *)
MarkSkipped(r, st, m) ==
    [st EXCEPT !.applied = @ \cup {m}, !.skipped = @ \cup {m},
               !.sums = [@ EXCEPT ![m] = SumOf(r, st, m)]]

LatestApplied(r, st) ==
    LET known == st.applied \cap Compiled[r]
    IN  IF known = {} THEN 0 ELSE Max(known)

(* ... or reverted.                                                        *)
Cleared(r, st, m) ==
    LET rest == [st EXCEPT !.applied = @ \ {m}, !.skipped = @ \ {m},
                           !.sums = [@ EXCEPT ![m] = 0]]
    IN  [rest EXCEPT !.last = LatestApplied(r, rest)]
----------------------------------------------------------------------------
(* withLock: a free lock is acquired, with a fresh fence token.  A lock    *)
(* that this process could not release is still its own.                   *)
Acquire(r, op) ==
    /\ (job[r].pc = "idle" /\ holder = Nobody) \/ (job[r].pc = "held" /\ ~fenced)
    /\ token < MaxLeases
    /\ holder' = r /\ token' = token + 1
    /\ SetJob(r, [IdleJob EXCEPT !.pc = "load", !.op = op, !.tok = token + 1])
    /\ UNCHANGED <<fenced, doc, up, faults>>

(* What the operation does with the state it loaded and found valid.       *)
Prepared(r, j, st) ==
    CASE j.op.kind = "run" ->
           LET from == RunFrom(r, j.op)
               to == RunTo(r, j.op)
               filled == Backfilled(r, st)
           IN  IF from = 0 \/ to = 0 \/ from > to THEN Failed(j)
               ELSE [j EXCEPT !.from = from, !.to = to, !.st = filled,
                              !.pc = IF filled # st THEN "save" ELSE "step"]
      [] OTHER ->
           LET to == IF j.op.kind = "revert" THEN ResolveTarget(r, j.op.to, TRUE)
                     ELSE LatestApplied(r, st)
               range == {m \in st.applied : m >= to}
           IN  IF to = 0 THEN IF j.op.kind = "revert" THEN Failed(j)
                              ELSE [Finished(j) EXCEPT !.st = st]
               ELSE IF (range \ st.skipped) \cap Irreversible # {} THEN Failed(j)
               ELSE [j EXCEPT !.to = to, !.st = st, !.pc = "step"]

(* loadState and validateState, then the checks before the first change.   *)
Load(r) ==
    LET j == job[r] IN
    /\ j.pc = "load"
    /\ \/ /\ j.cancelled \/ ~Valid(r, doc)
          /\ SetJob(r, Failed(j)) /\ UNCHANGED faults
       \/ ~j.cancelled /\ Fault /\ SetJob(r, Failed(j))
       \/ /\ ~j.cancelled /\ Valid(r, doc)
          /\ SetJob(r, Prepared(r, j, doc)) /\ UNCHANGED faults
    /\ UNCHANGED <<fenced, doc, up, token, holder>>

(* SaveFenced accepts the fence token of the latest acquisition only;      *)
(* without a lease the lock excludes other writers.                        *)
SaveAccepted(j) == fenced => j.tok = token

(* External: the application's migrations validate the token in the same   *)
(* transaction as their change, as FenceTokenFromContext asks them to.     *)
EffectAccepted(j) == fenced => j.tok = token

(* saveState, and the check of the context before it.  A failed write may  *)
(* have replaced the document.                                             *)
Save(r) ==
    LET j == job[r] IN
    /\ j.pc = "save"
    /\ \/ /\ ~j.cancelled /\ SaveAccepted(j)
          /\ doc' = j.st
          /\ SetJob(r, [j EXCEPT !.pc = "step"]) /\ UNCHANGED faults
       \/ /\ j.cancelled \/ ~SaveAccepted(j)
          /\ SetJob(r, Failed(j)) /\ UNCHANGED <<doc, faults>>
       \/ /\ ~j.cancelled /\ SaveAccepted(j) /\ Fault
          /\ doc' \in {doc, j.st}
          /\ SetJob(r, Failed(j))
    /\ UNCHANGED <<fenced, up, token, holder>>

(* The migrations Run still has to apply, and to mark as skipped after     *)
(* them; the ones Revert and RevertOne still have to revert.               *)
Pending(r, j) == {m \in Compiled[r] \ j.st.applied : j.from <= m /\ m <= j.to}
Earlier(r, j) == {m \in Compiled[r] \ j.st.applied : m < j.from}
Remaining(r, j) == {m \in Compiled[r] \cap j.st.applied : m >= j.to}

(* Calling Up or Down: change is the datastore with its effect, next the   *)
(* document to checkpoint.  The call may fail before or after its effect.  *)
Effect(r, change, next) ==
    LET j == job[r] IN
    \/ /\ j.cancelled \/ ~EffectAccepted(j)
       /\ SetJob(r, Failed(j)) /\ UNCHANGED <<up, faults>>
    \/ /\ ~j.cancelled /\ EffectAccepted(j)
       /\ up' = change
       /\ SetJob(r, [j EXCEPT !.pc = "save", !.st = next]) /\ UNCHANGED faults
    \/ /\ ~j.cancelled /\ EffectAccepted(j) /\ Fault
       /\ up' \in {up, change}
       /\ SetJob(r, Failed(j))

ApplyNext(r) ==
    LET j == job[r] IN
    /\ j.pc = "step" /\ j.op.kind = "run"
    /\ Pending(r, j) # {}
    /\ LET m == Min(Pending(r, j)) IN Effect(r, up \cup {m}, Recorded(r, j.st, m))
    /\ UNCHANGED <<fenced, doc, token, holder>>

(* Mutant: earlier migrations are suppressed before the range is applied.  *)
SkipFirst(r) ==
    LET j == job[r] IN
    /\ j.pc = "step" /\ j.op.kind = "run" /\ Earlier(r, j) # {}
    /\ SetJob(r, [j EXCEPT !.pc = "save",
                           !.st = MarkSkipped(r, j.st, Min(Earlier(r, j)))])
    /\ UNCHANGED <<fenced, doc, up, token, holder, faults>>

(* Only after the range has been applied, earlier ones are suppressed.     *)
SkipEarlier(r) ==
    LET j == job[r] IN
    /\ j.pc = "step" /\ j.op.kind = "run"
    /\ Pending(r, j) = {} /\ Earlier(r, j) # {}
    /\ SetJob(r, [j EXCEPT !.pc = "save",
                           !.st = MarkSkipped(r, j.st, Min(Earlier(r, j)))])
    /\ UNCHANGED <<fenced, doc, up, token, holder, faults>>

(* Mutant: Down runs before each step, but the state is saved once at the  *)
(* end of the range.                                                       *)
RevertBatched(r) ==
    LET j == job[r] IN
    /\ j.pc = "step" /\ j.op.kind # "run"
    /\ Remaining(r, j) # {}
    /\ LET m == Max(Remaining(r, j))
           next == Cleared(r, j.st, m)
       IN  \/ /\ up' = up \ {m}
              /\ SetJob(r, [j EXCEPT !.st = next,
                              !.pc = IF Remaining(r, [j EXCEPT !.st = next]) = {}
                                     THEN "save" ELSE "step"])
              /\ UNCHANGED faults
           \/ Fault /\ SetJob(r, Failed(j)) /\ UNCHANGED up
    /\ UNCHANGED <<fenced, doc, token, holder>>

(* revertState: newest first; a skipped migration has no effect to undo.   *)
RevertNext(r) ==
    LET j == job[r] IN
    /\ j.pc = "step" /\ j.op.kind # "run"
    /\ Remaining(r, j) # {}
    /\ LET m == Max(Remaining(r, j))
           next == Cleared(r, j.st, m)
       IN  IF m \in j.st.skipped
           THEN /\ SetJob(r, [j EXCEPT !.pc = "save", !.st = next])
                /\ UNCHANGED <<up, faults>>
           ELSE Effect(r, up \ {m}, next)
    /\ UNCHANGED <<fenced, doc, token, holder>>

Finish(r) ==
    LET j == job[r] IN
    /\ j.pc = "step"
    /\ IF j.op.kind = "run" THEN Pending(r, j) = {} /\ Earlier(r, j) = {}
       ELSE Remaining(r, j) = {}
    /\ SetJob(r, Finished(j))
    /\ UNCHANGED <<fenced, doc, up, token, holder, faults>>

(* The deferred unlock, whatever the outcome.  It may fail, which is       *)
(* reported: a lease then ends by expiry, a lock stays with its process.   *)
Unlock(r) ==
    /\ job[r].pc = "unlock"
    /\ \/ /\ holder' = IF holder = r THEN Nobody ELSE holder
          /\ SetJob(r, IdleJob) /\ UNCHANGED faults
       \/ /\ Fault /\ UNCHANGED holder
          /\ SetJob(r, IF fenced THEN IdleJob ELSE [IdleJob EXCEPT !.pc = "held", !.tok = job[r].tok])
    /\ UNCHANGED <<fenced, doc, up, token>>
----------------------------------------------------------------------------
(* A lease expires, unnoticed by the runner if that is still at work.      *)
ExpireLease ==
    /\ fenced /\ holder # Nobody
    /\ IF job[holder].pc = "idle" THEN UNCHANGED faults ELSE Fault
    /\ holder' = Nobody
    /\ UNCHANGED <<fenced, doc, up, token, job>>

(* The run context ends: because the lease was lost, or by the caller.     *)
Cancel(r) ==
    /\ job[r].pc \notin {"idle", "held"} /\ ~job[r].cancelled
    /\ IF holder # r THEN UNCHANGED faults ELSE Fault
    /\ SetJob(r, [job[r] EXCEPT !.cancelled = TRUE])
    /\ UNCHANGED <<fenced, doc, up, token, holder>>

(* The process dies, or ends with a lock it could not release.  A file     *)
(* lock dies with it, a lease stays until it expires.                      *)
Crash(r) ==
    /\ job[r].pc # "idle"
    /\ IF job[r].pc = "held" THEN UNCHANGED faults ELSE Fault
    /\ SetJob(r, IdleJob)
    /\ holder' = IF ~fenced /\ holder = r THEN Nobody ELSE holder
    /\ UNCHANGED <<fenced, doc, up, token>>

Step(r) ==
    \/ Load(r) \/ Save(r) \/ ApplyNext(r) \/ SkipEarlier(r) \/ RevertNext(r)
    \/ Finish(r) \/ Unlock(r)

Next ==
    \/ \E r \in Runners : Step(r) \/ Cancel(r) \/ Crash(r)
    \/ \E r \in Runners : \E op \in Commands : Acquire(r, op)
    \/ ExpireLease

Spec == Init /\ [][Next]_vars
----------------------------------------------------------------------------
(* A checkpoint changes the record of one migration at most, so no write   *)
(* undoes what another runner recorded: saves are fenced, and the copy a   *)
(* runner saves was loaded under the same lease (withLock, saveState).     *)
OneMigrationPerCheckpoint ==
    [][\E m \in Migrations :
          /\ doc'.applied \ {m} = doc.applied \ {m}
          /\ doc'.skipped \ {m} = doc.skipped \ {m}]_vars

(* The migrations whose record and effect disagree.                        *)
Drift == {m \in Migrations : (m \in up) # (m \in doc.applied \ doc.skipped)}

(* Each failure, crash or lost lease leaves at most one migration with an  *)
(* effect its record does not show, or the reverse, however operations and *)
(* runners follow each other (one checkpoint per step, in order).          *)
DriftBounded ==
    Cardinality(Drift) <= faults + Cardinality({r \in Runners : job[r].pc = "save"})

(* The runner never writes a document that a binary with every migration   *)
(* would refuse as drifted (validateState against all writers).            *)
NeverSelfDrift ==
    \A r \in Runners : Compiled[r] = Migrations => Valid(r, doc)

(* Run reports success only when, unless someone else has taken over,      *)
(* everything up to the target is recorded: for a version, all of it.      *)
RunReachesTarget ==
    \A r \in Runners :
        LET j == job[r] IN
        j.pc = "unlock" /\ j.ok /\ j.tok = token /\ j.op.kind = "run" =>
            \A m \in Compiled[r] :
                \/ j.op.to.kind = "latest"
                \/ j.op.to.kind = "version" /\ Version[m] <= j.op.to.n
                \/ j.op.to.kind = "id" /\ m <= j.op.to.n
                => m \in doc.applied

(* Earlier migrations are suppressed only by the run that is saving this   *)
(* document, before its own range, and when that whole range is recorded:  *)
(* a failure in the range suppresses nothing (the order of the two loops   *)
(* of Run).                                                                *)
SkipsFollowRange ==
    [][\A m \in doc'.skipped \ doc.skipped :
          \E r \in Runners :
              LET j == job[r] IN
              /\ j.pc = "save" /\ j.op.kind = "run" /\ doc' = j.st /\ m < j.from
              /\ \A n \in Compiled[r] : j.from <= n /\ n <= j.to => n \in doc.applied]_vars

(* What the runners write stays readable by the newest binary, and a run   *)
(* that reports success has recorded everything up to its target.          *)
RunsAreSound == NeverSelfDrift /\ RunReachesTarget

(* A checkpoint records one migration and suppresses earlier ones only     *)
(* behind a complete range: no writer undoes what another one recorded.    *)
CheckpointsAreSound == OneMigrationPerCheckpoint /\ SkipsFollowRange
----------------------------------------------------------------------------
(* Fairness: a runner that has work to do is scheduled, and a lease that   *)
(* nobody renews any more ends with its time to live.                      *)
AbandonedLeaseExpires == ExpireLease /\ job[holder].pc = "idle"

LiveSpec ==
    /\ Spec
    /\ \A r \in Runners : WF_vars(Step(r))
    /\ WF_vars(AbandonedLeaseExpires)

(* The lock is free again eventually, whatever failed: every operation     *)
(* ends, withLock unlocks on every way out of it, and what a dead or       *)
(* failing runner leaves locked is freed by the system or by expiry.  Only *)
(* a lock whose own release failed, which is reported, may stay.           *)
LockReleased ==
    holder # Nobody ~> \/ holder = Nobody
                       \/ \E r \in Runners : holder = r /\ job[r].pc = "held"
============================================================================
