----------------------- MODULE MigrationRunnerProofs -----------------------
(***************************************************************************)
(* Proofs about the migration runner, for every set of runners, binaries,  *)
(* migrations and commands, with a lock or a lease, and every number of    *)
(* acquisitions and faults.                                                *)
(***************************************************************************)
EXTENDS MigrationRunner, FiniteSetTheorems, WellFoundedInduction, TLAPS

Working(r) == job[r].pc # "idle"

(* The runner of the latest acquisition: the only one whose saves and      *)
(* effects are accepted.                                                   *)
Current(r) == Working(r) /\ job[r].tok = token

(* A token belongs to one operation.  With a lease the current runner may  *)
(* have lost it, but nobody else holds it then; a lock is held by whoever  *)
(* works.                                                                  *)
LockInv ==
    /\ \A r \in Runners : Working(r) => 0 < job[r].tok /\ job[r].tok <= token
    /\ \A r, s \in Runners : Current(r) /\ Current(s) => r = s
    /\ \A r \in Runners : Working(r) /\ holder = r => Current(r)
    /\ \A r \in Runners : Current(r) => holder \in {r, Nobody}
    /\ ~fenced => \A r \in Runners : Working(r) => holder = r

(* What holds of every document, stored or held by a runner: skipped ones  *)
(* are recorded, and a checksum is one of some binary's.                   *)
DocumentOK(st) ==
    /\ st.skipped \subseteq st.applied
    /\ \A m \in Migrations : st.sums[m] # 0 => \E r \in Runners : st.sums[m] = Checksum[r][m]

DocumentsOK == DocumentOK(doc) /\ \A r \in Runners : DocumentOK(job[r].st)

(* Two documents that differ in the record of one migration at most.       *)
SameBut(m, old, new) ==
    /\ new.applied \ {m} = old.applied \ {m}
    /\ new.skipped \ {m} = old.skipped \ {m}

(* The range of a run, once resolved.                                      *)
RangeOK(r, j) ==
    /\ j.op.kind = "run"
    /\ j.pc \in {"save", "step"} \/ (j.pc = "unlock" /\ j.ok)
    => j.to = RunTo(r, j.op) /\ j.to # 0

RangeInv == \A r \in Runners : RangeOK(r, job[r])

(* The current runner's copy of the state is the stored one, or one step   *)
(* ahead of it.                                                            *)
RangeRecorded(r, j) ==
    \A n \in Compiled[r] : j.from <= n /\ n <= j.to => n \in doc.applied

CopyOK(r, j) ==
    /\ j.pc = "step" => doc = j.st
    /\ j.pc = "save" =>
         /\ \E m \in Migrations : SameBut(m, doc, j.st)
         /\ \/ j.st.skipped \subseteq doc.skipped
            \/ /\ j.op.kind = "run" /\ RangeRecorded(r, j)
               /\ \A m \in j.st.skipped \ doc.skipped : m < j.from
    /\ j.pc = "unlock" /\ j.ok /\ j.op.kind = "run" =>
         \A m \in Compiled[r] : m <= j.to => m \in doc.applied

CopyInv == \A r \in Runners : Current(r) => CopyOK(r, job[r])

(* The migrations that st would record otherwise than they are.            *)
DriftOf(st) == {m \in Migrations : (m \in up) # (m \in st.applied \ st.skipped)}

(* A checkpoint in preparation leaves drift alone, or ends that of the     *)
(* migration whose effect it records.                                      *)
SaveOK(j) ==
    j.pc = "save" => \/ DriftOf(j.st) = Drift
                     \/ \E m \in Drift : DriftOf(j.st) = Drift \ {m}

SaveInv == \A r \in Runners : Current(r) => SaveOK(job[r])

(* A fault counted for an operation before it had an effect: its lease was *)
(* lost or its context was cancelled.                                      *)
Doomed(r, j) == j.pc \in {"load", "step", "save"} /\ (j.cancelled \/ holder # r)

(* An effect whose record is being saved.                                  *)
Unrecorded(j) == j.pc = "save" /\ DriftOf(j.st) # Drift

Count(condition) == IF condition THEN 1 ELSE 0

DriftInv ==
    Cardinality(Drift) + Count(\E r \in Runners : Current(r) /\ Doomed(r, job[r]))
        <= faults + Count(\E r \in Runners : Current(r) /\ Unrecorded(job[r]))

(* So that the runners about to save can be counted.                       *)
Saving == {r \in Runners : job[r].pc = "save"}

IInv ==
    /\ TypeOK /\ LockInv /\ DocumentsOK /\ RangeInv /\ CopyInv /\ SaveInv /\ DriftInv
    /\ IsFiniteSet(Saving)
----------------------------------------------------------------------------
(* The least element of a set of numbers, and the greatest one of a bounded *)
(* set.                                                                    *)
LEMMA MinExists ==
    ASSUME NEW S \in SUBSET Nat, S # {}
    PROVE  Min(S) \in S /\ \A y \in S : Min(S) <= y
<1>1. \E x \in S : \A y \in S : ~(<<y, x>> \in OpToRel(<, Nat))
  BY WFMin, NatLessThanWellFounded
<1>2. PICK x \in S : \A y \in S : ~(<<y, x>> \in OpToRel(<, Nat))
  BY <1>1
<1>3. ASSUME NEW y \in S PROVE x <= y
  <2>1. y \in Nat /\ x \in Nat
    OBVIOUS
  <2>2. ~(<<y, x>> \in OpToRel(<, Nat))
    BY <1>2
  <2>3. ~(y < x)
    BY <2>1, <2>2, Zenon DEF OpToRel
  <2> QED BY <2>1, <2>3
<1>4. \A y \in S : x =< y
  BY <1>3
<1>5. Min(S) \in S /\ \A y \in S : Min(S) =< y
  BY <1>4, Zenon DEF Min
<1> QED BY <1>5

LEMMA MaxExists ==
    ASSUME NEW n \in Nat, NEW S \in SUBSET (1 .. n), S # {}
    PROVE  Max(S) \in S /\ \A y \in S : y <= Max(S)
<1> DEFINE T == {n - x : x \in S}
<1>1. T \in SUBSET Nat
  OBVIOUS
<1>2. T # {}
  BY Zenon
<1>3. Min(T) \in T /\ \A y \in T : Min(T) <= y
  BY <1>1, <1>2, MinExists
<1>4. PICK x \in S : Min(T) = n - x
  BY <1>3
<1>5. ASSUME NEW y \in S PROVE y <= x
  <2>1. n - y \in T /\ n - x <= n - y
    BY <1>3, <1>4
  <2> QED BY <2>1
<1>6. \A y \in S : x >= y
  BY <1>5
<1>7. Max(S) \in S /\ \A y \in S : Max(S) >= y
  BY <1>6, Zenon DEF Max
<1> QED BY <1>7

LEMMA MinMigration ==
    ASSUME NEW S \in SUBSET Migrations, S # {}
    PROVE  Min(S) \in S /\ \A y \in S : Min(S) <= y
BY MinExists, RunnerAssumption DEF Migrations

LEMMA MaxMigration ==
    ASSUME NEW S \in SUBSET Migrations, S # {}
    PROVE  Max(S) \in S /\ \A y \in S : y <= Max(S)
BY MaxExists, RunnerAssumption DEF Migrations
----------------------------------------------------------------------------
(* What the operators on documents return.                                 *)
LEMMA BackfilledFacts ==
    ASSUME NEW r \in Runners, NEW st \in Document
    PROVE  /\ Backfilled(r, st) \in Document
           /\ Backfilled(r, st).applied = st.applied
           /\ Backfilled(r, st).skipped = st.skipped
           /\ DocumentOK(st) => DocumentOK(Backfilled(r, st))
<1>1. \A m \in Migrations : Checksum[r][m] \in Nat
  BY RunnerAssumption
<1>2. st.sums \in [Migrations -> Nat]
  BY DEF Document
<1>3. Backfilled(r, st) \in Document
  BY <1>1, <1>2 DEF Document, Backfilled
<1>4. /\ Backfilled(r, st).applied = st.applied
      /\ Backfilled(r, st).skipped = st.skipped
  BY DEF Document, Backfilled
<1>5. ASSUME NEW m \in Migrations
      PROVE  Backfilled(r, st).sums[m] \in {st.sums[m], Checksum[r][m]}
  BY DEF Document, Backfilled
<1>6. DocumentOK(st) => DocumentOK(Backfilled(r, st))
  BY <1>4, <1>5 DEF DocumentOK
<1> QED BY <1>3, <1>4, <1>6

LEMMA RecordedFacts ==
    ASSUME NEW r \in Runners, NEW st \in Document, NEW m \in Migrations
    PROVE  /\ Recorded(r, st, m) \in Document
           /\ Recorded(r, st, m).applied = st.applied \cup {m}
           /\ Recorded(r, st, m).skipped = st.skipped \ {m}
           /\ DocumentOK(st) => DocumentOK(Recorded(r, st, m))
<1>1. st.sums \in [Migrations -> Nat] /\ Checksum[r][m] \in Nat /\ m \in 0 .. N
  BY RunnerAssumption DEF Document, Migrations
<1>2. SumOf(r, st, m) \in Nat /\ SumOf(r, st, m) \in {st.sums[m], Checksum[r][m]}
  BY <1>1 DEF SumOf
<1>3. Recorded(r, st, m) \in Document
  BY <1>1, <1>2 DEF Document, Recorded
<1>4. /\ Recorded(r, st, m).applied = st.applied \cup {m}
      /\ Recorded(r, st, m).skipped = st.skipped \ {m}
      /\ Recorded(r, st, m).sums = [st.sums EXCEPT ![m] = SumOf(r, st, m)]
  BY DEF Recorded
<1>5. DocumentOK(st) => DocumentOK(Recorded(r, st, m))
  BY <1>1, <1>2, <1>4 DEF DocumentOK
<1> QED BY <1>3, <1>4, <1>5

LEMMA MarkSkippedFacts ==
    ASSUME NEW r \in Runners, NEW st \in Document, NEW m \in Migrations
    PROVE  /\ MarkSkipped(r, st, m) \in Document
           /\ MarkSkipped(r, st, m).applied = st.applied \cup {m}
           /\ MarkSkipped(r, st, m).skipped = st.skipped \cup {m}
           /\ DocumentOK(st) => DocumentOK(MarkSkipped(r, st, m))
<1>1. st.sums \in [Migrations -> Nat] /\ Checksum[r][m] \in Nat
  BY RunnerAssumption DEF Document
<1>2. SumOf(r, st, m) \in Nat /\ SumOf(r, st, m) \in {st.sums[m], Checksum[r][m]}
  BY <1>1 DEF SumOf
<1>3. MarkSkipped(r, st, m) \in Document
  BY <1>1, <1>2 DEF Document, MarkSkipped
<1>4. /\ MarkSkipped(r, st, m).applied = st.applied \cup {m}
      /\ MarkSkipped(r, st, m).skipped = st.skipped \cup {m}
      /\ MarkSkipped(r, st, m).sums = [st.sums EXCEPT ![m] = SumOf(r, st, m)]
  BY DEF Document, MarkSkipped
<1>5. DocumentOK(st) => DocumentOK(MarkSkipped(r, st, m))
  BY <1>1, <1>2, <1>4 DEF DocumentOK
<1> QED BY <1>3, <1>4, <1>5

LEMMA LatestAppliedType ==
    ASSUME NEW r \in Runners, NEW st, st.applied \subseteq Migrations
    PROVE  LatestApplied(r, st) \in 0 .. N
<1> DEFINE known == st.applied \cap Compiled[r]
<1>1. known \in SUBSET Migrations
  OBVIOUS
<1>2. known # {} => Max(known) \in known
  BY <1>1, MaxMigration
<1>3. Migrations \subseteq 0 .. N /\ 0 \in 0 .. N
  BY RunnerAssumption DEF Migrations
<1> QED BY <1>1, <1>2, <1>3 DEF LatestApplied

LEMMA ClearedFacts ==
    ASSUME NEW r \in Runners, NEW st \in Document, NEW m \in Migrations
    PROVE  /\ Cleared(r, st, m) \in Document
           /\ Cleared(r, st, m).applied = st.applied \ {m}
           /\ Cleared(r, st, m).skipped = st.skipped \ {m}
           /\ DocumentOK(st) => DocumentOK(Cleared(r, st, m))
<1> DEFINE rest == [st EXCEPT !.applied = @ \ {m}, !.skipped = @ \ {m},
                              !.sums = [@ EXCEPT ![m] = 0]]
<1>1. /\ rest \in Document
      /\ rest.applied = st.applied \ {m}
      /\ rest.skipped = st.skipped \ {m}
      /\ rest.sums = [st.sums EXCEPT ![m] = 0]
  BY DEF Document
<1>2. LatestApplied(r, rest) \in 0 .. N
  BY <1>1, LatestAppliedType DEF Document
<1>3. Cleared(r, st, m) = [rest EXCEPT !.last = LatestApplied(r, rest)]
  BY DEF Cleared
<1> HIDE DEF rest
<1>4. /\ Cleared(r, st, m) \in Document
      /\ Cleared(r, st, m).applied = st.applied \ {m}
      /\ Cleared(r, st, m).skipped = st.skipped \ {m}
      /\ Cleared(r, st, m).sums = [st.sums EXCEPT ![m] = 0]
  BY <1>1, <1>2, <1>3 DEF Document
<1>5. st.sums \in [Migrations -> Nat]
  BY DEF Document
<1>6. DocumentOK(st) => DocumentOK(Cleared(r, st, m))
  BY <1>4, <1>5 DEF DocumentOK
<1> QED BY <1>4, <1>6

----------------------------------------------------------------------------
(* What a target resolves to.                                              *)
Match(r, target) ==
    CASE target.kind = "latest"  -> Compiled[r]
      [] target.kind = "version" -> {m \in Compiled[r] : Version[m] = target.n}
      [] target.kind = "id"      -> {target.n} \cap Compiled[r]

LEMMA CompiledType ==
    ASSUME NEW r \in Runners
    PROVE  Compiled[r] \subseteq Migrations /\ Compiled[r] # {}
BY RunnerAssumption

LEMMA MatchFacts ==
    ASSUME NEW r \in Runners, NEW target \in Targets
    PROVE  /\ target.kind \in {"latest", "version", "id"}
           /\ target.kind = "latest" => Match(r, target) = Compiled[r]
           /\ target.kind = "version" =>
                Match(r, target) = {m \in Compiled[r] : Version[m] = target.n}
           /\ target.kind = "id" => Match(r, target) = {target.n} \cap Compiled[r]
           /\ Match(r, target) \subseteq Migrations
<1>1. target.kind \in {"latest", "version", "id"}
  BY DEF Targets
<1>2. Compiled[r] \subseteq Migrations
  BY CompiledType
<1> QED BY <1>1, <1>2 DEF Match

LEMMA ResolveTargetType ==
    ASSUME NEW r \in Runners, NEW target \in Targets, NEW first \in BOOLEAN
    PROVE  ResolveTarget(r, target, first) \in 0 .. N
<1> DEFINE match == Match(r, target)
<1>1. match \in SUBSET Migrations
  BY MatchFacts
<1>2. match # {} => Min(match) \in match /\ Max(match) \in match
  BY <1>1, MinMigration, MaxMigration
<1>3. ResolveTarget(r, target, first) \in {0, Min(match), Max(match)}
      /\ (match = {} => ResolveTarget(r, target, first) = 0)
  BY Zenon DEF ResolveTarget, Match
<1>4. Migrations \subseteq 0 .. N /\ 0 \in 0 .. N
  BY RunnerAssumption DEF Migrations
<1> HIDE DEF match
<1> QED BY <1>1, <1>2, <1>3, <1>4

(* The target of a run covers every migration up to it: for a version, the *)
(* whole of it.                                                            *)
LEMMA RunToCovers ==
    ASSUME NEW r \in Runners, NEW op, op.to \in Targets, RunTo(r, op) # 0,
           NEW m \in Compiled[r],
           \/ op.to.kind = "latest"
           \/ op.to.kind = "version" /\ Version[m] <= op.to.n
           \/ op.to.kind = "id" /\ m <= op.to.n
    PROVE  m <= RunTo(r, op)
<1> DEFINE match == Match(r, op.to)
           last == RunTo(r, op)
<1>1. match \in SUBSET Migrations
  BY MatchFacts
<1>2. match # {} /\ last = Max(match)
  BY Zenon DEF RunTo, ResolveTarget, Match
<1>3. last \in match /\ \A y \in match : y <= last
  BY <1>1, <1>2, MaxMigration
<1>4. m \in Migrations /\ last \in Migrations /\ Migrations \subseteq Nat
  BY <1>1, <1>3, CompiledType, RunnerAssumption DEF Migrations
<1> SUFFICES m <= last
  OBVIOUS
<1> HIDE DEF last
<1>5. CASE op.to.kind = "latest"
  <2>1. m \in match
    BY <1>5, MatchFacts
  <2> QED BY <1>3, <2>1
<1>6. CASE op.to.kind = "version" /\ Version[m] <= op.to.n
  <2>1. Version[last] = op.to.n /\ (Version[m] = op.to.n => m \in match)
    BY <1>3, <1>6, MatchFacts
  <2>2. last <= m => Version[last] <= Version[m]
    BY <1>4, RunnerAssumption
  <2>3. Version[m] \in Nat /\ Version[last] \in Nat
    BY <1>4, RunnerAssumption
  <2>4. m \in match => m <= last
    BY <1>3
  <2>5. m \in Nat /\ last \in Nat
    BY <1>4
  <2> HIDE DEF match
  <2> QED BY <1>6, <2>1, <2>2, <2>3, <2>4, <2>5
<1>7. CASE op.to.kind = "id" /\ m <= op.to.n
  <2>1. last = op.to.n
    BY <1>3, <1>7, MatchFacts
  <2> QED BY <1>7, <2>1
<1> QED BY <1>5, <1>6, <1>7

LEMMA OperationFacts ==
    ASSUME NEW op \in Operations
    PROVE  /\ op.kind \in {"run", "revert", "revertOne"}
           /\ op.kind = "run" => op.to \in Targets /\ op.from \in Targets \cup {NoTarget}
           /\ op.kind = "revert" => op.to \in Targets
BY DEF Operations

(* What the handlers make of a runner's job.                               *)
LEMMA FailedFacts ==
    ASSUME NEW j \in Job
    PROVE  /\ Failed(j) \in Job
           /\ Failed(j).pc = "unlock" /\ Failed(j).ok = FALSE
           /\ Failed(j).op = j.op /\ Failed(j).tok = j.tok /\ Failed(j).st = j.st
BY DEF Failed, Job

LEMMA FinishedFacts ==
    ASSUME NEW j \in Job
    PROVE  /\ Finished(j) \in Job
           /\ Finished(j).pc = "unlock" /\ Finished(j).to = j.to
           /\ Finished(j).op = j.op /\ Finished(j).tok = j.tok /\ Finished(j).st = j.st
BY DEF Finished, Job

LEMMA PreparedFacts ==
    ASSUME NEW r \in Runners, NEW j \in Job, NEW st \in Document
    PROVE  LET k == Prepared(r, j, st) IN
           /\ k \in Job
           /\ k.op = j.op /\ k.tok = j.tok /\ k.cancelled = j.cancelled
           /\ k.pc \in {"save", "step", "unlock"}
           /\ k.pc = "unlock" => (k.ok => k.op.kind # "run") /\ k.st \in {j.st, st}
           /\ k.pc = "step" => k.st = st
           /\ k.pc = "save" => k.st = Backfilled(r, st)
           /\ k.op.kind = "run" /\ k.pc # "unlock" => k.to = RunTo(r, k.op) /\ k.to # 0
<1>1. j.op \in Operations
  BY DEF Job
<1>2. CASE j.op.kind = "run"
  <2> DEFINE from == RunFrom(r, j.op)
             to == RunTo(r, j.op)
             filled == Backfilled(r, st)
             k == [j EXCEPT !.from = from, !.to = to, !.st = filled,
                            !.pc = IF filled # st THEN "save" ELSE "step"]
  <2>1. Prepared(r, j, st) = IF from = 0 \/ to = 0 \/ from > to THEN Failed(j) ELSE k
    BY <1>2, Zenon DEF Prepared
  <2>2. to \in 0 .. N
    BY <1>1, <1>2, OperationFacts, ResolveTargetType DEF RunTo
  <2>3. from \in 0 .. N
    <3>1. CASE j.op.from = NoTarget
      <4>1. Min(Compiled[r]) \in Migrations
        BY CompiledType, MinMigration
      <4> QED BY <3>1, <4>1, RunnerAssumption DEF RunFrom, Migrations
    <3>2. CASE j.op.from # NoTarget
      BY <1>1, <1>2, <3>2, OperationFacts, ResolveTargetType DEF RunFrom
    <3> QED BY <3>1, <3>2
  <2>4. filled \in Document
    BY BackfilledFacts
  <2> HIDE DEF from, to, filled
  <2>5. /\ k \in Job /\ k.op = j.op /\ k.tok = j.tok /\ k.cancelled = j.cancelled
        /\ k.pc \in {"save", "step"} /\ k.st = filled /\ k.to = to
        /\ k.pc = "step" => filled = st
    BY <2>2, <2>3, <2>4 DEF Job
  <2> HIDE DEF k
  <2>6. CASE from = 0 \/ to = 0 \/ from > to
    <3>1. Prepared(r, j, st) = Failed(j) /\ Failed(j).cancelled = j.cancelled
      BY <2>1, <2>6 DEF Failed, Job
    <3> QED BY <3>1, FailedFacts
  <2>7. CASE ~(from = 0 \/ to = 0 \/ from > to)
    <3>1. Prepared(r, j, st) = k /\ to # 0
      BY <2>1, <2>7
    <3> QED BY <1>2, <2>5, <3>1 DEF to, filled
  <2> QED BY <2>6, <2>7
<1>3. CASE j.op.kind # "run"
  <2> DEFINE to == IF j.op.kind = "revert" THEN ResolveTarget(r, j.op.to, TRUE)
                   ELSE LatestApplied(r, st)
             k == [j EXCEPT !.to = to, !.st = st, !.pc = "step"]
             d == [Finished(j) EXCEPT !.st = st]
  <2>1. Prepared(r, j, st) \in {Failed(j), d, k}
    BY <1>3, Zenon DEF Prepared
  <2>2. to \in 0 .. N
    BY <1>1, OperationFacts, ResolveTargetType, LatestAppliedType DEF Document
  <2> HIDE DEF to
  <2>3. /\ k \in Job /\ k.op = j.op /\ k.tok = j.tok /\ k.cancelled = j.cancelled
        /\ k.pc = "step" /\ k.st = st
    BY <2>2 DEF Job
  <2>4. /\ d \in Job /\ d.op = j.op /\ d.tok = j.tok /\ d.cancelled = j.cancelled
        /\ d.pc = "unlock" /\ d.st = st
    BY DEF Job, Finished
  <2>5. Failed(j).cancelled = j.cancelled
    BY DEF Failed, Job
  <2> HIDE DEF k, d
  <2>6. CASE Prepared(r, j, st) = Failed(j)
    BY <1>3, <2>5, <2>6, FailedFacts
  <2>7. CASE Prepared(r, j, st) = d
    BY <1>3, <2>4, <2>7
  <2>8. CASE Prepared(r, j, st) = k
    BY <1>3, <2>3, <2>8
  <2> QED BY <2>1, <2>6, <2>7, <2>8
<1> QED BY <1>2, <1>3

----------------------------------------------------------------------------
(* A step that leaves the lock alone and replaces one runner's job.        *)
Moves(r, k) ==
    /\ Working(r) /\ k \in Job /\ k.pc # "idle"
    /\ k.tok = job[r].tok /\ k.op = job[r].op
    /\ SetJob(r, k)
    /\ UNCHANGED <<fenced, token, holder>>

LEMMA MovesFacts ==
    ASSUME TypeOK, LockInv, NEW r \in Runners, NEW k, Moves(r, k)
    PROVE  /\ job' \in [Runners -> Job]
           /\ job'[r] = k
           /\ \A s \in Runners : s # r => job'[s] = job[s]
           /\ \A s \in Runners : Current(s)' <=> Current(s)
           /\ LockInv'
<1>1. /\ job' \in [Runners -> Job] /\ job'[r] = k
      /\ \A s \in Runners : s # r => job'[s] = job[s]
  BY DEF TypeOK, Moves, SetJob
<1>2. \A s \in Runners : (job'[s].pc # "idle" <=> Working(s)) /\ job'[s].tok = job[s].tok
  BY <1>1 DEF Moves, Working
<1>3. \A s \in Runners : (Working(s)' <=> Working(s)) /\ (Current(s)' <=> Current(s))
  BY <1>2 DEF Moves, Working, Current
<1>4. LockInv'
  BY <1>2, <1>3 DEF LockInv, Moves
<1> QED BY <1>1, <1>3, <1>4

(* Only the current runner's saves and effects are accepted.               *)
LEMMA AcceptedIsCurrent ==
    ASSUME TypeOK, LockInv, NEW r \in Runners, Working(r),
           fenced => job[r].tok = token
    PROVE  Current(r)
<1>1. CASE fenced
  BY <1>1 DEF Current
<1>2. CASE ~fenced
  BY <1>2 DEF LockInv
<1> QED BY <1>1, <1>2

LEMMA DriftFinite ==
    ASSUME NEW S, S \subseteq Migrations
    PROVE  IsFiniteSet(S) /\ Cardinality(S) \in Nat
<1>1. IsFiniteSet(Migrations)
  BY FS_Interval, RunnerAssumption DEF Migrations
<1>2. IsFiniteSet(S)
  BY <1>1, FS_Subset
<1> QED BY <1>2, FS_CardinalityType

LEMMA SavingStaysFinite ==
    ASSUME IsFiniteSet(Saving), NEW r \in Runners, job \in [Runners -> Job],
           job' \in [Runners -> Job],
           \A s \in Runners : s # r => job'[s].pc \in {job[s].pc, "idle"}
    PROVE  IsFiniteSet(Saving)'
<1>1. IsFiniteSet(Saving \cup {r})
  BY FS_AddElement
<1>2. Saving' \subseteq Saving \cup {r}
  BY DEF Saving
<1> QED BY <1>1, <1>2, FS_Subset DEF Saving

(* Two counts of the current runner agree with what its job says.          *)
LEMMA CurrentCounts ==
    ASSUME LockInv, NEW r \in Runners, Current(r)
    PROVE  /\ (\E s \in Runners : Current(s) /\ Doomed(s, job[s])) <=> Doomed(r, job[r])
           /\ (\E s \in Runners : Current(s) /\ Unrecorded(job[s])) <=> Unrecorded(job[r])
BY DEF LockInv

(* A step that changes neither the document nor the datastore keeps the    *)
(* invariant if the new job is in order and the account of faults is kept. *)
LEMMA QuietStep ==
    ASSUME IInv, NEW r \in Runners, NEW k, Moves(r, k), UNCHANGED <<doc, up>>,
           faults' \in Nat, faults <= faults',
           RangeOK(r, k), DocumentOK(k.st),
           Current(r) => CopyOK(r, k) /\ SaveOK(k),
           Current(r) =>
               Count(Doomed(r, k)) + faults + Count(Unrecorded(job[r]))
                 <= faults' + Count(Unrecorded(k)) + Count(Doomed(r, job[r]))
    PROVE  IInv'
<1> USE DEF IInv
<1>1. /\ job' \in [Runners -> Job] /\ job'[r] = k
      /\ \A s \in Runners : s # r => job'[s] = job[s]
      /\ \A s \in Runners : Current(s)' <=> Current(s)
      /\ LockInv'
  BY MovesFacts
<1>2. TypeOK'
  BY <1>1 DEF TypeOK, Moves
<1>3. DocumentsOK'
  BY <1>1 DEF DocumentsOK, DocumentOK
<1>4. RangeInv'
  BY <1>1 DEF RangeInv
<1>5. \A s \in Runners : \A j : CopyOK(s, j)' <=> CopyOK(s, j)
  BY DEF CopyOK, RangeRecorded
<1>6. CopyInv'
  BY <1>1, <1>5 DEF CopyInv
<1>7. Drift' = Drift /\ \A st : DriftOf(st)' = DriftOf(st)
  BY DEF Drift, DriftOf
<1>8. SaveInv'
  BY <1>1, <1>7 DEF SaveInv, SaveOK
<1>9. holder' = holder
  BY DEF Moves
<1>10. /\ \A s \in Runners : s # r => (Doomed(s, job[s])' <=> Doomed(s, job[s]))
       /\ \A s \in Runners : s # r => (Unrecorded(job[s])' <=> Unrecorded(job[s]))
       /\ Doomed(r, job[r])' <=> Doomed(r, k)
       /\ Unrecorded(job[r])' <=> Unrecorded(k)
  BY <1>1, <1>7, <1>9 DEF Doomed, Unrecorded
<1>11. Cardinality(Drift) \in Nat /\ faults \in Nat
  BY DriftFinite DEF Drift, TypeOK
<1>12. DriftInv'
  <2>1. CASE Current(r)
    <3>1. /\ (\E s \in Runners : Current(s) /\ Doomed(s, job[s])) <=> Doomed(r, job[r])
          /\ (\E s \in Runners : Current(s) /\ Unrecorded(job[s])) <=> Unrecorded(job[r])
      BY <2>1, CurrentCounts
    <3>2. /\ (\E s \in Runners : Current(s) /\ Doomed(s, job[s]))' <=> Doomed(r, k)
          /\ (\E s \in Runners : Current(s) /\ Unrecorded(job[s]))' <=> Unrecorded(k)
      BY <1>1, <1>10, <2>1 DEF LockInv
    <3> QED BY <1>7, <1>11, <2>1, <3>1, <3>2 DEF DriftInv, Count
  <2>2. CASE ~Current(r)
    <3>1. /\ (\E s \in Runners : Current(s) /\ Doomed(s, job[s]))'
               <=> (\E s \in Runners : Current(s) /\ Doomed(s, job[s]))
          /\ (\E s \in Runners : Current(s) /\ Unrecorded(job[s]))'
               <=> (\E s \in Runners : Current(s) /\ Unrecorded(job[s]))
      BY <1>1, <1>10, <2>2
    <3> QED BY <1>7, <1>11, <3>1 DEF DriftInv, Count
  <2> QED BY <2>1, <2>2
<1>13. IsFiniteSet(Saving)'
  BY <1>1, SavingStaysFinite DEF TypeOK
<1> QED BY <1>1, <1>2, <1>3, <1>4, <1>6, <1>8, <1>12, <1>13

(* The current runner replaces the document by its copy.                   *)
LEMMA WriteStep ==
    ASSUME IInv, NEW r \in Runners, NEW k, Moves(r, k), Current(r),
           job[r].pc = "save", doc' = job[r].st, UNCHANGED up,
           faults' \in Nat, faults <= faults',
           k.st = job[r].st, k.pc = "step" \/ (k.pc = "unlock" /\ ~k.ok),
           RangeOK(r, k), Doomed(r, k) => Doomed(r, job[r])
    PROVE  IInv'
<1> USE DEF IInv
<1>1. /\ job' \in [Runners -> Job] /\ job'[r] = k
      /\ \A s \in Runners : s # r => job'[s] = job[s]
      /\ \A s \in Runners : Current(s)' <=> Current(s)
      /\ LockInv'
  BY MovesFacts
<1>2. \A s \in Runners : Current(s)' => s = r
  BY <1>1 DEF LockInv
<1>3. job[r].st \in Document
  BY DEF TypeOK, Job
<1>4. TypeOK'
  BY <1>1, <1>3 DEF TypeOK, Moves
<1>5. DocumentsOK'
  BY <1>1 DEF DocumentsOK, DocumentOK
<1>6. RangeInv'
  BY <1>1 DEF RangeInv
<1>7. CopyInv'
  BY <1>1, <1>2 DEF CopyInv, CopyOK
<1>8. SaveInv'
  BY <1>1, <1>2 DEF SaveInv, SaveOK
<1>9. Drift' = DriftOf(job[r].st)
  BY DEF Drift, DriftOf
<1>10. Cardinality(Drift') + Count(Unrecorded(job[r])) <= Cardinality(Drift)
  <2>1. CASE DriftOf(job[r].st) = Drift
    <3>1. Drift' = Drift /\ ~Unrecorded(job[r])
      BY <1>9, <2>1 DEF Unrecorded
    <3>2. Cardinality(Drift) \in Nat
      BY DriftFinite DEF Drift
    <3> QED BY <3>1, <3>2 DEF Count
  <2>2. CASE \E m \in Drift : DriftOf(job[r].st) = Drift \ {m}
    <3>1. PICK m \in Drift : DriftOf(job[r].st) = Drift \ {m}
      BY <2>2
    <3>2. IsFiniteSet(Drift) /\ Cardinality(Drift) \in Nat
      BY DriftFinite DEF Drift
    <3>3. Cardinality(Drift \ {m}) = Cardinality(Drift) - 1
      BY <3>2, FS_RemoveElement
    <3> QED BY <1>9, <3>1, <3>2, <3>3 DEF Count
  <2> QED BY <2>1, <2>2 DEF SaveInv, SaveOK
<1>11. /\ (\E s \in Runners : Current(s) /\ Doomed(s, job[s])) <=> Doomed(r, job[r])
       /\ (\E s \in Runners : Current(s) /\ Unrecorded(job[s])) <=> Unrecorded(job[r])
  BY CurrentCounts
<1>12. /\ (\E s \in Runners : Current(s) /\ Doomed(s, job[s]))' => Doomed(r, k)
       /\ ~(\E s \in Runners : Current(s) /\ Unrecorded(job[s]))'
  BY <1>1, <1>2 DEF Doomed, Unrecorded, Moves
<1>13. /\ Cardinality(Drift) \in Nat /\ Cardinality(Drift') \in Nat /\ faults \in Nat
  BY DriftFinite DEF Drift, TypeOK
<1>14. DriftInv'
  BY <1>10, <1>11, <1>12, <1>13 DEF DriftInv, Count
<1>15. IsFiniteSet(Saving)'
  BY <1>1, SavingStaysFinite DEF TypeOK
<1> QED BY <1>1, <1>4, <1>5, <1>6, <1>7, <1>8, <1>14, <1>15

(* The current runner changes the datastore for migration m: it goes on to *)
(* save the record of that, or it has failed, and a fault was counted.     *)
LEMMA EffectStep ==
    ASSUME IInv, NEW r \in Runners, NEW k, Moves(r, k), Current(r),
           job[r].pc = "step", UNCHANGED doc, faults' \in Nat,
           NEW m \in Migrations, up' \subseteq Migrations,
           \A n \in Migrations \ {m} : n \in up' <=> n \in up,
           RangeOK(r, k), DocumentOK(k.st),
           \/ /\ k.pc = "save" /\ k.cancelled = job[r].cancelled /\ faults' = faults
              /\ SameBut(m, doc, k.st) /\ k.st.skipped \subseteq doc.skipped
              /\ (m \in up') <=> (m \in k.st.applied \ k.st.skipped)
              /\ (m \in up') # (m \in doc.applied \ doc.skipped)
           \/ k.pc = "unlock" /\ ~k.ok /\ faults' = faults + 1
    PROVE  IInv'
<1> USE DEF IInv
<1>1. /\ job' \in [Runners -> Job] /\ job'[r] = k
      /\ \A s \in Runners : s # r => job'[s] = job[s]
      /\ \A s \in Runners : Current(s)' <=> Current(s)
      /\ LockInv'
  BY MovesFacts
<1>2. \A s \in Runners : Current(s)' => s = r
  BY <1>1 DEF LockInv
<1>3. TypeOK'
  BY <1>1 DEF TypeOK, Moves
<1>4. DocumentsOK'
  BY <1>1 DEF DocumentsOK, DocumentOK
<1>5. RangeInv'
  BY <1>1 DEF RangeInv
<1>6. CopyInv'
  BY <1>1, <1>2 DEF CopyInv, CopyOK, SameBut
<1>7. Drift' \subseteq Drift \cup {m}
  BY DEF Drift
<1>8. Cardinality(Drift') <= Cardinality(Drift) + 1
  <2>1. IsFiniteSet(Drift) /\ Cardinality(Drift) \in Nat
    BY DriftFinite DEF Drift
  <2>2. /\ IsFiniteSet(Drift \cup {m})
        /\ Cardinality(Drift \cup {m}) \in {Cardinality(Drift), Cardinality(Drift) + 1}
    BY <2>1, FS_AddElement
  <2>3. Cardinality(Drift') <= Cardinality(Drift \cup {m})
    BY <1>7, <2>2, FS_Subset
  <2>4. Cardinality(Drift') \in Nat
    BY DriftFinite DEF Drift
  <2> QED BY <2>1, <2>2, <2>3, <2>4
<1>9. /\ Cardinality(Drift) \in Nat /\ Cardinality(Drift') \in Nat /\ faults \in Nat
  BY DriftFinite DEF Drift, TypeOK
<1>10. /\ (\E s \in Runners : Current(s) /\ Doomed(s, job[s])) <=> Doomed(r, job[r])
       /\ ~(\E s \in Runners : Current(s) /\ Unrecorded(job[s]))
  BY CurrentCounts DEF Unrecorded
<1>11. CASE k.pc = "save"
  <2>1. m \in Drift' /\ DriftOf(k.st)' = Drift' \ {m}
    BY <1>11 DEF Drift, DriftOf, SameBut
  <2>2. SaveInv'
    BY <1>1, <1>2, <2>1 DEF SaveInv, SaveOK
  <2>3. (\E s \in Runners : Current(s) /\ Doomed(s, job[s]))' => Doomed(r, job[r])
    BY <1>1, <1>2, <1>11 DEF Doomed, Moves
  <2>4. Current(r)' /\ Unrecorded(job[r])'
    BY <1>1, <1>11, <2>1 DEF Unrecorded
  <2>5. DriftInv'
    BY <1>8, <1>9, <1>10, <1>11, <2>3, <2>4 DEF DriftInv, Count
  <2>6. IsFiniteSet(Saving)'
    BY <1>1, SavingStaysFinite DEF TypeOK
  <2> QED BY <1>1, <1>3, <1>4, <1>5, <1>6, <2>2, <2>5, <2>6
<1>12. CASE k.pc = "unlock"
  <2>1. SaveInv'
    BY <1>1, <1>2, <1>12 DEF SaveInv, SaveOK
  <2>2. ~(\E s \in Runners : Current(s) /\ Doomed(s, job[s]))'
    BY <1>1, <1>2, <1>12 DEF Doomed
  <2>3. DriftInv'
    BY <1>8, <1>9, <1>10, <1>12, <2>2 DEF DriftInv, Count
  <2>4. IsFiniteSet(Saving)'
    BY <1>1, SavingStaysFinite DEF TypeOK
  <2> QED BY <1>1, <1>3, <1>4, <1>5, <1>6, <2>1, <2>3, <2>4
<1> QED BY <1>11, <1>12
----------------------------------------------------------------------------
(* An operation fails without a change: because of a fault that is counted *)
(* with this step, because it was cancelled or refused, or before it had   *)
(* an effect to record.                                                    *)
LEMMA GiveUp ==
    ASSUME IInv, NEW r \in Runners, Working(r), SetJob(r, Failed(job[r])),
           UNCHANGED <<fenced, token, holder, doc, up>>,
           \/ faults' = faults + 1
           \/ /\ faults' = faults
              /\ job[r].pc # "save" \/ job[r].cancelled \/ ~Current(r)
    PROVE  IInv'
<1> DEFINE k == Failed(job[r])
<1>1. job[r] \in Job /\ faults \in Nat
  BY DEF IInv, TypeOK
<1>2. /\ k \in Job /\ k.pc = "unlock" /\ k.ok = FALSE
      /\ k.op = job[r].op /\ k.tok = job[r].tok /\ k.st = job[r].st
  BY <1>1, FailedFacts
<1> HIDE DEF k
<1>3. Moves(r, k)
  BY <1>2 DEF Moves, k
<1>4. RangeOK(r, k) /\ CopyOK(r, k) /\ SaveOK(k)
  BY <1>2 DEF RangeOK, CopyOK, SaveOK
<1>5. DocumentOK(k.st)
  BY <1>2 DEF IInv, DocumentsOK
<1>6. ~Doomed(r, k) /\ ~Unrecorded(k)
  BY <1>2 DEF Doomed, Unrecorded
<1>7. faults' = faults /\ Current(r) => (Unrecorded(job[r]) => Doomed(r, job[r]))
  BY <1>1 DEF Unrecorded, Doomed
<1>8. faults' \in Nat /\ faults <= faults'
  BY <1>1
<1>9. Current(r) => Count(Doomed(r, k)) + faults + Count(Unrecorded(job[r]))
                       <= faults' + Count(Unrecorded(k)) + Count(Doomed(r, job[r]))
  BY <1>1, <1>6, <1>7 DEF Count
<1> QED BY <1>3, <1>4, <1>5, <1>8, <1>9, QuietStep

LEMMA LoadKeeps ==
    ASSUME IInv, NEW r \in Runners, Load(r)
    PROVE  IInv'
<1>1. /\ job[r].pc = "load" /\ Working(r)
      /\ UNCHANGED <<fenced, token, holder, doc, up>>
  BY DEF Load, Working
<1>2. CASE SetJob(r, Failed(job[r])) /\ faults' \in {faults, faults + 1}
  BY <1>1, <1>2, GiveUp
<1>3. CASE SetJob(r, Prepared(r, job[r], doc)) /\ UNCHANGED faults
  <2> DEFINE k == Prepared(r, job[r], doc)
  <2>1. /\ job[r] \in Job /\ doc \in Document /\ faults \in Nat
        /\ DocumentOK(doc) /\ DocumentOK(job[r].st)
    BY DEF IInv, TypeOK, DocumentsOK
  <2>2. /\ k \in Job
        /\ k.op = job[r].op /\ k.tok = job[r].tok /\ k.cancelled = job[r].cancelled
        /\ k.pc \in {"save", "step", "unlock"}
        /\ k.pc = "unlock" => (k.ok => k.op.kind # "run") /\ k.st \in {job[r].st, doc}
        /\ k.pc = "step" => k.st = doc
        /\ k.pc = "save" => k.st = Backfilled(r, doc)
        /\ k.op.kind = "run" /\ k.pc # "unlock" => k.to = RunTo(r, k.op) /\ k.to # 0
    BY <2>1, PreparedFacts
  <2> HIDE DEF k
  <2>3. Moves(r, k)
    BY <1>1, <1>3, <2>2 DEF Moves, k
  <2>4. /\ Backfilled(r, doc).applied = doc.applied
        /\ Backfilled(r, doc).skipped = doc.skipped
        /\ DocumentOK(Backfilled(r, doc))
    BY <2>1, BackfilledFacts
  <2>5. DocumentOK(k.st)
    BY <2>1, <2>2, <2>4
  <2>6. RangeOK(r, k)
    BY <2>2 DEF RangeOK
  <2>7. \E m : m \in Migrations
    BY CompiledType
  <2>8. CopyOK(r, k)
    BY <2>2, <2>4, <2>7 DEF CopyOK, SameBut
  <2>9. k.pc = "save" => DriftOf(k.st) = Drift
    BY <2>2, <2>4 DEF DriftOf, Drift
  <2>10. SaveOK(k) /\ ~Unrecorded(k) /\ ~Unrecorded(job[r])
    BY <1>1, <2>9 DEF SaveOK, Unrecorded
  <2>11. Doomed(r, k) => Doomed(r, job[r])
    BY <1>1, <2>2 DEF Doomed
  <2>12. Count(Doomed(r, k)) + faults + Count(Unrecorded(job[r]))
           <= faults' + Count(Unrecorded(k)) + Count(Doomed(r, job[r]))
    BY <1>3, <2>1, <2>10, <2>11 DEF Count
  <2> QED BY <1>1, <1>3, <2>1, <2>3, <2>5, <2>6, <2>8, <2>10, <2>12, QuietStep
<1> QED BY <1>2, <1>3 DEF Load, Fault

LEMMA SaveKeeps ==
    ASSUME IInv, NEW r \in Runners, Save(r)
    PROVE  IInv'
<1>1. /\ job[r].pc = "save" /\ Working(r) /\ job[r] \in Job /\ faults \in Nat
      /\ UNCHANGED <<fenced, token, holder, up>>
  BY DEF Save, Working, IInv, TypeOK
<1>2. SaveAccepted(job[r]) <=> Current(r)
  BY <1>1, AcceptedIsCurrent DEF SaveAccepted, Current, IInv
<1>3. CASE /\ ~job[r].cancelled /\ SaveAccepted(job[r])
           /\ doc' = job[r].st
           /\ SetJob(r, [job[r] EXCEPT !.pc = "step"]) /\ UNCHANGED faults
  <2> DEFINE k == [job[r] EXCEPT !.pc = "step"]
  <2>1. /\ k \in Job /\ k.pc = "step" /\ k.op = job[r].op /\ k.tok = job[r].tok
        /\ k.st = job[r].st /\ k.to = job[r].to /\ k.cancelled = job[r].cancelled
    BY <1>1 DEF Job
  <2> HIDE DEF k
  <2>2. Moves(r, k)
    BY <1>1, <1>3, <2>1 DEF Moves, k
  <2>3. RangeOK(r, k)
    BY <1>1, <2>1 DEF RangeOK, IInv, RangeInv
  <2>4. Doomed(r, k) => Doomed(r, job[r])
    BY <1>1, <2>1 DEF Doomed
  <2> QED BY <1>1, <1>2, <1>3, <2>1, <2>2, <2>3, <2>4, WriteStep
<1>4. CASE /\ job[r].cancelled \/ ~SaveAccepted(job[r])
           /\ SetJob(r, Failed(job[r])) /\ UNCHANGED <<doc, faults>>
  BY <1>1, <1>2, <1>4, GiveUp
<1>5. CASE /\ ~job[r].cancelled /\ SaveAccepted(job[r]) /\ Fault
           /\ doc' \in {doc, job[r].st}
           /\ SetJob(r, Failed(job[r]))
  <2>1. faults' = faults + 1
    BY <1>5 DEF Fault
  <2>2. CASE doc' = doc
    BY <1>1, <1>5, <2>1, <2>2, GiveUp
  <2>3. CASE doc' = job[r].st
    <3> DEFINE k == Failed(job[r])
    <3>1. /\ k \in Job /\ k.pc = "unlock" /\ k.ok = FALSE
          /\ k.op = job[r].op /\ k.tok = job[r].tok /\ k.st = job[r].st
      BY <1>1, FailedFacts
    <3> HIDE DEF k
    <3>2. Moves(r, k)
      BY <1>1, <1>5, <3>1 DEF Moves, k
    <3>3. RangeOK(r, k) /\ ~Doomed(r, k)
      BY <3>1 DEF RangeOK, Doomed
    <3> QED BY <1>1, <1>2, <1>5, <2>1, <2>3, <3>1, <3>2, <3>3, WriteStep
  <2> QED BY <1>5, <2>2, <2>3
<1> QED BY <1>3, <1>4, <1>5 DEF Save

(* Up or Down of migration m, for both kinds of operation.                 *)
LEMMA EffectKeeps ==
    ASSUME IInv, NEW r \in Runners, job[r].pc = "step",
           UNCHANGED <<fenced, doc, token, holder>>,
           NEW change, NEW next \in Document, Effect(r, change, next),
           NEW m \in Migrations, change \subseteq Migrations,
           \A n \in Migrations \ {m} : n \in change <=> n \in up,
           DocumentOK(next),
           doc = job[r].st =>
               /\ SameBut(m, doc, next) /\ next.skipped \subseteq doc.skipped
               /\ (m \in change) <=> (m \in next.applied \ next.skipped)
               /\ (m \in change) # (m \in doc.applied \ doc.skipped)
    PROVE  IInv'
<1>1. Working(r) /\ job[r] \in Job /\ faults \in Nat
  BY DEF Working, IInv, TypeOK
<1>2. EffectAccepted(job[r]) => Current(r)
  BY <1>1, AcceptedIsCurrent DEF EffectAccepted, IInv
<1>3. Current(r) => doc = job[r].st
  BY DEF IInv, CopyInv, CopyOK
<1>4. CASE /\ job[r].cancelled \/ ~EffectAccepted(job[r])
           /\ SetJob(r, Failed(job[r])) /\ UNCHANGED <<up, faults>>
  BY <1>1, <1>4, GiveUp
<1>5. CASE /\ ~job[r].cancelled /\ EffectAccepted(job[r])
           /\ up' = change
           /\ SetJob(r, [job[r] EXCEPT !.pc = "save", !.st = next])
           /\ UNCHANGED faults
  <2> DEFINE k == [job[r] EXCEPT !.pc = "save", !.st = next]
  <2>1. /\ k \in Job /\ k.pc = "save" /\ k.op = job[r].op /\ k.tok = job[r].tok
        /\ k.st = next /\ k.to = job[r].to /\ k.cancelled = job[r].cancelled
    BY <1>1 DEF Job
  <2> HIDE DEF k
  <2>2. Moves(r, k)
    BY <1>1, <1>5, <2>1 DEF Moves, k
  <2>3. RangeOK(r, k)
    BY <2>1 DEF RangeOK, IInv, RangeInv
  <2>4. /\ SameBut(m, doc, k.st) /\ k.st.skipped \subseteq doc.skipped
        /\ (m \in up') <=> (m \in k.st.applied \ k.st.skipped)
        /\ (m \in up') # (m \in doc.applied \ doc.skipped)
    BY <1>2, <1>3, <1>5, <2>1
  <2>5. up' \subseteq Migrations /\ \A n \in Migrations \ {m} : n \in up' <=> n \in up
    BY <1>5
  <2>6. Current(r) /\ faults' = faults /\ faults' \in Nat /\ DocumentOK(k.st)
    BY <1>1, <1>2, <1>5, <2>1
  <2> QED BY <2>1, <2>2, <2>3, <2>4, <2>5, <2>6, EffectStep
<1>6. CASE /\ ~job[r].cancelled /\ EffectAccepted(job[r]) /\ Fault
           /\ up' \in {up, change}
           /\ SetJob(r, Failed(job[r]))
  <2>1. faults' = faults + 1 /\ faults' \in Nat
    BY <1>1, <1>6 DEF Fault
  <2>2. CASE up' = up
    BY <1>1, <1>6, <2>1, <2>2, GiveUp
  <2>3. CASE up' = change
    <3> DEFINE k == Failed(job[r])
    <3>1. /\ k \in Job /\ k.pc = "unlock" /\ k.ok = FALSE
          /\ k.op = job[r].op /\ k.tok = job[r].tok /\ k.st = job[r].st
      BY <1>1, FailedFacts
    <3> HIDE DEF k
    <3>2. Moves(r, k)
      BY <1>1, <1>6, <3>1 DEF Moves, k
    <3>3. RangeOK(r, k) /\ DocumentOK(k.st)
      BY <3>1 DEF RangeOK, IInv, DocumentsOK
    <3>4. up' \subseteq Migrations /\ \A n \in Migrations \ {m} : n \in up' <=> n \in up
      BY <2>3
    <3>5. Current(r)
      BY <1>2, <1>6
    <3> QED BY <2>1, <3>1, <3>2, <3>3, <3>4, <3>5, EffectStep
  <2> QED BY <1>6, <2>2, <2>3
<1> QED BY <1>4, <1>5, <1>6 DEF Effect

LEMMA ApplyNextKeeps ==
    ASSUME IInv, NEW r \in Runners, ApplyNext(r)
    PROVE  IInv'
<1> DEFINE m == Min(Pending(r, job[r]))
           next == Recorded(r, job[r].st, m)
<1>1. /\ job[r].pc = "step" /\ Pending(r, job[r]) # {}
      /\ Effect(r, up \cup {m}, next)
      /\ UNCHANGED <<fenced, doc, token, holder>>
  BY DEF ApplyNext
<1>2. Pending(r, job[r]) \subseteq Migrations /\ Pending(r, job[r]) \cap job[r].st.applied = {}
  BY CompiledType DEF Pending
<1>3. m \in Migrations /\ m \notin job[r].st.applied
  BY <1>1, <1>2, MinMigration
<1> HIDE DEF m
<1>4. job[r].st \in Document /\ DocumentOK(job[r].st) /\ up \subseteq Migrations
  BY DEF IInv, TypeOK, Job, DocumentsOK
<1>5. /\ next \in Document /\ DocumentOK(next)
      /\ next.applied = job[r].st.applied \cup {m}
      /\ next.skipped = job[r].st.skipped \ {m}
  BY <1>3, <1>4, RecordedFacts
<1> HIDE DEF next
<1>6. doc = job[r].st =>
        /\ SameBut(m, doc, next) /\ next.skipped \subseteq doc.skipped
        /\ (m \in up \cup {m}) <=> (m \in next.applied \ next.skipped)
        /\ (m \in up \cup {m}) # (m \in doc.applied \ doc.skipped)
  BY <1>3, <1>5 DEF SameBut
<1>7. /\ up \cup {m} \subseteq Migrations
      /\ \A n \in Migrations \ {m} : n \in up \cup {m} <=> n \in up
  BY <1>3, <1>4
<1> QED BY <1>1, <1>3, <1>5, <1>6, <1>7, EffectKeeps

(* A runner prepares a checkpoint that needs no effect: it suppresses an   *)
(* earlier migration, or clears a suppressed one.                          *)
LEMMA CheckpointStep ==
    ASSUME IInv, NEW r \in Runners, job[r].pc = "step", NEW next \in Document,
           NEW m \in Migrations,
           SetJob(r, [job[r] EXCEPT !.pc = "save", !.st = next]),
           UNCHANGED <<fenced, doc, up, token, holder, faults>>,
           DocumentOK(next), SameBut(m, job[r].st, next),
           m \notin next.applied \ next.skipped,
           m \notin job[r].st.applied \ job[r].st.skipped,
           \/ next.skipped \subseteq job[r].st.skipped
           \/ /\ job[r].op.kind = "run" /\ m < job[r].from
              /\ \A n \in Compiled[r] :
                    job[r].from <= n /\ n <= job[r].to => n \in job[r].st.applied
    PROVE  IInv'
<1> DEFINE k == [job[r] EXCEPT !.pc = "save", !.st = next]
<1>1. job[r] \in Job /\ faults \in Nat /\ Working(r)
  BY DEF IInv, TypeOK, Working
<1>2. /\ k \in Job /\ k.pc = "save" /\ k.op = job[r].op /\ k.tok = job[r].tok
      /\ k.st = next /\ k.from = job[r].from /\ k.to = job[r].to
      /\ k.cancelled = job[r].cancelled
  BY <1>1 DEF Job
<1> HIDE DEF k
<1>3. Moves(r, k)
  BY <1>1, <1>2 DEF Moves, k
<1>4. RangeOK(r, k)
  BY <1>2 DEF RangeOK, IInv, RangeInv
<1>5. Current(r) => doc = job[r].st
  BY DEF IInv, CopyInv, CopyOK
<1>6. Current(r) => CopyOK(r, k)
  BY <1>2, <1>5 DEF CopyOK, RangeRecorded, SameBut
<1>7. Current(r) => DriftOf(k.st) = Drift
  BY <1>2, <1>5 DEF DriftOf, Drift, SameBut
<1>8. Current(r) => SaveOK(k) /\ ~Unrecorded(k) /\ ~Unrecorded(job[r])
  BY <1>7 DEF SaveOK, Unrecorded
<1>9. Doomed(r, k) => Doomed(r, job[r])
  BY <1>2 DEF Doomed
<1>10. Current(r) => Count(Doomed(r, k)) + faults + Count(Unrecorded(job[r]))
                        <= faults' + Count(Unrecorded(k)) + Count(Doomed(r, job[r]))
  BY <1>1, <1>8, <1>9 DEF Count
<1> QED BY <1>1, <1>2, <1>3, <1>4, <1>6, <1>8, <1>10, QuietStep

LEMMA SkipEarlierKeeps ==
    ASSUME IInv, NEW r \in Runners, SkipEarlier(r)
    PROVE  IInv'
<1> DEFINE m == Min(Earlier(r, job[r]))
           next == MarkSkipped(r, job[r].st, m)
<1>1. /\ job[r].pc = "step" /\ Pending(r, job[r]) = {} /\ Earlier(r, job[r]) # {}
      /\ job[r].op.kind = "run"
      /\ SetJob(r, [job[r] EXCEPT !.pc = "save", !.st = next])
      /\ UNCHANGED <<fenced, doc, up, token, holder, faults>>
  BY DEF SkipEarlier
<1>2. Earlier(r, job[r]) \subseteq Migrations /\ Earlier(r, job[r]) \cap job[r].st.applied = {}
  BY CompiledType DEF Earlier
<1>3. m \in Migrations /\ m \notin job[r].st.applied /\ m < job[r].from
  <2>1. m \in Earlier(r, job[r])
    BY <1>1, <1>2, MinMigration
  <2> QED BY <1>2, <2>1 DEF Earlier
<1> HIDE DEF m
<1>4. job[r].st \in Document /\ DocumentOK(job[r].st)
  BY DEF IInv, TypeOK, Job, DocumentsOK
<1>5. /\ next \in Document /\ DocumentOK(next)
      /\ next.applied = job[r].st.applied \cup {m}
      /\ next.skipped = job[r].st.skipped \cup {m}
  BY <1>3, <1>4, MarkSkippedFacts
<1> HIDE DEF next
<1>6. /\ SameBut(m, job[r].st, next)
      /\ m \notin next.applied \ next.skipped
      /\ m \notin job[r].st.applied \ job[r].st.skipped
  BY <1>3, <1>5 DEF SameBut
<1>7. \A n \in Compiled[r] :
         job[r].from <= n /\ n <= job[r].to => n \in job[r].st.applied
  BY <1>1 DEF Pending
<1> QED BY <1>1, <1>3, <1>5, <1>6, <1>7, CheckpointStep

LEMMA RevertNextKeeps ==
    ASSUME IInv, NEW r \in Runners, RevertNext(r)
    PROVE  IInv'
<1> DEFINE m == Max(Remaining(r, job[r]))
           next == Cleared(r, job[r].st, m)
<1>1. /\ job[r].pc = "step" /\ Remaining(r, job[r]) # {}
      /\ UNCHANGED <<fenced, doc, token, holder>>
      /\ IF m \in job[r].st.skipped
         THEN /\ SetJob(r, [job[r] EXCEPT !.pc = "save", !.st = next])
              /\ UNCHANGED <<up, faults>>
         ELSE Effect(r, up \ {m}, next)
  BY DEF RevertNext
<1>2. Remaining(r, job[r]) \subseteq Migrations /\ Remaining(r, job[r]) \subseteq job[r].st.applied
  BY CompiledType DEF Remaining
<1>3. m \in Migrations /\ m \in job[r].st.applied
  BY <1>1, <1>2, MaxMigration
<1> HIDE DEF m
<1>4. job[r].st \in Document /\ DocumentOK(job[r].st) /\ up \subseteq Migrations
  BY DEF IInv, TypeOK, Job, DocumentsOK
<1>5. /\ next \in Document /\ DocumentOK(next)
      /\ next.applied = job[r].st.applied \ {m}
      /\ next.skipped = job[r].st.skipped \ {m}
  BY <1>3, <1>4, ClearedFacts
<1> HIDE DEF next
<1>6. SameBut(m, job[r].st, next) /\ next.skipped \subseteq job[r].st.skipped
  BY <1>5 DEF SameBut
<1>7. CASE m \in job[r].st.skipped
  <2>1. m \notin next.applied \ next.skipped /\ m \notin job[r].st.applied \ job[r].st.skipped
    BY <1>5, <1>7
  <2>2. /\ SetJob(r, [job[r] EXCEPT !.pc = "save", !.st = next])
        /\ UNCHANGED <<fenced, doc, up, token, holder, faults>>
    BY <1>1, <1>7
  <2> QED BY <1>1, <1>3, <1>5, <1>6, <2>1, <2>2, CheckpointStep
<1>8. CASE m \notin job[r].st.skipped
  <2>1. Effect(r, up \ {m}, next)
    BY <1>1, <1>8
  <2>2. doc = job[r].st =>
          /\ SameBut(m, doc, next) /\ next.skipped \subseteq doc.skipped
          /\ (m \in up \ {m}) <=> (m \in next.applied \ next.skipped)
          /\ (m \in up \ {m}) # (m \in doc.applied \ doc.skipped)
    BY <1>3, <1>5, <1>6, <1>8
  <2>3. /\ up \ {m} \subseteq Migrations
        /\ \A n \in Migrations \ {m} : n \in up \ {m} <=> n \in up
    BY <1>4
  <2> QED BY <1>1, <1>3, <1>5, <2>1, <2>2, <2>3, EffectKeeps
<1> QED BY <1>7, <1>8

LEMMA FinishKeeps ==
    ASSUME IInv, NEW r \in Runners, Finish(r)
    PROVE  IInv'
<1> DEFINE k == Finished(job[r])
<1>1. /\ job[r].pc = "step" /\ SetJob(r, k)
      /\ UNCHANGED <<fenced, doc, up, token, holder, faults>>
      /\ job[r].op.kind = "run" => Pending(r, job[r]) = {} /\ Earlier(r, job[r]) = {}
  BY DEF Finish
<1>2. /\ job[r] \in Job /\ faults \in Nat /\ Working(r)
      /\ job[r].from \in Nat /\ job[r].to \in Nat
  BY <1>1, RunnerAssumption DEF IInv, TypeOK, Working, Job
<1>3. /\ k \in Job /\ k.pc = "unlock" /\ k.op = job[r].op /\ k.tok = job[r].tok
      /\ k.st = job[r].st /\ k.to = job[r].to
  BY <1>2, FinishedFacts
<1> HIDE DEF k
<1>4. Moves(r, k)
  BY <1>1, <1>2, <1>3 DEF Moves
<1>5. RangeOK(r, k)
  BY <1>1, <1>3 DEF RangeOK, IInv, RangeInv
<1>6. Current(r) => doc = job[r].st
  BY <1>1 DEF IInv, CopyInv, CopyOK
<1>7. Current(r) => CopyOK(r, k)
  <2>1. ASSUME Current(r), k.op.kind = "run", NEW m \in Compiled[r], m <= k.to
        PROVE  m \in doc.applied
    <3>1. m \in Nat
      BY CompiledType, RunnerAssumption DEF Migrations
    <3> QED BY <1>1, <1>2, <1>3, <1>6, <2>1, <3>1 DEF Pending, Earlier
  <2> QED BY <1>3, <2>1 DEF CopyOK
<1>8. /\ SaveOK(k) /\ ~Unrecorded(k) /\ ~Unrecorded(job[r]) /\ ~Doomed(r, k)
  BY <1>1, <1>3 DEF SaveOK, Unrecorded, Doomed
<1>9. Count(Doomed(r, k)) + faults + Count(Unrecorded(job[r]))
        <= faults' + Count(Unrecorded(k)) + Count(Doomed(r, job[r]))
  BY <1>1, <1>2, <1>8 DEF Count
<1>10. DocumentOK(k.st)
  BY <1>3 DEF IInv, DocumentsOK
<1> QED BY <1>1, <1>2, <1>4, <1>5, <1>7, <1>8, <1>9, <1>10, QuietStep

LEMMA CancelKeeps ==
    ASSUME IInv, NEW r \in Runners, Cancel(r)
    PROVE  IInv'
<1> DEFINE k == [job[r] EXCEPT !.cancelled = TRUE]
<1>1. /\ Working(r) /\ SetJob(r, k) /\ job[r] \in Job /\ faults \in Nat
      /\ UNCHANGED <<fenced, doc, up, token, holder>>
  BY DEF Cancel, Working, IInv, TypeOK
<1>2. /\ k \in Job /\ k.pc = job[r].pc /\ k.op = job[r].op /\ k.tok = job[r].tok
      /\ k.st = job[r].st /\ k.from = job[r].from /\ k.to = job[r].to /\ k.ok = job[r].ok
  BY <1>1 DEF Job
<1> HIDE DEF k
<1>3. Moves(r, k)
  BY <1>1, <1>2 DEF Moves, Working
<1>4. RangeOK(r, k) /\ DocumentOK(k.st)
  BY <1>2 DEF RangeOK, IInv, RangeInv, DocumentsOK
<1>5. Current(r) => CopyOK(r, k) /\ SaveOK(k)
  BY <1>2 DEF CopyOK, RangeRecorded, SaveOK, IInv, CopyInv, SaveInv
<1>6. Unrecorded(k) <=> Unrecorded(job[r])
  BY <1>2 DEF Unrecorded
<1>7. CASE holder # r /\ faults' = faults
  <2>1. Doomed(r, k) => Doomed(r, job[r])
    BY <1>2, <1>7 DEF Doomed
  <2>2. Count(Doomed(r, k)) + faults + Count(Unrecorded(job[r]))
          <= faults' + Count(Unrecorded(k)) + Count(Doomed(r, job[r]))
    BY <1>1, <1>6, <1>7, <2>1 DEF Count
  <2> QED BY <1>1, <1>3, <1>4, <1>5, <1>7, <2>2, QuietStep
<1>8. CASE faults' = faults + 1
  <2>1. Count(Doomed(r, k)) + faults + Count(Unrecorded(job[r]))
          <= faults' + Count(Unrecorded(k)) + Count(Doomed(r, job[r]))
    BY <1>1, <1>6, <1>8 DEF Count
  <2>2. faults' \in Nat /\ faults <= faults'
    BY <1>1, <1>8
  <2> QED BY <1>1, <1>3, <1>4, <1>5, <2>1, <2>2, QuietStep
<1> QED BY <1>7, <1>8 DEF Cancel, Fault
----------------------------------------------------------------------------
LEMMA EmptyDocumentFacts ==
    EmptyDocument \in Document /\ DocumentOK(EmptyDocument)
<1>1. 0 \in 0 .. N
  BY RunnerAssumption
<1> QED BY <1>1 DEF EmptyDocument, Document, DocumentOK

LEMMA IdleJobFacts ==
    /\ IdleJob \in Job /\ IdleJob.pc = "idle" /\ IdleJob.st = EmptyDocument
    /\ \A r : RangeOK(r, IdleJob)
<1>1. 0 \in 0 .. N
  BY RunnerAssumption
<1>2. IdleJob.op \in Operations
  BY DEF IdleJob, Operations
<1>3. IdleJob \in Job /\ IdleJob.pc = "idle" /\ IdleJob.st = EmptyDocument
  BY <1>1, <1>2, EmptyDocumentFacts DEF IdleJob, Job
<1> QED BY <1>3 DEF RangeOK

(* A runner ends: it unlocks, with or without success, or it dies.         *)
LEMMA LeaveStep ==
    ASSUME IInv, NEW r \in Runners, Working(r), SetJob(r, IdleJob),
           UNCHANGED <<fenced, doc, up, token>>,
           holder' = holder \/ (holder = r /\ holder' = Nobody),
           \/ faults' = faults + 1
           \/ faults' = faults /\ job[r].pc \in {"unlock", "held"}
    PROVE  IInv'
<1> USE DEF IInv
<1>1. /\ job' \in [Runners -> Job] /\ job'[r] = IdleJob
      /\ \A s \in Runners : s # r => job'[s] = job[s]
  BY IdleJobFacts DEF TypeOK, SetJob
<1>2. ~Working(r)' /\ ~Current(r)'
  BY <1>1, IdleJobFacts DEF Working, Current
<1>3. \A s \in Runners : s # r => (Working(s)' <=> Working(s)) /\ (Current(s)' <=> Current(s))
  BY <1>1 DEF Working, Current
<1>4. \A s \in Runners : s # r /\ Current(s) => (holder' = s <=> holder = s)
  BY DEF LockInv
<1>5. LockInv'
  <2>1. \A s \in Runners : Working(s)' => 0 < job'[s].tok /\ job'[s].tok <= token'
    BY <1>1, <1>2, <1>3 DEF LockInv
  <2>2. \A s, q \in Runners : Current(s)' /\ Current(q)' => s = q
    BY <1>2, <1>3 DEF LockInv
  <2>3. \A s \in Runners : Working(s)' /\ holder' = s => Current(s)'
    <3>1. ASSUME NEW s \in Runners, Working(s)', holder' = s PROVE Current(s)'
      <4>1. s # r /\ Nobody # s
        BY <1>2, <3>1, RunnerAssumption
      <4> QED BY <1>3, <3>1, <4>1 DEF LockInv
    <3> QED BY <3>1
  <2>4. \A s \in Runners : Current(s)' => holder' \in {s, Nobody}
    BY <1>2, <1>3 DEF LockInv
  <2>5. ~fenced' => \A s \in Runners : Working(s)' => holder' = s
    BY <1>2, <1>3 DEF LockInv
  <2> QED BY <2>1, <2>2, <2>3, <2>4, <2>5 DEF LockInv
<1>6. faults \in Nat /\ faults' \in Nat /\ Cardinality(Drift) \in Nat
  BY DriftFinite DEF TypeOK, Drift
<1>7. TypeOK'
  BY <1>1, <1>6 DEF TypeOK
<1>8. DocumentsOK'
  BY <1>1, IdleJobFacts, EmptyDocumentFacts DEF DocumentsOK, DocumentOK
<1>9. RangeInv'
  BY <1>1, IdleJobFacts DEF RangeInv
<1>10. \A s \in Runners : \A j : CopyOK(s, j)' <=> CopyOK(s, j)
  BY DEF CopyOK, RangeRecorded
<1>11. CopyInv'
  BY <1>1, <1>2, <1>3, <1>10 DEF CopyInv
<1>12. Drift' = Drift /\ \A st : DriftOf(st)' = DriftOf(st)
  BY DEF Drift, DriftOf
<1>13. SaveInv'
  BY <1>1, <1>2, <1>3, <1>12 DEF SaveInv, SaveOK
<1>14. (\E s \in Runners : Current(s) /\ Doomed(s, job[s]))'
         => \E s \in Runners : Current(s) /\ Doomed(s, job[s])
  BY <1>1, <1>2, <1>3, <1>4 DEF Doomed
<1>15. faults' = faults /\ (\E s \in Runners : Current(s) /\ Unrecorded(job[s]))
         => (\E s \in Runners : Current(s) /\ Unrecorded(job[s]))'
  BY <1>1, <1>3, <1>6, <1>12 DEF Unrecorded
<1>16. DriftInv'
  BY <1>6, <1>12, <1>14, <1>15 DEF DriftInv, Count
<1>17. IsFiniteSet(Saving)'
  BY <1>1, SavingStaysFinite DEF TypeOK
<1> QED BY <1>5, <1>7, <1>8, <1>9, <1>11, <1>13, <1>16, <1>17

(* A lock that could not be released stays with its process, and whatever  *)
(* the operation did has been saved or counted before.                     *)
LEMMA HoldStep ==
    ASSUME IInv, NEW r \in Runners, job[r].pc = "unlock", ~fenced,
           SetJob(r, [IdleJob EXCEPT !.pc = "held", !.tok = job[r].tok]),
           UNCHANGED <<fenced, doc, up, token, holder>>, faults' = faults + 1
    PROVE  IInv'
<1> USE DEF IInv
<1> DEFINE k == [IdleJob EXCEPT !.pc = "held", !.tok = job[r].tok]
<1>1. k \in Job /\ k.pc = "held" /\ k.tok = job[r].tok /\ k.st = EmptyDocument
  <2>1. job[r].tok \in Nat
    BY DEF TypeOK, Job
  <2> QED BY <2>1, IdleJobFacts DEF Job
<1> HIDE DEF k
<1>2. /\ job' \in [Runners -> Job] /\ job'[r] = k
      /\ \A s \in Runners : s # r => job'[s] = job[s]
  BY <1>1 DEF TypeOK, SetJob, k
<1>3. \A s \in Runners : /\ job'[s].tok = job[s].tok
                         /\ (Working(s)' <=> Working(s)) /\ (Current(s)' <=> Current(s))
  BY <1>1, <1>2 DEF Working, Current
<1>4. LockInv'
  BY <1>3 DEF LockInv
<1>5. faults \in Nat /\ faults' \in Nat /\ Cardinality(Drift) \in Nat
  BY DriftFinite DEF TypeOK, Drift
<1>6. TypeOK'
  BY <1>2, <1>5 DEF TypeOK
<1>7. DocumentsOK'
  BY <1>1, <1>2, EmptyDocumentFacts DEF DocumentsOK, DocumentOK
<1>8. RangeInv'
  BY <1>1, <1>2 DEF RangeInv, RangeOK
<1>9. \A s \in Runners : \A j : CopyOK(s, j)' <=> CopyOK(s, j)
  BY DEF CopyOK, RangeRecorded
<1>10. CopyInv'
  <2>1. CopyOK(r, k)
    BY <1>1 DEF CopyOK
  <2> QED BY <1>2, <1>3, <1>9, <2>1 DEF CopyInv
<1>11. Drift' = Drift /\ \A st : DriftOf(st)' = DriftOf(st)
  BY DEF Drift, DriftOf
<1>12. SaveInv'
  BY <1>1, <1>2, <1>3, <1>11 DEF SaveInv, SaveOK
<1>13. (\E s \in Runners : Current(s) /\ Doomed(s, job[s]))'
         => \E s \in Runners : Current(s) /\ Doomed(s, job[s])
  BY <1>1, <1>2, <1>3 DEF Doomed
<1>14. DriftInv'
  BY <1>5, <1>11, <1>13 DEF DriftInv, Count
<1>15. IsFiniteSet(Saving)'
  BY <1>2, SavingStaysFinite DEF TypeOK
<1> QED BY <1>4, <1>6, <1>7, <1>8, <1>10, <1>12, <1>14, <1>15

LEMMA UnlockKeeps ==
    ASSUME IInv, NEW r \in Runners, Unlock(r)
    PROVE  IInv'
<1>1. /\ job[r].pc = "unlock" /\ Working(r)
      /\ UNCHANGED <<fenced, doc, up, token>>
  BY DEF Unlock, Working
<1>2. Nobody # r
  BY RunnerAssumption
<1>3. CASE /\ holder' = (IF holder = r THEN Nobody ELSE holder) /\ UNCHANGED faults
           /\ SetJob(r, IdleJob)
  BY <1>1, <1>2, <1>3, LeaveStep
<1>4. CASE fenced /\ Fault /\ UNCHANGED holder /\ SetJob(r, IdleJob)
  BY <1>1, <1>4, LeaveStep DEF Fault
<1>5. CASE ~fenced /\ Fault /\ UNCHANGED holder
           /\ SetJob(r, [IdleJob EXCEPT !.pc = "held", !.tok = job[r].tok])
  BY <1>1, <1>5, HoldStep DEF Fault
<1> QED BY <1>3, <1>4, <1>5 DEF Unlock

LEMMA CrashKeeps ==
    ASSUME IInv, NEW r \in Runners, Crash(r)
    PROVE  IInv'
<1>1. /\ Working(r) /\ SetJob(r, IdleJob)
      /\ faults' = faults + 1 \/ (faults' = faults /\ job[r].pc = "held")
      /\ holder' = IF ~fenced /\ holder = r THEN Nobody ELSE holder
      /\ UNCHANGED <<fenced, doc, up, token>>
  BY DEF Crash, Working, Fault
<1>2. Nobody # r
  BY RunnerAssumption
<1> QED BY <1>1, <1>2, LeaveStep

LEMMA ExpireLeaseKeeps ==
    ASSUME IInv, ExpireLease
    PROVE  IInv'
<1> USE DEF IInv
<1>1. /\ fenced /\ holder \in Runners /\ holder' = Nobody
      /\ UNCHANGED <<fenced, doc, up, token, job>>
  BY DEF ExpireLease, TypeOK
<1>2. /\ faults \in Nat /\ faults' \in Nat /\ Cardinality(Drift) \in Nat
      /\ faults' = faults \/ faults' = faults + 1
      /\ faults' = faults => ~Working(holder)
  BY DriftFinite DEF ExpireLease, Fault, TypeOK, Drift, Working
<1>3. \A s \in Runners : (Working(s)' <=> Working(s)) /\ (Current(s)' <=> Current(s))
  BY <1>1 DEF Working, Current
<1>4. TypeOK'
  BY <1>1, <1>2 DEF TypeOK
<1>5. LockInv'
  BY <1>1, <1>3, RunnerAssumption DEF LockInv
<1>6. DocumentsOK' /\ RangeInv'
  BY <1>1 DEF DocumentsOK, DocumentOK, RangeInv
<1>7. \A s \in Runners : \A j : CopyOK(s, j)' <=> CopyOK(s, j)
  BY <1>1 DEF CopyOK, RangeRecorded
<1>8. CopyInv'
  BY <1>1, <1>3, <1>7 DEF CopyInv
<1>9. Drift' = Drift /\ \A st : DriftOf(st)' = DriftOf(st)
  BY <1>1 DEF Drift, DriftOf
<1>10. SaveInv'
  BY <1>1, <1>3, <1>9 DEF SaveInv, SaveOK
<1>11. (\E s \in Runners : Current(s) /\ Unrecorded(job[s]))'
          <=> \E s \in Runners : Current(s) /\ Unrecorded(job[s])
  BY <1>1, <1>3, <1>9 DEF Unrecorded
<1>12. faults' = faults => ~(\E s \in Runners : Current(s) /\ Doomed(s, job[s]))'
  <2>1. ASSUME faults' = faults, NEW s \in Runners, Current(s)' PROVE FALSE
    <3>1. Current(s) /\ holder # Nobody
      BY <1>1, <1>3, <2>1, RunnerAssumption
    <3>2. s = holder
      BY <3>1 DEF LockInv
    <3> QED BY <1>2, <2>1, <3>1, <3>2 DEF Current
  <2> QED BY <2>1
<1>13. DriftInv'
  BY <1>2, <1>9, <1>11, <1>12 DEF DriftInv, Count
<1>14. IsFiniteSet(Saving)'
  BY <1>1 DEF Saving
<1> QED BY <1>4, <1>5, <1>6, <1>8, <1>10, <1>13, <1>14

LEMMA AcquireKeeps ==
    ASSUME IInv, NEW r \in Runners, NEW op \in Commands, Acquire(r, op)
    PROVE  IInv'
<1> USE DEF IInv
<1> DEFINE k == [IdleJob EXCEPT !.pc = "load", !.op = op, !.tok = token + 1]
<1>1. /\ (job[r].pc = "idle" /\ holder = Nobody) \/ (job[r].pc = "held" /\ ~fenced)
      /\ holder' = r /\ token' = token + 1
      /\ SetJob(r, k) /\ UNCHANGED <<fenced, doc, up, faults>>
      /\ token \in Nat /\ faults \in Nat /\ r # Nobody
  BY RunnerAssumption DEF Acquire, TypeOK
<1>2. /\ k \in Job /\ k.pc = "load" /\ k.tok = token + 1 /\ k.st = EmptyDocument
      /\ ~k.cancelled
  <2>1. op \in Operations /\ token + 1 \in Nat
    BY <1>1, CommandsAssumption
  <2>2. k \in Job /\ k.pc = "load" /\ k.tok = token + 1 /\ k.st = IdleJob.st
    BY <2>1, IdleJobFacts DEF Job
  <2>3. k.cancelled = FALSE
    BY DEF IdleJob
  <2> QED BY <2>2, <2>3, IdleJobFacts
<1> HIDE DEF k
<1>3. /\ job' \in [Runners -> Job] /\ job'[r] = k
      /\ \A s \in Runners : s # r => job'[s] = job[s]
  BY <1>1, <1>2 DEF TypeOK, SetJob
<1>4. Working(r)' /\ Current(r)'
  BY <1>1, <1>2, <1>3 DEF Working, Current
<1>5. \A s \in Runners : s # r => (Working(s)' <=> Working(s)) /\ ~Current(s)'
  <2>1. ASSUME NEW s \in Runners, s # r PROVE (Working(s)' <=> Working(s)) /\ ~Current(s)'
    <3>1. job[s].tok \in Nat /\ (Working(s) => job[s].tok <= token)
      BY DEF TypeOK, Job, LockInv
    <3> QED BY <1>1, <1>3, <2>1, <3>1 DEF Working, Current
  <2> QED BY <2>1
<1>6. TypeOK'
  BY <1>1, <1>3 DEF TypeOK
<1>7. LockInv'
  <2>1. \A s \in Runners : Working(s)' => 0 < job'[s].tok /\ job'[s].tok <= token'
    <3>1. ASSUME NEW s \in Runners, Working(s)' PROVE 0 < job'[s].tok /\ job'[s].tok <= token'
      <4>1. CASE s = r
        BY <1>1, <1>2, <1>3, <4>1
      <4>2. CASE s # r
        <5>1. job[s].tok \in Nat /\ 0 < job[s].tok /\ job[s].tok <= token
          BY <1>5, <3>1, <4>2 DEF TypeOK, Job, LockInv
        <5> QED BY <1>1, <1>3, <4>2, <5>1
      <4> QED BY <4>1, <4>2
    <3> QED BY <3>1
  <2>2. ~fenced => \A s \in Runners : s # r => ~Working(s)
    BY <1>1, RunnerAssumption DEF LockInv, Working
  <2> QED BY <1>1, <1>4, <1>5, <2>1, <2>2 DEF LockInv
<1>8. DocumentsOK'
  BY <1>1, <1>2, <1>3, EmptyDocumentFacts DEF DocumentsOK, DocumentOK
<1>9. RangeInv'
  BY <1>2, <1>3 DEF RangeInv, RangeOK
<1>10. CopyInv'
  BY <1>2, <1>3, <1>5 DEF CopyInv, CopyOK
<1>11. SaveInv'
  BY <1>2, <1>3, <1>5 DEF SaveInv, SaveOK
<1>12. ~(\E s \in Runners : Current(s) /\ Doomed(s, job[s]))'
  BY <1>1, <1>2, <1>3, <1>5 DEF Doomed
<1>13. \A s \in Runners : Current(s) /\ Unrecorded(job[s]) => Doomed(s, job[s])
  BY <1>1, RunnerAssumption DEF Unrecorded, Doomed, Working, LockInv
<1>14. Drift' = Drift /\ Cardinality(Drift) \in Nat
  BY <1>1, DriftFinite DEF Drift
<1>15. DriftInv'
  BY <1>1, <1>12, <1>13, <1>14 DEF DriftInv, Count
<1>16. IsFiniteSet(Saving)'
  BY <1>3, SavingStaysFinite DEF TypeOK
<1> QED BY <1>6, <1>7, <1>8, <1>9, <1>10, <1>11, <1>15, <1>16
----------------------------------------------------------------------------
LEMMA InitEstablishes ==
    ASSUME Init
    PROVE  IInv
<1>1. \A r \in Runners : job[r] = IdleJob
  BY DEF Init
<1>2. \A r \in Runners : ~Working(r) /\ ~Current(r) /\ job[r].pc # "save"
  BY <1>1, IdleJobFacts DEF Working, Current
<1>3. TypeOK
  BY IdleJobFacts, EmptyDocumentFacts DEF Init, TypeOK
<1>4. LockInv
  BY <1>2 DEF LockInv
<1>5. DocumentsOK
  BY <1>1, IdleJobFacts, EmptyDocumentFacts DEF DocumentsOK, Init
<1>6. RangeInv
  BY <1>1, IdleJobFacts DEF RangeInv
<1>7. CopyInv /\ SaveInv
  BY <1>2 DEF CopyInv, SaveInv
<1>8. Drift = {} /\ Saving = {}
  BY <1>2 DEF Drift, Saving, Init, EmptyDocument
<1>9. Cardinality(Drift) = 0 /\ IsFiniteSet(Saving)
  BY <1>8, FS_EmptySet
<1>10. DriftInv
  BY <1>2, <1>9 DEF DriftInv, Count, Init
<1> QED BY <1>3, <1>4, <1>5, <1>6, <1>7, <1>9, <1>10 DEF IInv

LEMMA StutterKeeps ==
    ASSUME IInv, UNCHANGED vars
    PROVE  IInv'
<1> USE DEF IInv, vars
<1>1. \A s \in Runners : Working(s)' <=> Working(s)
  BY DEF Working
<1>2. \A s \in Runners : Current(s)' <=> Current(s)
  BY <1>1 DEF Current
<1>3. TypeOK' /\ LockInv' /\ DocumentsOK' /\ RangeInv'
  BY <1>1, <1>2 DEF TypeOK, LockInv, DocumentsOK, DocumentOK, RangeInv
<1>4. Drift' = Drift /\ \A st : DriftOf(st)' = DriftOf(st)
  BY DEF Drift, DriftOf
<1>5. CopyInv' /\ SaveInv'
  BY <1>2, <1>4 DEF CopyInv, CopyOK, RangeRecorded, SaveInv, SaveOK
<1>6. /\ (\E s \in Runners : Current(s) /\ Doomed(s, job[s]))'
           <=> \E s \in Runners : Current(s) /\ Doomed(s, job[s])
      /\ (\E s \in Runners : Current(s) /\ Unrecorded(job[s]))'
           <=> \E s \in Runners : Current(s) /\ Unrecorded(job[s])
  BY <1>2, <1>4 DEF Doomed, Unrecorded
<1>7. DriftInv'
  BY <1>4, <1>6 DEF DriftInv, Count
<1>8. IsFiniteSet(Saving)'
  BY DEF Saving
<1> QED BY <1>3, <1>5, <1>7, <1>8

LEMMA NextKeeps ==
    ASSUME IInv, [Next]_vars
    PROVE  IInv'
<1>1. ASSUME NEW r \in Runners, Step(r) PROVE IInv'
  <2>1. CASE Load(r)
    BY <2>1, LoadKeeps
  <2>2. CASE Save(r)
    BY <2>2, SaveKeeps
  <2>3. CASE ApplyNext(r)
    BY <2>3, ApplyNextKeeps
  <2>4. CASE SkipEarlier(r)
    BY <2>4, SkipEarlierKeeps
  <2>5. CASE RevertNext(r)
    BY <2>5, RevertNextKeeps
  <2>6. CASE Finish(r)
    BY <2>6, FinishKeeps
  <2>7. CASE Unlock(r)
    BY <2>7, UnlockKeeps
  <2> QED BY <1>1, <2>1, <2>2, <2>3, <2>4, <2>5, <2>6, <2>7 DEF Step
<1>2. ASSUME NEW r \in Runners, Cancel(r) PROVE IInv'
  BY <1>2, CancelKeeps
<1>3. ASSUME NEW r \in Runners, Crash(r) PROVE IInv'
  BY <1>3, CrashKeeps
<1>4. ASSUME NEW r \in Runners, NEW op \in Commands, Acquire(r, op) PROVE IInv'
  BY <1>4, AcquireKeeps
<1>5. CASE ExpireLease
  BY <1>5, ExpireLeaseKeeps
<1>6. CASE UNCHANGED vars
  BY <1>6, StutterKeeps
<1> QED BY <1>1, <1>2, <1>3, <1>4, <1>5, <1>6 DEF Next

(* The inductive invariant: who may write, how far each copy is ahead of   *)
(* the document, and which fault pays for which drift.                     *)
THEOREM Invariance == Spec => []IInv
<1>1. Init => IInv
  BY InitEstablishes
<1>2. IInv /\ [Next]_vars => IInv'
  BY NextKeeps
<1> QED BY <1>1, <1>2, PTL DEF Spec
----------------------------------------------------------------------------
(* Every variable keeps its type: in particular the copy of the state each *)
(* runner holds is a document, and its range one of the migrations.        *)
THEOREM TypeCorrect == Spec => []TypeOK
<1>1. IInv => TypeOK
  BY DEF IInv
<1> QED BY <1>1, Invariance, PTL

LEMMA DriftIsCharged ==
    ASSUME IInv
    PROVE  DriftBounded
<1>1. Cardinality(Drift) \in Nat /\ faults \in Nat
  BY DriftFinite DEF Drift, IInv, TypeOK
<1>2. IsFiniteSet(Saving) /\ Cardinality(Saving) \in Nat
  BY FS_CardinalityType DEF IInv
<1>3. Cardinality(Drift) <= faults + Count(\E r \in Runners : Current(r) /\ Unrecorded(job[r]))
  BY <1>1 DEF IInv, DriftInv, Count
<1>4. (\E r \in Runners : Current(r) /\ Unrecorded(job[r])) => Cardinality(Saving) >= 1
  <2>1. ASSUME NEW r \in Runners, Unrecorded(job[r]) PROVE Cardinality(Saving) # 0
    <3>1. Saving # {}
      BY <2>1 DEF Unrecorded, Saving
    <3> QED BY <1>2, <3>1, FS_EmptySet
  <2> QED BY <1>2, <2>1
<1>5. Cardinality(Drift) <= faults + Cardinality(Saving)
  BY <1>1, <1>2, <1>3, <1>4 DEF Count
<1> QED BY <1>5 DEF DriftBounded, Saving

(* At most one migration per fault, and one per checkpoint in progress,    *)
(* has an effect that the document does not show or a record without one:  *)
(* Run, Revert and RevertOne checkpoint each step before the next one, and *)
(* only the latest holder of the lock changes anything.                    *)
THEOREM DriftPerFault == Spec => []DriftBounded
<1>1. IInv => DriftBounded
  BY DriftIsCharged
<1> QED BY <1>1, Invariance, PTL

LEMMA TargetIsReached ==
    ASSUME IInv
    PROVE  RunReachesTarget
<1> SUFFICES ASSUME NEW r \in Runners, job[r].pc = "unlock", job[r].ok,
                    job[r].tok = token, job[r].op.kind = "run",
                    NEW m \in Compiled[r],
                    \/ job[r].op.to.kind = "latest"
                    \/ job[r].op.to.kind = "version" /\ Version[m] <= job[r].op.to.n
                    \/ job[r].op.to.kind = "id" /\ m <= job[r].op.to.n
             PROVE  m \in doc.applied
  BY DEF RunReachesTarget
<1>1. job[r].to = RunTo(r, job[r].op) /\ job[r].to # 0
  BY DEF IInv, RangeInv, RangeOK
<1>2. job[r].op \in Operations
  BY DEF IInv, TypeOK, Job
<1>3. job[r].op.to \in Targets
  BY <1>2, OperationFacts
<1>4. m <= job[r].to
  BY <1>1, <1>3, RunToCovers
<1>5. Current(r)
  BY DEF Current, Working
<1> QED BY <1>4, <1>5 DEF IInv, CopyInv, CopyOK

(* Run reports success only when everything up to its target is recorded,  *)
(* unless another operation has taken over: for a version, all of it       *)
(* (resolveTarget, the two loops of Run).                                  *)
THEOREM RunsReachTheirTarget == Spec => []RunReachesTarget
<1>1. IInv => RunReachesTarget
  BY TargetIsReached
<1> QED BY <1>1, Invariance, PTL

(* The migration sources agree: a migration that has a checksum in some    *)
(* binary has the same one in every binary with all migrations.            *)
ChecksumsAgree ==
    \A r, s \in Runners, m \in Migrations :
        Checksum[r][m] # 0 /\ Compiled[s] = Migrations => Checksum[r][m] = Checksum[s][m]

(* What the runners write stays readable by the newest binary, when the    *)
(* sources agree, and success means the target was reached (validateState, *)
(* backfillChecksums, Run).                                                *)
THEOREM RunsSound ==
    ASSUME ChecksumsAgree
    PROVE  Spec => []RunsAreSound
<1>1. ASSUME IInv, NEW r \in Runners, Compiled[r] = Migrations
      PROVE  Valid(r, doc)
  <2>1. doc \in Document /\ DocumentOK(doc)
    BY <1>1 DEF IInv, TypeOK, DocumentsOK
  <2>2. \A m \in Migrations : doc.sums[m] # 0 => doc.sums[m] = Checksum[r][m]
    BY <1>1, <2>1, ChecksumsAgree DEF DocumentOK, ChecksumsAgree
  <2>3. doc.applied \subseteq Migrations
    BY <2>1 DEF Document
  <2> QED BY <1>1, <2>1, <2>2, <2>3 DEF Valid, DocumentOK
<1>2. IInv => RunsAreSound
  BY <1>1, TargetIsReached DEF RunsAreSound, NeverSelfDrift
<1> QED BY <1>2, Invariance, PTL

(* Who replaces the document: a runner that is current and about to save.  *)
LEMMA WhoWrites ==
    ASSUME IInv, Next
    PROVE  \E r \in Runners : \/ doc' = doc
                              \/ /\ Current(r) /\ job[r].pc = "save"
                                 /\ doc' = job[r].st
<1>1. ASSUME NEW r \in Runners, Save(r)
      PROVE  doc' = doc \/ (Current(r) /\ job[r].pc = "save" /\ doc' = job[r].st)
  <2>1. job[r].pc = "save" /\ Working(r)
    BY <1>1 DEF Save, Working
  <2>2. SaveAccepted(job[r]) => Current(r)
    BY <2>1, AcceptedIsCurrent DEF SaveAccepted, IInv
  <2> QED BY <1>1, <2>1, <2>2 DEF Save
<1>2. ASSUME NEW r \in Runners, Step(r), ~Save(r)
      PROVE  doc' = doc
  BY <1>2 DEF Step, Load, ApplyNext, SkipEarlier, RevertNext, Finish, Unlock
<1>3. ASSUME NEW r \in Runners, Cancel(r) \/ Crash(r) \/ \E op \in Commands : Acquire(r, op)
      PROVE  doc' = doc
  BY <1>3 DEF Cancel, Crash, Acquire
<1>4. ExpireLease => doc' = doc /\ \E r : r \in Runners
  BY DEF ExpireLease, IInv, TypeOK
<1> QED BY <1>1, <1>2, <1>3, <1>4 DEF Next

(* A checkpoint changes the record of one migration, and suppresses        *)
(* earlier ones only for the run that saves it, before its range and with  *)
(* that range recorded as a whole: no writer undoes what another one       *)
(* recorded (withLock, SaveFenced, saveState).                             *)
THEOREM CheckpointsSound == Spec => CheckpointsAreSound
<1> DEFINE Skips(m) ==
        \E r \in Runners :
            LET j == job[r] IN
            /\ j.pc = "save" /\ j.op.kind = "run" /\ doc' = j.st /\ m < j.from
            /\ \A n \in Compiled[r] : j.from <= n /\ n <= j.to => n \in doc.applied
<1>1. ASSUME IInv, Next
      PROVE  /\ \E m \in Migrations : /\ doc'.applied \ {m} = doc.applied \ {m}
                                      /\ doc'.skipped \ {m} = doc.skipped \ {m}
             /\ \A m \in doc'.skipped \ doc.skipped : Skips(m)
  <2>1. PICK r \in Runners : \/ doc' = doc
                             \/ /\ Current(r) /\ job[r].pc = "save"
                                /\ doc' = job[r].st
    BY <1>1, WhoWrites
  <2>2. \E m : m \in Migrations
    BY CompiledType
  <2>3. CASE doc' = doc
    BY <2>2, <2>3
  <2>4. CASE Current(r) /\ job[r].pc = "save" /\ doc' = job[r].st
    <3>1. /\ \E m \in Migrations : SameBut(m, doc, job[r].st)
          /\ \/ job[r].st.skipped \subseteq doc.skipped
             \/ /\ job[r].op.kind = "run" /\ RangeRecorded(r, job[r])
                /\ \A m \in job[r].st.skipped \ doc.skipped : m < job[r].from
      BY <1>1, <2>4 DEF IInv, CopyInv, CopyOK
    <3>2. ASSUME NEW m \in doc'.skipped \ doc.skipped PROVE Skips(m)
      BY <2>4, <3>1, <3>2 DEF RangeRecorded
    <3> QED BY <2>4, <3>1, <3>2 DEF SameBut
  <2> QED BY <2>1, <2>3, <2>4
<1>2. IInv /\ [Next]_vars =>
        [\E m \in Migrations : /\ doc'.applied \ {m} = doc.applied \ {m}
                               /\ doc'.skipped \ {m} = doc.skipped \ {m}]_vars
  BY <1>1
<1>3. IInv /\ [Next]_vars => [\A m \in doc'.skipped \ doc.skipped : Skips(m)]_vars
  BY <1>1
<1>4. Spec => OneMigrationPerCheckpoint
  BY <1>2, Invariance, PTL DEF Spec, OneMigrationPerCheckpoint
<1>5. Spec => SkipsFollowRange
  BY <1>3, Invariance, PTL DEF Spec, SkipsFollowRange
<1> QED BY <1>4, <1>5 DEF CheckpointsAreSound
============================================================================
