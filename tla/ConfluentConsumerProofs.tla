---------------------- MODULE ConfluentConsumerProofs ----------------------
(***************************************************************************)
(* Proofs about the consume loop, for every number of partitions, records, *)
(* workers, rebalances and faults.                                         *)
(***************************************************************************)
EXTENDS ConfluentConsumer, TLAPS

(* Facts about the wave and its generations that the types rest on: a      *)
(* live worker's unit lies inside its group, and while reading, the driver *)
(* is past the records of every group it may still extend.                 *)
GroupOK(g) ==
    /\ g.gen <= generation
    /\ g.st \in {"admitted", "precommitted", "handled"} => g.gen # 0
    /\ g.gen # 0 /\ g.st \in {"queued", "admitted", "precommitted", "handled"} =>
          g.lo <= g.at /\ g.at <= g.hi
    /\ pc = "poll" /\ g.gen # 0 /\ g.gen = owned[g.part] => g.hi < position[g.part]

WaveOK ==
    /\ pc \notin {"poll", "dispatch", "filter"} => wave = <<>>
    /\ \A p \in Partitions : owned[p] <= generation
    /\ \A i \in DOMAIN wave : GroupOK(wave[i])

TypeInv == TypeOK /\ WaveOK

(* What each position of the Consume call keeps in its local variables.    *)
LocalsOK ==
    /\ pc \notin {"seek", "record", "reseek"} => plan = NoOffsets
    /\ pc \in {"poll", "dispatch", "filter", "seek", "record"} => pending = NoOffsets
    /\ pc = "poll" => \A i \in DOMAIN wave : wave[i].st = "queued"
    /\ pc = "filter" => \A i \in DOMAIN wave : wave[i].st \in {"done", "dropped", "failed"}

(* Ownership as the callbacks record it agrees with the driver's.          *)
OwnershipOK ==
    \A p \in Partitions : owned[p] # 0 => p \in assigned /\ p \notin revoked

(* A record is accounted for once a handler returned nil for it.  With     *)
(* CommitBeforeHandler it is once it reached a handler, its commit failed  *)
(* or the process stopped first, or it is committed and about to reach its *)
(* handler.                                                                *)
InHand(p) == UNION {Unit(wave[i]) : i \in {j \in DOMAIN wave :
                wave[j].part = p /\ wave[j].st = "precommitted"}}

Accounted == [p \in Partitions |->
                IF CommitMode = "before" THEN started[p] \cup excused[p] \cup InHand(p)
                ELSE handled[p]]

Reached(p, x) == Covers(Accounted[p], x)

(* Whatever offset the loop may still commit, store or rewind to has every *)
(* earlier record accounted for.                                           *)
OffsetsDone ==
    /\ \A p \in Partitions : Reached(p, committed[p])
    /\ \A p \in Partitions : stored[p] # None => Reached(p, stored[p])
    /\ \A p \in Partitions : plan[p] # None => Reached(p, plan[p])
    /\ \A p \in Partitions : pending[p] # None => Reached(p, pending[p])

(* The same for a worker, and what its state says about its unit.  A       *)
(* failed group that asks for nothing has no record left.                  *)
GroupDone(g, done) ==
    /\ g.gen # 0 /\ g.at # None => Covers(done, g.at)
    /\ g.st \notin {"queued", "dropped"} => g.gen # 0
    /\ g.st = "handled" => Unit(g) \subseteq done
    /\ g.st = "failed" => g.at <= g.hi \/ (g.at = None /\ Covers(done, g.hi + 1))
    /\ g.st = "done" => g.at = g.hi + 1
    /\ BatchMode /\ g.st \notin {"done", "failed"} => g.at = g.lo

WorkersDone == \A i \in DOMAIN wave : GroupDone(wave[i], Accounted[wave[i].part])

(* A driver positioned past a record of an owned partition that is not     *)
(* accounted for has it in the wave, in the plan or among the pending      *)
(* rewinds.                                                                *)
InWave(p) ==
    \E i \in DOMAIN wave : /\ wave[i].part = p /\ wave[i].gen = owned[p]
                           /\ wave[i].hi + 1 = position[p]
                           /\ wave[i].st # "dropped"

PositionsCovered ==
    ~closing => \A p \in Partitions : owned[p] # 0 =>
        \/ Reached(p, position[p])
        \/ pc \in {"seek", "record"} /\ plan[p] # None
        \/ pending[p] # None
        \/ InWave(p)

ReseekOK ==
    pc = "reseek" =>
        \A p \in Partitions : owned[p] # 0 /\ pending[p] # None => plan[p] # None

(* Rewinds are held for owned partitions: what the driver holds and no     *)
(* callback revoked is owned, and so is what a plan or a pending rewind    *)
(* names, unless it was revoked while the plan was carried out.            *)
RewindsOwned ==
    /\ pc \notin {"seek", "record", "reseek"} => plan = NoOffsets
    /\ \A p \in Partitions :
          /\ p \in assigned /\ p \notin revoked => owned[p] # 0
          /\ plan[p] # None /\ p \notin revoked => owned[p] # 0
          /\ pending[p] # None => owned[p] # 0

(* The inductive invariant.  NoSkip and NoSilentLoss say nothing of what   *)
(* the loop will commit next; this does, in every commit mode.             *)
Safe ==
    /\ LocalsOK /\ OwnershipOK /\ OffsetsDone
    /\ WorkersDone /\ PositionsCovered /\ ReseekOK

IInv == TypeInv /\ RewindsOwned /\ Safe
----------------------------------------------------------------------------
(* Replacing one element of a sequence.                                    *)
LEMMA SeqReplace ==
    ASSUME NEW S, NEW s \in Seq(S), NEW i \in DOMAIN s, NEW e \in S
    PROVE  /\ [s EXCEPT ![i] = e] \in Seq(S)
           /\ DOMAIN [s EXCEPT ![i] = e] = DOMAIN s
           /\ [s EXCEPT ![i] = e][i] = e
           /\ \A j \in DOMAIN s : j # i => [s EXCEPT ![i] = e][j] = s[j]
OBVIOUS

LEMMA SeqAppend ==
    ASSUME NEW S, NEW s \in Seq(S), NEW e \in S
    PROVE  /\ Append(s, e) \in Seq(S)
           /\ DOMAIN Append(s, e) = 1 .. Len(s) + 1 /\ DOMAIN s = 1 .. Len(s)
           /\ Append(s, e)[Len(s) + 1] = e
           /\ \A i \in DOMAIN s : Append(s, e)[i] = s[i]
           /\ \A i \in DOMAIN Append(s, e) : i \in DOMAIN s \/ i = Len(s) + 1
OBVIOUS

(* A function on the domain of a sequence is a sequence.                   *)
LEMMA SeqFun ==
    ASSUME NEW S, NEW s \in Seq(S), NEW f \in [DOMAIN s -> S]
    PROVE  f \in Seq(S) /\ DOMAIN f = DOMAIN s
<1>1. DOMAIN s = 1 .. Len(s) /\ Len(s) \in Nat
  OBVIOUS
<1> QED
  BY <1>1

LEMMA SetUpdate ==
    ASSUME NEW P, NEW f \in [P -> SUBSET Nat], NEW p \in P, NEW U \in SUBSET Nat
    PROVE  [f EXCEPT ![p] = @ \cup U] \in [P -> SUBSET Nat]
OBVIOUS

LEMMA OffsetFacts ==
    /\ 0 \in Offsets /\ None \in OptOffsets /\ None \notin Offsets
    /\ \A x \in OptOffsets : x # None => x \in Offsets
    /\ \A x \in Offsets : x \in OptOffsets /\ x \in Nat
    /\ \A x \in OptOffsets : x \in Nat
    /\ \A x \in Records : x \in Offsets /\ x + 1 \in Offsets /\ x \in Nat
    /\ \A x \in Offsets : x < LogEnd => x \in Records /\ x + 1 \in Offsets
    /\ NoOffsets \in [Partitions -> OptOffsets]
    /\ \A p \in Partitions : NoOffsets[p] = None
BY ConsumerAssumption DEF Offsets, OptOffsets, None, Records, NoOffsets

(* The ways a group changes.                                               *)
LEMMA GroupFacts ==
    ASSUME NEW g \in Group
    PROVE  /\ g.part \in Partitions /\ g.gen \in Nat /\ g.st \in GroupStates
           /\ g.lo \in Records /\ g.hi \in Records /\ g.at \in OptOffsets
           /\ g.lo \in Nat /\ g.hi \in Nat /\ g.at \in Nat
BY OffsetFacts DEF Group

LEMMA MarkFacts ==
    ASSUME NEW g \in Group, NEW state \in GroupStates
    PROVE  LET m == Mark(g, state) IN
           /\ m \in Group /\ m.st = state
           /\ m.part = g.part /\ m.gen = g.gen
           /\ m.lo = g.lo /\ m.hi = g.hi /\ m.at = g.at
BY DEF Mark, Group

LEMMA ExtendFacts ==
    ASSUME NEW g \in Group, NEW off \in Records
    PROVE  LET m == Extend(g, off) IN
           /\ m \in Group /\ m.hi = off
           /\ m.part = g.part /\ m.gen = g.gen
           /\ m.lo = g.lo /\ m.at = g.at /\ m.st = g.st
BY DEF Extend, Group

LEMMA NewGroupFacts ==
    ASSUME NEW p \in Partitions, NEW gen \in Nat, NEW off \in Records
    PROVE  LET m == NewGroup(p, gen, off) IN
           /\ m \in Group /\ m.part = p /\ m.gen = gen /\ m.st = "queued"
           /\ m.lo = off /\ m.hi = off /\ m.at = off
BY OffsetFacts DEF NewGroup, Group, GroupStates

LEMMA ResolvedFacts ==
    ASSUME NEW g \in Group, g.lo <= g.at, g.at <= g.hi
    PROVE  /\ Resolved(g) \in Offsets /\ Resolved(g) \in Nat
           /\ g.lo <= Resolved(g) /\ Resolved(g) <= g.hi + 1
           /\ Unit(g) \subseteq Nat /\ Unit(g) \subseteq Records
           /\ BatchMode => Resolved(g) = g.hi + 1 /\ Unit(g) = g.lo .. g.hi
           /\ ~BatchMode => Resolved(g) = g.at + 1 /\ Unit(g) = {g.at}
<1>1. g.lo \in Nat /\ g.hi \in Nat /\ g.at \in Nat /\ LogEnd \in Nat
      /\ g.lo < LogEnd /\ g.hi < LogEnd
  BY ConsumerAssumption DEF Group, Records, OptOffsets, None
<1> QED
  BY <1>1 DEF Resolved, Unit, Offsets, Records

LEMMA AdvanceFacts ==
    ASSUME NEW g \in Group, g.lo <= g.at, g.at <= g.hi
    PROVE  LET m == Advance(g) IN
           /\ m \in Group /\ m.at = Resolved(g)
           /\ m.part = g.part /\ m.gen = g.gen /\ m.lo = g.lo /\ m.hi = g.hi
           /\ \/ m.st = "done" /\ m.at = m.hi + 1
              \/ m.st = "admitted" /\ m.lo <= m.at /\ m.at <= m.hi /\ ~BatchMode
<1>1. Resolved(g) \in OptOffsets /\ Resolved(g) \in Nat /\ g.hi \in Nat
  BY ResolvedFacts, OffsetFacts, GroupFacts
<1> DEFINE r == Resolved(g)
           s == IF r > g.hi THEN "done" ELSE "admitted"
<1>2. s \in GroupStates
  BY DEF GroupStates
<1>3. /\ s = "done" => r = g.hi + 1
      /\ s # "done" => s = "admitted" /\ g.lo <= r /\ r <= g.hi /\ ~BatchMode
  BY <1>1, ResolvedFacts
<1>4. Advance(g) = [g EXCEPT !.at = r, !.st = s]
  BY DEF Advance
<1> QED
  <2> HIDE DEF r, s
  <2>1. /\ Advance(g) \in Group /\ Advance(g).at = r /\ Advance(g).st = s
        /\ Advance(g).part = g.part /\ Advance(g).gen = g.gen
        /\ Advance(g).lo = g.lo /\ Advance(g).hi = g.hi
    <3>1. r \in OptOffsets
      BY <1>1 DEF r
    <3> QED
      BY <3>1, <1>2, <1>4 DEF Group
  <2> QED
    BY <2>1, <1>3 DEF r

LEMMA FailAfterFacts ==
    ASSUME NEW g \in Group, g.lo <= g.at, g.at <= g.hi
    PROVE  LET m == FailAfter(g) IN
           /\ m \in Group /\ m.st = "failed"
           /\ m.part = g.part /\ m.gen = g.gen /\ m.lo = g.lo /\ m.hi = g.hi
           /\ \/ m.at = None /\ Resolved(g) = g.hi + 1
              \/ m.at = Resolved(g) /\ m.at <= m.hi
<1> DEFINE a == IF Resolved(g) > g.hi THEN None ELSE Resolved(g)
<1>1. /\ a \in OptOffsets
      /\ (a = None /\ Resolved(g) = g.hi + 1) \/ (a = Resolved(g) /\ a <= g.hi)
  BY ResolvedFacts, OffsetFacts, GroupFacts
<1>2. FailAfter(g) = [g EXCEPT !.at = a, !.st = "failed"]
  BY DEF FailAfter
<1> QED
  <2> HIDE DEF a
  <2> QED
    BY <1>1, <1>2 DEF Group, GroupStates

LEMMA SetGroupFacts ==
    ASSUME wave \in Seq(Group), NEW i \in DOMAIN wave, NEW g \in Group, SetGroup(i, g)
    PROVE  /\ wave' \in Seq(Group) /\ DOMAIN wave' = DOMAIN wave
           /\ wave'[i] = g /\ \A j \in DOMAIN wave : j # i => wave'[j] = wave[j]
BY SeqReplace DEF SetGroup

LEMMA TypeInit == Init => TypeInv
<1> SUFFICES ASSUME Init PROVE TypeInv
  OBVIOUS
<1> USE OffsetFacts DEF Init, FreshMember, PCs
<1>1. wave \in Seq(Group) /\ DOMAIN wave = {}
  OBVIOUS
<1>2. pc \in PCs /\ deferred \in BOOLEAN /\ closing \in BOOLEAN /\ fenced \in BOOLEAN
  OBVIOUS
<1>3. /\ generation \in Nat /\ faults \in Nat
      /\ owned \in [Partitions -> Nat]
      /\ position \in [Partitions -> Offsets]
      /\ committed \in [Partitions -> Offsets]
  OBVIOUS
<1>4. /\ handled \in [Partitions -> SUBSET Nat]
      /\ started \in [Partitions -> SUBSET Nat]
      /\ repeated \in [Partitions -> SUBSET Nat]
      /\ excused \in [Partitions -> SUBSET Nat]
      /\ revoked \subseteq Partitions /\ assigned \subseteq Partitions
  OBVIOUS
<1> QED
  BY <1>1, <1>2, <1>3, <1>4 DEF TypeInv, TypeOK, WaveOK

(* A worker changes its own group, outside of reading.                     *)
LEMMA TypeOfSetGroup ==
    ASSUME TypeInv, pc # "poll", NEW i \in DOMAIN wave, NEW g \in Group, SetGroup(i, g),
           g.gen = wave[i].gen,
           g.st \in {"admitted", "precommitted", "handled"} => g.gen # 0,
           g.gen # 0 /\ g.st \in {"queued", "admitted", "precommitted", "handled"} =>
               g.lo <= g.at /\ g.at <= g.hi,
           pc' = pc, UNCHANGED rebalanceVars
    PROVE  wave' \in Seq(Group) /\ WaveOK'
<1>1. wave \in Seq(Group)
  BY DEF TypeInv, TypeOK
<1>2. pc \in {"poll", "dispatch", "filter"}
  BY DEF TypeInv, WaveOK, GroupOK
<1> QED
  BY <1>1, <1>2, SetGroupFacts DEF TypeInv, WaveOK, GroupOK, rebalanceVars

(* The wave is dropped.                                                    *)
LEMMA TypeOfNoWave ==
    ASSUME TypeInv, wave' = <<>>, UNCHANGED rebalanceVars
    PROVE  wave' \in Seq(Group) /\ WaveOK'
BY DEF TypeInv, TypeOK, WaveOK, GroupOK, rebalanceVars

LEMMA TypeRun == TypeInv /\ Run => TypeInv'
<1> SUFFICES ASSUME TypeInv, Run PROVE TypeInv'
  OBVIOUS
<1>t. /\ generation \in Nat /\ faults \in Nat /\ owned \in [Partitions -> Nat]
      /\ committed \in [Partitions -> Offsets] /\ position \in [Partitions -> Offsets]
      /\ stored \in [Partitions -> OptOffsets] /\ pending \in [Partitions -> OptOffsets]
      /\ handled \in [Partitions -> SUBSET Nat] /\ excused \in [Partitions -> SUBSET Nat]
      /\ revoked \subseteq Partitions /\ assigned \subseteq Partitions
  BY DEF TypeInv, TypeOK
<1> USE OffsetFacts DEF TypeInv, TypeOK
<1>a. ASSUME NEW i \in DOMAIN wave PROVE wave[i] \in Group
  BY <1>a
<1>1. CASE BeginRun
  BY <1>1, TypeOfNoWave DEF BeginRun, StillOwned, PCs, WaveOK, GroupOK, rebalanceVars, driverVars,
     brokerVars, history
<1>2. CASE Reseek
  <2>1. position' \in [Partitions -> Offsets] /\ faults' \in Nat
    <3>1. CASE SeekSucceeds
      BY <3>1 DEF SeekSucceeds
    <3>2. CASE SeekFails
      BY <3>2 DEF SeekFails, Fault, Requested
    <3> QED
      BY <3>1, <3>2, <1>2 DEF Reseek
  <2>2. pending' \in [Partitions -> OptOffsets] /\ pc' \in PCs /\ plan' \in [Partitions -> OptOffsets]
    BY <1>2 DEF Reseek, PCs
  <2>3. UNCHANGED <<assigned, stored>>
    BY <1>2 DEF Reseek, SeekSucceeds, SeekFails
  <2>4. wave' \in Seq(Group) /\ WaveOK'
    BY <1>2, TypeOfNoWave DEF Reseek, WaveOK, GroupOK
  <2> QED
    BY <2>1, <2>2, <2>3, <2>4, <1>2 DEF Reseek, rebalanceVars, brokerVars, history
<1>3. CASE EndGather
  BY <1>3 DEF EndGather, PCs, WaveOK, GroupOK, rebalanceVars, driverVars, brokerVars, history
<1>4. ASSUME NEW p \in Partitions, Read(p) PROVE TypeInv'
  <2> DEFINE same == {i \in DOMAIN wave : wave[i].part = p /\ wave[i].gen = owned[p]}
             new == NewGroup(p, owned[p], position[p])
  <2>1. position[p] \in Records /\ position' \in [Partitions -> Offsets]
    BY <1>4 DEF Read
  <2>2. /\ new \in Group /\ new.lo <= new.at /\ new.at <= new.hi
        /\ new.part = p /\ new.gen = owned[p] /\ new.st = "queued"
        /\ new.hi = position[p] /\ position[p] < position'[p]
    BY <2>1, <1>4, NewGroupFacts DEF Read
  <2>3. wave' \in Seq(Group) /\ WaveOK'
    <3>1. CASE same = {}
      <4>1. wave' = Append(wave, new)
        BY <1>4, <3>1 DEF Read, Grouped
      <4>2. wave' \in Seq(Group)
        BY <4>1, <2>2, SeqAppend
      <4>3. \A i \in DOMAIN wave' : \/ i \in DOMAIN wave /\ wave'[i] = wave[i]
                                    \/ wave'[i] = new
        BY <4>1, <2>2, SeqAppend
      <4>4. \A i \in DOMAIN wave : wave[i].gen = owned[p] => wave[i].part # p
        BY <3>1
      <4>5. /\ pc = "poll" /\ UNCHANGED <<pc, owned, generation>>
            /\ \A q \in Partitions : q # p => position'[q] = position[q]
        BY <1>4 DEF Read, rebalanceVars
      <4>7. ASSUME NEW i \in DOMAIN wave' PROVE GroupOK(wave[i])'
        <5>1. CASE wave'[i] = new
          BY <5>1, <4>5, <2>2 DEF WaveOK, GroupOK
        <5>2. CASE i \in DOMAIN wave /\ wave'[i] = wave[i]
          <6>1. wave[i].part \in Partitions
            BY <5>2, <1>a, GroupFacts
          <6> QED
            BY <5>2, <6>1, <4>4, <4>5 DEF WaveOK, GroupOK
        <5> QED
          BY <5>1, <5>2, <4>3
      <4> QED
        BY <4>2, <4>5, <4>7 DEF WaveOK
    <3>2. CASE same # {}
      <4>1. wave' = [i \in DOMAIN wave |->
                        IF i \in same THEN Extend(wave[i], position[p]) ELSE wave[i]]
        BY <1>4, <3>2 DEF Read, Grouped
      <4>2. wave' \in [DOMAIN wave -> Group]
        BY <4>1, <2>1, ExtendFacts, <1>a
      <4>3. wave' \in Seq(Group) /\ DOMAIN wave' = DOMAIN wave
        BY <4>2, SeqFun
      <4>4. ASSUME NEW i \in DOMAIN wave
            PROVE  /\ wave'[i].part = wave[i].part /\ wave'[i].gen = wave[i].gen
                   /\ wave'[i].lo = wave[i].lo /\ wave'[i].at = wave[i].at
                   /\ wave'[i].st = wave[i].st
                   /\ wave'[i].hi = IF i \in same THEN position[p] ELSE wave[i].hi
        BY <4>1, <2>1, ExtendFacts, <1>a
      <4>5. pc = "poll" /\ UNCHANGED <<pc, owned, generation>>
        BY <1>4 DEF Read, rebalanceVars
      <4>6. ASSUME NEW i \in DOMAIN wave', wave'[i].gen # 0 
            PROVE  /\ wave'[i].st \in {"queued", "admitted", "precommitted", "handled"} =>
                         wave'[i].lo <= wave'[i].at /\ wave'[i].at <= wave'[i].hi
                   /\ wave'[i].gen = owned[wave'[i].part] => wave'[i].hi < position'[wave'[i].part]
        <5>1. i \in DOMAIN wave /\ wave[i] \in Group
          BY <4>3, <4>6, <1>a
        <5>2. CASE i \in same
          <6>1. wave[i].hi < position[p] /\ wave'[i].hi = position[p]
            BY <5>1, <5>2, <4>4, <4>5, <4>6 DEF WaveOK, GroupOK
          <6>2. wave[i].hi \in Nat /\ wave[i].lo \in Nat /\ wave[i].at \in Nat /\ position[p] \in Nat
            BY <5>1, GroupFacts, <2>1
          <6>3. /\ wave'[i].st = wave[i].st /\ wave'[i].lo = wave[i].lo
                /\ wave'[i].at = wave[i].at /\ wave'[i].part = p /\ wave[i].gen # 0
            BY <5>1, <5>2, <4>4, <4>6
          <6>4. wave[i].st \in {"queued", "admitted", "precommitted", "handled"} =>
                   wave[i].lo <= wave[i].at /\ wave[i].at <= wave[i].hi
            BY <5>1, <6>3 DEF WaveOK, GroupOK
          <6> QED
            BY <6>1, <6>2, <6>3, <6>4, <2>2
        <5>3. CASE i \notin same
          <6>1. wave'[i] = wave[i]
            BY <4>1, <5>1, <5>3
          <6>2. wave[i].gen = owned[wave[i].part] => wave[i].part # p
            BY <5>1, <5>3
          <6>3. wave[i].part # p => position'[wave[i].part] = position[wave[i].part]
            BY <1>4, <5>1, GroupFacts DEF Read
          <6> QED
            BY <5>1, <4>5, <4>6, <6>1, <6>2, <6>3 DEF WaveOK, GroupOK
        <5> QED
          BY <5>2, <5>3
      <4>7. WaveOK'
        BY <4>3, <4>4, <4>5, <4>6 DEF WaveOK, GroupOK
      <4> QED
        BY <4>3, <4>7
    <3> QED
      BY <3>1, <3>2
  <2> QED
    BY <2>1, <2>3, <1>4 DEF Read, rebalanceVars, brokerVars, history
<1>5. CASE PollError
  <2>0. pc' \in {"idle", "dispatch", "filter"} /\ faults' \in Nat
    BY <1>5 DEF PollError, Fault
  <2>1. pc' \in PCs /\ deferred' \in BOOLEAN /\ faults' \in Nat
    <3>1. deferred' = TRUE \/ deferred' = deferred
      BY <1>5 DEF PollError
    <3> QED
      BY <2>0, <3>1 DEF PCs
  <2>2. CASE UNCHANGED wave
    BY <2>1, <2>2, <1>5 DEF PollError, WaveOK, GroupOK, rebalanceVars, driverVars, brokerVars, history
  <2>3. CASE pc' = "filter" /\ wave' = [i \in DOMAIN wave |->
                            IF Admissible(wave[i]) THEN FailAt(wave[i])
                            ELSE Mark(wave[i], "dropped")]
    <3>1. "failed" \in GroupStates /\ "dropped" \in GroupStates
      BY DEF GroupStates
    <3>2. wave' \in [DOMAIN wave -> Group]
      BY <2>3, <3>1, MarkFacts, <1>a DEF FailAt
    <3>3. wave' \in Seq(Group) /\ DOMAIN wave' = DOMAIN wave
      BY <3>2, SeqFun
    <3>4. \A i \in DOMAIN wave : /\ wave'[i].gen = wave[i].gen
                                 /\ wave'[i].st \in {"failed", "dropped"}
      BY <2>3, <3>1, MarkFacts, <1>a DEF FailAt
    <3>5. WaveOK'
      BY <2>3, <3>3, <3>4, <1>5 DEF PollError, WaveOK, GroupOK, rebalanceVars
    <3> QED
      BY <2>1, <3>3, <3>5, <1>5 DEF PollError, rebalanceVars, driverVars, brokerVars, history
  <2> QED
    BY <2>2, <2>3, <1>5 DEF PollError
<1>6. CASE CancelPoll
  BY <1>6, TypeOfNoWave DEF CancelPoll, PCs, rebalanceVars, driverVars, brokerVars, history
<1>7. CASE StopLaunching
  <2>1. "dropped" \in GroupStates
    BY DEF GroupStates
  <2>2. wave' \in [DOMAIN wave -> Group]
    BY <1>7, <2>1, MarkFacts, <1>a DEF StopLaunching
  <2>3. wave' \in Seq(Group) /\ DOMAIN wave' = DOMAIN wave
    BY <2>2, SeqFun
  <2>4. \A i \in DOMAIN wave : \/ wave'[i] = wave[i]
                               \/ wave'[i].gen = wave[i].gen /\ wave'[i].st = "dropped"
    BY <1>7, <2>1, MarkFacts, <1>a DEF StopLaunching
  <2>5. pc = "dispatch" /\ UNCHANGED <<pc, owned, generation>>
    BY <1>7 DEF StopLaunching, runUnchanged, rebalanceVars
  <2>6. ASSUME NEW i \in DOMAIN wave' PROVE GroupOK(wave[i])'
    BY <2>3, <2>4, <2>5, <2>6 DEF WaveOK, GroupOK
  <2>7. WaveOK'
    BY <2>5, <2>6 DEF WaveOK
  <2> QED
    BY <2>3, <2>7, <1>7 DEF StopLaunching, runUnchanged, rebalanceVars, driverVars, brokerVars, history
<1>8. ASSUME NEW i \in DOMAIN wave, Worker(i) PROVE TypeInv'
  <2> DEFINE g == wave[i]
  <2>1. g \in Group /\ g.part \in Partitions
    BY <1>a, GroupFacts
  <2>2. GroupOK(g)
    BY DEF WaveOK
  <2>3. \A st \in {"admitted", "dropped", "precommitted", "handled", "failed"} : st \in GroupStates
    BY DEF GroupStates
  <2>4. g.st \in {"admitted", "precommitted", "handled"} =>
          /\ Resolved(g) \in Offsets /\ Resolved(g) \in OptOffsets
          /\ Unit(g) \subseteq Nat /\ g.lo <= g.at /\ g.at <= g.hi
    BY <2>1, <2>2, ResolvedFacts DEF GroupOK
  <2> HIDE DEF g
  <2>5. pc = "dispatch"
    BY <1>8 DEF Worker
  <2>6. CASE Launch(i)
    <3> DEFINE m == Mark(g, IF Admissible(g) THEN "admitted" ELSE "dropped")
    <3>1. /\ m \in Group /\ m.gen = g.gen /\ m.lo = g.lo /\ m.hi = g.hi /\ m.at = g.at
          /\ m.st = IF Admissible(g) THEN "admitted" ELSE "dropped"
      BY <2>1, <2>3, MarkFacts
    <3>2. SetGroup(i, m) /\ g.st = "queued"
      BY <2>6 DEF Launch, g
    <3>3. Admissible(g) => g.gen # 0
      BY DEF Admissible
    <3>4. UNCHANGED <<runUnchanged, driverVars, brokerVars, history, faults>>
      BY <2>6 DEF Launch
    <3>5. wave' \in Seq(Group) /\ WaveOK'
      <4> HIDE DEF m
      <4> QED
        BY <3>1, <3>2, <3>3, <3>4, <2>2, <2>5, TypeOfSetGroup DEF g, GroupOK, runUnchanged
    <3> QED
      BY <3>4, <3>5 DEF runUnchanged, rebalanceVars, driverVars, brokerVars, history
  <2>7. CASE CancelWorker(i)
    <3>1. /\ Mark(g, "dropped") \in Group /\ Mark(g, "dropped").gen = g.gen
          /\ Mark(g, "dropped").st = "dropped"
      BY <2>1, <2>3, MarkFacts
    <3>2. SetGroup(i, Mark(g, "dropped"))
      BY <2>7 DEF CancelWorker, g
    <3>3. UNCHANGED <<runUnchanged, driverVars, brokerVars, history, faults>>
      BY <2>7 DEF CancelWorker
    <3>4. wave' \in Seq(Group) /\ WaveOK'
      BY <3>1, <3>2, <3>3, <2>5, TypeOfSetGroup DEF g, runUnchanged
    <3> QED
      BY <3>3, <3>4 DEF runUnchanged, rebalanceVars, driverVars, brokerVars, history
  <2>8. ASSUME g.st \in {"admitted", "precommitted", "handled"}, UNCHANGED runUnchanged,
               \/ SetGroup(i, Mark(g, "precommitted"))
               \/ SetGroup(i, Mark(g, "handled"))
               \/ SetGroup(i, Mark(g, "dropped"))
               \/ SetGroup(i, FailAt(g))
               \/ SetGroup(i, FailAfter(g))
               \/ SetGroup(i, Advance(g))
        PROVE  wave' \in Seq(Group) /\ WaveOK'
    <3>1. ASSUME NEW st \in {"precommitted", "handled", "dropped", "failed"},
                 SetGroup(i, Mark(g, st))
          PROVE  wave' \in Seq(Group) /\ WaveOK'
      <4>1. /\ Mark(g, st) \in Group /\ Mark(g, st).gen = g.gen /\ Mark(g, st).st = st
            /\ Mark(g, st).lo = g.lo /\ Mark(g, st).hi = g.hi /\ Mark(g, st).at = g.at
        <5>1. st \in GroupStates
          BY <3>1, <2>3
        <5> QED
          BY <5>1, <2>1, MarkFacts
      <4> QED
        BY <3>1, <4>1, <2>2, <2>4, <2>5, <2>8, TypeOfSetGroup DEF g, GroupOK, runUnchanged
    <3>2. CASE SetGroup(i, FailAfter(g))
      BY <3>2, <2>1, <2>4, <2>5, <2>8, FailAfterFacts, TypeOfSetGroup DEF g, runUnchanged
    <3>3. CASE SetGroup(i, Advance(g))
      BY <3>3, <2>1, <2>2, <2>4, <2>5, <2>8, AdvanceFacts, TypeOfSetGroup DEF g, GroupOK, runUnchanged
    <3> QED
      BY <3>1, <3>2, <3>3, <2>8 DEF FailAt
  <2>9. ASSUME g.st \in {"admitted", "precommitted", "handled"},
               CommitSucceeds(g) \/ CommitFails(g)
        PROVE  /\ committed' \in [Partitions -> Offsets] /\ fenced' = fenced /\ faults' \in Nat
               /\ excused' \in [Partitions -> SUBSET Nat]
    <3>1. /\ Resolved(g) \in Offsets /\ Unit(g) \in SUBSET Nat
          /\ [committed EXCEPT ![g.part] = Resolved(g)] \in [Partitions -> Offsets]
          /\ [excused EXCEPT ![g.part] = @ \cup Unit(g)] \in [Partitions -> SUBSET Nat]
      BY <2>9, <2>1, <2>4, SetUpdate
    <3>2. \/ committed' = committed \/ committed' = [committed EXCEPT ![g.part] = Resolved(g)]
      BY <2>9 DEF CommitSucceeds, CommitFails, brokerVars
    <3>3. \/ excused' = excused \/ excused' = [excused EXCEPT ![g.part] = @ \cup Unit(g)]
      BY <2>9 DEF CommitSucceeds, CommitFails, brokerVars
    <3>4. faults' \in Nat /\ fenced' = fenced
      BY <2>9, <1>t DEF CommitSucceeds, CommitFails, Fault, brokerVars
    <3>5. committed' \in [Partitions -> Offsets]
      BY <3>1, <3>2, <1>t
    <3>6. excused' \in [Partitions -> SUBSET Nat]
      BY <3>1, <3>3, <1>t
    <3> QED
      BY <3>4, <3>5, <3>6
  <2>10. CASE PreCommit(i)
    <3>1. /\ g.st \in {"admitted", "precommitted", "handled"}
          /\ CommitSucceeds(g) \/ CommitFails(g)
          /\ UNCHANGED <<runUnchanged, driverVars, handled, started, repeated>>
          /\ SetGroup(i, Mark(g, "precommitted")) \/ SetGroup(i, FailAt(g))
      BY <2>10 DEF PreCommit, g
    <3> QED
      BY <3>1, <2>8, <2>9 DEF runUnchanged, rebalanceVars, driverVars
  <2>11. CASE Handle(i)
    <3>1. g.st \in {"admitted", "precommitted", "handled"}
      BY <2>11 DEF Handle, g
    <3>2. /\ started' \in [Partitions -> SUBSET Nat]
          /\ repeated' \in [Partitions -> SUBSET Nat]
      BY <2>11, <3>1, <2>1, <2>4 DEF Handle, g
    <3>3. /\ handled' \in [Partitions -> SUBSET Nat]
          /\ faults' \in Nat
      <4>1. [handled EXCEPT ![g.part] = @ \cup Unit(g)] \in [Partitions -> SUBSET Nat]
        BY <3>1, <2>1, <2>4, SetUpdate
      <4>2. handled' = handled \/ handled' = [handled EXCEPT ![g.part] = @ \cup Unit(g)]
        BY <2>11 DEF Handle, g
      <4>3. faults' \in Nat
        BY <2>11, <1>t DEF Handle, Fault
      <4>4. handled' \in [Partitions -> SUBSET Nat]
        BY <4>1, <4>2, <1>t
      <4> QED
        BY <4>3, <4>4
    <3>4. /\ UNCHANGED <<runUnchanged, driverVars, brokerVars, excused>>
          /\ \/ SetGroup(i, Advance(g)) \/ SetGroup(i, Mark(g, "handled"))
             \/ SetGroup(i, FailAt(g)) \/ SetGroup(i, FailAfter(g))
             \/ SetGroup(i, Mark(g, "dropped"))
      BY <2>11 DEF Handle, HandlerFailed, g
    <3> QED
      BY <3>1, <3>2, <3>3, <3>4, <2>8 DEF runUnchanged, rebalanceVars, driverVars, brokerVars
  <2>12. CASE Resolve(i)
    <3>1. /\ g.st \in {"admitted", "precommitted", "handled"}
          /\ UNCHANGED <<runUnchanged, handled, started, repeated>>
          /\ SetGroup(i, Advance(g)) \/ SetGroup(i, FailAt(g))
      BY <2>12 DEF Resolve, g
    <3>2. CASE CommitMode = "commit"
      <4>1. CommitSucceeds(g) \/ CommitFails(g)
        BY <2>12, <3>2 DEF Resolve, g
      <4>2. UNCHANGED driverVars
        BY <2>12, <3>2 DEF Resolve, g
      <4> QED
        BY <3>1, <4>1, <4>2, <2>8, <2>9 DEF runUnchanged, rebalanceVars, driverVars
    <3>3. CASE CommitMode = "store"
      <4>1. /\ stored' \in [Partitions -> OptOffsets] /\ faults' \in Nat
            /\ UNCHANGED <<assigned, position, brokerVars, excused>>
        <5>1. stored' = stored \/ stored' = [stored EXCEPT ![g.part] = Resolved(g)]
          BY <2>12, <3>3 DEF Resolve, g
        <5>2. faults' \in Nat
          BY <2>12, <3>3, <1>t DEF Resolve, Fault
        <5>3. UNCHANGED <<assigned, position, brokerVars, excused>>
          BY <2>12, <3>3 DEF Resolve
        <5>4. stored' \in [Partitions -> OptOffsets]
          BY <5>1, <3>1, <2>1, <2>4, <1>t
        <5> QED
          BY <5>2, <5>3, <5>4
      <4> QED
        BY <3>1, <4>1, <2>8 DEF runUnchanged, rebalanceVars, brokerVars
    <3> QED
      BY <3>2, <3>3, <2>12 DEF Resolve
  <2> QED
    BY <2>6, <2>7, <2>10, <2>11, <2>12, <1>8 DEF Worker
<1>9. CASE EndWave
  <2>1. wave' \in Seq(Group) /\ WaveOK'
    BY <1>9, TypeOfNoWave DEF EndWave, WaveOK, GroupOK, rebalanceVars
  <2> QED
    BY <2>1, <1>9 DEF EndWave, PCs, rebalanceVars, driverVars, brokerVars, history
<1>10. CASE FilterRewinds
  <2>1. wave' \in Seq(Group) /\ WaveOK'
    BY <1>10, TypeOfNoWave DEF FilterRewinds
  <2> QED
    BY <2>1, <1>10 DEF FilterRewinds, StillOwned, PCs, rebalanceVars, driverVars, brokerVars, history
<1>11. CASE SeekRewinds
  <2>1. position' \in [Partitions -> Offsets] /\ faults' \in Nat /\ UNCHANGED <<assigned, stored>>
    <3>1. CASE SeekSucceeds
      BY <3>1 DEF SeekSucceeds
    <3>2. CASE SeekFails
      BY <3>2 DEF SeekFails, Fault, Requested
    <3> QED
      BY <3>1, <3>2, <1>11 DEF SeekRewinds
  <2>2. wave' \in Seq(Group) /\ WaveOK'
    BY <1>11, TypeOfNoWave DEF SeekRewinds, WaveOK
  <2>3. plan' \in [Partitions -> OptOffsets] /\ pc' \in PCs
    BY <1>11 DEF SeekRewinds, PCs
  <2> QED
    BY <2>1, <2>2, <2>3, <1>11 DEF SeekRewinds, rebalanceVars, brokerVars, history
<1>12. CASE RecordRewinds
  <2>1. wave' \in Seq(Group) /\ WaveOK'
    BY <1>12, TypeOfNoWave DEF RecordRewinds, WaveOK
  <2>2. pending' \in [Partitions -> OptOffsets]
    BY <1>12 DEF RecordRewinds, Merged, Earliest
  <2> QED
    BY <2>1, <2>2, <1>12 DEF RecordRewinds, PCs, rebalanceVars, driverVars, brokerVars, history
<1> QED
  BY <1>1, <1>2, <1>3, <1>4, <1>5, <1>6, <1>7, <1>8, <1>9, <1>10, <1>11, <1>12 DEF Run

LEMMA TypeEnvironment == TypeInv /\ Environment => TypeInv'
<1> SUFFICES ASSUME TypeInv, Environment PROVE TypeInv'
  OBVIOUS
<1>t. /\ generation \in Nat /\ faults \in Nat /\ owned \in [Partitions -> Nat]
      /\ committed \in [Partitions -> Offsets] /\ position \in [Partitions -> Offsets]
      /\ stored \in [Partitions -> OptOffsets] /\ pending \in [Partitions -> OptOffsets]
      /\ handled \in [Partitions -> SUBSET Nat] /\ excused \in [Partitions -> SUBSET Nat]
      /\ revoked \subseteq Partitions /\ assigned \subseteq Partitions
  BY DEF TypeInv, TypeOK
<1> USE OffsetFacts DEF TypeInv, TypeOK
<1>1. ASSUME NEW S \in SUBSET Partitions, AssignPartitions(S) PROVE TypeInv'
  <2>1. /\ generation' = generation + 1 /\ fenced' = FALSE
        /\ owned' \in [Partitions -> Nat]
        /\ revoked' \subseteq Partitions /\ assigned' \subseteq Partitions
        /\ position' \in [Partitions -> Offsets]
        /\ stored' \in [Partitions -> OptOffsets]
        /\ UNCHANGED <<runVars, committed, history, faults>>
    BY <1>1 DEF AssignPartitions
  <2>2. \A p \in Partitions : /\ owned'[p] \in {0, owned[p], generation + 1}
                              /\ p \in S => owned'[p] = generation + 1
                              /\ p \notin S => position'[p] = position[p]
    BY <1>1 DEF AssignPartitions
  <2>3. ASSUME NEW i \in DOMAIN wave PROVE GroupOK(wave[i])'
    <3>1. GroupOK(wave[i]) /\ wave[i] \in Group
      BY <2>3 DEF WaveOK
    <3>2. wave[i].gen \in Nat /\ wave[i].part \in Partitions
      BY <3>1, GroupFacts
    <3> DEFINE g == wave[i]
    <3>3. wave' = wave /\ pc' = pc /\ generation' = generation + 1 /\ generation \in Nat
      BY <2>1, <1>t DEF runVars
    <3>4. /\ owned'[g.part] \in {0, owned[g.part], generation + 1}
          /\ owned'[g.part] # generation + 1 => position'[g.part] = position[g.part]
      BY <2>2, <3>2
    <3>5. g.gen <= generation /\ g.gen \in Nat
      BY <3>1, <3>2 DEF GroupOK
    <3>6. g.gen # generation + 1
      BY <3>5, <3>3
    <3>7. g.gen # 0 /\ g.gen = owned'[g.part] =>
            g.gen = owned[g.part] /\ position'[g.part] = position[g.part]
      BY <3>4, <3>6
    <3> HIDE OffsetFacts DEF TypeInv, TypeOK
    <3>8. g.gen <= generation'
      BY <3>5, <3>3
    <3> QED
      BY <3>1, <3>3, <3>7, <3>8 DEF GroupOK
  <2>4. ASSUME NEW p \in Partitions PROVE owned'[p] <= generation'
    <3>1. owned[p] <= generation /\ owned[p] \in Nat
      BY <1>t DEF WaveOK
    <3>2. owned'[p] = 0 \/ owned'[p] = owned[p] \/ owned'[p] = generation + 1
      BY <2>2
    <3>3. generation' = generation + 1 /\ generation \in Nat
      BY <2>1, <1>t
    <3> HIDE OffsetFacts DEF TypeInv, TypeOK
    <3> QED
      BY <3>1, <3>2, <3>3
  <2>5. WaveOK'
    BY <2>1, <2>3, <2>4 DEF WaveOK, runVars
  <2>6. fenced' \in BOOLEAN
    BY <2>1
  <2> QED
    BY <2>1, <2>5, <2>6, <1>t DEF runVars, history
<1>2. ASSUME NEW S \in SUBSET Partitions, RevokePartitions(S) PROVE TypeInv'
  <2>1. /\ generation' = generation + 1
        /\ owned' \in [Partitions -> Nat]
        /\ revoked' \subseteq Partitions
        /\ pending' \in [Partitions -> OptOffsets]
        /\ UNCHANGED <<pc, wave, deferred, plan, closing, position, fenced, history>>
    BY <1>2 DEF RevokePartitions
  <2>2. assigned' \subseteq Partitions /\ stored' \in [Partitions -> OptOffsets]
        /\ committed' \in [Partitions -> Offsets] /\ faults' \in Nat
    <3>1. FlushStored(S) => committed' \in [Partitions -> Offsets]
      BY DEF FlushStored
    <3>2. committed' \in [Partitions -> Offsets]
      BY <1>2, <3>1, <1>t DEF RevokePartitions
    <3>3. assigned' \subseteq Partitions
      BY <1>2, <1>t DEF RevokePartitions
    <3>4. stored' \in [Partitions -> OptOffsets]
      BY <1>2, <1>t DEF RevokePartitions
    <3>5. faults' \in Nat
      BY <1>2, <1>t DEF RevokePartitions, Fault
    <3> QED
      BY <3>2, <3>3, <3>4, <3>5
  <2>3. \A p \in Partitions : owned'[p] \in {0, owned[p]}
    BY <1>2 DEF RevokePartitions
  <2>4. ASSUME NEW i \in DOMAIN wave PROVE GroupOK(wave[i])'
    <3>1. GroupOK(wave[i]) /\ wave[i] \in Group
      BY <2>4 DEF WaveOK
    <3>2. wave[i].gen \in Nat /\ wave[i].part \in Partitions
      BY <3>1, GroupFacts
    <3> QED
      BY <2>1, <2>3, <3>1, <3>2, <1>t, SMTT(60) DEF GroupOK
  <2>5. ASSUME NEW p \in Partitions PROVE owned'[p] <= generation'
    <3>1. owned[p] <= generation /\ owned[p] \in Nat
      BY <1>t DEF WaveOK
    <3>2. owned'[p] = 0 \/ owned'[p] = owned[p] \/ owned'[p] = generation + 1
      BY <2>3
    <3>3. generation' = generation + 1 /\ generation \in Nat
      BY <2>1, <1>t
    <3> HIDE OffsetFacts DEF TypeInv, TypeOK
    <3> QED
      BY <3>1, <3>2, <3>3
  <2>6. WaveOK'
    BY <2>1, <2>4, <2>5 DEF WaveOK
  <2> QED
    BY <2>1, <2>2, <2>6 DEF history
<1>3. ASSUME NEW p \in Partitions, BackgroundCommit(p) PROVE TypeInv'
  BY <1>3 DEF BackgroundCommit, WaveOK, GroupOK, runVars, rebalanceVars, driverVars, history
<1>4. ASSUME NEW p \in Partitions, OtherMember(p) PROVE TypeInv'
  <2>1. committed[p] \in Nat /\ committed[p] + 1 \in Offsets
    BY <1>4 DEF OtherMember
  <2>2. /\ committed' \in [Partitions -> Offsets]
        /\ handled' \in [Partitions -> SUBSET Nat]
        /\ started' \in [Partitions -> SUBSET Nat]
        /\ repeated' \in [Partitions -> SUBSET Nat]
    BY <1>4, <2>1 DEF OtherMember
  <2> QED
    BY <2>2, <1>4 DEF OtherMember, WaveOK, GroupOK, runVars, rebalanceVars, driverVars
<1>5. CASE Fence
  BY <1>5 DEF Fence, Fault, WaveOK, GroupOK, runVars, rebalanceVars, driverVars, history
<1>6. CASE RequestClose
  BY <1>6 DEF RequestClose, WaveOK, GroupOK, rebalanceVars, driverVars, brokerVars, history
<1>7. CASE CloseDriver
  <2>1. wave' = <<>> /\ pc' = "closed"
    BY <1>7 DEF CloseDriver, WaveOK
  <2>2. /\ committed' \in [Partitions -> Offsets] /\ pending' \in [Partitions -> OptOffsets]
        /\ generation' \in Nat /\ owned' \in [Partitions -> Nat] /\ revoked' \subseteq Partitions
        /\ \A p \in Partitions : owned'[p] <= generation'
    <3>1. committed' \in [Partitions -> Offsets]
      BY <1>7, <1>t DEF CloseDriver, FlushStored
    <3>2. pending' \in [Partitions -> OptOffsets]
      BY <1>7, <1>t DEF CloseDriver
    <3>3. revoked' \subseteq Partitions
      BY <1>7, <1>t DEF CloseDriver, OwnedPartitions
    <3>4. /\ generation' \in Nat /\ owned' \in [Partitions -> Nat]
          /\ \A p \in Partitions : owned'[p] <= generation'
      BY <1>7, <1>t DEF CloseDriver
    <3> QED
      BY <3>1, <3>2, <3>3, <3>4
  <2> QED
    BY <2>1, <2>2, <1>7 DEF CloseDriver, WaveOK, PCs, history
<1>8. CASE Restart
  <2>1. excused' \in [Partitions -> SUBSET Nat]
    <3>1. ASSUME NEW i \in DOMAIN wave, wave[i].st = "precommitted" PROVE Unit(wave[i]) \subseteq Nat
      <4>1. wave[i] \in Group /\ GroupOK(wave[i])
        BY <3>1 DEF WaveOK
      <4>2. wave[i].lo <= wave[i].at /\ wave[i].at <= wave[i].hi
        BY <3>1, <4>1 DEF GroupOK
      <4> QED
        BY <4>1, <4>2, ResolvedFacts
    <3>2. \A p \in Partitions :
             UNION {Unit(wave[i]) : i \in {j \in DOMAIN wave :
                      wave[j].part = p /\ wave[j].st = "precommitted"}} \subseteq Nat
      BY <3>1
    <3> QED
      BY <1>8, <3>2, <1>t DEF Restart
  <2>2. faults' \in Nat /\ generation' \in Nat /\ owned' \in [Partitions -> Nat]
        /\ \A p \in Partitions : owned'[p] <= generation'
    BY <1>8, <1>t DEF Restart, Fault
  <2>3. wave' = <<>> /\ WaveOK'
    BY <1>8, <2>2 DEF Restart, WaveOK
  <2>4. pc' \in PCs /\ deferred' \in BOOLEAN /\ closing' \in BOOLEAN /\ fenced' \in BOOLEAN
    BY <1>8 DEF Restart, PCs
  <2>5. /\ pending' \in [Partitions -> OptOffsets] /\ plan' \in [Partitions -> OptOffsets]
        /\ stored' \in [Partitions -> OptOffsets] /\ position' \in [Partitions -> Offsets]
        /\ revoked' \subseteq Partitions /\ assigned' \subseteq Partitions
    BY <1>8 DEF Restart
  <2>6. wave' \in Seq(Group)
    BY <2>3
  <2>7. UNCHANGED <<committed, handled, started, repeated>>
    BY <1>8 DEF Restart
  <2> QED
    BY <2>1, <2>2, <2>3, <2>4, <2>5, <2>6, <2>7
<1> QED
  BY <1>1, <1>2, <1>3, <1>4, <1>5, <1>6, <1>7, <1>8 DEF Environment

(* Type correctness of the consume loop: what every variable may hold,     *)
(* for every number of partitions, records, workers and faults.            *)
THEOREM TypeCorrect == Spec => []TypeOK
<1>1. TypeInv /\ [Next]_vars => TypeInv'
  <2>1. TypeInv /\ UNCHANGED vars => TypeInv'
    BY DEF TypeInv, TypeOK, WaveOK, GroupOK, vars, runVars, rebalanceVars, driverVars,
       brokerVars, history
  <2> QED
    BY <2>1, TypeRun, TypeEnvironment DEF Next
<1>2. TypeInv => TypeOK
  BY DEF TypeInv
<1> QED
  BY TypeInit, <1>1, <1>2, PTL DEF Spec
----------------------------------------------------------------------------
LEMMA OwnedRun ==
    ASSUME TypeInv, RewindsOwned, Run
    PROVE  RewindsOwned'
<1>1. CASE BeginRun
  <2>1. /\ pc = "idle" /\ UNCHANGED <<pending, owned, revoked, assigned>>
        /\ \/ pc' = "poll" /\ plan' = plan
           \/ pc' = "reseek" /\ plan' = StillOwned(pending)
    BY <1>1 DEF BeginRun, rebalanceVars, driverVars
  <2> QED
    BY <2>1, OffsetFacts DEF RewindsOwned, StillOwned
<1>2. CASE Reseek
  <2>1. /\ plan' = NoOffsets /\ pending' \in {NoOffsets, pending}
        /\ UNCHANGED <<owned, revoked, assigned>>
    BY <1>2 DEF Reseek, SeekSucceeds, SeekFails, rebalanceVars
  <2> QED
    BY <2>1, OffsetFacts DEF RewindsOwned
<1>3. CASE EndGather \/ PollError \/ CancelPoll \/ EndWave
  <2>1. /\ pc \in {"poll", "dispatch"} /\ pc' \in {"idle", "poll", "dispatch", "filter"}
        /\ UNCHANGED <<plan, pending, owned, revoked, assigned>>
    BY <1>3 DEF EndGather, PollError, CancelPoll, EndWave, rebalanceVars, driverVars
  <2> QED
    BY <2>1 DEF RewindsOwned
<1>4. ASSUME NEW p \in Partitions, Read(p) PROVE RewindsOwned'
  BY <1>4 DEF Read, RewindsOwned, rebalanceVars
<1>5. CASE StopLaunching
  BY <1>5 DEF StopLaunching, RewindsOwned, runUnchanged, rebalanceVars, driverVars
<1>6. ASSUME NEW i \in DOMAIN wave, Worker(i) PROVE RewindsOwned'
  <2>1. UNCHANGED <<runUnchanged, assigned>>
    BY <1>6 DEF Worker, Launch, CancelWorker, PreCommit, Handle, Resolve, driverVars
  <2> QED
    BY <2>1 DEF RewindsOwned, runUnchanged, rebalanceVars
<1>7. CASE FilterRewinds
  <2>1. PICK positions \in [Partitions -> OptOffsets] :
          /\ plan' = StillOwned(positions)
          /\ pc' = IF Requested(StillOwned(positions)) = {} THEN "idle" ELSE "seek"
    BY <1>7 DEF FilterRewinds
  <2>2. UNCHANGED <<pending, owned, revoked, assigned>>
    BY <1>7 DEF FilterRewinds, rebalanceVars, driverVars
  <2>3. pc' = "idle" => plan' = NoOffsets
    BY <2>1 DEF StillOwned, Requested, NoOffsets
  <2>4. \A p \in Partitions : plan'[p] # None => p \notin revoked /\ p \in assigned
    BY <2>1 DEF StillOwned
  <2> QED
    BY <2>1, <2>2, <2>3, <2>4 DEF RewindsOwned
<1>8. CASE SeekRewinds
  <2>1. /\ \/ pc' = "idle" /\ plan' = NoOffsets
           \/ pc' = "record" /\ plan' = plan
        /\ UNCHANGED <<pending, owned, revoked, assigned>>
    BY <1>8 DEF SeekRewinds, SeekSucceeds, SeekFails, rebalanceVars
  <2> QED
    BY <2>1, OffsetFacts DEF RewindsOwned
<1>9. CASE RecordRewinds
  <2>1. pc' = "idle" /\ plan' = NoOffsets /\ UNCHANGED <<owned, revoked, assigned>>
    BY <1>9 DEF RecordRewinds, rebalanceVars, driverVars
  <2>2. ASSUME NEW p \in Partitions, pending'[p] # None PROVE owned[p] # 0
    <3>1. CASE closing
      BY <1>9, <2>2, <3>1 DEF RecordRewinds, RewindsOwned
    <3>2. CASE ~closing
      <4>1. pending'[p] = Earliest(pending[p], IF p \in revoked THEN None ELSE plan[p])
        BY <1>9, <3>2 DEF RecordRewinds, Merged
      <4>2. pending[p] # None \/ (p \notin revoked /\ plan[p] # None)
        BY <4>1, <2>2 DEF Earliest
      <4> QED
        BY <4>2 DEF RewindsOwned
    <3> QED
      BY <3>1, <3>2
  <2> QED
    BY <2>1, <2>2, OffsetFacts DEF RewindsOwned
<1> QED
  BY <1>1, <1>2, <1>3, <1>4, <1>5, <1>6, <1>7, <1>8, <1>9 DEF Run

LEMMA OwnedEnvironment ==
    ASSUME TypeInv, RewindsOwned, Environment
    PROVE  RewindsOwned'
<1>1. ASSUME NEW S \in SUBSET Partitions, AssignPartitions(S) PROVE RewindsOwned'
  <2>1. /\ UNCHANGED <<pc, plan, pending>> /\ revoked' = revoked \ S
        /\ \A p \in Partitions : p \in S => owned'[p] = generation + 1
        /\ \A p \in Partitions : p \notin S /\ owned[p] # 0 => owned'[p] = owned[p]
        /\ \A p \in Partitions : p \notin S /\ p \in assigned' => p \in assigned
    <3>1. \A p \in Partitions : owned[p] # 0 => Cooperative
      BY <1>1 DEF AssignPartitions, OwnedPartitions
    <3> QED
      BY <1>1, <3>1 DEF AssignPartitions, runVars
  <2>2. generation + 1 # 0
    BY DEF TypeInv, TypeOK
  <2> QED
    BY <2>1, <2>2 DEF RewindsOwned
<1>2. ASSUME NEW S \in SUBSET Partitions, RevokePartitions(S) PROVE RewindsOwned'
  <2>1. /\ UNCHANGED <<pc, plan>> /\ revoked' = revoked \cup S
        /\ \A p \in Partitions : pending'[p] = IF p \in S THEN None ELSE pending[p]
        /\ assigned' \subseteq assigned
    BY <1>2 DEF RevokePartitions
  <2>2. \A p \in Partitions : p \notin S /\ owned[p] # 0 => owned'[p] = owned[p]
    <3>1. \A p \in Partitions : p \notin S /\ owned[p] # 0 => Cooperative
      BY <1>2 DEF RevokePartitions, OwnedPartitions
    <3> QED
      BY <1>2, <3>1 DEF RevokePartitions
  <2> QED
    BY <2>1, <2>2 DEF RewindsOwned
<1>3. ASSUME NEW p \in Partitions, BackgroundCommit(p) \/ OtherMember(p) PROVE RewindsOwned'
  BY <1>3 DEF BackgroundCommit, OtherMember, RewindsOwned, runVars, rebalanceVars, driverVars
<1>4. CASE Fence \/ RequestClose
  BY <1>4 DEF Fence, RequestClose, RewindsOwned, runVars, rebalanceVars, driverVars
<1>5. CASE CloseDriver
  <2>1. /\ plan = NoOffsets /\ plan' = plan /\ assigned' = {}
        /\ \A p \in Partitions : pending'[p] = IF owned[p] # 0 THEN None ELSE pending[p]
    BY <1>5 DEF CloseDriver, RewindsOwned, OwnedPartitions
  <2> QED
    BY <2>1, OffsetFacts DEF RewindsOwned
<1>6. CASE Restart
  BY <1>6, OffsetFacts DEF Restart, RewindsOwned
<1> QED
  BY <1>1, <1>2, <1>3, <1>4, <1>5, <1>6 DEF Environment

(* For every commit mode and every interleaving of callbacks with a failed *)
(* seek: a retained rewind belongs to a partition this member owns.        *)
THEOREM RetainedRewindsOwned == Spec => []PendingOnlyOwned
<1>1. Init => TypeInv /\ RewindsOwned
  <2>1. Init => RewindsOwned
    BY OffsetFacts DEF Init, FreshMember, RewindsOwned
  <2> QED
    BY <2>1, TypeInit
<1>2. TypeInv /\ RewindsOwned /\ [Next]_vars => (TypeInv /\ RewindsOwned)'
  <2>1. TypeInv /\ RewindsOwned /\ UNCHANGED vars => RewindsOwned'
    BY DEF RewindsOwned, vars, runVars, rebalanceVars, driverVars
  <2>2. TypeInv /\ UNCHANGED vars => TypeInv'
    BY DEF TypeInv, TypeOK, WaveOK, GroupOK, vars, runVars, rebalanceVars, driverVars,
       brokerVars, history
  <2> QED
    BY <2>1, <2>2, TypeRun, TypeEnvironment, OwnedRun, OwnedEnvironment DEF Next
<1>3. TypeInv /\ RewindsOwned => PendingOnlyOwned
  BY DEF RewindsOwned, PendingOnlyOwned, OwnedPartitions
<1> QED
  BY <1>1, <1>2, <1>3, PTL DEF Spec
----------------------------------------------------------------------------
LEMMA CoversMono ==
    ASSUME NEW h, NEW k, h \subseteq k, NEW x, Covers(h, x)
    PROVE  Covers(k, x)
BY DEF Covers

LEMMA CoversZero == ASSUME NEW h PROVE Covers(h, 0)
BY DEF Covers

LEMMA CoversRange ==
    ASSUME NEW h, NEW x \in Nat, NEW y \in Nat, Covers(h, x), x .. y \subseteq h
    PROVE  Covers(h, y + 1)
BY DEF Covers

(* The accounted records change only with the history and with the units   *)
(* that are committed and not yet handed over.                             *)
LEMMA AccountedSame ==
    ASSUME UNCHANGED history,
           \A i \in DOMAIN wave : wave[i].st = "precommitted" =>
               i \in DOMAIN wave' /\ wave'[i] = wave[i],
           \A i \in DOMAIN wave' : wave'[i].st = "precommitted" =>
               i \in DOMAIN wave /\ wave'[i] = wave[i]
    PROVE  Accounted' = Accounted
<1>1. ASSUME NEW p \in Partitions PROVE InHand(p)' = InHand(p)
  BY DEF InHand, Unit
<1> QED
  BY <1>1 DEF Accounted, history

LEMMA AccountedGrows ==
    ASSUME \A p \in Partitions : /\ handled[p] \subseteq handled'[p]
                                 /\ started[p] \subseteq started'[p]
                                 /\ excused[p] \subseteq excused'[p],
           \A i \in DOMAIN wave : wave[i].st = "precommitted" =>
               \/ i \in DOMAIN wave' /\ wave'[i] = wave[i]
               \/ Unit(wave[i]) \subseteq started'[wave[i].part] \cup excused'[wave[i].part]
    PROVE  \A p \in Partitions : Accounted[p] \subseteq Accounted'[p]
<1>1. ASSUME NEW p \in Partitions, NEW o \in InHand(p)
      PROVE  o \in started'[p] \cup excused'[p] \cup InHand(p)'
  <2>1. PICK i \in DOMAIN wave : wave[i].part = p /\ wave[i].st = "precommitted" /\ o \in Unit(wave[i])
    BY DEF InHand
  <2>2. CASE Unit(wave[i]) \subseteq started'[wave[i].part] \cup excused'[wave[i].part]
    BY <2>1, <2>2
  <2>3. CASE i \in DOMAIN wave' /\ wave'[i] = wave[i]
    <3>1. o \in Unit(wave'[i]) /\ wave'[i].part = p /\ wave'[i].st = "precommitted"
      BY <2>1, <2>3 DEF Unit
    <3>2. o \in InHand(p)'
      BY <2>3, <3>1 DEF InHand, Unit
    <3> QED
      BY <3>2
  <2> QED
    BY <2>1, <2>2, <2>3
<1>2. ASSUME NEW p \in Partitions PROVE InHand(p) \subseteq started'[p] \cup excused'[p] \cup InHand(p)'
  BY <1>1
<1> QED
  BY <1>2 DEF Accounted

(* Outside of dispatching no unit is committed ahead of its handler.       *)
LEMMA NothingInHand ==
    ASSUME TypeInv, LocalsOK, pc # "dispatch"
    PROVE  \A i \in DOMAIN wave : wave[i].st # "precommitted"
BY DEF TypeInv, WaveOK, LocalsOK

(* A step that touches the offsets of the group and one worker only.       *)
LEMMA SafeOfSetGroup ==
    ASSUME TypeInv, Safe, pc = "dispatch", UNCHANGED <<runUnchanged, assigned, position>>,
           NEW i \in DOMAIN wave, NEW m \in Group, SetGroup(i, m),
           m.part = wave[i].part, m.gen = wave[i].gen, m.hi = wave[i].hi,
           GroupDone(m, Accounted'[m.part]),
           m.st = "dropped" => closing \/ ~Admissible(wave[i]),
           \A p \in Partitions : Accounted[p] \subseteq Accounted'[p],
           \A p \in Partitions : Covers(Accounted'[p], committed'[p]),
           \A p \in Partitions : stored'[p] # None => Covers(Accounted'[p], stored'[p])
    PROVE  Safe'
<1>0. UNCHANGED <<pc, plan, pending, closing, owned, generation, revoked, assigned, position>>
  BY DEF runUnchanged, rebalanceVars
<1>1. /\ wave' \in Seq(Group) /\ DOMAIN wave' = DOMAIN wave /\ wave'[i] = m
      /\ \A j \in DOMAIN wave : j # i => wave'[j] = wave[j]
  BY SetGroupFacts DEF TypeInv, TypeOK
<1>2. LocalsOK' /\ OwnershipOK' /\ ReseekOK'
  BY <1>0 DEF Safe, LocalsOK, OwnershipOK, ReseekOK
<1>3. OffsetsDone'
  BY <1>0, CoversMono DEF Safe, OffsetsDone, Reached
<1>4. WorkersDone'
  <2>1. ASSUME NEW j \in DOMAIN wave, j # i PROVE GroupDone(wave'[j], Accounted'[wave'[j].part])
    <3>1. GroupDone(wave[j], Accounted[wave[j].part]) /\ wave'[j] = wave[j] /\ wave[j].part \in Partitions
      BY <2>1, <1>1, GroupFacts DEF Safe, WorkersDone, TypeInv, TypeOK
    <3> QED
      BY <3>1, CoversMono DEF GroupDone, Reached, Unit
  <2>2. GroupDone(wave'[i], Accounted'[wave'[i].part])
    BY <1>1 DEF GroupDone, Reached, Unit
  <2> QED
    BY <1>1, <2>1, <2>2 DEF WorkersDone
<1>5. PositionsCovered'
  <2> SUFFICES ASSUME ~closing, NEW p \in Partitions, owned[p] # 0
               PROVE  Covers(Accounted'[p], position[p]) \/ InWave(p)'
    BY <1>0 DEF PositionsCovered, Reached
  <2>1. Reached(p, position[p]) \/ InWave(p)
    BY DEF Safe, LocalsOK, PositionsCovered, NoOffsets
  <2>2. CASE Reached(p, position[p])
    BY <2>2, CoversMono DEF Reached
  <2>3. CASE InWave(p)
    <3>1. PICK j \in DOMAIN wave : /\ wave[j].part = p /\ wave[j].gen = owned[p]
                                   /\ wave[j].hi + 1 = position[p]
                                   /\ wave[j].st # "dropped"
      BY <2>3 DEF InWave
    <3>2. wave'[j].part = p /\ wave'[j].gen = owned[p] /\ wave'[j].hi + 1 = position[p]
      BY <3>1, <1>1
    <3>3. wave'[j].st # "dropped"
      <4>1. j = i => Admissible(wave[i])
        BY <3>1 DEF Admissible
      <4> QED
        BY <4>1, <3>1, <1>1
    <3> QED
      BY <3>2, <3>3, <1>0, <1>1 DEF InWave
  <2> QED
    BY <2>1, <2>2, <2>3
<1> QED
  BY <1>2, <1>3, <1>4, <1>5 DEF Safe

LEMMA SafeWorker ==
    ASSUME TypeInv, Safe, NEW i \in DOMAIN wave, Worker(i)
    PROVE  Safe'
<1> DEFINE g == wave[i]
<1>1. /\ g \in Group /\ g.part \in Partitions /\ GroupOK(g) /\ GroupDone(g, Accounted[g.part])
      /\ g.at \in Nat /\ g.hi \in Nat /\ g.lo \in Nat /\ g.hi \in Records /\ g.hi + 1 < None
  <2>1. g \in Group
    BY DEF TypeInv, TypeOK
  <2> QED
    BY <2>1, GroupFacts, ConsumerAssumption DEF TypeInv, WaveOK, Safe, WorkersDone, Records, None
<1>2. pc = "dispatch"
  BY DEF Worker
<1>3. \A st \in {"admitted", "precommitted", "dropped", "handled", "failed"} : st \in GroupStates
  BY DEF GroupStates
<1>4. /\ \A p \in Partitions : Covers(Accounted[p], committed[p])
      /\ \A p \in Partitions : stored[p] # None => Covers(Accounted[p], stored[p])
  BY DEF Safe, OffsetsDone, Reached
<1>5. /\ committed \in [Partitions -> Offsets] /\ stored \in [Partitions -> OptOffsets]
      /\ handled \in [Partitions -> SUBSET Nat] /\ started \in [Partitions -> SUBSET Nat]
      /\ excused \in [Partitions -> SUBSET Nat] /\ wave \in Seq(Group)
  BY DEF TypeInv, TypeOK
<1> HIDE DEF g
<1>a. ASSUME NEW m \in Group, SetGroup(i, m), g.st # "precommitted", m.st # "precommitted",
             UNCHANGED history
      PROVE  Accounted' = Accounted
  BY <1>a, <1>5, SetGroupFacts, AccountedSame DEF g
<1>b. ASSUME NEW m \in Group, SetGroup(i, m),
             \A p \in Partitions : /\ handled[p] \subseteq handled'[p]
                                   /\ started[p] \subseteq started'[p]
                                   /\ excused[p] \subseteq excused'[p],
             g.st = "precommitted" => Unit(g) \subseteq started'[g.part]
      PROVE  \A p \in Partitions : Accounted[p] \subseteq Accounted'[p]
  BY <1>b, <1>5, SetGroupFacts, AccountedGrows DEF g
<1>c. ASSUME NEW st \in {"admitted", "precommitted", "dropped", "handled", "failed"}
      PROVE  LET m == Mark(g, st) IN
             /\ m \in Group /\ m.st = st /\ m.part = g.part /\ m.gen = g.gen
             /\ m.lo = g.lo /\ m.hi = g.hi /\ m.at = g.at
  <2>1. st \in GroupStates
    BY <1>c, <1>3
  <2> QED
    BY <2>1, <1>1, MarkFacts
<1>d. g.st \in {"admitted", "precommitted", "handled"} =>
         /\ g.gen # 0 /\ g.lo <= g.at /\ g.at <= g.hi /\ g.at # None
         /\ Covers(Accounted[g.part], g.at) /\ (BatchMode => g.at = g.lo)
  <2>1. g.at <= g.hi => g.at # None
    BY <1>1, ConsumerAssumption DEF None
  <2> QED
    BY <2>1, <1>1 DEF GroupOK, GroupDone
<1>e. ASSUME g.st \in {"admitted", "precommitted", "handled"}, NEW done,
             Covers(done, g.at), Unit(g) \subseteq done
      PROVE  Covers(done, Resolved(g))
  <2>1. CASE BatchMode
    BY <2>1, <1>1, <1>d, <1>e, CoversRange, ResolvedFacts
  <2>2. CASE ~BatchMode
    <3>1. Unit(g) = g.at .. g.at /\ Resolved(g) = g.at + 1
      BY <2>2, <1>1, <1>d, <1>e, ResolvedFacts
    <3> QED
      BY <3>1, <1>1, <1>e, CoversRange
  <2> QED
    BY <2>1, <2>2
<1>6. CASE Launch(i)
  <2> DEFINE st == IF Admissible(g) THEN "admitted" ELSE "dropped"
             m == Mark(g, st)
  <2>1. m \in Group /\ m.st = st /\ m.part = g.part /\ m.gen = g.gen
        /\ m.lo = g.lo /\ m.hi = g.hi /\ m.at = g.at
    BY <1>1, <1>3, MarkFacts
  <2>2. SetGroup(i, m) /\ g.st = "queued"
        /\ UNCHANGED <<runUnchanged, driverVars, brokerVars, history, faults>>
    BY <1>6 DEF Launch, g
  <2>3. UNCHANGED <<Accounted, committed, stored, assigned, position>>
    BY <2>1, <2>2, <1>a DEF driverVars, brokerVars
  <2>4. GroupDone(m, Accounted'[m.part])
    <3>1. st = "admitted" => g.gen # 0
      BY DEF Admissible
    <3> HIDE DEF m
    <3> QED
      BY <2>1, <2>2, <2>3, <3>1, <1>1 DEF GroupDone, Reached, Unit
  <2>5. m.st = "dropped" => ~Admissible(wave[i])
    BY <2>1 DEF g
  <2> HIDE DEF m, st
  <2> QED
    BY <1>1, <1>2, <1>4, <2>1, <2>2, <2>3, <2>4, <2>5, SafeOfSetGroup DEF g
<1>7. CASE CancelWorker(i)
  <2>1. LET m == Mark(g, "dropped") IN
        /\ m \in Group /\ m.st = "dropped" /\ m.part = g.part /\ m.gen = g.gen
        /\ m.lo = g.lo /\ m.hi = g.hi /\ m.at = g.at
    BY <1>1, <1>3, MarkFacts
  <2>2. SetGroup(i, Mark(g, "dropped")) /\ closing /\ g.st = "admitted"
        /\ UNCHANGED <<runUnchanged, driverVars, brokerVars, history, faults>>
    BY <1>7 DEF CancelWorker, g
  <2>3. UNCHANGED <<Accounted, committed, stored, assigned, position>>
    BY <2>1, <2>2, <1>a DEF driverVars, brokerVars
  <2>4. GroupDone(Mark(g, "dropped"), Accounted'[g.part])
    BY <2>1, <2>2, <2>3, <1>1 DEF GroupDone, Reached, Unit
  <2> QED
    BY <1>1, <1>2, <1>4, <2>1, <2>2, <2>3, <2>4, SafeOfSetGroup DEF g
<1>8. CASE PreCommit(i)
  <2>1. /\ CommitMode = "before" /\ g.st = "admitted"
        /\ UNCHANGED <<runUnchanged, driverVars, handled, started>>
        /\ \/ CommitSucceeds(g) /\ SetGroup(i, Mark(g, "precommitted"))
           \/ CommitFails(g) /\ SetGroup(i, Mark(g, "failed"))
    BY <1>8 DEF PreCommit, FailAt, g
  <2>2. UNCHANGED <<stored, assigned, position>>
    BY <2>1 DEF driverVars
  <2>3. \/ excused' = excused
        \/ excused' = [excused EXCEPT ![g.part] = @ \cup Unit(g)]
    BY <2>1 DEF CommitSucceeds, CommitFails
  <2>4. \A p \in Partitions : Accounted[p] \subseteq Accounted'[p]
    <3>1. \A p \in Partitions : excused[p] \subseteq excused'[p]
      BY <2>3, <1>1, <1>5
    <3>2. PICK m \in Group : SetGroup(i, m)
      BY <2>1, <1>c
    <3> QED
      BY <3>1, <3>2, <2>1, <1>b
  <2>5. committed' # committed => /\ committed' = [committed EXCEPT ![g.part] = Resolved(g)]
                                  /\ Unit(g) \subseteq Accounted'[g.part]
    <3>1. CASE CommitSucceeds(g) /\ SetGroup(i, Mark(g, "precommitted"))
      <4> DEFINE m == Mark(g, "precommitted")
      <4>1. m \in Group /\ m.st = "precommitted" /\ m.part = g.part /\ Unit(m) = Unit(g)
        BY <1>c DEF Unit
      <4>2. i \in DOMAIN wave' /\ wave'[i] = m
        BY <3>1, <4>1, <1>5, SetGroupFacts
      <4> HIDE DEF m
      <4>3. ASSUME NEW q \in Partitions, q = g.part PROVE Unit(g) \subseteq InHand(q)'
        BY <4>1, <4>2, <4>3 DEF InHand, Unit
      <4> QED
        BY <4>3, <3>1, <2>1, <1>1 DEF Accounted, CommitSucceeds
    <3>2. CASE CommitFails(g)
      <4>1. committed' # committed => /\ committed' = [committed EXCEPT ![g.part] = Resolved(g)]
                                      /\ excused' = [excused EXCEPT ![g.part] = @ \cup Unit(g)]
        BY <3>2 DEF CommitFails, brokerVars
      <4> QED
        BY <4>1, <2>1, <1>1, <1>5 DEF Accounted
    <3> QED
      BY <2>1, <3>1, <3>2
  <2>6. Covers(Accounted'[g.part], g.at)
    BY <2>1, <2>4, <1>1, <1>d, CoversMono
  <2>7. \A p \in Partitions : Covers(Accounted'[p], committed'[p])
    <3>1. \A p \in Partitions : Covers(Accounted'[p], committed[p])
      BY <2>4, <1>4, CoversMono
    <3>2. committed' # committed => Covers(Accounted'[g.part], Resolved(g))
      BY <2>1, <2>5, <2>6, <1>e
    <3> QED
      BY <3>1, <3>2, <2>5, <1>1, <1>5
  <2>8. \A p \in Partitions : stored'[p] # None => Covers(Accounted'[p], stored'[p])
    BY <2>2, <2>4, <1>4, CoversMono
  <2>9. ASSUME NEW st \in {"precommitted", "failed"}, SetGroup(i, Mark(g, st)) PROVE Safe'
    <3> DEFINE m == Mark(g, st)
    <3>1. m \in Group /\ m.st = st /\ m.part = g.part /\ m.gen = g.gen
          /\ m.lo = g.lo /\ m.hi = g.hi /\ m.at = g.at
      BY <1>c
    <3>2. SetGroup(i, m)
      BY <2>9
    <3> HIDE DEF m
    <3>3. GroupDone(m, Accounted'[m.part])
      BY <3>1, <2>1, <2>6, <2>9, <1>1, <1>d DEF GroupDone
    <3> QED
      BY <1>1, <1>2, <2>1, <2>2, <2>4, <2>7, <2>8, <2>9, <3>1, <3>2, <3>3, SafeOfSetGroup DEF g
  <2> QED
    BY <2>1, <2>9
<1>9. CASE Handle(i)
  <2>1. /\ g.st = IF CommitMode = "before" THEN "precommitted" ELSE "admitted"
        /\ UNCHANGED <<runUnchanged, driverVars, brokerVars, excused>>
        /\ started' = [started EXCEPT ![g.part] = @ \cup Unit(g)]
        /\ \/ /\ handled' = [handled EXCEPT ![g.part] = @ \cup Unit(g)]
              /\ SetGroup(i, IF CommitMode = "before" THEN Advance(g) ELSE Mark(g, "handled"))
           \/ SetGroup(i, HandlerFailed(g)) /\ handled' = handled
           \/ SetGroup(i, Mark(g, "dropped")) /\ handled' = handled /\ closing
    BY <1>9 DEF Handle, g
  <2>2. UNCHANGED <<committed, stored, assigned, position>>
    BY <2>1 DEF driverVars, brokerVars
  <2>3. g.st \in {"admitted", "precommitted"}
    BY <2>1
  <2>4. /\ Unit(g) \subseteq started'[g.part]
        /\ \A p \in Partitions : /\ handled[p] \subseteq handled'[p]
                                  /\ started[p] \subseteq started'[p]
                                  /\ excused[p] \subseteq excused'[p]
    BY <2>1, <1>1, <1>5
  <2>5. ASSUME NEW m \in Group, SetGroup(i, m),
               m.part = g.part, m.gen = g.gen, m.lo = g.lo, m.hi = g.hi,
               Accounted[g.part] \subseteq Accounted'[g.part] => GroupDone(m, Accounted'[m.part]),
               m.st = "dropped" => closing
        PROVE  Safe'
    <3>1. \A p \in Partitions : Accounted[p] \subseteq Accounted'[p]
      BY <2>4, <2>5, <1>b
    <3>2. /\ \A p \in Partitions : Covers(Accounted'[p], committed'[p])
          /\ \A p \in Partitions : stored'[p] # None => Covers(Accounted'[p], stored'[p])
      BY <2>2, <3>1, <1>4, CoversMono
    <3>3. GroupDone(m, Accounted'[m.part])
      BY <3>1, <2>5, <1>1
    <3> QED
      BY <1>1, <1>2, <2>1, <2>2, <2>5, <3>1, <3>2, <3>3, SafeOfSetGroup DEF g
  <2>6. Accounted[g.part] \subseteq Accounted'[g.part] => Covers(Accounted'[g.part], g.at)
    BY <2>3, <1>d, CoversMono
  <2>7. CASE SetGroup(i, Mark(g, "dropped")) /\ closing
    <3> DEFINE m == Mark(g, "dropped")
    <3>1. m \in Group /\ m.st = "dropped" /\ m.part = g.part /\ m.gen = g.gen
          /\ m.lo = g.lo /\ m.hi = g.hi /\ m.at = g.at
      BY <1>c
    <3>2. SetGroup(i, m)
      BY <2>7
    <3> HIDE DEF m
    <3>3. Accounted[g.part] \subseteq Accounted'[g.part] => GroupDone(m, Accounted'[m.part])
      BY <3>1, <2>3, <2>6, <1>d DEF GroupDone
    <3> QED
      BY <3>1, <3>2, <3>3, <2>5, <2>7
  <2>8. CASE CommitMode # "before"
    <3>1. HandlerFailed(g) = Mark(g, "failed")
      BY <2>8 DEF HandlerFailed, FailAt
    <3>2. SetGroup(i, Mark(g, "handled")) \/ SetGroup(i, Mark(g, "failed"))
          \/ (SetGroup(i, Mark(g, "dropped")) /\ closing)
      BY <2>1, <2>8, <3>1
    <3>3. CASE SetGroup(i, Mark(g, "failed"))
      <4> DEFINE m == Mark(g, "failed")
      <4>1. m \in Group /\ m.st = "failed" /\ m.part = g.part /\ m.gen = g.gen
            /\ m.lo = g.lo /\ m.hi = g.hi /\ m.at = g.at
        BY <1>c
      <4>2. SetGroup(i, m)
        BY <3>3
      <4> HIDE DEF m
      <4>3. Accounted[g.part] \subseteq Accounted'[g.part] => GroupDone(m, Accounted'[m.part])
        BY <4>1, <2>3, <2>6, <1>d DEF GroupDone
      <4> QED
        BY <4>1, <4>2, <4>3, <2>5
    <3>4. CASE /\ SetGroup(i, Mark(g, "handled"))
               /\ handled' = [handled EXCEPT ![g.part] = @ \cup Unit(g)]
      <4> DEFINE m == Mark(g, "handled")
      <4>1. m \in Group /\ m.st = "handled" /\ m.part = g.part /\ m.gen = g.gen
            /\ m.lo = g.lo /\ m.hi = g.hi /\ m.at = g.at
        BY <1>c
      <4>2. SetGroup(i, m)
        BY <3>4
      <4> HIDE DEF m
      <4>3. Unit(m) = Unit(g)
        BY <4>1 DEF Unit
      <4>4. Unit(g) \subseteq Accounted'[g.part]
        BY <2>8, <3>4, <1>1, <1>5 DEF Accounted
      <4>5. Accounted[g.part] \subseteq Accounted'[g.part] => GroupDone(m, Accounted'[m.part])
        BY <4>1, <4>3, <4>4, <2>3, <2>6, <1>d DEF GroupDone
      <4> QED
        BY <4>1, <4>2, <4>5, <2>5
    <3> QED
      BY <2>1, <2>7, <2>8, <3>1, <3>3, <3>4
  <2>9. CASE CommitMode = "before"
    <3>1. Accounted[g.part] \subseteq Accounted'[g.part] =>
             Covers(Accounted'[g.part], Resolved(g))
      <4>1. Unit(g) \subseteq Accounted'[g.part]
        BY <2>4, <2>9, <1>1 DEF Accounted
      <4> QED
        BY <4>1, <2>3, <2>6, <1>e
    <3>2. CASE SetGroup(i, HandlerFailed(g))
      <4> DEFINE m == FailAfter(g)
      <4>1. /\ m \in Group /\ m.st = "failed"
            /\ m.part = g.part /\ m.gen = g.gen /\ m.lo = g.lo /\ m.hi = g.hi
            /\ \/ m.at = None /\ Resolved(g) = g.hi + 1
               \/ m.at = Resolved(g) /\ m.at <= m.hi
        BY <2>3, <1>1, <1>d, FailAfterFacts
      <4>2. SetGroup(i, m)
        BY <3>2, <2>9 DEF HandlerFailed
      <4> HIDE DEF m
      <4>3. Accounted[g.part] \subseteq Accounted'[g.part] => GroupDone(m, Accounted'[m.part])
        BY <4>1, <3>1, <2>3, <1>d DEF GroupDone
      <4> QED
        BY <4>1, <4>2, <4>3, <2>5
    <3>3. CASE SetGroup(i, Advance(g))
      <4> DEFINE m == Advance(g)
      <4>1. /\ m \in Group /\ m.at = Resolved(g)
            /\ m.part = g.part /\ m.gen = g.gen /\ m.lo = g.lo /\ m.hi = g.hi
            /\ \/ m.st = "done" /\ m.at = m.hi + 1
               \/ m.st = "admitted" /\ m.lo <= m.at /\ m.at <= m.hi /\ ~BatchMode
        BY <2>3, <1>1, <1>d, AdvanceFacts
      <4>2. SetGroup(i, m)
        BY <3>3
      <4> HIDE DEF m
      <4>3. Accounted[g.part] \subseteq Accounted'[g.part] => GroupDone(m, Accounted'[m.part])
        BY <4>1, <3>1, <2>3, <1>d DEF GroupDone
      <4> QED
        BY <4>1, <4>2, <4>3, <2>5
    <3> QED
      BY <2>1, <2>7, <2>9, <3>2, <3>3
  <2> QED
    BY <2>8, <2>9
<1>10. CASE Resolve(i)
  <2>1. /\ g.st = "handled" /\ CommitMode # "before"
        /\ UNCHANGED <<runUnchanged, handled, assigned, position>>
    BY <1>10 DEF Resolve, driverVars, g
  <2>2. Accounted' = Accounted
    BY <2>1 DEF Accounted
  <2>3. Covers(Accounted[g.part], Resolved(g)) /\ Resolved(g) \in Offsets
    <3>1. Unit(g) \subseteq Accounted[g.part]
      BY <2>1, <1>1 DEF GroupDone
    <3> QED
      BY <3>1, <2>1, <1>1, <1>d, <1>e, ResolvedFacts
  <2>5. \A p \in Partitions : Covers(Accounted'[p], committed'[p])
    <3>1. committed' = committed \/ committed' = [committed EXCEPT ![g.part] = Resolved(g)]
      BY <1>10 DEF Resolve, CommitSucceeds, CommitFails, brokerVars, g
    <3> QED
      BY <3>1, <2>2, <2>3, <1>1, <1>4, <1>5
  <2>6. \A p \in Partitions : stored'[p] # None => Covers(Accounted'[p], stored'[p])
    <3>1. stored' = stored \/ stored' = [stored EXCEPT ![g.part] = Resolved(g)]
      BY <1>10 DEF Resolve, driverVars, g
    <3> QED
      BY <3>1, <2>2, <2>3, <1>1, <1>4, <1>5
  <2>7. SetGroup(i, Advance(g)) \/ SetGroup(i, Mark(g, "failed"))
    BY <1>10 DEF Resolve, FailAt, g
  <2>8. CASE SetGroup(i, Advance(g))
    <3> DEFINE m == Advance(g)
    <3>1. /\ m \in Group /\ m.at = Resolved(g)
          /\ m.part = g.part /\ m.gen = g.gen /\ m.lo = g.lo /\ m.hi = g.hi
          /\ \/ m.st = "done" /\ m.at = m.hi + 1
             \/ m.st = "admitted" /\ m.lo <= m.at /\ m.at <= m.hi /\ ~BatchMode
      BY <2>1, <1>1, <1>d, AdvanceFacts
    <3>2. SetGroup(i, m)
      BY <2>8
    <3> HIDE DEF m
    <3>3. GroupDone(m, Accounted'[m.part])
      BY <3>1, <2>1, <2>2, <2>3, <1>d DEF GroupDone
    <3> QED
      BY <1>1, <1>2, <2>1, <2>2, <2>5, <2>6, <3>1, <3>2, <3>3, SafeOfSetGroup DEF g
  <2>9. CASE SetGroup(i, Mark(g, "failed"))
    <3> DEFINE m == Mark(g, "failed")
    <3>1. /\ m \in Group /\ m.st = "failed" /\ m.part = g.part /\ m.gen = g.gen
          /\ m.lo = g.lo /\ m.hi = g.hi /\ m.at = g.at
      BY <1>c
    <3>2. SetGroup(i, m)
      BY <2>9
    <3> HIDE DEF m
    <3>3. GroupDone(m, Accounted'[m.part])
      BY <3>1, <2>1, <2>2, <1>d DEF GroupDone
    <3> QED
      BY <1>1, <1>2, <2>1, <2>2, <2>5, <2>6, <3>1, <3>2, <3>3, SafeOfSetGroup DEF g
  <2> QED
    BY <2>7, <2>8, <2>9
<1> QED
  BY <1>6, <1>7, <1>8, <1>9, <1>10 DEF Worker

LEMMA SafeRead ==
    ASSUME TypeInv, Safe, NEW p \in Partitions, Read(p)
    PROVE  Safe'
<1> DEFINE same == {i \in DOMAIN wave : wave[i].part = p /\ wave[i].gen = owned[p]}
           new == NewGroup(p, owned[p], position[p])
<1>1. /\ pc = "poll" /\ ~closing /\ position[p] \in Records
      /\ UNCHANGED <<pc, plan, pending, closing, owned, revoked, assigned, stored, committed>>
      /\ position'[p] = position[p] + 1
      /\ \A q \in Partitions : q # p => position'[q] = position[q]
  BY OffsetFacts DEF Read, TypeInv, TypeOK, rebalanceVars, brokerVars, history
<1>2. /\ pending = NoOffsets /\ plan = NoOffsets
      /\ \A i \in DOMAIN wave : wave[i].st = "queued"
  BY <1>1 DEF Safe, LocalsOK
<1>3. /\ new \in Group /\ new.part = p /\ new.gen = owned[p] /\ new.st = "queued"
      /\ new.lo = position[p] /\ new.hi = position[p] /\ new.at = position[p]
  BY <1>1, NewGroupFacts DEF TypeInv, TypeOK
<1>4. \A i \in DOMAIN wave : wave[i] \in Group /\ GroupDone(wave[i], Accounted[wave[i].part])
  BY DEF TypeInv, TypeOK, Safe, WorkersDone
<1>5. /\ DOMAIN wave \subseteq DOMAIN wave'
      /\ \A i \in DOMAIN wave :
            /\ wave'[i].part = wave[i].part /\ wave'[i].gen = wave[i].gen
            /\ wave'[i].lo = wave[i].lo /\ wave'[i].at = wave[i].at /\ wave'[i].st = "queued"
            /\ wave'[i].hi = IF i \in same THEN position[p] ELSE wave[i].hi
      /\ \A i \in DOMAIN wave' : i \notin DOMAIN wave => wave'[i] = new /\ same = {}
      /\ \E i \in DOMAIN wave' : /\ wave'[i].part = p /\ wave'[i].gen = owned[p]
                                 /\ wave'[i].hi = position[p]
  <2>0. wave \in Seq(Group)
    BY DEF TypeInv, TypeOK
  <2>1. CASE same = {}
    <3>1. wave' = Append(wave, new)
      BY <2>1 DEF Read, Grouped
    <3>2. /\ DOMAIN wave' = 1 .. Len(wave) + 1 /\ DOMAIN wave = 1 .. Len(wave) /\ Len(wave) \in Nat
          /\ wave'[Len(wave) + 1] = new
          /\ \A i \in DOMAIN wave : wave'[i] = wave[i]
      BY <3>1, <2>0, <1>3, SeqAppend
    <3> HIDE DEF new
    <3>3. Len(wave) + 1 \in DOMAIN wave' /\ DOMAIN wave \subseteq DOMAIN wave'
          /\ \A i \in DOMAIN wave' : i \notin DOMAIN wave => i = Len(wave) + 1
      BY <3>2
    <3> QED
      BY <3>2, <3>3, <2>1, <1>2, <1>3
  <2>2. CASE same # {}
    <3>1. wave' = [i \in DOMAIN wave |->
                     IF i \in same THEN Extend(wave[i], position[p]) ELSE wave[i]]
      BY <2>2 DEF Read, Grouped
    <3> QED
      BY <3>1, <2>2, <1>1, <1>2, <1>4, ExtendFacts
  <2> QED
    BY <2>1, <2>2
<1> HIDE DEF new
<1>a. \A i \in DOMAIN wave' : wave'[i].st = "queued"
  BY <1>3, <1>5
<1>b. Accounted' = Accounted
  BY <1>2, <1>a, AccountedSame DEF Read
<1>6. LocalsOK' /\ OwnershipOK' /\ ReseekOK' /\ OffsetsDone'
  BY <1>1, <1>a, <1>b DEF Safe, LocalsOK, OwnershipOK, ReseekOK, OffsetsDone, Reached
<1>7. owned[p] # 0 /\ same = {} => Covers(Accounted[p], position[p])
  BY <1>1, <1>2 DEF Safe, PositionsCovered, InWave, Reached, NoOffsets
<1>8. WorkersDone'
  <2>1. ASSUME NEW i \in DOMAIN wave' PROVE GroupDone(wave'[i], Accounted'[wave'[i].part])
    <3>1. CASE i \in DOMAIN wave
      BY <3>1, <1>1, <1>b, <1>4, <1>5, <1>2 DEF GroupDone
    <3>2. CASE i \notin DOMAIN wave
      BY <3>2, <1>1, <1>b, <1>3, <1>5, <1>7 DEF GroupDone
    <3> QED
      BY <3>1, <3>2
  <2> QED
    BY <2>1 DEF WorkersDone
<1>9. PositionsCovered'
  <2>1. ASSUME NEW q \in Partitions, owned[q] # 0
        PROVE  Covers(Accounted[q], position'[q]) \/ InWave(q)'
    <3>1. CASE q = p
      BY <3>1, <1>1, <1>3, <1>5 DEF InWave
    <3>2. CASE q # p
      <4>1. Covers(Accounted[q], position[q]) \/ InWave(q)
        BY <1>1, <1>2, <2>1 DEF Safe, PositionsCovered, Reached, NoOffsets
      <4>2. CASE InWave(q)
        <5>1. PICK i \in DOMAIN wave : /\ wave[i].part = q /\ wave[i].gen = owned[q]
                                       /\ wave[i].hi + 1 = position[q]
          BY <4>2 DEF InWave
        <5>2. i \in DOMAIN wave' /\ wave'[i].part = q /\ wave'[i].gen = owned[q]
              /\ wave'[i].hi + 1 = position'[q] /\ wave'[i].st # "dropped"
          BY <5>1, <3>2, <1>1, <1>5
        <5> QED
          BY <5>2, <1>1 DEF InWave
      <4> QED
        BY <4>1, <4>2, <3>2, <1>1
    <3> QED
      BY <3>1, <3>2
  <2> QED
    BY <2>1, <1>1, <1>b DEF PositionsCovered, Reached
<1> QED
  BY <1>6, <1>8, <1>9 DEF Safe

(* A seek moves the driver only to offsets that are asked for.             *)
LEMMA SeekFacts ==
    ASSUME TypeInv, SeekSucceeds \/ SeekFails
    PROVE  /\ UNCHANGED <<assigned, stored>>
           /\ \A p \in Partitions : position'[p] = position[p]
                                     \/ (plan[p] # None /\ position'[p] = plan[p])
           /\ SeekSucceeds => \A p \in Partitions : plan[p] # None => position'[p] = plan[p]
<1>1. UNCHANGED <<assigned, stored>>
  BY DEF SeekSucceeds, SeekFails
<1>2. SeekSucceeds => \A p \in Partitions :
         position'[p] = IF plan[p] # None THEN plan[p] ELSE position[p]
  BY DEF SeekSucceeds
<1>3. ASSUME SeekFails, NEW p \in Partitions
      PROVE  position'[p] = position[p] \/ (plan[p] # None /\ position'[p] = plan[p])
  <2>1. PICK sought \in SUBSET (Requested(plan) \cap assigned) :
           position' = [q \in Partitions |->
                          IF q \in sought THEN plan[q] ELSE position[q]]
    BY <1>3 DEF SeekFails
  <2>2. p \in sought => plan[p] # None
    BY DEF Requested
  <2>3. position'[p] = IF p \in sought THEN plan[p] ELSE position[p]
    BY <2>1
  <2> QED
    BY <2>2, <2>3
<1> HIDE DEF SeekSucceeds, SeekFails
<1>4. ASSUME NEW p \in Partitions
      PROVE  position'[p] = position[p] \/ (plan[p] # None /\ position'[p] = plan[p])
  BY <1>2, <1>3, <1>4
<1>5. SeekSucceeds => \A p \in Partitions : plan[p] # None => position'[p] = plan[p]
  BY <1>2
<1> QED
  BY <1>1, <1>4, <1>5

LEMMA SafeOther ==
    ASSUME TypeInv, Safe,
           BeginRun \/ Reseek \/ EndGather \/ CancelPoll \/ StopLaunching
    PROVE  Safe'
<1> USE DEF Reached
<1>1. CASE BeginRun
  <2>1. /\ pc = "idle" /\ ~closing /\ wave = <<>> /\ pc' \in {"poll", "reseek"}
        /\ UNCHANGED <<pending, wave, closing, owned, revoked, assigned, position, stored, committed, Accounted>>
    BY <1>1, AccountedSame DEF BeginRun, TypeInv, WaveOK, rebalanceVars, driverVars, brokerVars, history
  <2>2. plan = NoOffsets
    BY <2>1 DEF Safe, LocalsOK
  <2>3. pc' = "poll" => plan' = NoOffsets /\ pending = NoOffsets
    <3>1. pc' = "poll" => Requested(pending) = {} /\ plan' = plan
      BY <1>1 DEF BeginRun
    <3>2. Requested(pending) = {} => pending = NoOffsets
      BY DEF Requested, NoOffsets, TypeInv, TypeOK
    <3> QED
      BY <3>1, <3>2, <2>2
  <2>4. pc' = "reseek" => \A p \in Partitions :
           plan'[p] = IF p \in revoked \/ p \notin assigned THEN None ELSE pending[p]
    BY <1>1 DEF BeginRun, StillOwned
  <2>5. LocalsOK' /\ OwnershipOK' /\ WorkersDone'
    BY <2>1, <2>3 DEF Safe, LocalsOK, OwnershipOK, WorkersDone
  <2>6. OffsetsDone'
    BY <2>1, <2>3, <2>4, OffsetFacts DEF Safe, OffsetsDone
  <2>7. PositionsCovered' /\ ReseekOK'
    BY <2>1, <2>2, <2>4 DEF Safe, PositionsCovered, InWave, ReseekOK, OwnershipOK
  <2> QED
    BY <2>5, <2>6, <2>7 DEF Safe
<1>2. CASE Reseek
  <2>1. /\ pc = "reseek" /\ wave = <<>> /\ plan' = NoOffsets
        /\ UNCHANGED <<wave, closing, owned, revoked, committed, Accounted>>
        /\ \/ SeekSucceeds /\ pending' = NoOffsets /\ pc' = "poll"
           \/ SeekFails /\ pending' = pending /\ pc' = "idle"
    BY <1>2, AccountedSame DEF Reseek, TypeInv, WaveOK, rebalanceVars, brokerVars, history
  <2>2. /\ UNCHANGED <<assigned, stored>>
        /\ \A p \in Partitions : position'[p] = position[p]
                                  \/ (plan[p] # None /\ position'[p] = plan[p])
        /\ SeekSucceeds => \A p \in Partitions : plan[p] # None => position'[p] = plan[p]
    BY <2>1, SeekFacts
  <2>3. LocalsOK' /\ OwnershipOK' /\ WorkersDone' /\ ReseekOK'
    BY <2>1, <2>2 DEF Safe, LocalsOK, OwnershipOK, WorkersDone, ReseekOK
  <2>4. OffsetsDone'
    BY <2>1, <2>2, OffsetFacts DEF Safe, OffsetsDone
  <2>5. PositionsCovered'
    <3>1. ASSUME ~closing, NEW p \in Partitions, owned[p] # 0
          PROVE  Covers(Accounted[p], position'[p]) \/ pending'[p] # None
      <4>1. Covers(Accounted[p], position[p]) \/ pending[p] # None
        BY <2>1, <3>1 DEF Safe, PositionsCovered, InWave
      <4>2. plan[p] # None => Covers(Accounted[p], plan[p])
        BY DEF Safe, OffsetsDone
      <4>3. pending[p] # None => plan[p] # None
        BY <2>1, <3>1 DEF Safe, ReseekOK
      <4> QED
        BY <4>1, <4>2, <4>3, <2>1, <2>2
    <3> QED
      BY <3>1, <2>1 DEF PositionsCovered
  <2> QED
    BY <2>3, <2>4, <2>5 DEF Safe
<1>3. CASE EndGather
  <2>1. Accounted' = Accounted
    BY <1>3, AccountedSame DEF EndGather
  <2> QED
    BY <1>3, <2>1 DEF EndGather, Safe, LocalsOK, OwnershipOK, OffsetsDone, WorkersDone,
     PositionsCovered, InWave, ReseekOK, rebalanceVars, driverVars, brokerVars, history
<1>4. CASE CancelPoll
  <2>1. Accounted' = Accounted
    BY <1>4, NothingInHand, AccountedSame DEF CancelPoll, Safe
  <2> QED
    BY <1>4, <2>1 DEF CancelPoll, Safe, LocalsOK, OwnershipOK, OffsetsDone, WorkersDone,
     PositionsCovered, ReseekOK, rebalanceVars, driverVars, brokerVars, history
<1>5. CASE StopLaunching
  <2>1. /\ pc = "dispatch" /\ closing
        /\ UNCHANGED <<pc, plan, pending, closing, owned, revoked, assigned, stored, committed>>
    BY <1>5 DEF StopLaunching, runUnchanged, rebalanceVars, driverVars, brokerVars
  <2>2. /\ DOMAIN wave' = DOMAIN wave
        /\ \A i \in DOMAIN wave : wave[i].st # "queued" => wave'[i] = wave[i]
        /\ \A i \in DOMAIN wave : wave[i].st = "queued" => wave'[i].st = "dropped"
    <3>1. \A i \in DOMAIN wave : wave[i] \in Group /\ "dropped" \in GroupStates
      BY DEF TypeInv, TypeOK, GroupStates
    <3> QED
      BY <1>5, <3>1, MarkFacts DEF StopLaunching
  <2>a. Accounted' = Accounted
    BY <1>5, <2>2, AccountedSame DEF StopLaunching
  <2>3. ASSUME NEW i \in DOMAIN wave PROVE GroupDone(wave'[i], Accounted'[wave'[i].part])
    <3>1. wave[i] \in Group /\ GroupDone(wave[i], Accounted[wave[i].part])
      BY DEF TypeInv, TypeOK, Safe, WorkersDone
    <3>2. CASE wave[i].st # "queued"
      BY <3>1, <3>2, <2>2, <2>a
    <3>3. CASE wave[i].st = "queued"
      <4>1. wave'[i] = Mark(wave[i], "dropped") /\ "dropped" \in GroupStates
        BY <3>3, <1>5 DEF StopLaunching, GroupStates
      <4> QED
        BY <4>1, <3>1, <3>3, <2>a, MarkFacts DEF GroupDone
    <3> QED
      BY <3>2, <3>3
  <2> QED
    BY <2>1, <2>2, <2>a, <2>3 DEF Safe, LocalsOK, OwnershipOK, OffsetsDone, WorkersDone,
       PositionsCovered, ReseekOK
<1> QED
  BY <1>1, <1>2, <1>3, <1>4, <1>5

(* The end of a wave, and the rewind after a failed one.                   *)
LEMMA SafeFailure ==
    ASSUME TypeInv, Safe,
           PollError \/ EndWave \/ FilterRewinds \/ SeekRewinds \/ RecordRewinds
    PROVE  Safe'
<1> USE DEF Reached
<1>1. CASE PollError
  <2>1. /\ pc = "poll" /\ pending = NoOffsets /\ plan = NoOffsets
        /\ \A i \in DOMAIN wave : wave[i].st = "queued"
        /\ UNCHANGED <<plan, pending, closing, owned, revoked, assigned, position,
                       stored, committed>>
    BY <1>1 DEF PollError, Safe, LocalsOK, rebalanceVars, driverVars, brokerVars
  <2>2. \A i \in DOMAIN wave : wave[i] \in Group /\ GroupDone(wave[i], Accounted[wave[i].part])
    BY DEF TypeInv, TypeOK, Safe, WorkersDone
  <2>a. Accounted' = Accounted
    <3>1. "failed" \in GroupStates /\ "dropped" \in GroupStates
      BY DEF GroupStates
    <3>2. \/ wave' = wave
          \/ wave' = [i \in DOMAIN wave |-> IF Admissible(wave[i]) THEN FailAt(wave[i])
                                            ELSE Mark(wave[i], "dropped")]
      BY <1>1 DEF PollError
    <3>3. \A i \in DOMAIN wave' : wave'[i].st # "precommitted"
      BY <3>1, <3>2, <2>1, <2>2, MarkFacts DEF FailAt
    <3> QED
      BY <1>1, <3>3, <2>1, AccountedSame DEF PollError
  <2>3. OwnershipOK' /\ OffsetsDone'
    BY <2>1, <2>a DEF Safe, OwnershipOK, OffsetsDone
  <2>4. CASE wave' = wave /\ pc' \in {"idle", "dispatch"}
    BY <2>1, <2>a, <2>3, <2>4 DEF Safe, LocalsOK, WorkersDone, PositionsCovered, InWave, ReseekOK
  <2>5. CASE /\ pc' = "filter" /\ BatchMode
             /\ wave' = [i \in DOMAIN wave |-> IF Admissible(wave[i]) THEN FailAt(wave[i])
                                               ELSE Mark(wave[i], "dropped")]
    <3>1. ASSUME NEW i \in DOMAIN wave
          PROVE  /\ wave'[i].part = wave[i].part /\ wave'[i].gen = wave[i].gen
                 /\ wave'[i].lo = wave[i].lo /\ wave'[i].hi = wave[i].hi
                 /\ wave'[i].at = wave[i].at
                 /\ wave'[i].st = IF Admissible(wave[i]) THEN "failed" ELSE "dropped"
      <4>1. "failed" \in GroupStates /\ "dropped" \in GroupStates
        BY DEF GroupStates
      <4> QED
        BY <4>1, <2>5, <2>2, <3>1, MarkFacts DEF FailAt
    <3>2. DOMAIN wave' = DOMAIN wave
      BY <2>5
    <3>3. ASSUME NEW i \in DOMAIN wave PROVE GroupDone(wave'[i], Accounted'[wave'[i].part])
      <4>1. GroupOK(wave[i]) /\ wave[i].st = "queued" /\ GroupDone(wave[i], Accounted[wave[i].part])
        BY <2>1, <2>2 DEF TypeInv, WaveOK
      <4>2. Admissible(wave[i]) => wave[i].gen # 0
        BY DEF Admissible
      <4> QED
        BY <4>1, <4>2, <3>1, <2>1, <2>a DEF GroupOK, GroupDone
    <3>4. WorkersDone'
      BY <3>2, <3>3 DEF WorkersDone
    <3>5. PositionsCovered'
      <4>1. ASSUME ~closing, NEW p \in Partitions, owned[p] # 0
            PROVE  Covers(Accounted[p], position[p]) \/ InWave(p)'
        <5>1. Covers(Accounted[p], position[p]) \/ InWave(p)
          BY <4>1, <2>1, OffsetFacts DEF Safe, PositionsCovered
        <5>2. CASE InWave(p)
          <6>1. PICK i \in DOMAIN wave : /\ wave[i].part = p /\ wave[i].gen = owned[p]
                                         /\ wave[i].hi + 1 = position[p]
            BY <5>2 DEF InWave
          <6>2. Admissible(wave[i])
            BY <6>1, <4>1 DEF Admissible
          <6> QED
            BY <6>1, <6>2, <3>1, <3>2, <2>1 DEF InWave
        <5> QED
          BY <5>1, <5>2
      <4> QED
        BY <4>1, <2>1, <2>a DEF PositionsCovered
    <3>6. LocalsOK' /\ ReseekOK'
      BY <2>1, <2>5, <3>1, <3>2 DEF LocalsOK, ReseekOK
    <3> QED
      BY <3>4, <3>5, <3>6, <2>3 DEF Safe
  <2> QED
    BY <1>1, <2>4, <2>5 DEF PollError
<1>2. CASE EndWave
  <2>1. /\ pc = "dispatch" /\ pending = NoOffsets /\ plan = NoOffsets
        /\ \A i \in DOMAIN wave : wave[i].st \in {"done", "dropped", "failed"}
        /\ UNCHANGED <<plan, pending, closing, owned, revoked, assigned, position,
                       stored, committed, Accounted>>
    <3>1. /\ pc = "dispatch"
          /\ \A i \in DOMAIN wave : wave[i].st \in {"done", "dropped", "failed"}
          /\ wave' = wave \/ wave' = <<>>
      BY <1>2 DEF EndWave
    <3>2. Accounted' = Accounted
      BY <1>2, <3>1, AccountedSame DEF EndWave
    <3> QED
      BY <1>2, <3>1, <3>2 DEF EndWave, Safe, LocalsOK, rebalanceVars, driverVars, brokerVars
  <2>2. OwnershipOK' /\ OffsetsDone'
    BY <2>1 DEF Safe, OwnershipOK, OffsetsDone
  <2>3. CASE pc' = "filter" /\ wave' = wave
    BY <2>1, <2>2, <2>3 DEF Safe, LocalsOK, WorkersDone, PositionsCovered, InWave, ReseekOK
  <2>4. CASE /\ pc' \in {"idle", "poll"} /\ wave' = <<>>
             /\ ~ \E i \in DOMAIN wave : wave[i].st = "failed"
    <3>1. ASSUME ~closing, NEW p \in Partitions, owned[p] # 0
          PROVE  Covers(Accounted[p], position[p])
      <4>1. Covers(Accounted[p], position[p]) \/ InWave(p)
        BY <3>1, <2>1, OffsetFacts DEF Safe, PositionsCovered
      <4>2. CASE InWave(p)
        <5>1. PICK i \in DOMAIN wave : /\ wave[i].part = p /\ wave[i].gen = owned[p]
                                       /\ wave[i].hi + 1 = position[p]
                                       /\ wave[i].st # "dropped"
          BY <4>2 DEF InWave
        <5>2. wave[i].st = "done"
          BY <5>1, <2>1, <2>4
        <5>3. GroupDone(wave[i], Accounted[wave[i].part]) /\ wave[i].hi + 1 # None
          BY GroupFacts, ConsumerAssumption DEF Safe, WorkersDone, TypeInv, TypeOK, Records, None
        <5> QED
          BY <5>1, <5>2, <5>3 DEF GroupDone
      <4> QED
        BY <4>1, <4>2
    <3> QED
      BY <3>1, <2>1, <2>2, <2>4 DEF Safe, LocalsOK, WorkersDone, PositionsCovered, ReseekOK
  <2> QED
    BY <1>2, <2>3, <2>4 DEF EndWave
<1>3. CASE FilterRewinds
  <2>1. /\ pc = "filter" /\ pending = NoOffsets /\ wave' = <<>>
        /\ \A i \in DOMAIN wave : wave[i].st \in {"done", "dropped", "failed"}
        /\ UNCHANGED <<pending, closing, owned, revoked, assigned, position,
                       stored, committed, Accounted>>
    <3>1. pc = "filter" /\ wave' = <<>>
          /\ \A i \in DOMAIN wave : wave[i].st \in {"done", "dropped", "failed"}
      BY <1>3 DEF FilterRewinds, Safe, LocalsOK
    <3>2. Accounted' = Accounted
      BY <1>3, <3>1, AccountedSame DEF FilterRewinds
    <3> QED
      BY <1>3, <3>1, <3>2 DEF FilterRewinds, Safe, LocalsOK, rebalanceVars, driverVars, brokerVars
  <2>2. PICK positions \in [Partitions -> OptOffsets] :
          /\ IsPlan(positions, wave)
          /\ plan' = StillOwned(positions)
          /\ pc' = IF Requested(StillOwned(positions)) = {} THEN "idle" ELSE "seek"
    BY <1>3 DEF FilterRewinds
  <2>3. ASSUME NEW p \in Partitions, positions[p] # None PROVE Covers(Accounted[p], positions[p])
    <3>1. PICK i \in DOMAIN wave : wave[i].part = p /\ wave[i].st = "failed"
                                   /\ positions[p] = wave[i].at
      BY <2>2, <2>3 DEF IsPlan
    <3>2. GroupDone(wave[i], Accounted[wave[i].part])
      BY DEF Safe, WorkersDone
    <3> QED
      BY <3>1, <3>2, <2>3 DEF GroupDone
  <2>4. ASSUME NEW i \in DOMAIN wave, wave[i].st = "failed", positions[wave[i].part] = None
        PROVE  Covers(Accounted[wave[i].part], wave[i].hi + 1)
    <3>1. wave[i].part \in Partitions /\ wave[i].at \in OptOffsets /\ wave[i].hi \in Records
          /\ GroupDone(wave[i], Accounted[wave[i].part])
      BY GroupFacts DEF Safe, WorkersDone, TypeInv, TypeOK
    <3> DEFINE asks == {wave[k].at : k \in {j \in DOMAIN wave :
                          wave[j].part = wave[i].part /\ wave[j].st = "failed"}}
    <3>2. wave[i].at \in asks
      BY <2>4
    <3>3. None <= wave[i].at
      BY <3>1, <3>2, <2>2, <2>4 DEF IsPlan
    <3>4. ~(wave[i].at <= wave[i].hi)
      BY <3>1, <3>3, ConsumerAssumption DEF Records, OptOffsets, None
    <3> QED
      BY <3>1, <3>4, <2>4 DEF GroupDone
  <2>5. \A p \in Partitions : plan'[p] = IF p \in revoked \/ p \notin assigned
                                         THEN None ELSE positions[p]
    BY <2>2 DEF StillOwned
  <2>6. pc' = "idle" => plan' = NoOffsets
    BY <2>2 DEF StillOwned, Requested, NoOffsets
  <2>7. LocalsOK' /\ OwnershipOK' /\ WorkersDone' /\ ReseekOK'
    BY <2>1, <2>2, <2>6 DEF Safe, LocalsOK, OwnershipOK, WorkersDone, ReseekOK
  <2>8. OffsetsDone'
    BY <2>1, <2>3, <2>5 DEF Safe, OffsetsDone
  <2>9. PositionsCovered'
    <3>1. ASSUME ~closing, NEW p \in Partitions, owned[p] # 0
          PROVE  Covers(Accounted[p], position[p]) \/ plan'[p] # None
      <4>1. Covers(Accounted[p], position[p]) \/ InWave(p)
        BY <3>1, <2>1, OffsetFacts DEF Safe, PositionsCovered
      <4>2. CASE InWave(p)
        <5>1. PICK i \in DOMAIN wave : /\ wave[i].part = p /\ wave[i].gen = owned[p]
                                       /\ wave[i].hi + 1 = position[p]
                                       /\ wave[i].st # "dropped"
          BY <4>2 DEF InWave
        <5>2. CASE wave[i].st = "done"
          <6>1. GroupDone(wave[i], Accounted[wave[i].part]) /\ wave[i].hi + 1 # None
            BY GroupFacts, ConsumerAssumption DEF Safe, WorkersDone, TypeInv, TypeOK, Records, None
          <6> QED
            BY <5>1, <5>2, <6>1, <3>1 DEF GroupDone
        <5>3. CASE wave[i].st = "failed"
          <6>1. p \in assigned /\ p \notin revoked
            BY <3>1 DEF Safe, OwnershipOK
          <6> QED
            BY <5>1, <5>3, <6>1, <2>4, <2>5
        <5> QED
          BY <5>1, <5>2, <5>3, <2>1
      <4> QED
        BY <4>1, <4>2
    <3>2. pc' = "seek" \/ \A p \in Partitions : plan'[p] = None
      BY <2>2, <2>6, OffsetFacts
    <3> QED
      BY <3>1, <3>2, <2>1 DEF PositionsCovered
  <2> QED
    BY <2>7, <2>8, <2>9 DEF Safe
<1>4. CASE SeekRewinds
  <2>1. /\ pc = "seek" /\ wave = <<>> /\ pending = NoOffsets
        /\ UNCHANGED <<wave, pending, closing, owned, revoked, committed, Accounted>>
        /\ \/ SeekSucceeds /\ pc' = "idle" /\ plan' = NoOffsets
           \/ SeekFails /\ pc' = "record" /\ plan' = plan
    BY <1>4, AccountedSame DEF SeekRewinds, Safe, LocalsOK, TypeInv, WaveOK, rebalanceVars, brokerVars, history
  <2>2. /\ UNCHANGED <<assigned, stored>>
        /\ \A p \in Partitions : position'[p] = position[p]
                                  \/ (plan[p] # None /\ position'[p] = plan[p])
        /\ SeekSucceeds => \A p \in Partitions : plan[p] # None => position'[p] = plan[p]
    BY <2>1, SeekFacts
  <2>3. LocalsOK' /\ OwnershipOK' /\ WorkersDone' /\ ReseekOK'
    BY <2>1, <2>2 DEF Safe, LocalsOK, OwnershipOK, WorkersDone, ReseekOK
  <2>4. OffsetsDone'
    BY <2>1, <2>2, OffsetFacts DEF Safe, OffsetsDone
  <2>5. PositionsCovered'
    <3>1. ASSUME ~closing, NEW p \in Partitions, owned[p] # 0
          PROVE  Covers(Accounted[p], position'[p]) \/ (pc' = "record" /\ plan'[p] # None)
      <4>1. Covers(Accounted[p], position[p]) \/ plan[p] # None
        BY <2>1, <3>1, OffsetFacts DEF Safe, PositionsCovered, InWave
      <4>2. plan[p] # None => Covers(Accounted[p], plan[p])
        BY DEF Safe, OffsetsDone
      <4> QED
        BY <4>1, <4>2, <2>1, <2>2
    <3> QED
      BY <3>1, <2>1 DEF PositionsCovered
  <2> QED
    BY <2>3, <2>4, <2>5 DEF Safe
<1>5. CASE RecordRewinds
  <2>1. /\ pc = "record" /\ wave = <<>> /\ pending = NoOffsets
        /\ pc' = "idle" /\ plan' = NoOffsets
        /\ UNCHANGED <<wave, closing, owned, revoked, assigned, position, stored, committed, Accounted>>
    BY <1>5, AccountedSame DEF RecordRewinds, Safe, LocalsOK, TypeInv, WaveOK, rebalanceVars, driverVars,
       brokerVars, history
  <2>2. ASSUME NEW p \in Partitions
        PROVE  /\ pending'[p] \in {None, plan[p]}
               /\ ~closing /\ p \notin revoked => pending'[p] = plan[p]
    <3>1. plan[p] \in OptOffsets /\ pending[p] = None
      BY <2>1, OffsetFacts DEF TypeInv, TypeOK
    <3>2. Earliest(None, None) = None /\ Earliest(None, plan[p]) = plan[p]
      BY <3>1, ConsumerAssumption DEF Earliest, OptOffsets, None
    <3>3. CASE closing
      BY <1>5, <3>1, <3>3 DEF RecordRewinds
    <3>4. CASE ~closing
      BY <1>5, <3>1, <3>2, <3>4 DEF RecordRewinds, Merged
    <3> QED
      BY <3>3, <3>4
  <2>3. LocalsOK' /\ OwnershipOK' /\ WorkersDone' /\ ReseekOK'
    BY <2>1 DEF Safe, LocalsOK, OwnershipOK, WorkersDone, ReseekOK
  <2>4. OffsetsDone'
    BY <2>1, <2>2, OffsetFacts DEF Safe, OffsetsDone
  <2>5. PositionsCovered'
    BY <2>1, <2>2, OffsetFacts DEF Safe, PositionsCovered, InWave, OwnershipOK
  <2> QED
    BY <2>3, <2>4, <2>5 DEF Safe
<1> QED
  BY <1>1, <1>2, <1>3, <1>4, <1>5

LEMMA SafeEnvironment ==
    ASSUME TypeInv, RewindsOwned, Safe, Environment
    PROVE  Safe'
<1> USE DEF Reached
<1>t. /\ committed \in [Partitions -> Offsets] /\ handled \in [Partitions -> SUBSET Nat]
      /\ started \in [Partitions -> SUBSET Nat] /\ excused \in [Partitions -> SUBSET Nat]
      /\ \A i \in DOMAIN wave : wave[i] \in Group /\ GroupDone(wave[i], Accounted[wave[i].part])
  BY DEF TypeInv, TypeOK, Safe, WorkersDone
<1>1. ASSUME NEW S \in SUBSET Partitions, AssignPartitions(S) PROVE Safe'
  <2>1. /\ UNCHANGED <<pc, plan, pending, closing, wave, committed, Accounted>>
        /\ \A p \in Partitions : owned'[p] # 0 => p \in S \/ owned'[p] = owned[p]
        /\ \A p \in Partitions : p \in S => /\ owned'[p] = generation + 1
                                             /\ position'[p] = committed[p]
                                             /\ stored'[p] = None
        /\ \A p \in Partitions : p \notin S => /\ position'[p] = position[p]
                                                /\ stored'[p] = stored[p]
        /\ revoked' = revoked \ S
    BY <1>1, AccountedSame DEF AssignPartitions, runVars
  <2>2. \A p \in Partitions : owned'[p] # 0 /\ p \notin S => owned[p] # 0 /\ p \in assigned'
    BY <1>1 DEF AssignPartitions, Safe, OwnershipOK
  <2>3. S \subseteq assigned'
    BY <1>1 DEF AssignPartitions
  <2>4. OwnershipOK'
    BY <2>1, <2>2, <2>3 DEF Safe, OwnershipOK
  <2>5. LocalsOK' /\ OffsetsDone' /\ WorkersDone'
    BY <2>1 DEF Safe, LocalsOK, OffsetsDone, WorkersDone
  <2>6. ReseekOK'
    <3>1. ASSUME NEW p \in Partitions, p \in S, pc = "reseek" PROVE pending[p] = None
      BY <1>1, <3>1 DEF AssignPartitions, OwnedPartitions, RewindsOwned
    <3> QED
      BY <3>1, <2>1, <2>2 DEF Safe, ReseekOK
  <2>7. PositionsCovered'
    <3>1. ASSUME ~closing, NEW p \in Partitions, owned'[p] # 0, p \notin S
          PROVE  \/ Covers(Accounted[p], position[p])
                 \/ pc \in {"seek", "record"} /\ plan[p] # None
                 \/ pending[p] # None
                 \/ InWave(p)'
      BY <3>1, <2>1, <2>2 DEF Safe, PositionsCovered, InWave
    <3>2. ASSUME NEW p \in Partitions, p \in S PROVE Covers(Accounted[p], position'[p])
      BY <3>2, <2>1 DEF Safe, OffsetsDone
    <3> QED
      BY <3>1, <3>2, <2>1 DEF PositionsCovered
  <2> QED
    BY <2>4, <2>5, <2>6, <2>7 DEF Safe
<1>2. ASSUME NEW S \in SUBSET Partitions, RevokePartitions(S) PROVE Safe'
  <2>1. /\ UNCHANGED <<pc, plan, closing, wave, position, Accounted>>
        /\ \A p \in Partitions : owned'[p] # 0 => owned'[p] = owned[p] /\ p \notin S
        /\ \A p \in Partitions : pending'[p] = IF p \in S THEN None ELSE pending[p]
        /\ revoked' = revoked \cup S
    BY <1>2, AccountedSame DEF RevokePartitions, OwnedPartitions
  <2>2. \A p \in Partitions : owned'[p] # 0 => p \in assigned'
    BY <1>2 DEF RevokePartitions, OwnedPartitions, Safe, OwnershipOK
  <2>3. /\ \A p \in Partitions : committed'[p] = committed[p]
                                  \/ (stored[p] # None /\ committed'[p] = stored[p])
        /\ \A p \in Partitions : stored'[p] # None => stored'[p] = stored[p]
    <3>1. FlushStored(S) => \A p \in Partitions : committed'[p] = committed[p]
                                  \/ (stored[p] # None /\ committed'[p] = stored[p])
      BY DEF FlushStored
    <3> QED
      BY <1>2, <3>1 DEF RevokePartitions
  <2>4. OwnershipOK'
    BY <2>1, <2>2 DEF Safe, OwnershipOK
  <2>5. LocalsOK'
    <3>1. pending = NoOffsets => pending' = NoOffsets
      BY <1>2, OffsetFacts DEF RevokePartitions, NoOffsets
    <3> QED
      BY <2>1, <3>1 DEF Safe, LocalsOK
  <2>6. OffsetsDone' /\ WorkersDone' /\ ReseekOK'
    BY <2>1, <2>3 DEF Safe, OffsetsDone, WorkersDone, ReseekOK
  <2>7. PositionsCovered'
    BY <2>1 DEF Safe, PositionsCovered, InWave
  <2> QED
    BY <2>4, <2>5, <2>6, <2>7 DEF Safe
<1>3. ASSUME NEW p \in Partitions, BackgroundCommit(p) PROVE Safe'
  <2>1. /\ UNCHANGED <<pc, plan, pending, closing, wave, owned, revoked, assigned,
                       position, stored, Accounted>>
        /\ \A q \in Partitions : committed'[q] = committed[q]
                                  \/ (stored[q] # None /\ committed'[q] = stored[q])
    BY <1>3, <1>t, AccountedSame DEF BackgroundCommit, runVars, rebalanceVars, driverVars
  <2> QED
    BY <2>1 DEF Safe, LocalsOK, OwnershipOK, OffsetsDone, WorkersDone, PositionsCovered,
       InWave, ReseekOK
<1>4. ASSUME NEW p \in Partitions, OtherMember(p) PROVE Safe'
  <2>1. /\ UNCHANGED <<pc, plan, pending, closing, wave, owned, revoked, assigned,
                       position, stored>>
        /\ committed' = [committed EXCEPT ![p] = @ + 1]
        /\ handled' = [handled EXCEPT ![p] = @ \cup {committed[p]}]
        /\ started' = [started EXCEPT ![p] = @ \cup {committed[p]}]
        /\ excused' = excused
    BY <1>4 DEF OtherMember, runVars, rebalanceVars, driverVars
  <2>2. \A q \in Partitions : Accounted[q] \subseteq Accounted'[q]
    BY <2>1, <1>t, AccountedGrows
  <2>a. committed[p] \in Accounted'[p]
    BY <2>1, <1>t DEF Accounted
  <2>3. \A q \in Partitions : Covers(Accounted'[q], committed'[q])
    <3>1. ASSUME NEW q \in Partitions, q # p PROVE Covers(Accounted'[q], committed'[q])
      BY <3>1, <2>1, <2>2, <1>t, CoversMono DEF Safe, OffsetsDone
    <3>2. Covers(Accounted'[p], committed'[p])
      <4>1. committed[p] \in Nat /\ committed'[p] = committed[p] + 1 /\ committed[p] \in Accounted'[p]
        BY <2>1, <2>a, <1>t, OffsetFacts
      <4>2. Covers(Accounted'[p], committed[p])
        BY <2>2, CoversMono DEF Safe, OffsetsDone
      <4>3. committed[p] .. committed[p] \subseteq Accounted'[p]
        BY <4>1
      <4> QED
        BY <4>1, <4>2, <4>3, CoversRange
    <3> QED
      BY <3>1, <3>2
  <2>4. LocalsOK' /\ OwnershipOK' /\ ReseekOK'
    BY <2>1 DEF Safe, LocalsOK, OwnershipOK, ReseekOK
  <2>5. OffsetsDone'
    BY <2>1, <2>2, <2>3, CoversMono DEF Safe, OffsetsDone
  <2>6. WorkersDone'
    <3>1. ASSUME NEW i \in DOMAIN wave PROVE GroupDone(wave[i], Accounted'[wave[i].part])
      <4>1. wave[i].part \in Partitions /\ GroupDone(wave[i], Accounted[wave[i].part])
        BY <1>t, GroupFacts
      <4> QED
        BY <4>1, <2>2, CoversMono DEF GroupDone
    <3> QED
      BY <3>1, <2>1 DEF WorkersDone
  <2>7. PositionsCovered'
    <3>1. ASSUME NEW q \in Partitions, Covers(Accounted[q], position[q])
          PROVE  Covers(Accounted'[q], position[q])
      BY <3>1, <2>2, CoversMono
    <3> QED
      BY <2>1, <3>1 DEF Safe, PositionsCovered, InWave
  <2> QED
    BY <2>4, <2>5, <2>6, <2>7 DEF Safe
<1>5. CASE Fence \/ RequestClose
  <2>1. UNCHANGED <<pc, plan, pending, wave, owned, revoked, assigned,
                    position, stored, committed, Accounted>>
    BY <1>5, AccountedSame DEF Fence, RequestClose, runVars, rebalanceVars, driverVars, brokerVars, history
  <2>2. ~closing' => ~closing
    BY <1>5 DEF Fence, RequestClose, runVars
  <2> QED
    BY <2>1, <2>2 DEF Safe, LocalsOK, OwnershipOK, OffsetsDone, WorkersDone, PositionsCovered,
       InWave, ReseekOK
<1>6. CASE CloseDriver
  <2>1. /\ UNCHANGED <<wave, plan, closing, position, Accounted>> /\ pc = "idle" /\ pc' = "closed"
        /\ \A p \in Partitions : owned'[p] = 0 /\ stored'[p] = None
        /\ \A p \in Partitions : pending'[p] # None => pending'[p] = pending[p]
    BY <1>6, OffsetFacts, AccountedSame DEF CloseDriver
  <2>2. \A p \in Partitions : committed'[p] = committed[p]
                              \/ (stored[p] # None /\ committed'[p] = stored[p])
    <3>1. FlushStored(Partitions) => \A p \in Partitions : committed'[p] = committed[p]
                                  \/ (stored[p] # None /\ committed'[p] = stored[p])
      BY DEF FlushStored
    <3> QED
      BY <1>6, <3>1 DEF CloseDriver
  <2> QED
    BY <2>1, <2>2 DEF Safe, LocalsOK, OwnershipOK, OffsetsDone, WorkersDone, PositionsCovered,
       ReseekOK
<1>7. CASE Restart
  <2>1. /\ pc' = "idle" /\ plan' = NoOffsets /\ pending' = NoOffsets /\ wave' = <<>>
        /\ stored' = NoOffsets /\ UNCHANGED <<committed, handled, started>>
        /\ \A p \in Partitions : owned'[p] = 0
        /\ \A p \in Partitions : excused'[p] = excused[p] \cup InHand(p)
    BY <1>7 DEF Restart, InHand
  <2>2. \A p \in Partitions : Accounted[p] \subseteq Accounted'[p]
    <3>1. ASSUME NEW i \in DOMAIN wave, wave[i].st = "precommitted"
          PROVE  Unit(wave[i]) \subseteq excused'[wave[i].part]
      <4>1. wave[i].part \in Partitions
        BY <1>t, GroupFacts
      <4>2. Unit(wave[i]) \subseteq InHand(wave[i].part)
        BY <3>1 DEF InHand
      <4> QED
        BY <4>1, <4>2, <2>1
    <3> QED
      BY <3>1, <2>1, AccountedGrows
  <2>3. \A p \in Partitions : Covers(Accounted'[p], committed'[p])
    BY <2>1, <2>2, CoversMono DEF Safe, OffsetsDone
  <2> QED
    BY <2>1, <2>3, OffsetFacts DEF Safe, LocalsOK, OwnershipOK, OffsetsDone, WorkersDone,
       PositionsCovered, ReseekOK
<1> QED
  BY <1>1, <1>2, <1>3, <1>4, <1>5, <1>6, <1>7 DEF Environment

LEMMA SafeInit == Init => Safe
<1> SUFFICES ASSUME Init PROVE Safe
  OBVIOUS
<1>1. /\ pc = "idle" /\ plan = NoOffsets /\ pending = NoOffsets /\ wave = <<>>
      /\ stored = NoOffsets
      /\ \A p \in Partitions : owned[p] = 0 /\ committed[p] = 0
  BY DEF Init, FreshMember
<1> QED
  BY <1>1, OffsetFacts, CoversZero DEF Safe, LocalsOK, OwnershipOK, OffsetsDone, WorkersDone,
     PositionsCovered, ReseekOK, Reached

LEMMA IInvStep == IInv /\ [Next]_vars => IInv'
<1> SUFFICES ASSUME IInv, [Next]_vars PROVE IInv'
  OBVIOUS
<1>1. CASE UNCHANGED vars
  <2>1. UNCHANGED <<pc, generation, owned, pending, revoked, wave, deferred, plan, closing,
                    assigned, position, stored, committed, fenced, handled, started,
                    repeated, excused, faults>>
    BY <1>1 DEF vars, runVars, rebalanceVars, driverVars, brokerVars, history
  <2>2. TypeInv'
    BY <2>1 DEF IInv, TypeInv, TypeOK, WaveOK, GroupOK
  <2>3. RewindsOwned'
    BY <2>1 DEF IInv, RewindsOwned
  <2>a. Accounted' = Accounted
    BY <2>1, AccountedSame DEF history
  <2>4. Safe'
    BY <2>1, <2>a DEF IInv, Safe, LocalsOK, OwnershipOK, OffsetsDone, WorkersDone,
       PositionsCovered, InWave, ReseekOK, Reached
  <2> QED
    BY <2>2, <2>3, <2>4 DEF IInv
<1>2. CASE Next
  <2>1. TypeInv' /\ RewindsOwned'
    BY <1>2, TypeRun, TypeEnvironment, OwnedRun, OwnedEnvironment DEF IInv, Next
  <2>2. Safe'
    <3>1. TypeInv /\ RewindsOwned /\ Safe
      BY DEF IInv
    <3>2. CASE Run
      <4>1. \/ BeginRun \/ Reseek \/ EndGather \/ CancelPoll \/ StopLaunching
            \/ PollError \/ EndWave \/ FilterRewinds \/ SeekRewinds \/ RecordRewinds
            \/ \E p \in Partitions : Read(p)
            \/ \E i \in DOMAIN wave : Worker(i)
        BY <3>2 DEF Run
      <4> QED
        BY <4>1, <3>1, SafeOther, SafeFailure, SafeRead, SafeWorker
    <3> QED
      BY <1>2, <3>1, <3>2, SafeEnvironment DEF Next
  <2> QED
    BY <2>1, <2>2 DEF IInv
<1> QED
  BY <1>1, <1>2

(* At-least-once, for every number of partitions, records, workers,        *)
(* rebalances and faults: no committed offset covers an unhandled record.  *)
THEOREM AtLeastOnce == Spec => []NoSkip
<1>1. Init => IInv
  BY TypeInit, SafeInit, OffsetFacts DEF IInv, Init, FreshMember, RewindsOwned
<1>2. IInv => NoSkip
  BY DEF IInv, Safe, OffsetsDone, Reached, Accounted, NoSkip, Done
<1> QED
  BY <1>1, <1>2, IInvStep, PTL DEF Spec

(* A run never starts reading past a record of an owned partition that no  *)
(* handler finished, after any sequence of failures and failed rewinds.    *)
THEOREM NoRecordPassedOver == Spec => []NothingPassedOver
<1>1. Init => IInv
  BY TypeInit, SafeInit, OffsetFacts DEF IInv, Init, FreshMember, RewindsOwned
<1>2. IInv => NothingPassedOver
  <2> SUFFICES ASSUME IInv, CommitMode # "before", pc = "poll", wave = <<>>, ~closing,
                      NEW p \in OwnedPartitions
               PROVE  Done(p, position[p])
    BY DEF NothingPassedOver
  <2>1. p \in Partitions /\ owned[p] # 0
    BY DEF OwnedPartitions
  <2>2. pending[p] = None
    BY <2>1, OffsetFacts DEF IInv, Safe, LocalsOK
  <2>3. Reached(p, position[p])
    BY <2>1, <2>2 DEF IInv, Safe, PositionsCovered, InWave
  <2> QED
    BY <2>1, <2>3 DEF Reached, Accounted, Done
<1> QED
  BY <1>1, <1>2, IInvStep, PTL DEF Spec

(* With CommitBeforeHandler, for every interleaving of callbacks, failures *)
(* and crashes: a committed record reached a handler or is about to, unless *)
(* its commit reported an error or the process stopped first.              *)
THEOREM NothingSilentlyLost == Spec => []NoSilentLoss
<1>1. Init => IInv
  BY TypeInit, SafeInit, OffsetFacts DEF IInv, Init, FreshMember, RewindsOwned
<1>2. IInv => NoSilentLoss
  <2> SUFFICES ASSUME IInv, CommitMode = "before", NEW p \in Partitions,
                      NEW o \in 0 .. committed[p] - 1
               PROVE  \/ o \in started[p] \cup excused[p]
                      \/ \E i \in DOMAIN wave : /\ wave[i].part = p
                                                /\ wave[i].st = "precommitted"
                                                /\ o \in Unit(wave[i])
    BY DEF NoSilentLoss
  <2>1. o \in Accounted[p]
    BY DEF IInv, Safe, OffsetsDone, Reached, Covers
  <2>2. o \in started[p] \cup excused[p] \cup InHand(p)
    BY <2>1 DEF Accounted
  <2> QED
    BY <2>2 DEF InHand
<1> QED
  BY <1>1, <1>2, IInvStep, PTL DEF Spec

(* What a step does to the handled records: nothing, or one run of         *)
(* consecutive records of one partition is added.                          *)
LEMMA HandledStep ==
    ASSUME CommitMode # "before", IInv, Next
    PROVE  \/ UNCHANGED handled
           \/ \E p \in Partitions : \E first, last \in 0 .. LogEnd : Progress!Finish(p, first, last)
<1>1. ASSUME NEW i \in DOMAIN wave, Handle(i), handled' # handled
      PROVE  \E p \in Partitions : \E first, last \in 0 .. LogEnd : Progress!Finish(p, first, last)
  <2> DEFINE g == wave[i]
  <2>1. /\ g.st = "admitted"
        /\ handled' = [handled EXCEPT ![g.part] = @ \cup Unit(g)]
    BY <1>1 DEF Handle
  <2>2. g \in Group /\ GroupOK(g)
    BY DEF IInv, TypeInv, TypeOK, WaveOK
  <2> HIDE DEF g
  <2>3. g.lo <= g.at /\ g.at <= g.hi
    BY <2>1, <2>2 DEF GroupOK
  <2>4. /\ g.part \in Partitions /\ g.lo \in 0 .. LogEnd /\ g.hi \in 0 .. LogEnd
        /\ g.hi < LogEnd /\ g.at \in Nat /\ g.lo \in Nat /\ g.hi \in Nat
    BY <2>2, GroupFacts, ConsumerAssumption DEF Records
  <2>5. CASE BatchMode
    <3>1. Unit(g) = g.lo .. g.hi
      BY <2>5 DEF Unit
    <3>2. Progress!Finish(g.part, g.lo, g.hi)
      BY <2>1, <2>3, <2>4, <3>1 DEF Progress!Finish
    <3> QED
      BY <3>2, <2>4
  <2>6. CASE ~BatchMode
    <3>1. Unit(g) = g.at .. g.at /\ g.at \in 0 .. LogEnd /\ g.at < LogEnd
      BY <2>3, <2>4, <2>6, ConsumerAssumption DEF Unit
    <3>2. Progress!Finish(g.part, g.at, g.at)
      BY <2>1, <2>4, <3>1 DEF Progress!Finish
    <3> QED
      BY <3>1, <3>2, <2>4
  <2> QED
    BY <2>5, <2>6
<1>2. ASSUME NEW p \in Partitions, OtherMember(p)
      PROVE  \E first, last \in 0 .. LogEnd : Progress!Finish(p, first, last)
  <2>1. /\ committed[p] \in 0 .. LogEnd /\ committed[p] < LogEnd
        /\ committed[p] .. committed[p] = {committed[p]}
    BY <1>2, OffsetFacts, ConsumerAssumption DEF OtherMember, IInv, TypeInv, TypeOK, Offsets
  <2>2. handled' = [handled EXCEPT ![p] = @ \cup {committed[p]}]
    BY <1>2 DEF OtherMember
  <2>3. Progress!Finish(p, committed[p], committed[p])
    BY <2>1, <2>2 DEF Progress!Finish
  <2> QED
    BY <2>1, <2>3
<1>3. CASE Run
  <2>1. \/ handled' = handled
        \/ \E i \in DOMAIN wave : Handle(i)
    BY <1>3 DEF Run, BeginRun, Reseek, EndGather, PollError, CancelPoll, Read, StopLaunching,
       EndWave, Worker, Launch, CancelWorker, PreCommit, Resolve, FilterRewinds, SeekRewinds,
       RecordRewinds, history
  <2> QED
    BY <2>1, <1>1
<1>4. CASE Environment
  <2>1. \/ handled' = handled
        \/ \E p \in Partitions : OtherMember(p)
    BY <1>4 DEF Environment, AssignPartitions, RevokePartitions, BackgroundCommit, Fence,
       RequestClose, CloseDriver, Restart, history
  <2> QED
    BY <2>1, <1>2
<1> QED
  BY <1>3, <1>4 DEF Next

(* With offsets resolved after the handler, the whole loop implements the  *)
(* abstract at-least-once group: every step finishes a run of records,     *)
(* commits finished records, or is invisible to the group.                 *)
THEOREM LoopImplementsGroupProgress ==
    CommitMode # "before" => (Spec => ImplementsGroupProgress)
<1> SUFFICES ASSUME CommitMode # "before" PROVE Spec => ImplementsGroupProgress
  OBVIOUS
<1>1. Init => IInv
  BY TypeInit, SafeInit, OffsetFacts DEF IInv, Init, FreshMember, RewindsOwned
<1>2. Init => Progress!Init
  BY DEF Init, Progress!Init
<1>3. IInv /\ IInv' /\ [Next]_vars => [Progress!Next]_<<handled, committed>>
  <2> SUFFICES ASSUME IInv, IInv', [Next]_vars
               PROVE  [Progress!Next]_<<handled, committed>>
    OBVIOUS
  <2>1. CASE UNCHANGED vars
    BY <2>1 DEF vars, history, brokerVars
  <2>2. CASE Next
    <3>1. Progress!CommitFinished
      <4>1. committed' \in [Partitions -> 0 .. LogEnd]
        BY DEF IInv, TypeInv, TypeOK, Offsets
      <4>2. \A p \in Partitions : Covers(handled'[p], committed'[p])
        BY DEF IInv, Safe, OffsetsDone, Reached, Accounted
      <4> QED
        BY <4>1, <4>2 DEF Progress!CommitFinished, Covers
    <3>2. \/ UNCHANGED handled
          \/ \E p \in Partitions : \E first, last \in 0 .. LogEnd :
                Progress!Finish(p, first, last)
      BY <2>2, HandledStep
    <3> QED
      BY <3>1, <3>2 DEF Progress!Next
  <2> QED
    BY <2>1, <2>2
<1> QED
  BY <1>1, <1>2, <1>3, IInvStep, PTL DEF Spec, ImplementsGroupProgress, Progress!Spec
-----------------------------------------------------------------------------
(***************************************************************************)
(* Proofs about the order in which the consume loop delivers and commits,  *)
(* while rebalance callbacks are served by ReadMessage: no record reaches  *)
(* a handler twice with CommitBeforeHandler, and no commit moves back.     *)
(***************************************************************************)

(* An offset the loop may go on from lies after what was done: with        *)
(* CommitBeforeHandler after every record that reached a handler, with     *)
(* stored offsets at or after what is stored and committed, and otherwise, *)
(* for single messages, at most one record behind the committed offset: a  *)
(* commit that reported an error may have been applied.                    *)
Ahead(begun, com, sto, x) ==
    /\ CommitMode = "before" => \A o \in begun : o < x
    /\ CommitMode = "store" => com <= x /\ (sto # None => sto <= x)
    /\ CommitMode # "store" /\ ~BatchMode => com <= x + 1

Fresh(p, x) == Ahead(started[p], committed[p], stored[p], x)

(* The wave holds one group per partition and generation, workers hold     *)
(* groups of the present assignment only, and the driver is past them.     *)
WaveCurrent ==
    /\ \A i \in DOMAIN wave :
          /\ wave[i].st \in {"admitted", "precommitted", "handled", "failed"} => Admissible(wave[i])
          /\ Admissible(wave[i]) => wave[i].hi < position[wave[i].part]
          /\ BatchMode /\ wave[i].st \in {"queued", "admitted"} => wave[i].at = wave[i].lo
    /\ \A i, j \in DOMAIN wave :
          wave[i].part = wave[j].part /\ wave[i].gen = wave[j].gen => i = j

(* Offsets are stored in one mode only, and never behind the committed     *)
(* one, where an assignment replaces the driver's whole assignment.        *)
StoredOK ==
    /\ CommitMode # "store" => \A p \in Partitions : stored[p] = None
    /\ CommitMode = "store" /\ ~Cooperative =>
          \A p \in assigned : ~fenced /\ stored[p] # None => committed[p] <= stored[p]

(* With CommitBeforeHandler a record is committed before it is begun, and  *)
(* a unit committed ahead of its handler is not begun yet.                 *)
StartedOK ==
    CommitMode = "before" =>
        /\ \A p \in Partitions : repeated[p] = {} /\ \A o \in started[p] : o < committed[p]
        /\ \A i \in DOMAIN wave : wave[i].st = "precommitted" =>
              \A o \in Unit(wave[i]) : /\ o \notin started[wave[i].part]
                                       /\ o < committed[wave[i].part]

(* Until the broker has removed this member, everything it may go on from  *)
(* is fresh; afterwards it learns nothing of the group's progress, and can *)
(* commit nothing before it joins again.                                   *)
OffsetsFresh ==
    ~fenced =>
        /\ \A p \in Partitions : owned[p] # 0 =>
              Fresh(p, position[p]) /\ Fresh(p, plan[p]) /\ Fresh(p, pending[p])
        /\ \A i \in DOMAIN wave : Admissible(wave[i]) /\ wave[i].st \notin {"done", "dropped"} =>
              Fresh(wave[i].part, wave[i].at)

Ordered == WaveCurrent /\ StoredOK /\ StartedOK /\ OffsetsFresh
----------------------------------------------------------------------------
LEMMA AheadMono ==
    ASSUME NEW begun \in SUBSET Nat, NEW com \in Nat, NEW sto \in Nat,
           NEW x \in Nat, NEW y \in Nat, x <= y, Ahead(begun, com, sto, x)
    PROVE  Ahead(begun, com, sto, y)
BY ConsumerAssumption DEF Ahead

(* No offset is ahead of everything.                                       *)
LEMMA NoneAhead ==
    ASSUME NEW begun \in SUBSET Nat, NEW com \in Offsets, NEW sto \in OptOffsets,
           CommitMode = "before" => \A o \in begun : o < com
    PROVE  Ahead(begun, com, sto, None)
BY ConsumerAssumption DEF Ahead, Offsets, OptOffsets, None

(* The wave is dropped, and what the loop goes on from is fresh.           *)
LEMMA OrderedOfNoWave ==
    ASSUME Ordered, wave' = <<>>,
           UNCHANGED <<started, repeated, committed, stored, fenced, owned, assigned>>,
           ~fenced => \A p \in Partitions : owned[p] # 0 =>
               Fresh(p, position'[p]) /\ Fresh(p, plan'[p]) /\ Fresh(p, pending'[p])
    PROVE  Ordered'
BY DEF Ordered, WaveCurrent, StoredOK, StartedOK, OffsetsFresh, Fresh

(* Groups are admitted, dropped or failed where they stand.                *)
LEMMA OrderedOfRemark ==
    ASSUME TypeInv, Ordered, DOMAIN wave' = DOMAIN wave,
           UNCHANGED <<started, repeated, committed, stored, owned, assigned,
                       position, plan, pending>>,
           ~fenced' => ~fenced,
           \A i \in DOMAIN wave :
               /\ wave'[i].part = wave[i].part /\ wave'[i].gen = wave[i].gen
               /\ wave'[i].lo = wave[i].lo /\ wave'[i].hi = wave[i].hi /\ wave'[i].at = wave[i].at
               /\ \/ wave'[i].st = wave[i].st
                  \/ wave'[i].st = "dropped"
                  \/ /\ wave[i].st = "queued" /\ wave'[i].st \in {"admitted", "failed"}
                     /\ Admissible(wave[i])
    PROVE  Ordered'
<1>1. \A i \in DOMAIN wave : Admissible(wave[i])' <=> Admissible(wave[i])
  BY DEF Admissible
<1>2. WaveCurrent'
  BY <1>1 DEF Ordered, WaveCurrent
<1>3. StoredOK'
  BY DEF Ordered, StoredOK
<1>4. StartedOK'
  BY DEF Ordered, StartedOK, Unit
<1>5. OffsetsFresh'
  BY <1>1 DEF Ordered, OffsetsFresh, Fresh
<1> QED
  BY <1>2, <1>3, <1>4, <1>5 DEF Ordered

(* Steps that move offsets about without delivering or committing.         *)
LEMMA OrderedQuiet ==
    ASSUME IInv, Ordered,
           \/ BeginRun \/ Reseek \/ EndGather \/ PollError \/ CancelPoll \/ StopLaunching
           \/ EndWave \/ FilterRewinds \/ SeekRewinds \/ RecordRewinds
    PROVE  Ordered'
<1>t. TypeInv /\ LocalsOK /\ RewindsOwned /\ StartedOK
  BY DEF IInv, Safe, Ordered
<1>n. \A p \in Partitions : Fresh(p, None)
  BY <1>t, NoneAhead DEF Fresh, StartedOK, TypeInv, TypeOK
<1>f. ~fenced => \A p \in Partitions : owned[p] # 0 =>
         Fresh(p, position[p]) /\ Fresh(p, plan[p]) /\ Fresh(p, pending[p])
  BY DEF Ordered, OffsetsFresh
<1>g. \A i \in DOMAIN wave : wave[i] \in Group
  BY DEF IInv, TypeInv, TypeOK
<1>s. "failed" \in GroupStates /\ "dropped" \in GroupStates
  BY DEF GroupStates
<1>1. CASE BeginRun
  <2>1. /\ wave' = <<>>
        /\ UNCHANGED <<started, repeated, committed, stored, fenced, owned, assigned, position, pending>>
    BY <1>1, <1>t DEF BeginRun, TypeInv, WaveOK, rebalanceVars, driverVars, brokerVars, history
  <2>2. \A p \in Partitions : plan'[p] \in {None, plan[p], pending[p]}
    BY <1>1 DEF BeginRun, StillOwned
  <2> QED
    BY <2>1, <2>2, <1>n, <1>f, OrderedOfNoWave
<1>2. CASE Reseek
  <2>1. /\ wave' = <<>> /\ UNCHANGED <<started, repeated, committed, fenced, owned>>
        /\ SeekSucceeds \/ SeekFails
        /\ plan' = NoOffsets /\ pending' \in {NoOffsets, pending}
    BY <1>2, <1>t DEF Reseek, TypeInv, WaveOK, rebalanceVars, brokerVars, history
  <2>2. /\ UNCHANGED <<assigned, stored>>
        /\ \A p \in Partitions : position'[p] = position[p]
                                  \/ (plan[p] # None /\ position'[p] = plan[p])
    BY <2>1, <1>t, SeekFacts
  <2> QED
    BY <2>1, <2>2, <1>n, <1>f, OffsetFacts, OrderedOfNoWave
<1>3. CASE EndGather
  <2>1. UNCHANGED <<wave, started, repeated, committed, stored, owned, assigned,
                    position, plan, pending, fenced>>
    BY <1>3 DEF EndGather, rebalanceVars, driverVars, brokerVars, history
  <2> QED
    BY <2>1, <1>t, OrderedOfRemark
<1>4. CASE PollError
  <2>1. /\ UNCHANGED <<started, repeated, committed, stored, owned, assigned,
                       position, plan, pending, fenced>>
        /\ \/ wave' = wave
           \/ wave' = [i \in DOMAIN wave |-> IF Admissible(wave[i]) THEN FailAt(wave[i])
                                             ELSE Mark(wave[i], "dropped")]
        /\ \A i \in DOMAIN wave : wave[i].st = "queued"
    BY <1>4, <1>t DEF PollError, LocalsOK, rebalanceVars, driverVars, brokerVars, history
  <2>2. CASE wave' = wave
    BY <2>1, <2>2, <1>t, OrderedOfRemark
  <2>3. CASE wave' = [i \in DOMAIN wave |-> IF Admissible(wave[i]) THEN FailAt(wave[i])
                                             ELSE Mark(wave[i], "dropped")]
    <3>1. DOMAIN wave' = DOMAIN wave
      BY <2>3
    <3>2. ASSUME NEW i \in DOMAIN wave
          PROVE  /\ wave'[i].part = wave[i].part /\ wave'[i].gen = wave[i].gen
                 /\ wave'[i].lo = wave[i].lo /\ wave'[i].hi = wave[i].hi
                 /\ wave'[i].at = wave[i].at
                 /\ wave'[i].st = IF Admissible(wave[i]) THEN "failed" ELSE "dropped"
      BY <2>3, <1>g, <1>s, MarkFacts DEF FailAt
    <3> QED
      BY <3>1, <3>2, <2>1, <1>t, OrderedOfRemark
  <2> QED
    BY <2>1, <2>2, <2>3
<1>5. CASE CancelPoll
  <2>1. /\ wave' = <<>>
        /\ UNCHANGED <<started, repeated, committed, stored, fenced, owned, assigned,
                       position, plan, pending>>
    BY <1>5 DEF CancelPoll, rebalanceVars, driverVars, brokerVars, history
  <2> QED
    BY <2>1, <1>f, OrderedOfNoWave
<1>6. CASE StopLaunching
  <2>1. UNCHANGED <<started, repeated, committed, stored, owned, assigned,
                    position, plan, pending, fenced>>
    BY <1>6 DEF StopLaunching, runUnchanged, rebalanceVars, driverVars, brokerVars, history
  <2>2. wave' = [i \in DOMAIN wave |->
                  IF wave[i].st = "queued" THEN Mark(wave[i], "dropped") ELSE wave[i]]
    BY <1>6 DEF StopLaunching
  <2>3. DOMAIN wave' = DOMAIN wave
    BY <2>2
  <2>4. ASSUME NEW i \in DOMAIN wave
        PROVE  /\ wave'[i].part = wave[i].part /\ wave'[i].gen = wave[i].gen
               /\ wave'[i].lo = wave[i].lo /\ wave'[i].hi = wave[i].hi
               /\ wave'[i].at = wave[i].at
               /\ wave'[i].st = wave[i].st \/ wave'[i].st = "dropped"
    BY <2>2, <1>g, <1>s, MarkFacts
  <2> QED
    BY <2>1, <2>3, <2>4, <1>t, OrderedOfRemark
<1>7. CASE EndWave
  <2>1. /\ UNCHANGED <<started, repeated, committed, stored, fenced, owned, assigned,
                       position, plan, pending>>
        /\ wave' = wave \/ wave' = <<>>
    BY <1>7 DEF EndWave, rebalanceVars, driverVars, brokerVars, history
  <2> QED
    BY <2>1, <1>t, <1>f, OrderedOfNoWave, OrderedOfRemark
<1>8. CASE FilterRewinds
  <2>1. /\ wave' = <<>> /\ pc = "filter"
        /\ UNCHANGED <<started, repeated, committed, stored, fenced, owned, assigned,
                       position, pending>>
    BY <1>8 DEF FilterRewinds, rebalanceVars, driverVars, brokerVars, history
  <2>2. PICK positions \in [Partitions -> OptOffsets] :
          IsPlan(positions, wave) /\ plan' = StillOwned(positions)
    BY <1>8 DEF FilterRewinds
  <2>3. ASSUME NEW p \in Partitions, ~fenced PROVE Fresh(p, positions[p])
    <3>1. CASE positions[p] = None
      BY <3>1, <1>n
    <3>2. CASE positions[p] # None
      <4>1. PICK i \in DOMAIN wave : wave[i].part = p /\ wave[i].st = "failed"
                                     /\ positions[p] = wave[i].at
        BY <2>2, <3>2 DEF IsPlan
      <4> QED
        BY <4>1, <2>3 DEF Ordered, WaveCurrent, OffsetsFresh
    <3> QED
      BY <3>1, <3>2
  <2>4. \A p \in Partitions : plan'[p] \in {None, positions[p]}
    BY <2>2 DEF StillOwned
  <2> QED
    BY <2>1, <2>3, <2>4, <1>n, <1>f, OrderedOfNoWave
<1>9. CASE SeekRewinds
  <2>1. /\ wave' = <<>> /\ UNCHANGED <<started, repeated, committed, fenced, owned, pending>>
        /\ SeekSucceeds \/ SeekFails
        /\ plan' \in {NoOffsets, plan}
    BY <1>9, <1>t DEF SeekRewinds, TypeInv, WaveOK, rebalanceVars, brokerVars, history
  <2>2. /\ UNCHANGED <<assigned, stored>>
        /\ \A p \in Partitions : position'[p] = position[p]
                                  \/ (plan[p] # None /\ position'[p] = plan[p])
    BY <2>1, <1>t, SeekFacts
  <2> QED
    BY <2>1, <2>2, <1>n, <1>f, OffsetFacts, OrderedOfNoWave
<1>10. CASE RecordRewinds
  <2>1. /\ wave' = <<>> /\ plan' = NoOffsets
        /\ UNCHANGED <<started, repeated, committed, stored, fenced, owned, assigned, position>>
    BY <1>10, <1>t DEF RecordRewinds, TypeInv, WaveOK, rebalanceVars, driverVars, brokerVars, history
  <2>2. \A p \in Partitions : pending'[p] \in {None, pending[p], plan[p]}
    BY <1>10 DEF RecordRewinds, Merged, Earliest
  <2> QED
    BY <2>1, <2>2, <1>n, <1>f, OffsetFacts, OrderedOfNoWave
<1> QED
  BY <1>1, <1>2, <1>3, <1>4, <1>5, <1>6, <1>7, <1>8, <1>9, <1>10

(* A record is read: it joins its group, or opens one where the driver is. *)
LEMMA OrderedRead ==
    ASSUME IInv, Ordered, NEW p \in Partitions, Read(p)
    PROVE  Ordered'
<1> DEFINE same == {i \in DOMAIN wave : wave[i].part = p /\ wave[i].gen = owned[p]}
           new == NewGroup(p, owned[p], position[p])
<1>t. /\ TypeInv /\ LocalsOK /\ wave \in Seq(Group) /\ position \in [Partitions -> Offsets]
      /\ \A i \in DOMAIN wave : wave[i] \in Group
  BY DEF IInv, Safe, TypeInv, TypeOK
<1>1. /\ pc = "poll" /\ position[p] \in Records
      /\ UNCHANGED <<started, repeated, committed, stored, fenced, owned, assigned, plan, pending>>
      /\ position'[p] = position[p] + 1
      /\ \A q \in Partitions : q # p => position'[q] = position[q]
      /\ \A q \in Partitions : position[q] \in Nat
  BY <1>t, OffsetFacts DEF Read, rebalanceVars, brokerVars, history
<1>2. \A i \in DOMAIN wave : wave[i].st = "queued"
  BY <1>1, <1>t DEF LocalsOK
<1>3. /\ new \in Group /\ new.part = p /\ new.gen = owned[p] /\ new.st = "queued"
      /\ new.lo = position[p] /\ new.hi = position[p] /\ new.at = position[p]
  BY <1>1, NewGroupFacts DEF IInv, TypeInv, TypeOK
<1>4. /\ \A i \in DOMAIN wave' : i \in DOMAIN wave =>
            /\ wave'[i].part = wave[i].part /\ wave'[i].gen = wave[i].gen
            /\ wave'[i].lo = wave[i].lo /\ wave'[i].at = wave[i].at /\ wave'[i].st = "queued"
            /\ wave'[i].hi = IF i \in same THEN position[p] ELSE wave[i].hi
      /\ \A i \in DOMAIN wave' : i \notin DOMAIN wave => wave'[i] = new /\ same = {}
      /\ \A i, j \in DOMAIN wave' : i \notin DOMAIN wave /\ j \notin DOMAIN wave => i = j
  <2>1. CASE same = {}
    <3>1. wave' = Append(wave, new)
      BY <2>1 DEF Read, Grouped
    <3>2. /\ DOMAIN wave' = 1 .. Len(wave) + 1 /\ DOMAIN wave = 1 .. Len(wave) /\ Len(wave) \in Nat
          /\ wave'[Len(wave) + 1] = new
          /\ \A i \in DOMAIN wave : wave'[i] = wave[i]
      BY <3>1, <1>t, <1>3, SeqAppend
    <3> HIDE DEF new
    <3>3. \A i \in DOMAIN wave' : i \notin DOMAIN wave => i = Len(wave) + 1
      BY <3>2
    <3> QED
      BY <3>2, <3>3, <2>1, <1>2
  <2>2. CASE same # {}
    <3>1. wave' = [i \in DOMAIN wave |->
                     IF i \in same THEN Extend(wave[i], position[p]) ELSE wave[i]]
      BY <2>2 DEF Read, Grouped
    <3> QED
      BY <3>1, <2>2, <1>1, <1>2, <1>t, ExtendFacts
  <2> QED
    BY <2>1, <2>2
<1> HIDE DEF new
<1>5. \A i \in DOMAIN wave' : /\ wave'[i].st = "queued" /\ wave'[i].part \in Partitions
                              /\ wave'[i].hi \in Nat
  <2>1. \A i \in DOMAIN wave : wave[i].part \in Partitions /\ wave[i].hi \in Nat
    BY <1>t, GroupFacts
  <2>2. position[p] \in Nat
    BY <1>1
  <2> QED
    BY <2>1, <2>2, <1>3, <1>4
<1>6. WaveCurrent'
  <2>1. ASSUME NEW i \in DOMAIN wave', Admissible(wave'[i])
        PROVE  wave'[i].hi < position'[wave'[i].part]
    <3>1. owned[wave'[i].part] = wave'[i].gen
      BY <2>1 DEF Admissible
    <3>2. CASE i \in DOMAIN wave
      <4>1. i \in same => wave'[i].hi = position[p] /\ wave'[i].part = p
        BY <3>2, <1>4
      <4>2. i \notin same => wave'[i].hi = wave[i].hi /\ wave[i].part # p
        BY <3>1, <3>2, <1>4
      <4>3. i \notin same => wave[i].hi < position[wave[i].part]
        BY <2>1, <3>1, <3>2, <1>4 DEF Ordered, WaveCurrent, Admissible
      <4> QED
        BY <4>1, <4>2, <4>3, <3>2, <1>1, <1>4, <1>5
    <3>3. CASE i \notin DOMAIN wave
      BY <3>3, <1>1, <1>3, <1>4
    <3> QED
      BY <3>2, <3>3
  <2>2. ASSUME NEW i \in DOMAIN wave', BatchMode PROVE wave'[i].at = wave'[i].lo
    BY <2>2, <1>2, <1>3, <1>4 DEF Ordered, WaveCurrent
  <2>3. ASSUME NEW i \in DOMAIN wave', NEW j \in DOMAIN wave',
               wave'[i].part = wave'[j].part, wave'[i].gen = wave'[j].gen
        PROVE  i = j
    <3>1. CASE i \in DOMAIN wave /\ j \in DOMAIN wave
      BY <3>1, <2>3, <1>4 DEF Ordered, WaveCurrent
    <3>2. CASE i \in DOMAIN wave /\ j \notin DOMAIN wave
      BY <3>2, <2>3, <1>3, <1>4
    <3>3. CASE i \notin DOMAIN wave /\ j \in DOMAIN wave
      BY <3>3, <2>3, <1>3, <1>4
    <3> QED
      BY <3>1, <3>2, <3>3, <1>4
  <2>4. \A i \in DOMAIN wave' : Admissible(wave[i])' <=> Admissible(wave'[i])
    BY <1>1 DEF Admissible
  <2> QED
    BY <2>1, <2>2, <2>3, <2>4, <1>5 DEF WaveCurrent
<1>7. StoredOK' /\ StartedOK'
  BY <1>1, <1>5 DEF Ordered, StoredOK, StartedOK
<1>8. OffsetsFresh'
  <2>1. ASSUME ~fenced, NEW q \in Partitions, owned[q] # 0
        PROVE  Fresh(q, position'[q]) /\ Fresh(q, plan[q]) /\ Fresh(q, pending[q])
    <3>1. Fresh(q, position[q]) /\ Fresh(q, plan[q]) /\ Fresh(q, pending[q])
      BY <2>1 DEF Ordered, OffsetsFresh
    <3>2. /\ started[q] \in SUBSET Nat /\ committed[q] \in Nat /\ stored[q] \in Nat
          /\ position[q] \in Nat /\ position'[q] \in Nat /\ position[q] <= position'[q]
      <4>1. /\ started[q] \in SUBSET Nat /\ committed[q] \in Nat /\ stored[q] \in Nat
        BY <1>t, OffsetFacts DEF TypeInv, TypeOK
      <4>2. position'[q] = position[q] \/ position'[q] = position[q] + 1
        BY <1>1
      <4> QED
        BY <4>1, <4>2, <1>1
    <3> QED
      BY <3>1, <3>2, AheadMono DEF Fresh
  <2>2. ASSUME ~fenced, NEW i \in DOMAIN wave', Admissible(wave'[i])
        PROVE  Fresh(wave'[i].part, wave'[i].at)
    <3>1. CASE i \in DOMAIN wave
      BY <2>2, <3>1, <1>2, <1>4 DEF Ordered, OffsetsFresh, Admissible
    <3>2. CASE i \notin DOMAIN wave
      BY <2>2, <3>2, <1>3, <1>4 DEF Ordered, OffsetsFresh, Admissible
    <3> QED
      BY <3>1, <3>2
  <2>3. \A i \in DOMAIN wave' : Admissible(wave[i])' <=> Admissible(wave'[i])
    BY <1>1 DEF Admissible
  <2> QED
    BY <2>1, <2>2, <2>3, <1>1 DEF OffsetsFresh, Fresh
<1> QED
  BY <1>6, <1>7, <1>8 DEF Ordered

(* One worker delivers or commits its unit: the rest of the wave belongs   *)
(* to other partitions or to generations that are gone.                    *)
LEMMA OrderedOfWorker ==
    ASSUME IInv, Ordered, pc = "dispatch", NEW i \in DOMAIN wave, NEW m \in Group,
           Admissible(wave[i]), SetGroup(i, m), UNCHANGED <<runUnchanged, assigned, position, fenced>>,
           m.part = wave[i].part, m.gen = wave[i].gen, m.lo = wave[i].lo, m.hi = wave[i].hi,
           BatchMode /\ m.st \in {"queued", "admitted"} => m.at = m.lo,
           \A q \in Partitions : q # m.part =>
               /\ started'[q] = started[q] /\ committed'[q] = committed[q]
               /\ stored'[q] = stored[q] /\ repeated'[q] = repeated[q],
           StoredOK',
           CommitMode = "before" =>
               /\ repeated'[m.part] = {}
               /\ \A o \in started'[m.part] : o < committed'[m.part]
               /\ m.st = "precommitted" =>
                     \A o \in Unit(m) : o \notin started'[m.part] /\ o < committed'[m.part],
           ~fenced => /\ Ahead(started'[m.part], committed'[m.part], stored'[m.part], position[m.part])
                      /\ m.st \notin {"done", "dropped"} =>
                            Ahead(started'[m.part], committed'[m.part], stored'[m.part], m.at),
           TypeInv'
    PROVE  Ordered'
<1>t. /\ TypeInv /\ LocalsOK /\ wave \in Seq(Group) /\ m.part \in Partitions
      /\ \A j \in DOMAIN wave : wave[j].part \in Partitions
  BY GroupFacts DEF IInv, Safe, TypeInv, TypeOK
<1>0. /\ UNCHANGED <<plan, pending, owned>> /\ plan = NoOffsets /\ pending = NoOffsets
  BY <1>t DEF runUnchanged, rebalanceVars, LocalsOK
<1>1. /\ DOMAIN wave' = DOMAIN wave /\ wave'[i] = m
      /\ \A j \in DOMAIN wave : j # i => wave'[j] = wave[j]
  BY <1>t, SetGroupFacts
<1>2. \A j \in DOMAIN wave : /\ wave'[j].part = wave[j].part /\ wave'[j].gen = wave[j].gen
                             /\ wave'[j].lo = wave[j].lo /\ wave'[j].hi = wave[j].hi
  BY <1>1
<1>3. \A j \in DOMAIN wave : /\ Admissible(wave[j])' <=> Admissible(wave[j])
                             /\ j # i /\ Admissible(wave[j]) => wave[j].part # m.part
  BY <1>0, <1>2 DEF Admissible, Ordered, WaveCurrent
<1>4. WaveCurrent'
  BY <1>1, <1>2, <1>3 DEF Ordered, WaveCurrent
<1>5. StartedOK'
  <2>1. ASSUME CommitMode = "before", NEW q \in Partitions
        PROVE  repeated'[q] = {} /\ \A o \in started'[q] : o < committed'[q]
    BY <2>1 DEF Ordered, StartedOK
  <2>2. ASSUME CommitMode = "before", NEW j \in DOMAIN wave, wave'[j].st = "precommitted"
        PROVE  \A o \in Unit(wave'[j]) : /\ o \notin started'[wave'[j].part]
                                         /\ o < committed'[wave'[j].part]
    <3>1. CASE j = i
      BY <3>1, <2>2, <1>1
    <3>2. CASE j # i
      <4>1. wave'[j] = wave[j] /\ wave[j].part # m.part
        BY <3>2, <2>2, <1>1, <1>3 DEF Ordered, WaveCurrent
      <4> QED
        BY <4>1, <2>2, <1>t DEF Ordered, StartedOK
    <3> QED
      BY <3>1, <3>2
  <2>3. \A j \in DOMAIN wave : Unit(wave[j])' = Unit(wave'[j])
    BY DEF Unit
  <2> QED
    BY <2>1, <2>2, <2>3, <1>1 DEF StartedOK
<1>6. OffsetsFresh'
  <2>1. ASSUME ~fenced, NEW q \in Partitions, owned[q] # 0
        PROVE  /\ Ahead(started'[q], committed'[q], stored'[q], None)
               /\ Ahead(started'[q], committed'[q], stored'[q], position[q])
    <3>1. Ahead(started'[q], committed'[q], stored'[q], None)
      BY <1>5, NoneAhead DEF StartedOK, TypeInv, TypeOK
    <3>2. q # m.part => Ahead(started[q], committed[q], stored[q], position[q])
      BY <2>1 DEF Ordered, OffsetsFresh, Fresh
    <3> QED
      BY <3>1, <3>2, <2>1
  <2>2. ASSUME ~fenced, NEW j \in DOMAIN wave, Admissible(wave[j]), wave'[j].st \notin {"done", "dropped"}
        PROVE  Ahead(started'[wave'[j].part], committed'[wave'[j].part], stored'[wave'[j].part], wave'[j].at)
    <3>1. CASE j = i
      BY <3>1, <2>2, <1>1
    <3>2. CASE j # i
      <4>1. wave'[j] = wave[j] /\ wave[j].part # m.part
        BY <3>2, <2>2, <1>1, <1>3
      <4> QED
        BY <4>1, <2>2, <1>t DEF Ordered, OffsetsFresh, Fresh
    <3> QED
      BY <3>1, <3>2
  <2>3. \A q \in Partitions : plan'[q] = None /\ pending'[q] = None
    BY <1>0, OffsetFacts
  <2> QED
    BY <2>1, <2>2, <2>3, <1>0, <1>1, <1>3 DEF OffsetsFresh, Fresh
<1> QED
  BY <1>4, <1>5, <1>6 DEF Ordered

LEMMA OrderedWorker ==
    ASSUME IInv, TypeInv', Ordered, NEW i \in DOMAIN wave, Worker(i)
    PROVE  Ordered'
<1> DEFINE g == wave[i]
           p == g.part
<1>t. /\ TypeInv /\ wave \in Seq(Group) /\ g \in Group /\ p \in Partitions /\ GroupOK(g)
      /\ committed \in [Partitions -> Offsets] /\ stored \in [Partitions -> OptOffsets]
      /\ started \in [Partitions -> SUBSET Nat] /\ repeated \in [Partitions -> SUBSET Nat]
  BY GroupFacts DEF IInv, TypeInv, TypeOK, WaveOK
<1>0. pc = "dispatch"
  BY DEF Worker
<1>n. /\ g.at \in Nat /\ g.lo \in Nat /\ g.hi \in Nat /\ position[p] \in Nat
      /\ committed[p] \in Nat /\ stored[p] \in Nat /\ started[p] \in SUBSET Nat
  BY <1>t, GroupFacts, OffsetFacts DEF TypeInv, TypeOK
<1>o. /\ Admissible(g) => g.hi < position[p]
      /\ BatchMode /\ g.st \in {"queued", "admitted"} => g.at = g.lo
      /\ g.st \in {"admitted", "precommitted", "handled"} => Admissible(g)
      /\ Admissible(g) => owned[p] # 0
      /\ ~fenced /\ owned[p] # 0 => Ahead(started[p], committed[p], stored[p], position[p])
      /\ ~fenced /\ Admissible(g) /\ g.st \notin {"done", "dropped"} =>
            Ahead(started[p], committed[p], stored[p], g.at)
      /\ CommitMode = "before" => repeated[p] = {} /\ \A o \in started[p] : o < committed[p]
      /\ CommitMode = "before" /\ g.st = "precommitted" =>
            \A o \in Unit(g) : o \notin started[p] /\ o < committed[p]
      /\ StoredOK
  BY <1>t DEF Ordered, WaveCurrent, OffsetsFresh, StartedOK, Fresh, Admissible
<1>l. g.st \in {"admitted", "precommitted", "handled"} =>
         /\ g.lo <= g.at /\ g.at <= g.hi /\ g.hi < position[p]
         /\ Resolved(g) \in Nat /\ Resolved(g) \in Offsets /\ g.at < Resolved(g) /\ Resolved(g) <= position[p]
         /\ ~BatchMode => Resolved(g) = g.at + 1
         /\ Unit(g) \subseteq Nat /\ \A o \in Unit(g) : o < Resolved(g)
         /\ g.at = g.lo \/ ~BatchMode => \A o \in Unit(g) : g.at <= o
  <2> SUFFICES ASSUME g.st \in {"admitted", "precommitted", "handled"}
               PROVE  /\ g.lo <= g.at /\ g.at <= g.hi /\ g.hi < position[p]
                      /\ Resolved(g) \in Nat /\ Resolved(g) \in Offsets /\ g.at < Resolved(g)
                      /\ Resolved(g) <= position[p]
                      /\ ~BatchMode => Resolved(g) = g.at + 1
                      /\ Unit(g) \subseteq Nat /\ \A o \in Unit(g) : o < Resolved(g)
                      /\ g.at = g.lo \/ ~BatchMode => \A o \in Unit(g) : g.at <= o
    OBVIOUS
  <2>1. g.lo <= g.at /\ g.at <= g.hi /\ g.hi < position[p]
    BY <1>t, <1>o DEF GroupOK
  <2> HIDE DEF g, p
  <2>2. CASE BatchMode
    BY <2>1, <2>2, <1>t, <1>n, ResolvedFacts, SMTT(60)
  <2>3. CASE ~BatchMode
    BY <2>1, <2>3, <1>t, <1>n, ResolvedFacts
  <2> QED
    BY <2>1, <2>2, <2>3
<1>w. ASSUME NEW m \in Group, SetGroup(i, m), UNCHANGED <<runUnchanged, assigned, position, fenced>>,
             g.st \in {"admitted", "precommitted", "handled"},
             m.part = p, m.gen = g.gen, m.lo = g.lo, m.hi = g.hi,
             BatchMode /\ m.st \in {"queued", "admitted"} => m.at = m.lo,
             \A q \in Partitions : q # p =>
                 /\ started'[q] = started[q] /\ committed'[q] = committed[q]
                 /\ stored'[q] = stored[q] /\ repeated'[q] = repeated[q],
             StoredOK',
             CommitMode = "before" =>
                 /\ repeated'[p] = {}
                 /\ \A o \in started'[p] : o < committed'[p]
                 /\ m.st = "precommitted" =>
                       \A o \in Unit(m) : o \notin started'[p] /\ o < committed'[p],
             ~fenced => /\ Ahead(started'[p], committed'[p], stored'[p], position[p])
                        /\ m.st \notin {"done", "dropped"} =>
                              Ahead(started'[p], committed'[p], stored'[p], m.at)
      PROVE  Ordered'
  BY <1>w, <1>0, <1>o, OrderedOfWorker
<1>c. ASSUME NEW st \in {"admitted", "precommitted", "dropped", "handled", "failed"}
      PROVE  LET m == Mark(g, st) IN
             /\ m \in Group /\ m.st = st /\ m.part = g.part /\ m.gen = g.gen
             /\ m.lo = g.lo /\ m.hi = g.hi /\ m.at = g.at /\ Unit(m) = Unit(g)
  <2>1. st \in GroupStates
    BY <1>c DEF GroupStates
  <2> QED
    BY <2>1, <1>t, MarkFacts DEF Unit
<1> HIDE DEF g, p
<1>1. CASE Launch(i) \/ CancelWorker(i)
  <2>1. UNCHANGED <<started, repeated, committed, stored, owned, assigned,
                    position, plan, pending, fenced>>
    BY <1>1 DEF Launch, CancelWorker, runUnchanged, rebalanceVars, driverVars, brokerVars, history
  <2>2. PICK st \in {"admitted", "dropped"} :
          /\ SetGroup(i, Mark(g, st))
          /\ st = "admitted" => g.st = "queued" /\ Admissible(g)
    BY <1>1 DEF Launch, CancelWorker, g
  <2> DEFINE m == Mark(g, st)
  <2>3. m \in Group /\ m.st = st /\ m.part = g.part /\ m.gen = g.gen
        /\ m.lo = g.lo /\ m.hi = g.hi /\ m.at = g.at
    BY <1>c
  <2>4. SetGroup(i, m)
    BY <2>2
  <2> HIDE DEF m
  <2>5. DOMAIN wave' = DOMAIN wave /\ wave'[i] = m /\ \A j \in DOMAIN wave : j # i => wave'[j] = wave[j]
    BY <2>3, <2>4, <1>t, SetGroupFacts
  <2>6. ASSUME NEW j \in DOMAIN wave
        PROVE  /\ wave'[j].part = wave[j].part /\ wave'[j].gen = wave[j].gen
               /\ wave'[j].lo = wave[j].lo /\ wave'[j].hi = wave[j].hi /\ wave'[j].at = wave[j].at
               /\ \/ wave'[j].st = wave[j].st
                  \/ wave'[j].st = "dropped"
                  \/ /\ wave[j].st = "queued" /\ wave'[j].st \in {"admitted", "failed"}
                     /\ Admissible(wave[j])
    <3>1. CASE j = i
      BY <3>1, <2>2, <2>3, <2>5 DEF g
    <3>2. CASE j # i
      BY <3>2, <2>5
    <3> QED
      BY <3>1, <3>2
  <2> QED
    BY <2>1, <2>5, <2>6, <1>t, OrderedOfRemark
<1>2. CASE PreCommit(i)
  <2>1. /\ CommitMode = "before" /\ g.st = "admitted"
        /\ UNCHANGED <<runUnchanged, assigned, position, stored, started, repeated, fenced>>
        /\ \/ committed' = committed /\ SetGroup(i, Mark(g, "failed"))
           \/ /\ ~fenced /\ committed' = [committed EXCEPT ![p] = Resolved(g)]
              /\ SetGroup(i, Mark(g, "precommitted")) \/ SetGroup(i, Mark(g, "failed"))
    BY <1>2 DEF PreCommit, CommitSucceeds, CommitFails, FailAt, driverVars, brokerVars, g, p
  <2>2. PICK st \in {"precommitted", "failed"} :
          /\ SetGroup(i, Mark(g, st))
          /\ \/ committed' = committed /\ st = "failed"
             \/ ~fenced /\ committed' = [committed EXCEPT ![p] = Resolved(g)]
    BY <2>1
  <2> DEFINE m == Mark(g, st)
  <2>3. m \in Group /\ m.st = st /\ m.part = g.part /\ m.gen = g.gen
        /\ m.lo = g.lo /\ m.hi = g.hi /\ m.at = g.at /\ Unit(m) = Unit(g)
    BY <1>c
  <2>4. SetGroup(i, m)
    BY <2>2
  <2> HIDE DEF m
  <2>5. StoredOK'
    BY <2>1, <1>o DEF StoredOK
  <2>6. CASE committed' = committed /\ st = "failed"
    BY <2>1, <2>3, <2>4, <2>5, <2>6, <1>o, <1>w DEF p
  <2>7. CASE ~fenced /\ committed' = [committed EXCEPT ![p] = Resolved(g)]
    <3>1. /\ committed'[p] = Resolved(g)
          /\ \A q \in Partitions : q # p => committed'[q] = committed[q]
      BY <2>7, <1>t
    <3>2. \A o \in started[p] : o < g.at
      BY <2>1, <2>7, <1>o DEF Ahead
    <3>3. \A o \in started'[p] : o < committed'[p]
      BY <3>1, <3>2, <2>1, <1>l, <1>n
    <3>4. \A o \in Unit(m) : o \notin started'[p] /\ o < committed'[p]
      <4>1. \A o \in Unit(g) : g.at <= o /\ o < Resolved(g) /\ o \in Nat
        BY <2>1, <1>o, <1>l
      <4> QED
        BY <4>1, <3>1, <3>2, <2>1, <2>3, <1>n
    <3>5. /\ Ahead(started'[p], committed'[p], stored'[p], position[p])
          /\ Ahead(started'[p], committed'[p], stored'[p], m.at)
      <4>1. committed'[p] = Resolved(g) /\ started'[p] = started[p] /\ m.at = g.at
        BY <3>1, <2>1, <2>3
      <4> QED
        BY <4>1, <3>2, <2>1, <1>l, <1>n DEF Ahead
    <3> QED
      BY <3>1, <3>3, <3>4, <3>5, <2>1, <2>3, <2>4, <2>5, <1>o, <1>w DEF p
  <2> QED
    BY <2>2, <2>6, <2>7
<1>3. CASE Handle(i)
  <2>1. /\ g.st = IF CommitMode = "before" THEN "precommitted" ELSE "admitted"
        /\ UNCHANGED <<runUnchanged, assigned, position, stored, committed, fenced>>
        /\ started' = [started EXCEPT ![p] = @ \cup Unit(g)]
        /\ repeated' = [repeated EXCEPT ![p] = @ \cup (Unit(g) \cap started[p])]
        /\ \/ SetGroup(i, IF CommitMode = "before" THEN Advance(g) ELSE Mark(g, "handled"))
           \/ SetGroup(i, HandlerFailed(g))
           \/ SetGroup(i, Mark(g, "dropped"))
    BY <1>3 DEF Handle, driverVars, brokerVars, g, p
  <2>2. /\ started'[p] = started[p] \cup Unit(g)
        /\ repeated'[p] = repeated[p] \cup (Unit(g) \cap started[p])
        /\ \A q \in Partitions : q # p => started'[q] = started[q] /\ repeated'[q] = repeated[q]
    BY <2>1, <1>t
  <2>3. StoredOK'
    BY <2>1, <1>o DEF StoredOK
  <2>4. CommitMode = "before" => /\ repeated'[p] = {}
                                 /\ \A o \in started'[p] : o < committed'[p]
    BY <2>1, <2>2, <1>o
  <2>5. ~fenced => Ahead(started'[p], committed'[p], stored'[p], position[p])
    <3>1. \A o \in Unit(g) : o < position[p]
      BY <2>1, <1>l, <1>n
    <3> QED
      BY <3>1, <2>1, <2>2, <1>o DEF Ahead
  <2>6. ~fenced => /\ Ahead(started'[p], committed'[p], stored'[p], Resolved(g))
                   /\ CommitMode # "before" => Ahead(started'[p], committed'[p], stored'[p], g.at)
    <3>1. ~fenced => Ahead(started[p], committed[p], stored[p], g.at)
      BY <2>1, <1>o
    <3>2. ~fenced => Ahead(started[p], committed[p], stored[p], Resolved(g))
      BY <3>1, <2>1, <1>l, <1>n, AheadMono
    <3>3. \A o \in Unit(g) : o < Resolved(g)
      BY <2>1, <1>l
    <3> QED
      BY <3>1, <3>2, <3>3, <2>1, <2>2 DEF Ahead
  <2>7. Ahead(started'[p], committed'[p], stored'[p], None)
    <3>1. started'[p] \in SUBSET Nat /\ committed'[p] \in Offsets /\ stored'[p] \in OptOffsets
      BY <1>t DEF TypeInv, TypeOK
    <3> QED
      BY <3>1, <2>4, NoneAhead
  <2>8. ASSUME NEW m \in Group, SetGroup(i, m),
               m.part = p, m.gen = g.gen, m.lo = g.lo, m.hi = g.hi,
               BatchMode => m.st \notin {"queued", "admitted"}, m.st # "precommitted",
               ~fenced /\ m.st \notin {"done", "dropped"} =>
                   Ahead(started'[p], committed'[p], stored'[p], m.at)
        PROVE  Ordered'
    BY <2>1, <2>2, <2>3, <2>4, <2>5, <2>8, <1>w
  <2>9. CASE SetGroup(i, Mark(g, "dropped"))
    <3> DEFINE m == Mark(g, "dropped")
    <3>1. m \in Group /\ m.st = "dropped" /\ m.part = p /\ m.gen = g.gen /\ m.lo = g.lo /\ m.hi = g.hi
      BY <1>c DEF p
    <3>2. SetGroup(i, m)
      BY <2>9
    <3> HIDE DEF m
    <3> QED
      BY <3>1, <3>2, <2>8
  <2>10. CASE SetGroup(i, HandlerFailed(g))
    <3>1. CASE CommitMode = "before"
      <4> DEFINE m == FailAfter(g)
      <4>1. /\ m \in Group /\ m.st = "failed"
            /\ m.part = g.part /\ m.gen = g.gen /\ m.lo = g.lo /\ m.hi = g.hi
            /\ m.at = None \/ m.at = Resolved(g)
        BY <2>1, <3>1, <1>t, <1>l, FailAfterFacts
      <4>2. SetGroup(i, m)
        BY <2>10, <3>1 DEF HandlerFailed
      <4> HIDE DEF m
      <4> QED
        BY <4>1, <4>2, <2>6, <2>7, <2>8 DEF p
    <3>2. CASE CommitMode # "before"
      <4> DEFINE m == Mark(g, "failed")
      <4>1. /\ m \in Group /\ m.st = "failed" /\ m.part = p /\ m.gen = g.gen
            /\ m.lo = g.lo /\ m.hi = g.hi /\ m.at = g.at
        BY <1>c DEF p
      <4>2. SetGroup(i, m)
        BY <2>10, <3>2 DEF HandlerFailed, FailAt
      <4> HIDE DEF m
      <4> QED
        BY <4>1, <4>2, <3>2, <2>6, <2>8
    <3> QED
      BY <3>1, <3>2
  <2>11. CASE CommitMode = "before" /\ SetGroup(i, Advance(g))
    <3> DEFINE m == Advance(g)
    <3>1. /\ m \in Group /\ m.at = Resolved(g)
          /\ m.part = g.part /\ m.gen = g.gen /\ m.lo = g.lo /\ m.hi = g.hi
          /\ m.st = "done" \/ (m.st = "admitted" /\ ~BatchMode)
      BY <2>1, <2>11, <1>t, <1>l, AdvanceFacts
    <3>2. SetGroup(i, m)
      BY <2>11
    <3> HIDE DEF m
    <3> QED
      BY <3>1, <3>2, <2>6, <2>8 DEF p
  <2>12. CASE CommitMode # "before" /\ SetGroup(i, Mark(g, "handled"))
    <3> DEFINE m == Mark(g, "handled")
    <3>1. /\ m \in Group /\ m.st = "handled" /\ m.part = p /\ m.gen = g.gen
          /\ m.lo = g.lo /\ m.hi = g.hi /\ m.at = g.at
      BY <1>c DEF p
    <3>2. SetGroup(i, m)
      BY <2>12
    <3> HIDE DEF m
    <3> QED
      BY <3>1, <3>2, <2>12, <2>6, <2>8
  <2> QED
    BY <2>1, <2>9, <2>10, <2>11, <2>12
<1>4. CASE Resolve(i)
  <2>1. /\ g.st = "handled" /\ CommitMode # "before"
        /\ UNCHANGED <<runUnchanged, assigned, position, started, repeated>>
        /\ fenced' = fenced
    BY <1>4 DEF Resolve, CommitSucceeds, CommitFails, driverVars, brokerVars, g
  <2>2. SetGroup(i, Advance(g)) \/ SetGroup(i, Mark(g, "failed"))
    BY <1>4 DEF Resolve, FailAt, g
  <2>3. /\ committed' # committed => /\ CommitMode = "commit" /\ ~fenced
                                     /\ committed' = [committed EXCEPT ![p] = Resolved(g)]
        /\ stored' # stored => /\ CommitMode = "store" /\ SetGroup(i, Advance(g))
                               /\ stored' = [stored EXCEPT ![p] = Resolved(g)]
        /\ CommitMode = "store" => committed' = committed
    BY <1>4 DEF Resolve, CommitSucceeds, CommitFails, driverVars, brokerVars, g, p
  <2>4. /\ committed'[p] = committed[p] \/ (CommitMode = "commit" /\ committed'[p] = Resolved(g))
        /\ stored'[p] = stored[p] \/ (CommitMode = "store" /\ stored'[p] = Resolved(g))
        /\ \A q \in Partitions : q # p => committed'[q] = committed[q] /\ stored'[q] = stored[q]
    BY <2>3, <1>t
  <2>5. ~fenced => Ahead(started[p], committed[p], stored[p], g.at)
                   /\ Ahead(started[p], committed[p], stored[p], position[p])
                   /\ Ahead(started[p], committed[p], stored[p], Resolved(g))
    <3>1. ~fenced => Ahead(started[p], committed[p], stored[p], g.at)
                     /\ Ahead(started[p], committed[p], stored[p], position[p])
      BY <2>1, <1>o
    <3> QED
      BY <3>1, <2>1, <1>l, <1>n, AheadMono
  <2>6. StoredOK'
    <3>1. CASE CommitMode = "store"
      <4>1. ASSUME ~fenced, NEW q \in assigned, ~Cooperative, stored'[q] # None
            PROVE  committed'[q] <= stored'[q]
        <5>1. q \in Partitions
          BY <1>t DEF TypeInv, TypeOK
        <5>2. CASE q = p /\ stored'[p] = Resolved(g)
          BY <5>2, <4>1, <2>1, <2>3, <2>5, <3>1, <1>l, <1>n DEF Ahead
        <5>3. CASE stored'[q] = stored[q]
          BY <5>3, <4>1, <3>1, <2>3, <1>o DEF StoredOK
        <5> QED
          BY <5>1, <5>2, <5>3, <2>4
      <4> QED
        BY <3>1, <4>1, <2>1 DEF StoredOK
    <3>2. CASE CommitMode # "store"
      BY <3>2, <2>3, <1>o DEF StoredOK
    <3> QED
      BY <3>1, <3>2
  <2>7. ~fenced => /\ Ahead(started'[p], committed'[p], stored'[p], position[p])
                   /\ Ahead(started'[p], committed'[p], stored'[p], Resolved(g))
                   /\ stored' = stored => Ahead(started'[p], committed'[p], stored'[p], g.at)
    <3>1. g.at < Resolved(g) /\ Resolved(g) <= position[p] /\ (~BatchMode => Resolved(g) = g.at + 1)
          /\ Resolved(g) \in Nat
      BY <2>1, <1>l
    <3>2. CASE CommitMode = "store"
      BY <3>1, <3>2, <2>1, <2>3, <2>4, <2>5, <1>n DEF Ahead
    <3>3. CASE CommitMode # "store"
      BY <3>1, <3>3, <2>1, <2>3, <2>4, <2>5, <1>n DEF Ahead
    <3> QED
      BY <3>2, <3>3
  <2>8. CASE SetGroup(i, Advance(g))
    <3> DEFINE m == Advance(g)
    <3>1. /\ m \in Group /\ m.at = Resolved(g)
          /\ m.part = p /\ m.gen = g.gen /\ m.lo = g.lo /\ m.hi = g.hi
          /\ m.st = "done" \/ (m.st = "admitted" /\ ~BatchMode)
      BY <2>1, <1>t, <1>l, AdvanceFacts DEF p
    <3>2. SetGroup(i, m)
      BY <2>8
    <3> HIDE DEF m
    <3> QED
      BY <3>1, <3>2, <2>1, <2>4, <2>6, <2>7, <1>w
  <2>9. CASE SetGroup(i, Mark(g, "failed")) /\ stored' = stored
    <3> DEFINE m == Mark(g, "failed")
    <3>1. /\ m \in Group /\ m.st = "failed" /\ m.part = p /\ m.gen = g.gen
          /\ m.lo = g.lo /\ m.hi = g.hi /\ m.at = g.at
      BY <1>c DEF p
    <3>2. SetGroup(i, m)
      BY <2>9
    <3> HIDE DEF m
    <3> QED
      BY <3>1, <3>2, <2>1, <2>4, <2>6, <2>7, <2>9, <1>w
  <2> QED
    BY <2>2, <2>3, <2>8, <2>9
<1> QED
  BY <1>1, <1>2, <1>3, <1>4 DEF Worker

(* Callbacks, other members and the process.                               *)
LEMMA OrderedEnvironment ==
    ASSUME ~AsyncCallbacks, IInv, TypeInv', Ordered, Environment
    PROVE  Ordered'
<1>t. /\ TypeInv /\ LocalsOK /\ OwnershipOK /\ WaveOK
      /\ generation \in Nat /\ owned \in [Partitions -> Nat]
      /\ committed \in [Partitions -> Offsets] /\ stored \in [Partitions -> OptOffsets]
      /\ started \in [Partitions -> SUBSET Nat] /\ repeated \in [Partitions -> SUBSET Nat]
      /\ \A i \in DOMAIN wave : wave[i] \in Group /\ wave[i].part \in Partitions
      /\ assigned \subseteq Partitions
  BY GroupFacts DEF IInv, Safe, TypeInv, TypeOK
<1>a. ASSUME StartedOK', NEW q \in Partitions
      PROVE  Ahead(started'[q], committed'[q], stored'[q], None)
  BY <1>a, NoneAhead DEF StartedOK, TypeInv, TypeOK
<1>u. ASSUME CommitMode # "store", NEW S \in SUBSET Partitions, FlushStored(S) PROVE committed' = committed
  BY <1>u, <1>t DEF FlushStored, Ordered, StoredOK
<1>1. ASSUME NEW S \in SUBSET Partitions, AssignPartitions(S) PROVE Ordered'
  <2>1. /\ pc = "poll" /\ UNCHANGED <<pc, plan, pending, wave, committed, started, repeated>>
        /\ fenced' = FALSE
        /\ \A p \in Partitions : p \in S => /\ owned'[p] = generation + 1
                                            /\ position'[p] = committed[p]
                                            /\ stored'[p] = None
        /\ \A p \in Partitions : p \notin S => /\ position'[p] = position[p]
                                               /\ stored'[p] = stored[p]
                                               /\ (owned'[p] # 0 => owned'[p] = owned[p])
        /\ ~Cooperative => assigned' = S
    BY <1>1 DEF AssignPartitions, CallbackServed, runVars, history
  <2>2. /\ plan = NoOffsets /\ pending = NoOffsets
        /\ \A i \in DOMAIN wave : wave[i].st = "queued"
    BY <2>1, <1>t DEF LocalsOK
  <2>3. fenced => \A p \in Partitions : owned[p] = 0
    BY <1>1 DEF AssignPartitions, OwnedPartitions
  <2>4. ASSUME NEW i \in DOMAIN wave, Admissible(wave[i])'
        PROVE  Admissible(wave[i]) /\ wave[i].part \notin S /\ ~fenced
    <3>1. owned'[wave[i].part] # 0 /\ owned'[wave[i].part] = wave[i].gen /\ wave[i].gen <= generation
      BY <2>4, <2>1, <1>t DEF Admissible, WaveOK, GroupOK
    <3>2. wave[i].part \notin S /\ wave[i].part \in Partitions
      BY <3>1, <2>1, <1>t
    <3> QED
      BY <3>1, <3>2, <2>1, <2>3 DEF Admissible
  <2>5. WaveCurrent'
    BY <2>1, <2>2, <2>4, <1>t DEF Ordered, WaveCurrent
  <2>6. StoredOK'
    <3>1. \A p \in Partitions : stored'[p] # None => stored'[p] = stored[p] /\ p \notin S
      BY <2>1
    <3> QED
      BY <3>1, <2>1 DEF Ordered, StoredOK
  <2>7. StartedOK'
    BY <2>1, <2>2 DEF Ordered, StartedOK
  <2>8. OffsetsFresh'
    <3>1. ASSUME NEW p \in Partitions, owned'[p] # 0
          PROVE  /\ Ahead(started'[p], committed'[p], stored'[p], position'[p])
                 /\ Ahead(started'[p], committed'[p], stored'[p], plan'[p])
                 /\ Ahead(started'[p], committed'[p], stored'[p], pending'[p])
      <4>1. plan'[p] = None /\ pending'[p] = None
        BY <2>1, <2>2, OffsetFacts
      <4>2. Ahead(started'[p], committed'[p], stored'[p], None)
        BY <2>7, <1>a
      <4>3. CASE p \in S
        <5>1. /\ started'[p] = started[p] /\ committed'[p] = committed[p] /\ stored'[p] = None
              /\ position'[p] = committed[p] /\ committed[p] \in Nat
          BY <4>3, <2>1, <1>t, OffsetFacts
        <5>2. CommitMode = "before" => \A o \in started[p] : o < committed[p]
          BY DEF Ordered, StartedOK
        <5>3. Ahead(started[p], committed[p], None, committed[p])
          BY <5>1, <5>2 DEF Ahead
        <5> QED
          BY <5>1, <5>3, <4>1, <4>2
      <4>4. CASE p \notin S
        <5>1. owned[p] # 0 /\ ~fenced
          BY <4>4, <3>1, <2>1, <2>3
        <5> QED
          BY <5>1, <4>4, <4>1, <4>2, <2>1 DEF Ordered, OffsetsFresh, Fresh
      <4> QED
        BY <4>3, <4>4
    <3>2. ASSUME NEW i \in DOMAIN wave, Admissible(wave[i])'
          PROVE  Ahead(started'[wave[i].part], committed'[wave[i].part], stored'[wave[i].part], wave[i].at)
      BY <3>2, <2>1, <2>2, <2>4, <1>t DEF Ordered, OffsetsFresh, Fresh
    <3> QED
      BY <3>1, <3>2, <2>1 DEF OffsetsFresh, Fresh
  <2> QED
    BY <2>5, <2>6, <2>7, <2>8 DEF Ordered
<1>2. ASSUME NEW S \in SUBSET Partitions, RevokePartitions(S) PROVE Ordered'
  <2>1. /\ pc = "poll" /\ UNCHANGED <<plan, wave, position, fenced, started, repeated>>
        /\ \A p \in Partitions : owned'[p] # 0 => owned'[p] = owned[p] /\ p \notin S
        /\ \A p \in Partitions : pending'[p] \in {None, pending[p]}
        /\ FlushStored(S) \/ committed' = committed
        /\ \A p \in Partitions : stored'[p] = stored[p] \/ (p \in S /\ stored'[p] = None)
    BY <1>2 DEF RevokePartitions, CallbackServed, OwnedPartitions, history
  <2>2. /\ pending = NoOffsets /\ \A i \in DOMAIN wave : wave[i].st = "queued"
    BY <2>1, <1>t DEF LocalsOK
  <2>3. \A p \in Partitions : p \notin S => committed'[p] = committed[p]
    BY <2>1 DEF FlushStored
  <2>4. ASSUME NEW i \in DOMAIN wave, Admissible(wave[i])'
        PROVE  Admissible(wave[i]) /\ wave[i].part \notin S
    BY <2>4, <2>1, <1>t DEF Admissible
  <2>5. WaveCurrent'
    BY <2>1, <2>2, <2>4 DEF Ordered, WaveCurrent
  <2>6. StoredOK'
    <3>1. \/ ~Cooperative => assigned' = {}
          \/ UNCHANGED <<assigned, committed, stored>>
      BY <1>2 DEF RevokePartitions
    <3> QED
      BY <3>1, <2>1 DEF Ordered, StoredOK
  <2>7. StartedOK'
    BY <2>1, <2>2, <1>u DEF Ordered, StartedOK
  <2>8. OffsetsFresh'
    <3>1. ASSUME ~fenced, NEW p \in Partitions, owned'[p] # 0
          PROVE  /\ Ahead(started'[p], committed'[p], stored'[p], position'[p])
                 /\ Ahead(started'[p], committed'[p], stored'[p], plan'[p])
                 /\ Ahead(started'[p], committed'[p], stored'[p], pending'[p])
      <4>1. p \notin S /\ owned[p] # 0 /\ committed'[p] = committed[p] /\ stored'[p] = stored[p]
            /\ pending'[p] = None
        BY <3>1, <2>1, <2>2, <2>3, OffsetFacts
      <4>2. Ahead(started'[p], committed'[p], stored'[p], None)
        BY <2>7, <1>a
      <4> QED
        BY <3>1, <4>1, <4>2, <2>1 DEF Ordered, OffsetsFresh, Fresh
    <3>2. ASSUME ~fenced, NEW i \in DOMAIN wave, Admissible(wave[i])'
          PROVE  Ahead(started'[wave[i].part], committed'[wave[i].part], stored'[wave[i].part], wave[i].at)
      <4>1. wave[i].part \in Partitions /\ wave[i].part \notin S /\ Admissible(wave[i])
        BY <3>2, <2>4, <1>t
      <4> QED
        BY <3>2, <4>1, <2>1, <2>2, <2>3 DEF Ordered, OffsetsFresh, Fresh
    <3> QED
      BY <3>1, <3>2, <2>1 DEF OffsetsFresh, Fresh
  <2> QED
    BY <2>5, <2>6, <2>7, <2>8 DEF Ordered
<1>3. ASSUME NEW p \in Partitions, BackgroundCommit(p) PROVE Ordered'
  <2>1. /\ UNCHANGED <<plan, pending, wave, owned, assigned, position, stored, fenced, started, repeated>>
        /\ ~fenced /\ stored[p] # None
        /\ committed'[p] = stored[p] /\ \A q \in Partitions : q # p => committed'[q] = committed[q]
    BY <1>3, <1>t DEF BackgroundCommit, runVars, rebalanceVars, driverVars, history
  <2>2. CommitMode = "store"
    BY <2>1 DEF Ordered, StoredOK
  <2>3. WaveCurrent'
    BY <2>1 DEF Ordered, WaveCurrent, Admissible
  <2>4. StoredOK'
    <3>1. \A q \in Partitions : stored[q] \in Nat
      BY <1>t, OffsetFacts
    <3> QED
      BY <3>1, <2>1, <2>2, <1>t DEF Ordered, StoredOK
  <2>5. StartedOK'
    BY <2>2 DEF StartedOK
  <2>6. ASSUME NEW q \in Partitions, NEW x, Fresh(q, x) PROVE Ahead(started'[q], committed'[q], stored'[q], x)
    BY <2>1, <2>2, <2>6 DEF Fresh, Ahead
  <2>7. OffsetsFresh'
    BY <2>1, <2>6, <1>t DEF Ordered, OffsetsFresh, Fresh, Admissible
  <2> QED
    BY <2>3, <2>4, <2>5, <2>7 DEF Ordered
<1>4. ASSUME NEW p \in Partitions, OtherMember(p) PROVE Ordered'
  <2>1. /\ UNCHANGED <<plan, pending, wave, owned, assigned, position, stored, fenced>>
        /\ p \notin assigned \/ fenced
        /\ committed'[p] = committed[p] + 1 /\ committed[p] \in Nat
        /\ started'[p] = started[p] \cup {committed[p]}
        /\ repeated'[p] = repeated[p] \cup ({committed[p]} \cap started[p])
        /\ \A q \in Partitions : q # p => /\ committed'[q] = committed[q]
                                           /\ started'[q] = started[q] /\ repeated'[q] = repeated[q]
    BY <1>4, <1>t, OffsetFacts DEF OtherMember, runVars, rebalanceVars, driverVars
  <2>2. ~fenced => owned[p] = 0
    BY <2>1, <1>t DEF OwnershipOK
  <2>3. WaveCurrent'
    BY <2>1 DEF Ordered, WaveCurrent, Admissible
  <2>4. StoredOK'
    BY <2>1 DEF Ordered, StoredOK, TypeInv, TypeOK
  <2>5. StartedOK'
    <3>1. ASSUME CommitMode = "before", NEW q \in Partitions
          PROVE  repeated'[q] = {} /\ \A o \in started'[q] : o < committed'[q]
      <4>1. /\ repeated[q] = {} /\ \A o \in started[q] : o < committed[q] /\ o \in Nat
            /\ committed[q] \in Nat
        BY <3>1, <1>t, OffsetFacts DEF Ordered, StartedOK
      <4>2. CASE q = p
        BY <4>1, <4>2, <2>1
      <4>3. CASE q # p
        BY <4>1, <4>3, <2>1
      <4> QED
        BY <4>2, <4>3
    <3>2. ASSUME CommitMode = "before", NEW i \in DOMAIN wave, wave[i].st = "precommitted",
                 NEW o \in Unit(wave[i])
          PROVE  o \notin started'[wave[i].part] /\ o < committed'[wave[i].part]
      <4>1. /\ wave[i].part \in Partitions
            /\ o \notin started[wave[i].part] /\ o < committed[wave[i].part]
        BY <3>2, <1>t DEF Ordered, StartedOK
      <4>2. o \in Nat
        <5>1. Unit(wave[i]) \subseteq Nat
          BY <3>2, <1>t, ResolvedFacts DEF WaveOK, GroupOK
        <5> QED
          BY <5>1
      <4>3. CASE wave[i].part = p
        BY <4>1, <4>2, <4>3, <2>1
      <4>4. CASE wave[i].part # p
        BY <4>1, <4>4, <2>1
      <4> QED
        BY <4>3, <4>4
    <3>3. wave' = wave /\ \A i \in DOMAIN wave : Unit(wave[i])' = Unit(wave[i])
      BY <2>1 DEF Unit
    <3> QED
      BY <3>1, <3>2, <3>3 DEF StartedOK
  <2>6. OffsetsFresh'
    BY <2>1, <2>2, <1>t DEF Ordered, OffsetsFresh, Fresh, Admissible
  <2> QED
    BY <2>3, <2>4, <2>5, <2>6 DEF Ordered
<1>5. CASE Fence \/ RequestClose
  <2>1. /\ UNCHANGED <<wave, started, repeated, committed, stored, owned, assigned,
                       position, plan, pending>>
        /\ ~fenced' => ~fenced
    BY <1>5 DEF Fence, RequestClose, runVars, rebalanceVars, driverVars, brokerVars, history
  <2> QED
    BY <2>1, <1>t, OrderedOfRemark
<1>6. CASE CloseDriver
  <2>1. /\ wave' = <<>> /\ assigned' = {} /\ UNCHANGED <<started, repeated>>
        /\ \A p \in Partitions : owned'[p] = 0 /\ stored'[p] = None
        /\ CommitMode # "store" => committed' = committed
    <3>1. CommitMode # "store" => committed' = committed
      BY <1>6, <1>u DEF CloseDriver
    <3> QED
      BY <1>6, <1>t, <3>1, OffsetFacts DEF CloseDriver, WaveOK, history
  <2> QED
    BY <2>1 DEF Ordered, WaveCurrent, StoredOK, StartedOK, OffsetsFresh
<1>7. CASE Restart
  <2>1. /\ wave' = <<>> /\ assigned' = {} /\ UNCHANGED <<started, repeated, committed>>
        /\ \A p \in Partitions : owned'[p] = 0 /\ stored'[p] = None
    BY <1>7, OffsetFacts DEF Restart
  <2> QED
    BY <2>1 DEF Ordered, WaveCurrent, StoredOK, StartedOK, OffsetsFresh
<1> QED
  BY <1>1, <1>2, <1>3, <1>4, <1>5, <1>6, <1>7 DEF Environment

LEMMA OrderedStep ==
    ASSUME ~AsyncCallbacks, IInv, IInv', Ordered, [Next]_vars
    PROVE  Ordered'
<1>1. CASE UNCHANGED vars
  <2>1. UNCHANGED <<owned, wave, plan, pending, assigned, position, stored, committed,
                    fenced, started, repeated>>
    BY <1>1 DEF vars, runVars, rebalanceVars, driverVars, brokerVars, history
  <2> QED
    BY <2>1, OrderedOfRemark DEF IInv
<1>2. CASE Run
  <2>1. \/ BeginRun \/ Reseek \/ EndGather \/ PollError \/ CancelPoll \/ StopLaunching
        \/ EndWave \/ FilterRewinds \/ SeekRewinds \/ RecordRewinds
        \/ \E p \in Partitions : Read(p)
        \/ \E i \in DOMAIN wave : Worker(i)
    BY <1>2 DEF Run
  <2> QED
    BY <2>1, OrderedQuiet, OrderedRead, OrderedWorker DEF IInv
<1>3. CASE Environment
  BY <1>3, OrderedEnvironment DEF IInv
<1> QED
  BY <1>1, <1>2, <1>3 DEF Next

LEMMA OrderedInit == Init => IInv /\ Ordered
<1>1. Init => IInv
  BY TypeInit, SafeInit, OffsetFacts DEF IInv, Init, FreshMember, RewindsOwned
<1>2. Init => Ordered
  BY OffsetFacts DEF Init, FreshMember, Ordered, WaveCurrent, StoredOK, StartedOK, OffsetsFresh
<1> QED
  BY <1>1, <1>2
----------------------------------------------------------------------------
(* At-most-once: with CommitBeforeHandler, and callbacks served by         *)
(* ReadMessage, no record reaches a handler twice, whatever fails, is      *)
(* fenced, rebalanced or restarted.                                        *)
THEOREM DeliveredAtMostOnce ==
    ASSUME ~AsyncCallbacks
    PROVE  Spec => []AtMostOnce
<1>1. IInv /\ Ordered /\ [Next]_vars => (IInv /\ Ordered)'
  BY IInvStep, OrderedStep
<1>2. Ordered => AtMostOnce
  BY DEF Ordered, StartedOK, AtMostOnce
<1> QED
  BY OrderedInit, <1>1, <1>2, PTL DEF Spec

(* A step of any member, callback or background commit never moves the     *)
(* committed offset back.  The two exceptions are excluded: a batch whose  *)
(* commit was applied although it reported an error may be gathered again  *)
(* up to an earlier record, and a driver that refused an incremental       *)
(* unassign keeps an old stored offset across a fencing.                   *)
THEOREM CommitsOnlyForward ==
    ASSUME ~AsyncCallbacks, IF CommitMode = "store" THEN ~Cooperative ELSE ~BatchMode
    PROVE  Spec => CommitsMoveForward
<1>1. IInv /\ Ordered /\ [Next]_vars => (IInv /\ Ordered)'
  BY IInvStep, OrderedStep
<1>2. ASSUME IInv, Ordered, Next, NEW p \in Partitions PROVE committed'[p] >= committed[p]
  <2>t. /\ committed \in [Partitions -> Offsets] /\ stored \in [Partitions -> OptOffsets]
        /\ committed[p] \in Nat /\ stored[p] \in Nat
        /\ \A i \in DOMAIN wave : wave[i] \in Group /\ wave[i].part \in Partitions /\ wave[i].at \in Nat
    BY <1>2, GroupFacts, OffsetFacts DEF IInv, TypeInv, TypeOK
  <2>1. ASSUME NEW i \in DOMAIN wave, CommitMode # "store", ~fenced,
               wave[i].st \in {"admitted", "handled"},
               committed' = [committed EXCEPT ![wave[i].part] = Resolved(wave[i])]
        PROVE  committed'[p] >= committed[p]
    <3>1. Fresh(wave[i].part, wave[i].at)
      BY <1>2, <2>1 DEF Ordered, WaveCurrent, OffsetsFresh
    <3>2. Resolved(wave[i]) = wave[i].at + 1
      BY <2>1 DEF Resolved
    <3>3. committed[wave[i].part] <= Resolved(wave[i])
      BY <3>1, <3>2, <2>1 DEF Fresh, Ahead
    <3> QED
      BY <3>3, <2>1, <2>t
  <2>2. ASSUME NEW S \in SUBSET Partitions, FlushStored(S) PROVE committed'[p] >= committed[p]
    <3>1. committed'[p] = IF p \in S \cap assigned /\ ~fenced /\ stored[p] # None
                          THEN stored[p] ELSE committed[p]
      BY <2>2 DEF FlushStored
    <3>2. p \in assigned /\ ~fenced /\ stored[p] # None => committed[p] <= stored[p]
      BY <1>2 DEF Ordered, StoredOK
    <3> QED
      BY <3>1, <3>2, <2>t
  <2>3. CASE Run
    <3>1. CASE committed' = committed
      BY <3>1, <2>t
    <3>2. CASE committed' # committed
      <4>1. \E i \in DOMAIN wave : PreCommit(i) \/ Resolve(i)
        BY <2>3, <3>2 DEF Run, BeginRun, Reseek, EndGather, PollError, CancelPoll, Read,
           StopLaunching, EndWave, Worker, Launch, CancelWorker, Handle, FilterRewinds,
           SeekRewinds, RecordRewinds, brokerVars
      <4>2. PICK i \in DOMAIN wave : PreCommit(i) \/ Resolve(i)
        BY <4>1
      <4>3. /\ CommitMode # "store" /\ ~fenced /\ wave[i].st \in {"admitted", "handled"}
            /\ committed' = [committed EXCEPT ![wave[i].part] = Resolved(wave[i])]
        BY <4>2, <3>2 DEF PreCommit, Resolve, CommitSucceeds, CommitFails, brokerVars
      <4> QED
        BY <4>3, <2>1
    <3> QED
      BY <3>1, <3>2
  <2>4. ASSUME NEW q \in Partitions, BackgroundCommit(q) PROVE committed'[p] >= committed[p]
    <3>1. /\ q \in assigned /\ ~fenced /\ stored[q] # None
          /\ committed' = [committed EXCEPT ![q] = stored[q]]
      BY <2>4 DEF BackgroundCommit
    <3>2. committed[q] <= stored[q]
      BY <3>1, <1>2 DEF Ordered, StoredOK
    <3> QED
      BY <3>1, <3>2, <2>t
  <2>5. ASSUME NEW q \in Partitions, OtherMember(q) PROVE committed'[p] >= committed[p]
    BY <2>5, <2>t DEF OtherMember
  <2>6. CASE Environment
    <3>1. \/ committed' = committed
          \/ \E S \in SUBSET Partitions : FlushStored(S)
          \/ \E q \in Partitions : BackgroundCommit(q) \/ OtherMember(q)
      <4>1. ASSUME CloseDriver, committed' # committed PROVE FlushStored(Partitions)
        BY <4>1 DEF CloseDriver
      <4>2. Partitions \in SUBSET Partitions
        OBVIOUS
      <4> QED
        BY <2>6, <4>1, <4>2 DEF Environment, AssignPartitions, RevokePartitions, Fence, RequestClose,
           Restart, brokerVars
    <3> QED
      BY <3>1, <2>2, <2>4, <2>5, <2>t
  <2> QED
    BY <1>2, <2>3, <2>6 DEF Next
<1>3. ASSUME IInv, Ordered, [Next]_vars
      PROVE  [\A p \in Partitions : committed'[p] >= committed[p]]_vars
  BY <1>2, <1>3
<1>4. IInv /\ Ordered /\ [Next]_vars => [\A p \in Partitions : committed'[p] >= committed[p]]_vars
  BY <1>3
<1> QED
  BY OrderedInit, <1>1, <1>4, PTL DEF Spec, CommitsMoveForward
============================================================================
