------------------------ MODULE CompatConsumerProofs ------------------------
(* The promises of the franz-go consumer for every number of partitions, log *)
(* and poll size, and in every offset mode.  No step relates two partitions, *)
(* so the inductive invariant is one predicate on the values of a single     *)
(* partition, and every action is an instance of one of a few value lemmas.  *)
EXTENDS CompatConsumer, NaturalsInduction, WellFoundedInduction, TLAPS

(* The records a worker of a group wv resolves next.                         *)
UnitOf(bt, wv) == IF bt THEN wv ELSE {Least(wv)}

(* The values a partition's state takes.                                     *)
PartTypes(c, pos, mk, pd, wv, ph, fl, ft, at) ==
    /\ c \in Int /\ c >= -1 /\ pos \in Nat
    /\ mk \in Int /\ mk >= -1 /\ pd \in Int /\ pd >= -1 /\ fl \in Int /\ fl >= -2
    /\ wv \subseteq Offsets /\ ft \subseteq Offsets
    /\ ph \in {"next", "handle", "resolve", "failed", "done"}
    /\ at \in [Offsets -> Nat]

(* Groups exist inside waves and on owned partitions only, they are the      *)
(* newest records below the position, and a rewind goes back far enough for  *)
(* every record of the group that is not settled.                            *)
WaveShape(cl, rn, p, o, pos, pd, wv, ph, fl, st, ft) ==
    /\ rn # "wave" => wv = {} /\ ph = "done" /\ fl = None
    /\ ph # "done" => wv # {} /\ fl = None
    /\ wv # {} => p \in o
    /\ fl # None => wv # {}
    /\ \A r \in wv : r \in ft
    /\ fl # Rewound => \A r \in wv : r < pos /\ \A x \in Offsets : r <= x /\ x < pos => x \in ft
    /\ fl = Rewound => \A r \in wv : pos <= r
    /\ fl = Rewound /\ cl = "no" => pd >= 0 /\ \A r \in wv : pd <= r
    /\ fl >= 0 => fl <= pos /\ (\E s \in wv : s <= fl) /\ \A r \in wv \ st : fl <= r
    /\ fl = None /\ ph = "done" /\ cl = "no" => wv \subseteq st

(* What a worker has done with its unit by the phase it is in.               *)
WorkerAt(md, c, ph, un, hd) ==
    /\ ph = "resolve" => md # "before" /\ un \subseteq hd
    /\ ph = "handle" => md = "before" /\ \A r \in un : r < c
    /\ ph = "failed" => md # "before"

(* What an owned partition fetched and did not settle is in its group or at  *)
(* the position or behind it.                                                *)
ReadsOn(cl, rn, p, o, pos, wv, st, ft) ==
    p \in o /\ (cl = "no" \/ rn = "wave") => \A r \in ft \ st : r \in wv \/ pos <= r

(* A commit covers settled records and, committing before the handler, the   *)
(* unit in hand; nothing at the position or behind it is committed unless    *)
(* settled.                                                                  *)
CommitCovers(md, p, o, c, pos, ph, un, st, ft) ==
    /\ \A r \in ft \ st : r < c => md = "before" /\ ph = "handle" /\ r \in un
    /\ p \in o => \A r \in Offsets \ st : ~(r < c /\ pos <= r)

(* Marks cover settled records only and are not ahead of what is read next.  *)
MarksCover(p, o, pos, mk, wv, st, ft) ==
    /\ \A r \in ft \ st : mk <= r
    /\ p \in o => mk <= pos /\ \A r \in wv : mk <= r

(* Without a committed offset pendingRecovery, or the beginning of the log,  *)
(* covers what was fetched and is neither settled nor in a group.            *)
Remembered(cl, c, mk, pd, wv, st, ft) ==
    cl = "no" /\ c = None =>
        \A r \in ft \ st : \/ r \in wv
                           \/ mk >= 0
                           \/ pd >= 0 /\ pd <= r
                           \/ pd = None /\ FromBeginning

(* Committing before the handler, a record a handler saw is committed and is *)
(* behind everything that can still be read.                                 *)
SeenOnce(md, p, o, c, pos, wv, ph, fl, at) ==
    md = "before" => \A r \in Offsets :
        /\ at[r] <= 1
        /\ at[r] >= 1 => /\ r < c
                         /\ p \in o => /\ r < pos /\ (fl >= 0 => r < fl)
                                       /\ ph # "done" => \A s \in wv : r < s

PartOK(md, bt, cl, rn, p, o, c, pos, mk, pd, wv, ph, fl, hd, ex, ft, at) ==
    /\ PartTypes(c, pos, mk, pd, wv, ph, fl, ft, at)
    /\ WaveShape(cl, rn, p, o, pos, pd, wv, ph, fl, hd \cup ex, ft)
    /\ WorkerAt(md, c, ph, UnitOf(bt, wv), hd)
    /\ ReadsOn(cl, rn, p, o, pos, wv, hd \cup ex, ft)
    /\ CommitCovers(md, p, o, c, pos, ph, UnitOf(bt, wv), hd \cup ex, ft)
    /\ MarksCover(p, o, pos, mk, wv, hd \cup ex, ft)
    /\ Remembered(cl, c, mk, pd, wv, hd \cup ex, ft)
    /\ SeenOnce(md, p, o, c, pos, wv, ph, fl, at)

(* The inductive invariant.                                                  *)
Here(p) ==
    PartOK(mode, batch, closing, run, p, owned, committed[p], position[p], marked[p], pending[p],
           wave[p], phase[p], failed[p], handled[p], excused[p], fetched[p], attempts[p])
PartsOK == \A p \in Partitions : Here(p)
CompatShape ==
    /\ batch \in BOOLEAN /\ owned \subseteq Partitions
    /\ closing \in {"no", "requested", "done"}
    /\ run \in {"idle", "polling", "wave", "dead"}
    /\ closing = "done" => run # "wave"
    /\ end \in [Partitions -> 0..LogEnd]
    /\ DOMAIN committed = Partitions /\ DOMAIN position = Partitions /\ DOMAIN marked = Partitions
    /\ DOMAIN pending = Partitions /\ DOMAIN wave = Partitions /\ DOMAIN phase = Partitions
    /\ DOMAIN failed = Partitions /\ DOMAIN handled = Partitions /\ DOMAIN excused = Partitions
    /\ DOMAIN fetched = Partitions /\ DOMAIN attempts = Partitions
CompatInv == CompatShape /\ PartsOK

(* What was fetched is in the log.                                           *)
FetchedInLog == \A p \in Partitions : \A r \in fetched[p] : r < end[p]
-----------------------------------------------------------------------------
(* The least and the most of a unit.                                         *)

LEMMA LeastOffset ==
    ASSUME NEW B \in SUBSET Nat, B # {}
    PROVE  Least(B) \in B /\ \A y \in B : Least(B) <= y
<1>1. PICK n \in B : \A m \in B : ~(<<m, n>> \in OpToRel(<, Nat))
  BY WFMin, NatLessThanWellFounded
<1>2. ASSUME NEW m \in B PROVE n <= m
  <2>1. m \in Nat /\ n \in Nat
    OBVIOUS
  <2>2. ~(<<m, n>> \in OpToRel(<, Nat))
    BY <1>1, <1>2
  <2>3. ~(m < n)
    BY <2>1, <2>2 DEF OpToRel
  <2> QED BY <2>1, <2>3
<1> QED BY <1>2 DEF Least

LEMMA MostOffset ==
    ASSUME NEW B \in SUBSET Offsets, B # {}
    PROVE  Most(B) \in B /\ \A y \in B : y <= Most(B)
<1> DEFINE D == {LogEnd - y : y \in B}
<1>1. \A y \in B : y \in Int /\ y >= 0 /\ y <= LogEnd - 1
  BY CompatBounds DEF Offsets
<1>2. D \in SUBSET Nat /\ D # {}
  BY <1>1, CompatBounds
<1>3. PICK d \in D : \A e \in D : d <= e
  BY <1>2, LeastOffset
<1>4. PICK x \in B : d = LogEnd - x
  BY <1>3
<1>5. ASSUME NEW y \in B PROVE y <= x
  <2>1. d <= LogEnd - y
    BY <1>3
  <2> QED BY <2>1, <1>4, <1>1, CompatBounds
<1> QED BY <1>5 DEF Most

(* A unit is a beginning of its group, from f to l.                          *)
IsUnit(un, f, l, wv) ==
    /\ un \subseteq wv /\ f \in un /\ l \in un
    /\ \A r \in wv : f <= r /\ (r \in un <=> r <= l)

LEMMA UnitIs ==
    ASSUME NEW bt \in BOOLEAN, NEW wv \in SUBSET Offsets, wv # {}
    PROVE  IsUnit(UnitOf(bt, wv), Least(UnitOf(bt, wv)), Most(UnitOf(bt, wv)), wv)
<1> DEFINE u == UnitOf(bt, wv)
<1>1. \A r \in wv : r \in Nat
  BY CompatBounds DEF Offsets
<1>2. Least(wv) \in wv /\ \A y \in wv : Least(wv) <= y
  BY <1>1, LeastOffset
<1>3. u \subseteq wv /\ u # {}
  BY <1>2 DEF UnitOf
<1>4. Least(u) \in u /\ \A y \in u : Least(u) <= y
  BY <1>1, <1>3, LeastOffset
<1>5. Most(u) \in u /\ \A y \in u : y <= Most(u)
  BY <1>3, MostOffset
<1>6. CASE bt = TRUE
  <2>1. u = wv
    BY <1>6 DEF UnitOf
  <2> QED BY <2>1, <1>1, <1>3, <1>4, <1>5 DEF IsUnit
<1>7. CASE bt = FALSE
  <2>1. u = {Least(wv)}
    BY <1>7 DEF UnitOf
  <2>2. Least(u) = Least(wv) /\ Most(u) = Least(wv)
    BY <2>1, <1>4, <1>5
  <2> HIDE DEF u
  <2>3. \A r \in wv : r \in u <=> r <= Least(wv)
    <3> SUFFICES ASSUME NEW r \in wv PROVE r \in u <=> r <= Least(wv)
      OBVIOUS
    <3>1. r \in Nat /\ Least(wv) \in Nat /\ Least(wv) <= r
      BY <1>1, <1>2
    <3> QED BY <3>1, <2>1
  <2>4. IsUnit(u, Least(u), Most(u), wv)
    BY <2>2, <2>3, <1>2, <1>3, <1>4, <1>5 DEF IsUnit
  <2> QED BY <2>4 DEF u
<1> QED BY <1>6, <1>7
-----------------------------------------------------------------------------
(* One partition, one step.                                                  *)

(* Outside waves the run may start, stop or die, and a close may begin.       *)
LEMMA RunMoves ==
    ASSUME NEW md, NEW bt, NEW cl, NEW rn, NEW p, NEW o, NEW c, NEW pos, NEW mk, NEW pd, NEW wv,
           NEW ph, NEW fl, NEW hd, NEW ex, NEW ft, NEW at, NEW cn, NEW rm,
           PartOK(md, bt, cl, rn, p, o, c, pos, mk, pd, wv, ph, fl, hd, ex, ft, at),
           rn # "wave" \/ rm = rn,
           rm # "wave" \/ rm = rn,
           cn = cl \/ cn # "no"
    PROVE  PartOK(md, bt, cn, rm, p, o, c, pos, mk, pd, wv, ph, fl, hd, ex, ft, at)
<1>1. /\ PartTypes(c, pos, mk, pd, wv, ph, fl, ft, at)
      /\ WaveShape(cl, rn, p, o, pos, pd, wv, ph, fl, hd \cup ex, ft)
      /\ WorkerAt(md, c, ph, UnitOf(bt, wv), hd)
      /\ ReadsOn(cl, rn, p, o, pos, wv, hd \cup ex, ft)
      /\ CommitCovers(md, p, o, c, pos, ph, UnitOf(bt, wv), hd \cup ex, ft)
      /\ MarksCover(p, o, pos, mk, wv, hd \cup ex, ft)
      /\ Remembered(cl, c, mk, pd, wv, hd \cup ex, ft)
      /\ SeenOnce(md, p, o, c, pos, wv, ph, fl, at)
  BY DEF PartOK
<1>2. \A r \in Offsets : r \in Int /\ r >= 0
  BY CompatBounds DEF Offsets
<1>3. PartTypes(c, pos, mk, pd, wv, ph, fl, ft, at)
  BY <1>1, <1>2 DEF None, Rewound, PartTypes
<1>4. WaveShape(cn, rm, p, o, pos, pd, wv, ph, fl, hd \cup ex, ft)
  BY <1>1, <1>2 DEF None, Rewound, PartTypes, WaveShape
<1>5. WorkerAt(md, c, ph, UnitOf(bt, wv), hd)
  BY <1>1, <1>2 DEF None, Rewound, PartTypes, WorkerAt
<1>6. ReadsOn(cn, rm, p, o, pos, wv, hd \cup ex, ft)
  BY <1>1, <1>2 DEF None, Rewound, PartTypes, ReadsOn
<1>7. CommitCovers(md, p, o, c, pos, ph, UnitOf(bt, wv), hd \cup ex, ft)
  BY <1>1, <1>2 DEF None, Rewound, PartTypes, CommitCovers
<1>8. MarksCover(p, o, pos, mk, wv, hd \cup ex, ft)
  BY <1>1, <1>2 DEF None, Rewound, PartTypes, MarksCover
<1>9. Remembered(cn, c, mk, pd, wv, hd \cup ex, ft)
  BY <1>1, <1>2 DEF None, Rewound, PartTypes, Remembered
<1>10. SeenOnce(md, p, o, c, pos, wv, ph, fl, at)
  BY <1>1, <1>2 DEF None, Rewound, PartTypes, SeenOnce
<1> QED BY <1>3, <1>4, <1>5, <1>6, <1>7, <1>8, <1>9, <1>10 DEF PartOK

(* A partition leaves the member, or others come and go.                     *)
LEMMA Disowned ==
    ASSUME NEW md, NEW bt, NEW cl, NEW rn, NEW p, NEW o, NEW c, NEW pos, NEW mk, NEW pd, NEW wv,
           NEW ph, NEW fl, NEW hd, NEW ex, NEW ft, NEW at, NEW q,
           PartOK(md, bt, cl, rn, p, o, c, pos, mk, pd, wv, ph, fl, hd, ex, ft, at),
           rn # "wave",
           p \in q => p \in o
    PROVE  PartOK(md, bt, cl, rn, p, q, c, pos, mk, pd, wv, ph, fl, hd, ex, ft, at)
<1>1. /\ PartTypes(c, pos, mk, pd, wv, ph, fl, ft, at)
      /\ WaveShape(cl, rn, p, o, pos, pd, wv, ph, fl, hd \cup ex, ft)
      /\ WorkerAt(md, c, ph, UnitOf(bt, wv), hd)
      /\ ReadsOn(cl, rn, p, o, pos, wv, hd \cup ex, ft)
      /\ CommitCovers(md, p, o, c, pos, ph, UnitOf(bt, wv), hd \cup ex, ft)
      /\ MarksCover(p, o, pos, mk, wv, hd \cup ex, ft)
      /\ Remembered(cl, c, mk, pd, wv, hd \cup ex, ft)
      /\ SeenOnce(md, p, o, c, pos, wv, ph, fl, at)
  BY DEF PartOK
<1>2. \A r \in Offsets : r \in Int /\ r >= 0
  BY CompatBounds DEF Offsets
<1>3. PartTypes(c, pos, mk, pd, wv, ph, fl, ft, at)
  BY <1>1, <1>2 DEF None, Rewound, PartTypes
<1>4. WaveShape(cl, rn, p, q, pos, pd, wv, ph, fl, hd \cup ex, ft)
  BY <1>1, <1>2 DEF None, Rewound, PartTypes, WaveShape
<1>5. WorkerAt(md, c, ph, UnitOf(bt, wv), hd)
  BY <1>1, <1>2 DEF None, Rewound, PartTypes, WorkerAt
<1>6. ReadsOn(cl, rn, p, q, pos, wv, hd \cup ex, ft)
  BY <1>1, <1>2 DEF None, Rewound, PartTypes, ReadsOn
<1>7. CommitCovers(md, p, q, c, pos, ph, UnitOf(bt, wv), hd \cup ex, ft)
  BY <1>1, <1>2 DEF None, Rewound, PartTypes, CommitCovers
<1>8. MarksCover(p, q, pos, mk, wv, hd \cup ex, ft)
  BY <1>1, <1>2 DEF None, Rewound, PartTypes, MarksCover
<1>9. Remembered(cl, c, mk, pd, wv, hd \cup ex, ft)
  BY <1>1, <1>2 DEF None, Rewound, PartTypes, Remembered
<1>10. SeenOnce(md, p, q, c, pos, wv, ph, fl, at)
  BY <1>1, <1>2 DEF None, Rewound, PartTypes, SeenOnce
<1> QED BY <1>3, <1>4, <1>5, <1>6, <1>7, <1>8, <1>9, <1>10 DEF PartOK

(* CommitMarkedOffsets.                                                       *)
LEMMA MarksCommitted ==
    ASSUME NEW md, NEW bt, NEW cl, NEW rn, NEW p, NEW o, NEW c, NEW pos, NEW mk, NEW pd, NEW wv,
           NEW ph, NEW fl, NEW hd, NEW ex, NEW ft, NEW at,
           PartOK(md, bt, cl, rn, p, o, c, pos, mk, pd, wv, ph, fl, hd, ex, ft, at),
           p \in o,
           md = "auto"
    PROVE  PartOK(md, bt, cl, rn, p, o, Larger(c, mk), pos, mk, pd, wv, ph, fl, hd, ex, ft, at)
<1>1. /\ PartTypes(c, pos, mk, pd, wv, ph, fl, ft, at)
      /\ WaveShape(cl, rn, p, o, pos, pd, wv, ph, fl, hd \cup ex, ft)
      /\ WorkerAt(md, c, ph, UnitOf(bt, wv), hd)
      /\ ReadsOn(cl, rn, p, o, pos, wv, hd \cup ex, ft)
      /\ CommitCovers(md, p, o, c, pos, ph, UnitOf(bt, wv), hd \cup ex, ft)
      /\ MarksCover(p, o, pos, mk, wv, hd \cup ex, ft)
      /\ Remembered(cl, c, mk, pd, wv, hd \cup ex, ft)
      /\ SeenOnce(md, p, o, c, pos, wv, ph, fl, at)
  BY DEF PartOK
<1>2. \A r \in Offsets : r \in Int /\ r >= 0
  BY CompatBounds DEF Offsets
<1>3. PartTypes(Larger(c, mk), pos, mk, pd, wv, ph, fl, ft, at)
  BY <1>1, <1>2 DEF None, Rewound, PartTypes, Larger
<1>4. WaveShape(cl, rn, p, o, pos, pd, wv, ph, fl, hd \cup ex, ft)
  BY <1>1, <1>2 DEF None, Rewound, PartTypes, WaveShape, Larger
<1>5. WorkerAt(md, Larger(c, mk), ph, UnitOf(bt, wv), hd)
  BY <1>1, <1>2 DEF None, Rewound, PartTypes, WorkerAt, Larger
<1>6. ReadsOn(cl, rn, p, o, pos, wv, hd \cup ex, ft)
  BY <1>1, <1>2 DEF None, Rewound, PartTypes, ReadsOn, Larger
<1>7. CommitCovers(md, p, o, Larger(c, mk), pos, ph, UnitOf(bt, wv), hd \cup ex, ft)
  BY <1>1, <1>2 DEF None, Rewound, PartTypes, MarksCover, CommitCovers, Larger
<1>8. MarksCover(p, o, pos, mk, wv, hd \cup ex, ft)
  BY <1>1, <1>2 DEF None, Rewound, PartTypes, MarksCover, Larger
<1>9. Remembered(cl, Larger(c, mk), mk, pd, wv, hd \cup ex, ft)
  BY <1>1, <1>2 DEF None, Rewound, PartTypes, Remembered, Larger
<1>10. SeenOnce(md, p, o, Larger(c, mk), pos, wv, ph, fl, at)
  BY <1>1, <1>2 DEF None, Rewound, PartTypes, SeenOnce, Larger
<1> QED BY <1>3, <1>4, <1>5, <1>6, <1>7, <1>8, <1>9, <1>10 DEF PartOK

(* Another member resolves a record.                                          *)
LEMMA OthersCommit ==
    ASSUME NEW md, NEW bt, NEW cl, NEW rn, NEW p, NEW o, NEW c, NEW pos, NEW mk, NEW pd, NEW wv,
           NEW ph, NEW fl, NEW hd, NEW ex, NEW ft, NEW at, NEW k \in Nat, NEW exc,
           PartOK(md, bt, cl, rn, p, o, c, pos, mk, pd, wv, ph, fl, hd, ex, ft, at),
           c >= 0 => k = c,
           ex \subseteq exc,
           c < 0 => 0..(k - 1) \subseteq exc,
           ph = "handle" => UnitOf(bt, wv) \subseteq Offsets
    PROVE  PartOK(md, bt, cl, rn, p, o, k + 1, pos, mk, pd, wv, ph, fl, hd \cup {k}, exc, ft,
                  at)
<1>1. /\ PartTypes(c, pos, mk, pd, wv, ph, fl, ft, at)
      /\ WaveShape(cl, rn, p, o, pos, pd, wv, ph, fl, hd \cup ex, ft)
      /\ WorkerAt(md, c, ph, UnitOf(bt, wv), hd)
      /\ ReadsOn(cl, rn, p, o, pos, wv, hd \cup ex, ft)
      /\ CommitCovers(md, p, o, c, pos, ph, UnitOf(bt, wv), hd \cup ex, ft)
      /\ MarksCover(p, o, pos, mk, wv, hd \cup ex, ft)
      /\ Remembered(cl, c, mk, pd, wv, hd \cup ex, ft)
      /\ SeenOnce(md, p, o, c, pos, wv, ph, fl, at)
  BY DEF PartOK
<1>2. \A r \in Offsets : r \in Int /\ r >= 0
  BY CompatBounds DEF Offsets
<1>3. PartTypes(k + 1, pos, mk, pd, wv, ph, fl, ft, at)
  BY <1>1, <1>2 DEF None, Rewound, PartTypes
<1>4. WaveShape(cl, rn, p, o, pos, pd, wv, ph, fl, (hd \cup {k}) \cup exc, ft)
  BY <1>1, <1>2 DEF None, Rewound, PartTypes, WaveShape
<1>5. WorkerAt(md, k + 1, ph, UnitOf(bt, wv), hd \cup {k})
  BY <1>1, <1>2 DEF None, Rewound, PartTypes, WorkerAt
<1>6. ReadsOn(cl, rn, p, o, pos, wv, (hd \cup {k}) \cup exc, ft)
  BY <1>1, <1>2 DEF None, Rewound, PartTypes, ReadsOn
<1>7. CommitCovers(md, p, o, k + 1, pos, ph, UnitOf(bt, wv), (hd \cup {k}) \cup exc, ft)
  BY <1>1, <1>2 DEF None, Rewound, PartTypes, CommitCovers
<1>8. MarksCover(p, o, pos, mk, wv, (hd \cup {k}) \cup exc, ft)
  BY <1>1, <1>2 DEF None, Rewound, PartTypes, MarksCover
<1>9. Remembered(cl, k + 1, mk, pd, wv, (hd \cup {k}) \cup exc, ft)
  BY <1>1, <1>2 DEF None, Rewound, PartTypes, Remembered
<1>10. SeenOnce(md, p, o, k + 1, pos, wv, ph, fl, at)
  BY <1>1, <1>2 DEF None, Rewound, PartTypes, SeenOnce
<1> QED BY <1>3, <1>4, <1>5, <1>6, <1>7, <1>8, <1>9, <1>10 DEF PartOK

(* adjustRecoveryOffsets, outside waves.                                      *)
LEMMA Assigned ==
    ASSUME NEW md, NEW bt, NEW cl, NEW rn, NEW p, NEW o, NEW c, NEW pos, NEW mk, NEW pd, NEW wv,
           NEW ph, NEW fl, NEW hd, NEW ex, NEW ft, NEW at, NEW start, NEW left, NEW exc,
           PartOK(md, bt, cl, rn, p, o, c, pos, mk, pd, wv, ph, fl, hd, ex, ft, at),
           rn # "wave",
           p \notin o,
           start \in Nat,
           c >= 0 => start = c,
           c < 0 /\ pd >= 0 => start = pd,
           c < 0 /\ pd < 0 /\ FromBeginning => start = 0,
           c >= 0 /\ c >= pd => left = None,
           ~(c >= 0 /\ c >= pd) => left = pd,
           c = None /\ mk >= 0 => exc = ex \cup {r \in ft : r < start},
           ~(c = None /\ mk >= 0) => exc = ex,
           c < 0 /\ pd < 0 /\ ~FromBeginning => \A r \in ft : r < start
    PROVE  PartOK(md, bt, cl, rn, p, o \cup {p}, c, start, None, left, wv, ph, fl, hd, exc, ft,
                  at)
<1>1. /\ PartTypes(c, pos, mk, pd, wv, ph, fl, ft, at)
      /\ WaveShape(cl, rn, p, o, pos, pd, wv, ph, fl, hd \cup ex, ft)
      /\ WorkerAt(md, c, ph, UnitOf(bt, wv), hd)
      /\ ReadsOn(cl, rn, p, o, pos, wv, hd \cup ex, ft)
      /\ CommitCovers(md, p, o, c, pos, ph, UnitOf(bt, wv), hd \cup ex, ft)
      /\ MarksCover(p, o, pos, mk, wv, hd \cup ex, ft)
      /\ Remembered(cl, c, mk, pd, wv, hd \cup ex, ft)
      /\ SeenOnce(md, p, o, c, pos, wv, ph, fl, at)
  BY DEF PartOK
<1>2. \A r \in Offsets : r \in Int /\ r >= 0
  BY CompatBounds DEF Offsets
<1>3. PartTypes(c, start, None, left, wv, ph, fl, ft, at)
  BY <1>1, <1>2 DEF None, Rewound, PartTypes
<1>4. WaveShape(cl, rn, p, o \cup {p}, start, left, wv, ph, fl, hd \cup exc, ft)
  BY <1>1, <1>2 DEF None, Rewound, PartTypes, WaveShape
<1>5. WorkerAt(md, c, ph, UnitOf(bt, wv), hd)
  BY <1>1, <1>2 DEF None, Rewound, PartTypes, WorkerAt
<1>6. ReadsOn(cl, rn, p, o \cup {p}, start, wv, hd \cup exc, ft)
  BY <1>1, <1>2 DEF None, Rewound, PartTypes, WaveShape, CommitCovers, Remembered, ReadsOn
<1>7. CommitCovers(md, p, o \cup {p}, c, start, ph, UnitOf(bt, wv), hd \cup exc, ft)
  BY <1>1, <1>2 DEF None, Rewound, PartTypes, WaveShape, CommitCovers
<1>8. MarksCover(p, o \cup {p}, start, None, wv, hd \cup exc, ft)
  BY <1>1, <1>2 DEF None, Rewound, PartTypes, WaveShape, MarksCover
<1>9. Remembered(cl, c, None, left, wv, hd \cup exc, ft)
  BY <1>1, <1>2 DEF None, Rewound, PartTypes, WaveShape, Remembered
<1>10. SeenOnce(md, p, o \cup {p}, c, start, wv, ph, fl, at)
  BY <1>1, <1>2 DEF None, Rewound, PartTypes, WaveShape, SeenOnce
<1> QED BY <1>3, <1>4, <1>5, <1>6, <1>7, <1>8, <1>9, <1>10 DEF PartOK
(* A poll of n records of the partition.                                      *)
LEMMA PolledOK ==
    ASSUME NEW md, NEW bt, NEW cl, NEW rn, NEW p, NEW o, NEW c, NEW pos, NEW mk, NEW pd, NEW wv,
           NEW ph, NEW fl, NEW hd, NEW ex, NEW ft, NEW at, NEW n \in Nat, NEW got, NEW nx,
           PartOK(md, bt, cl, rn, p, o, c, pos, mk, pd, wv, ph, fl, hd, ex, ft, at),
           rn # "wave",
           n > 0 => nx = "next",
           n = 0 => nx = "done",
           cl = "no",
           n > 0 => p \in o,
           got = {x \in Offsets : pos <= x /\ x < pos + n},
           n > 0 => pos \in Offsets
    PROVE  PartOK(md, bt, cl, "wave", p, o, c, pos + n, mk, pd, got, nx, None, hd, ex,
                  ft \cup got, at)
<1>1. /\ PartTypes(c, pos, mk, pd, wv, ph, fl, ft, at)
      /\ WaveShape(cl, rn, p, o, pos, pd, wv, ph, fl, hd \cup ex, ft)
      /\ WorkerAt(md, c, ph, UnitOf(bt, wv), hd)
      /\ ReadsOn(cl, rn, p, o, pos, wv, hd \cup ex, ft)
      /\ CommitCovers(md, p, o, c, pos, ph, UnitOf(bt, wv), hd \cup ex, ft)
      /\ MarksCover(p, o, pos, mk, wv, hd \cup ex, ft)
      /\ Remembered(cl, c, mk, pd, wv, hd \cup ex, ft)
      /\ SeenOnce(md, p, o, c, pos, wv, ph, fl, at)
  BY DEF PartOK
<1>2. \A r \in Offsets : r \in Int /\ r >= 0
  BY CompatBounds DEF Offsets
<1>3. PartTypes(c, pos + n, mk, pd, got, nx, None, ft \cup got, at)
  BY <1>1, <1>2 DEF None, Rewound, PartTypes
<1>4. WaveShape(cl, "wave", p, o, pos + n, pd, got, nx, None, hd \cup ex, ft \cup got)
  BY <1>1, <1>2 DEF None, Rewound, PartTypes, WaveShape
<1>5. WorkerAt(md, c, nx, UnitOf(bt, got), hd)
  BY <1>1, <1>2 DEF None, Rewound, PartTypes, WaveShape, WorkerAt
<1>6. ReadsOn(cl, "wave", p, o, pos + n, got, hd \cup ex, ft \cup got)
  BY <1>1, <1>2 DEF None, Rewound, PartTypes, WaveShape, ReadsOn
<1>7. CommitCovers(md, p, o, c, pos + n, nx, UnitOf(bt, got), hd \cup ex, ft \cup got)
  BY <1>1, <1>2 DEF None, Rewound, PartTypes, WaveShape, CommitCovers
<1>8. MarksCover(p, o, pos + n, mk, got, hd \cup ex, ft \cup got)
  BY <1>1, <1>2 DEF None, Rewound, PartTypes, WaveShape, MarksCover
<1>9. Remembered(cl, c, mk, pd, got, hd \cup ex, ft \cup got)
  BY <1>1, <1>2 DEF None, Rewound, PartTypes, WaveShape, Remembered
<1>10. SeenOnce(md, p, o, c, pos + n, got, nx, None, at)
  BY <1>1, <1>2 DEF None, Rewound, PartTypes, WaveShape, SeenOnce
<1> QED BY <1>3, <1>4, <1>5, <1>6, <1>7, <1>8, <1>9, <1>10 DEF PartOK

(* A poll of records got, which no handler saw.                               *)
LEMMA PollDropped ==
    ASSUME NEW md, NEW bt, NEW cl, NEW rn, NEW p, NEW o, NEW c, NEW pos, NEW mk, NEW pd, NEW wv,
           NEW ph, NEW fl, NEW hd, NEW ex, NEW ft, NEW at, NEW got, NEW left,
           PartOK(md, bt, cl, rn, p, o, c, pos, mk, pd, wv, ph, fl, hd, ex, ft, at),
           rn = "polling",
           cl = "no",
           got # {} => p \in o,
           got \subseteq Offsets,
           \A x \in got : pos <= x,
           got = {} \/ (pd >= 0 /\ pd < pos) => left = pd,
           got # {} /\ ~(pd >= 0 /\ pd < pos) => left = pos
    PROVE  PartOK(md, bt, cl, "idle", p, o, c, pos, mk, left, wv, ph, fl, hd, ex, ft \cup got,
                  at)
<1>1. /\ PartTypes(c, pos, mk, pd, wv, ph, fl, ft, at)
      /\ WaveShape(cl, rn, p, o, pos, pd, wv, ph, fl, hd \cup ex, ft)
      /\ WorkerAt(md, c, ph, UnitOf(bt, wv), hd)
      /\ ReadsOn(cl, rn, p, o, pos, wv, hd \cup ex, ft)
      /\ CommitCovers(md, p, o, c, pos, ph, UnitOf(bt, wv), hd \cup ex, ft)
      /\ MarksCover(p, o, pos, mk, wv, hd \cup ex, ft)
      /\ Remembered(cl, c, mk, pd, wv, hd \cup ex, ft)
      /\ SeenOnce(md, p, o, c, pos, wv, ph, fl, at)
  BY DEF PartOK
<1>2. \A r \in Offsets : r \in Int /\ r >= 0
  BY CompatBounds DEF Offsets
<1>3. PartTypes(c, pos, mk, left, wv, ph, fl, ft \cup got, at)
  BY <1>1, <1>2 DEF None, Rewound, PartTypes
<1>4. WaveShape(cl, "idle", p, o, pos, left, wv, ph, fl, hd \cup ex, ft \cup got)
  BY <1>1, <1>2 DEF None, Rewound, PartTypes, WaveShape
<1>5. WorkerAt(md, c, ph, UnitOf(bt, wv), hd)
  BY <1>1, <1>2 DEF None, Rewound, PartTypes, WaveShape, WorkerAt
<1>6. ReadsOn(cl, "idle", p, o, pos, wv, hd \cup ex, ft \cup got)
  BY <1>1, <1>2 DEF None, Rewound, PartTypes, WaveShape, ReadsOn
<1>7. CommitCovers(md, p, o, c, pos, ph, UnitOf(bt, wv), hd \cup ex, ft \cup got)
  BY <1>1, <1>2 DEF None, Rewound, PartTypes, WaveShape, CommitCovers
<1>8. MarksCover(p, o, pos, mk, wv, hd \cup ex, ft \cup got)
  BY <1>1, <1>2 DEF None, Rewound, PartTypes, WaveShape, MarksCover
<1>9. Remembered(cl, c, mk, left, wv, hd \cup ex, ft \cup got)
  BY <1>1, <1>2 DEF None, Rewound, PartTypes, WaveShape, ReadsOn, Remembered
<1>10. SeenOnce(md, p, o, c, pos, wv, ph, fl, at)
  BY <1>1, <1>2 DEF None, Rewound, PartTypes, WaveShape, SeenOnce
<1> QED BY <1>3, <1>4, <1>5, <1>6, <1>7, <1>8, <1>9, <1>10 DEF PartOK

(* The end of a wave.                                                         *)
LEMMA WaveEnded ==
    ASSUME NEW md, NEW bt, NEW cl, NEW rn, NEW p, NEW o, NEW c, NEW pos, NEW mk, NEW pd, NEW wv,
           NEW ph, NEW fl, NEW hd, NEW ex, NEW ft, NEW at, NEW rm, NEW left, NEW back,
           PartOK(md, bt, cl, rn, p, o, c, pos, mk, pd, wv, ph, fl, hd, ex, ft, at),
           rn = "wave",
           ph = "done",
           rm # "wave",
           fl >= 0 /\ p \in o => back = fl,
           fl < 0 => back = pos,
           cl # "no" \/ fl < 0 \/ (pd >= 0 /\ pd < fl) => left = pd,
           ~(cl # "no" \/ fl < 0 \/ (pd >= 0 /\ pd < fl)) => left = fl
    PROVE  PartOK(md, bt, cl, rm, p, o, c, back, mk, left, {}, ph, None, hd, ex, ft, at)
<1>1. /\ PartTypes(c, pos, mk, pd, wv, ph, fl, ft, at)
      /\ WaveShape(cl, rn, p, o, pos, pd, wv, ph, fl, hd \cup ex, ft)
      /\ WorkerAt(md, c, ph, UnitOf(bt, wv), hd)
      /\ ReadsOn(cl, rn, p, o, pos, wv, hd \cup ex, ft)
      /\ CommitCovers(md, p, o, c, pos, ph, UnitOf(bt, wv), hd \cup ex, ft)
      /\ MarksCover(p, o, pos, mk, wv, hd \cup ex, ft)
      /\ Remembered(cl, c, mk, pd, wv, hd \cup ex, ft)
      /\ SeenOnce(md, p, o, c, pos, wv, ph, fl, at)
  BY DEF PartOK
<1>2. \A r \in Offsets : r \in Int /\ r >= 0
  BY CompatBounds DEF Offsets
<1>3. PartTypes(c, back, mk, left, {}, ph, None, ft, at)
  BY <1>1, <1>2 DEF None, Rewound, PartTypes, WaveShape
<1>4. WaveShape(cl, rm, p, o, back, left, {}, ph, None, hd \cup ex, ft)
  BY <1>1, <1>2 DEF None, Rewound, PartTypes, WaveShape
<1>5. WorkerAt(md, c, ph, UnitOf(bt, {}), hd)
  BY <1>1, <1>2 DEF None, Rewound, PartTypes, WaveShape, WorkerAt
<1>6. ReadsOn(cl, rm, p, o, back, {}, hd \cup ex, ft)
  BY <1>1, <1>2 DEF None, Rewound, PartTypes, WaveShape, ReadsOn
<1>7. CommitCovers(md, p, o, c, back, ph, UnitOf(bt, {}), hd \cup ex, ft)
  BY <1>1, <1>2 DEF None, Rewound, PartTypes, WaveShape, CommitCovers
<1>8. MarksCover(p, o, back, mk, {}, hd \cup ex, ft)
  BY <1>1, <1>2 DEF None, Rewound, PartTypes, WaveShape, MarksCover
<1>9. Remembered(cl, c, mk, left, {}, hd \cup ex, ft)
  BY <1>1, <1>2 DEF None, Rewound, PartTypes, WaveShape, ReadsOn, Remembered
<1>10. SeenOnce(md, p, o, c, back, {}, ph, None, at)
  BY <1>1, <1>2 DEF None, Rewound, PartTypes, WaveShape, SeenOnce
<1> QED BY <1>3, <1>4, <1>5, <1>6, <1>7, <1>8, <1>9, <1>10 DEF PartOK

(* A cancelled run leaves a group.                                            *)
LEMMA Skipped ==
    ASSUME NEW md, NEW bt, NEW cl, NEW rn, NEW p, NEW o, NEW c, NEW pos, NEW mk, NEW pd, NEW wv,
           NEW ph, NEW fl, NEW hd, NEW ex, NEW ft, NEW at,
           PartOK(md, bt, cl, rn, p, o, c, pos, mk, pd, wv, ph, fl, hd, ex, ft, at),
           cl # "no",
           ph = "next"
    PROVE  PartOK(md, bt, cl, rn, p, o, c, pos, mk, pd, wv, "done", fl, hd, ex, ft, at)
<1>1. /\ PartTypes(c, pos, mk, pd, wv, ph, fl, ft, at)
      /\ WaveShape(cl, rn, p, o, pos, pd, wv, ph, fl, hd \cup ex, ft)
      /\ WorkerAt(md, c, ph, UnitOf(bt, wv), hd)
      /\ ReadsOn(cl, rn, p, o, pos, wv, hd \cup ex, ft)
      /\ CommitCovers(md, p, o, c, pos, ph, UnitOf(bt, wv), hd \cup ex, ft)
      /\ MarksCover(p, o, pos, mk, wv, hd \cup ex, ft)
      /\ Remembered(cl, c, mk, pd, wv, hd \cup ex, ft)
      /\ SeenOnce(md, p, o, c, pos, wv, ph, fl, at)
  BY DEF PartOK
<1>2. \A r \in Offsets : r \in Int /\ r >= 0
  BY CompatBounds DEF Offsets
<1>3. PartTypes(c, pos, mk, pd, wv, "done", fl, ft, at)
  BY <1>1, <1>2 DEF None, Rewound, PartTypes
<1>4. WaveShape(cl, rn, p, o, pos, pd, wv, "done", fl, hd \cup ex, ft)
  BY <1>1, <1>2 DEF None, Rewound, PartTypes, WaveShape
<1>5. WorkerAt(md, c, "done", UnitOf(bt, wv), hd)
  BY <1>1, <1>2 DEF None, Rewound, PartTypes, WorkerAt
<1>6. ReadsOn(cl, rn, p, o, pos, wv, hd \cup ex, ft)
  BY <1>1, <1>2 DEF None, Rewound, PartTypes, ReadsOn
<1>7. CommitCovers(md, p, o, c, pos, "done", UnitOf(bt, wv), hd \cup ex, ft)
  BY <1>1, <1>2 DEF None, Rewound, PartTypes, CommitCovers
<1>8. MarksCover(p, o, pos, mk, wv, hd \cup ex, ft)
  BY <1>1, <1>2 DEF None, Rewound, PartTypes, MarksCover
<1>9. Remembered(cl, c, mk, pd, wv, hd \cup ex, ft)
  BY <1>1, <1>2 DEF None, Rewound, PartTypes, Remembered
<1>10. SeenOnce(md, p, o, c, pos, wv, "done", fl, at)
  BY <1>1, <1>2 DEF None, Rewound, PartTypes, SeenOnce
<1> QED BY <1>3, <1>4, <1>5, <1>6, <1>7, <1>8, <1>9, <1>10 DEF PartOK
(* CommitBeforeHandler succeeds.                                              *)
LEMMA CommittedFirst ==
    ASSUME NEW md, NEW bt, NEW cl, NEW rn, NEW p, NEW o, NEW c, NEW pos, NEW mk, NEW pd, NEW wv,
           NEW ph, NEW fl, NEW hd, NEW ex, NEW ft, NEW at, NEW left, NEW f, NEW l,
           PartOK(md, bt, cl, rn, p, o, c, pos, mk, pd, wv, ph, fl, hd, ex, ft, at),
           pd <= l => left = None,
           ~(pd <= l) => left = pd,
           md = "before",
           ph = "next",
           rn = "wave",
           IsUnit(UnitOf(bt, wv), f, l, wv)
    PROVE  PartOK(md, bt, cl, rn, p, o, l + 1, pos, mk, left, wv, "handle", fl, hd, ex, ft, at)
<1>1. /\ PartTypes(c, pos, mk, pd, wv, ph, fl, ft, at)
      /\ WaveShape(cl, rn, p, o, pos, pd, wv, ph, fl, hd \cup ex, ft)
      /\ WorkerAt(md, c, ph, UnitOf(bt, wv), hd)
      /\ ReadsOn(cl, rn, p, o, pos, wv, hd \cup ex, ft)
      /\ CommitCovers(md, p, o, c, pos, ph, UnitOf(bt, wv), hd \cup ex, ft)
      /\ MarksCover(p, o, pos, mk, wv, hd \cup ex, ft)
      /\ Remembered(cl, c, mk, pd, wv, hd \cup ex, ft)
      /\ SeenOnce(md, p, o, c, pos, wv, ph, fl, at)
  BY DEF PartOK
<1>2. \A r \in Offsets : r \in Int /\ r >= 0
  BY CompatBounds DEF Offsets
<1>3. PartTypes(l + 1, pos, mk, left, wv, "handle", fl, ft, at)
  BY <1>1, <1>2 DEF None, Rewound, PartTypes, IsUnit
<1>4. WaveShape(cl, rn, p, o, pos, left, wv, "handle", fl, hd \cup ex, ft)
  BY <1>1, <1>2 DEF None, Rewound, PartTypes, WaveShape, WorkerAt, IsUnit
<1>5. WorkerAt(md, l + 1, "handle", UnitOf(bt, wv), hd)
  BY <1>1, <1>2 DEF None, Rewound, PartTypes, WaveShape, WorkerAt, IsUnit
<1>6. ReadsOn(cl, rn, p, o, pos, wv, hd \cup ex, ft)
  BY <1>1, <1>2 DEF None, Rewound, PartTypes, WaveShape, WorkerAt, ReadsOn, IsUnit
<1>7. CommitCovers(md, p, o, l + 1, pos, "handle", UnitOf(bt, wv), hd \cup ex, ft)
  BY <1>1, <1>2 DEF None, Rewound, PartTypes, WaveShape, WorkerAt, ReadsOn, CommitCovers, IsUnit
<1>8. MarksCover(p, o, pos, mk, wv, hd \cup ex, ft)
  BY <1>1, <1>2 DEF None, Rewound, PartTypes, WaveShape, WorkerAt, ReadsOn, MarksCover, IsUnit
<1>9. Remembered(cl, l + 1, mk, left, wv, hd \cup ex, ft)
  BY <1>1, <1>2 DEF None, Rewound, PartTypes, WaveShape, WorkerAt, ReadsOn, Remembered, IsUnit
<1>10. SeenOnce(md, p, o, l + 1, pos, wv, "handle", fl, at)
  BY <1>1, <1>2 DEF None, Rewound, PartTypes, WaveShape, WorkerAt, SeenOnce, IsUnit
<1> QED BY <1>3, <1>4, <1>5, <1>6, <1>7, <1>8, <1>9, <1>10 DEF PartOK

(* CommitBeforeHandler fails, applied or not.                                 *)
LEMMA CommitFirstFailed ==
    ASSUME NEW md, NEW bt, NEW cl, NEW rn, NEW p, NEW o, NEW c, NEW pos, NEW mk, NEW pd, NEW wv,
           NEW ph, NEW fl, NEW hd, NEW ex, NEW ft, NEW at, NEW exc, NEW cc, NEW f, NEW l,
           PartOK(md, bt, cl, rn, p, o, c, pos, mk, pd, wv, ph, fl, hd, ex, ft, at),
           cc = c => exc = ex,
           cc # c => exc = ex \cup UnitOf(bt, wv),
           md = "before",
           ph = "next",
           rn = "wave",
           cc = c \/ cc = l + 1,
           IsUnit(UnitOf(bt, wv), f, l, wv)
    PROVE  PartOK(md, bt, cl, rn, p, o, cc, pos, mk, pd, wv, "done", f, hd, exc, ft, at)
<1>1. /\ PartTypes(c, pos, mk, pd, wv, ph, fl, ft, at)
      /\ WaveShape(cl, rn, p, o, pos, pd, wv, ph, fl, hd \cup ex, ft)
      /\ WorkerAt(md, c, ph, UnitOf(bt, wv), hd)
      /\ ReadsOn(cl, rn, p, o, pos, wv, hd \cup ex, ft)
      /\ CommitCovers(md, p, o, c, pos, ph, UnitOf(bt, wv), hd \cup ex, ft)
      /\ MarksCover(p, o, pos, mk, wv, hd \cup ex, ft)
      /\ Remembered(cl, c, mk, pd, wv, hd \cup ex, ft)
      /\ SeenOnce(md, p, o, c, pos, wv, ph, fl, at)
  BY DEF PartOK
<1>2. \A r \in Offsets : r \in Int /\ r >= 0
  BY CompatBounds DEF Offsets
<1>3. PartTypes(cc, pos, mk, pd, wv, "done", f, ft, at)
  BY <1>1, <1>2 DEF None, Rewound, PartTypes, IsUnit
<1>4. WaveShape(cl, rn, p, o, pos, pd, wv, "done", f, hd \cup exc, ft)
  BY <1>1, <1>2 DEF None, Rewound, PartTypes, WaveShape, WorkerAt, IsUnit
<1>5. WorkerAt(md, cc, "done", UnitOf(bt, wv), hd)
  BY <1>1, <1>2 DEF None, Rewound, PartTypes, WaveShape, WorkerAt, IsUnit
<1>6. ReadsOn(cl, rn, p, o, pos, wv, hd \cup exc, ft)
  BY <1>1, <1>2 DEF None, Rewound, PartTypes, WaveShape, WorkerAt, ReadsOn, IsUnit
<1>7. CommitCovers(md, p, o, cc, pos, "done", UnitOf(bt, wv), hd \cup exc, ft)
  BY <1>1, <1>2 DEF None, Rewound, PartTypes, WaveShape, WorkerAt, ReadsOn, CommitCovers, IsUnit
<1>8. MarksCover(p, o, pos, mk, wv, hd \cup exc, ft)
  BY <1>1, <1>2 DEF None, Rewound, PartTypes, WaveShape, WorkerAt, ReadsOn, MarksCover, IsUnit
<1>9. Remembered(cl, cc, mk, pd, wv, hd \cup exc, ft)
  BY <1>1, <1>2 DEF None, Rewound, PartTypes, WaveShape, WorkerAt, ReadsOn, Remembered, IsUnit
<1>10. SeenOnce(md, p, o, cc, pos, wv, "done", f, at)
  BY <1>1, <1>2 DEF None, Rewound, PartTypes, WaveShape, WorkerAt, SeenOnce, IsUnit
<1> QED BY <1>3, <1>4, <1>5, <1>6, <1>7, <1>8, <1>9, <1>10 DEF PartOK

(* The handler succeeds after the commit.                                     *)
LEMMA HandledAfterCommit ==
    ASSUME NEW md, NEW bt, NEW cl, NEW rn, NEW p, NEW o, NEW c, NEW pos, NEW mk, NEW pd, NEW wv,
           NEW ph, NEW fl, NEW hd, NEW ex, NEW ft, NEW at, NEW left, NEW nx, NEW seen, NEW f,
           NEW l,
           PartOK(md, bt, cl, rn, p, o, c, pos, mk, pd, wv, ph, fl, hd, ex, ft, at),
           pd <= l => left = None,
           ~(pd <= l) => left = pd,
           wv = UnitOf(bt, wv) => nx = "done",
           wv # UnitOf(bt, wv) => nx = "next",
           md = "before",
           ph = "handle",
           rn = "wave",
           seen \in [Offsets -> Nat],
           \A r \in UnitOf(bt, wv) : at[r] = 0 => seen[r] = 1,
           \A r \in Offsets \ UnitOf(bt, wv) : seen[r] = at[r],
           IsUnit(UnitOf(bt, wv), f, l, wv)
    PROVE  PartOK(md, bt, cl, rn, p, o, c, pos, mk, left, wv \ UnitOf(bt, wv), nx, fl,
                  hd \cup UnitOf(bt, wv), ex, ft, seen)
<1>1. /\ PartTypes(c, pos, mk, pd, wv, ph, fl, ft, at)
      /\ WaveShape(cl, rn, p, o, pos, pd, wv, ph, fl, hd \cup ex, ft)
      /\ WorkerAt(md, c, ph, UnitOf(bt, wv), hd)
      /\ ReadsOn(cl, rn, p, o, pos, wv, hd \cup ex, ft)
      /\ CommitCovers(md, p, o, c, pos, ph, UnitOf(bt, wv), hd \cup ex, ft)
      /\ MarksCover(p, o, pos, mk, wv, hd \cup ex, ft)
      /\ Remembered(cl, c, mk, pd, wv, hd \cup ex, ft)
      /\ SeenOnce(md, p, o, c, pos, wv, ph, fl, at)
  BY DEF PartOK
<1>2. \A r \in Offsets : r \in Int /\ r >= 0
  BY CompatBounds DEF Offsets
<1>3. PartTypes(c, pos, mk, left, wv \ UnitOf(bt, wv), nx, fl, ft, seen)
  BY <1>1, <1>2 DEF None, Rewound, PartTypes, IsUnit
<1>4. WaveShape(cl, rn, p, o, pos, left, wv \ UnitOf(bt, wv), nx, fl, hd \cup UnitOf(bt,
       wv) \cup ex, ft)
  BY <1>1, <1>2 DEF None, Rewound, PartTypes, WaveShape, WorkerAt, IsUnit
<1>5. WorkerAt(md, c, nx, UnitOf(bt, wv \ UnitOf(bt, wv)), hd \cup UnitOf(bt, wv))
  BY <1>1, <1>2 DEF None, Rewound, PartTypes, WaveShape, WorkerAt, IsUnit
<1>6. ReadsOn(cl, rn, p, o, pos, wv \ UnitOf(bt, wv), hd \cup UnitOf(bt, wv) \cup ex, ft)
  BY <1>1, <1>2 DEF None, Rewound, PartTypes, WaveShape, WorkerAt, ReadsOn, IsUnit
<1>7. CommitCovers(md, p, o, c, pos, nx, UnitOf(bt, wv \ UnitOf(bt, wv)),
       hd \cup UnitOf(bt, wv) \cup ex, ft)
  BY <1>1, <1>2 DEF None, Rewound, PartTypes, WaveShape, WorkerAt, ReadsOn, CommitCovers, IsUnit
<1>8. MarksCover(p, o, pos, mk, wv \ UnitOf(bt, wv), hd \cup UnitOf(bt, wv) \cup ex,
       ft)
  BY <1>1, <1>2 DEF None, Rewound, PartTypes, WaveShape, WorkerAt, ReadsOn, MarksCover, IsUnit
<1>9. Remembered(cl, c, mk, left, wv \ UnitOf(bt, wv), hd \cup UnitOf(bt, wv) \cup ex,
       ft)
  BY <1>1, <1>2 DEF None, Rewound, PartTypes, WaveShape, WorkerAt, ReadsOn, Remembered, IsUnit
<1>10. SeenOnce(md, p, o, c, pos, wv \ UnitOf(bt, wv), nx, fl, seen)
  BY <1>1, <1>2 DEF None, Rewound, PartTypes, WaveShape, WorkerAt, SeenOnce, IsUnit
<1> QED BY <1>3, <1>4, <1>5, <1>6, <1>7, <1>8, <1>9, <1>10 DEF PartOK

(* The handler succeeds, and the offset is to be resolved.                    *)
LEMMA Handled ==
    ASSUME NEW md, NEW bt, NEW cl, NEW rn, NEW p, NEW o, NEW c, NEW pos, NEW mk, NEW pd, NEW wv,
           NEW ph, NEW fl, NEW hd, NEW ex, NEW ft, NEW at, NEW seen, NEW f, NEW l,
           PartOK(md, bt, cl, rn, p, o, c, pos, mk, pd, wv, ph, fl, hd, ex, ft, at),
           md # "before",
           ph = "next",
           rn = "wave",
           seen \in [Offsets -> Nat],
           \A r \in UnitOf(bt, wv) : at[r] = 0 => seen[r] = 1,
           \A r \in Offsets \ UnitOf(bt, wv) : seen[r] = at[r],
           IsUnit(UnitOf(bt, wv), f, l, wv)
    PROVE  PartOK(md, bt, cl, rn, p, o, c, pos, mk, pd, wv, "resolve", fl, hd \cup UnitOf(bt,
                  wv), ex, ft, seen)
<1>1. /\ PartTypes(c, pos, mk, pd, wv, ph, fl, ft, at)
      /\ WaveShape(cl, rn, p, o, pos, pd, wv, ph, fl, hd \cup ex, ft)
      /\ WorkerAt(md, c, ph, UnitOf(bt, wv), hd)
      /\ ReadsOn(cl, rn, p, o, pos, wv, hd \cup ex, ft)
      /\ CommitCovers(md, p, o, c, pos, ph, UnitOf(bt, wv), hd \cup ex, ft)
      /\ MarksCover(p, o, pos, mk, wv, hd \cup ex, ft)
      /\ Remembered(cl, c, mk, pd, wv, hd \cup ex, ft)
      /\ SeenOnce(md, p, o, c, pos, wv, ph, fl, at)
  BY DEF PartOK
<1>2. \A r \in Offsets : r \in Int /\ r >= 0
  BY CompatBounds DEF Offsets
<1>3. PartTypes(c, pos, mk, pd, wv, "resolve", fl, ft, seen)
  BY <1>1, <1>2 DEF None, Rewound, PartTypes, IsUnit
<1>4. WaveShape(cl, rn, p, o, pos, pd, wv, "resolve", fl, hd \cup UnitOf(bt, wv) \cup ex,
       ft)
  BY <1>1, <1>2 DEF None, Rewound, PartTypes, WaveShape, WorkerAt, IsUnit
<1>5. WorkerAt(md, c, "resolve", UnitOf(bt, wv), hd \cup UnitOf(bt, wv))
  BY <1>1, <1>2 DEF None, Rewound, PartTypes, WaveShape, WorkerAt, IsUnit
<1>6. ReadsOn(cl, rn, p, o, pos, wv, hd \cup UnitOf(bt, wv) \cup ex, ft)
  BY <1>1, <1>2 DEF None, Rewound, PartTypes, WaveShape, WorkerAt, ReadsOn, IsUnit
<1>7. CommitCovers(md, p, o, c, pos, "resolve", UnitOf(bt, wv), hd \cup UnitOf(bt,
       wv) \cup ex, ft)
  BY <1>1, <1>2 DEF None, Rewound, PartTypes, WaveShape, WorkerAt, ReadsOn, CommitCovers, IsUnit
<1>8. MarksCover(p, o, pos, mk, wv, hd \cup UnitOf(bt, wv) \cup ex, ft)
  BY <1>1, <1>2 DEF None, Rewound, PartTypes, WaveShape, WorkerAt, ReadsOn, MarksCover, IsUnit
<1>9. Remembered(cl, c, mk, pd, wv, hd \cup UnitOf(bt, wv) \cup ex, ft)
  BY <1>1, <1>2 DEF None, Rewound, PartTypes, WaveShape, WorkerAt, ReadsOn, Remembered, IsUnit
<1>10. SeenOnce(md, p, o, c, pos, wv, "resolve", fl, seen)
  BY <1>1, <1>2 DEF None, Rewound, PartTypes, WaveShape, WorkerAt, SeenOnce, IsUnit
<1> QED BY <1>3, <1>4, <1>5, <1>6, <1>7, <1>8, <1>9, <1>10 DEF PartOK

(* The handler fails after the commit.                                        *)
LEMMA FailedAfterCommit ==
    ASSUME NEW md, NEW bt, NEW cl, NEW rn, NEW p, NEW o, NEW c, NEW pos, NEW mk, NEW pd, NEW wv,
           NEW ph, NEW fl, NEW hd, NEW ex, NEW ft, NEW at, NEW back, NEW seen, NEW f, NEW l,
           PartOK(md, bt, cl, rn, p, o, c, pos, mk, pd, wv, ph, fl, hd, ex, ft, at),
           wv = UnitOf(bt, wv) => back = None,
           wv # UnitOf(bt, wv) => back = l + 1,
           md = "before",
           ph = "handle",
           rn = "wave",
           seen \in [Offsets -> Nat],
           \A r \in UnitOf(bt, wv) : at[r] = 0 => seen[r] = 1,
           \A r \in Offsets \ UnitOf(bt, wv) : seen[r] = at[r],
           IsUnit(UnitOf(bt, wv), f, l, wv)
    PROVE  PartOK(md, bt, cl, rn, p, o, c, pos, mk, pd, wv, "done", back, hd, ex \cup UnitOf(bt,
                  wv), ft, seen)
<1>1. /\ PartTypes(c, pos, mk, pd, wv, ph, fl, ft, at)
      /\ WaveShape(cl, rn, p, o, pos, pd, wv, ph, fl, hd \cup ex, ft)
      /\ WorkerAt(md, c, ph, UnitOf(bt, wv), hd)
      /\ ReadsOn(cl, rn, p, o, pos, wv, hd \cup ex, ft)
      /\ CommitCovers(md, p, o, c, pos, ph, UnitOf(bt, wv), hd \cup ex, ft)
      /\ MarksCover(p, o, pos, mk, wv, hd \cup ex, ft)
      /\ Remembered(cl, c, mk, pd, wv, hd \cup ex, ft)
      /\ SeenOnce(md, p, o, c, pos, wv, ph, fl, at)
  BY DEF PartOK
<1>2. \A r \in Offsets : r \in Int /\ r >= 0
  BY CompatBounds DEF Offsets
<1>3. PartTypes(c, pos, mk, pd, wv, "done", back, ft, seen)
  BY <1>1, <1>2 DEF None, Rewound, PartTypes, IsUnit
<1>4. WaveShape(cl, rn, p, o, pos, pd, wv, "done", back, hd \cup (ex \cup UnitOf(bt, wv)),
       ft)
  BY <1>1, <1>2 DEF None, Rewound, PartTypes, WaveShape, WorkerAt, IsUnit
<1>5. WorkerAt(md, c, "done", UnitOf(bt, wv), hd)
  BY <1>1, <1>2 DEF None, Rewound, PartTypes, WaveShape, WorkerAt, IsUnit
<1>6. ReadsOn(cl, rn, p, o, pos, wv, hd \cup (ex \cup UnitOf(bt, wv)), ft)
  BY <1>1, <1>2 DEF None, Rewound, PartTypes, WaveShape, WorkerAt, ReadsOn, IsUnit
<1>7. CommitCovers(md, p, o, c, pos, "done", UnitOf(bt, wv), hd \cup (ex \cup UnitOf(bt,
       wv)), ft)
  BY <1>1, <1>2 DEF None, Rewound, PartTypes, WaveShape, WorkerAt, ReadsOn, CommitCovers, IsUnit
<1>8. MarksCover(p, o, pos, mk, wv, hd \cup (ex \cup UnitOf(bt, wv)), ft)
  BY <1>1, <1>2 DEF None, Rewound, PartTypes, WaveShape, WorkerAt, ReadsOn, MarksCover, IsUnit
<1>9. Remembered(cl, c, mk, pd, wv, hd \cup (ex \cup UnitOf(bt, wv)), ft)
  BY <1>1, <1>2 DEF None, Rewound, PartTypes, WaveShape, WorkerAt, ReadsOn, Remembered, IsUnit
<1>10. SeenOnce(md, p, o, c, pos, wv, "done", back, seen)
  BY <1>1, <1>2 DEF None, Rewound, PartTypes, WaveShape, WorkerAt, SeenOnce, IsUnit
<1> QED BY <1>3, <1>4, <1>5, <1>6, <1>7, <1>8, <1>9, <1>10 DEF PartOK

(* The handler fails, and its unit is read again.                             *)
LEMMA HandlerFailed ==
    ASSUME NEW md, NEW bt, NEW cl, NEW rn, NEW p, NEW o, NEW c, NEW pos, NEW mk, NEW pd, NEW wv,
           NEW ph, NEW fl, NEW hd, NEW ex, NEW ft, NEW at, NEW seen, NEW f, NEW l,
           PartOK(md, bt, cl, rn, p, o, c, pos, mk, pd, wv, ph, fl, hd, ex, ft, at),
           md # "before",
           ph = "next",
           rn = "wave",
           seen \in [Offsets -> Nat],
           \A r \in UnitOf(bt, wv) : at[r] = 0 => seen[r] = 1,
           \A r \in Offsets \ UnitOf(bt, wv) : seen[r] = at[r],
           IsUnit(UnitOf(bt, wv), f, l, wv)
    PROVE  PartOK(md, bt, cl, rn, p, o, c, pos, mk, pd, wv, "done", f, hd, ex, ft, seen)
<1>1. /\ PartTypes(c, pos, mk, pd, wv, ph, fl, ft, at)
      /\ WaveShape(cl, rn, p, o, pos, pd, wv, ph, fl, hd \cup ex, ft)
      /\ WorkerAt(md, c, ph, UnitOf(bt, wv), hd)
      /\ ReadsOn(cl, rn, p, o, pos, wv, hd \cup ex, ft)
      /\ CommitCovers(md, p, o, c, pos, ph, UnitOf(bt, wv), hd \cup ex, ft)
      /\ MarksCover(p, o, pos, mk, wv, hd \cup ex, ft)
      /\ Remembered(cl, c, mk, pd, wv, hd \cup ex, ft)
      /\ SeenOnce(md, p, o, c, pos, wv, ph, fl, at)
  BY DEF PartOK
<1>2. \A r \in Offsets : r \in Int /\ r >= 0
  BY CompatBounds DEF Offsets
<1>3. PartTypes(c, pos, mk, pd, wv, "done", f, ft, seen)
  BY <1>1, <1>2 DEF None, Rewound, PartTypes, IsUnit
<1>4. WaveShape(cl, rn, p, o, pos, pd, wv, "done", f, hd \cup ex, ft)
  BY <1>1, <1>2 DEF None, Rewound, PartTypes, WaveShape, WorkerAt, IsUnit
<1>5. WorkerAt(md, c, "done", UnitOf(bt, wv), hd)
  BY <1>1, <1>2 DEF None, Rewound, PartTypes, WaveShape, WorkerAt, IsUnit
<1>6. ReadsOn(cl, rn, p, o, pos, wv, hd \cup ex, ft)
  BY <1>1, <1>2 DEF None, Rewound, PartTypes, WaveShape, WorkerAt, ReadsOn, IsUnit
<1>7. CommitCovers(md, p, o, c, pos, "done", UnitOf(bt, wv), hd \cup ex, ft)
  BY <1>1, <1>2 DEF None, Rewound, PartTypes, WaveShape, WorkerAt, ReadsOn, CommitCovers, IsUnit
<1>8. MarksCover(p, o, pos, mk, wv, hd \cup ex, ft)
  BY <1>1, <1>2 DEF None, Rewound, PartTypes, WaveShape, WorkerAt, ReadsOn, MarksCover, IsUnit
<1>9. Remembered(cl, c, mk, pd, wv, hd \cup ex, ft)
  BY <1>1, <1>2 DEF None, Rewound, PartTypes, WaveShape, WorkerAt, ReadsOn, Remembered, IsUnit
<1>10. SeenOnce(md, p, o, c, pos, wv, "done", f, seen)
  BY <1>1, <1>2 DEF None, Rewound, PartTypes, WaveShape, WorkerAt, SeenOnce, IsUnit
<1> QED BY <1>3, <1>4, <1>5, <1>6, <1>7, <1>8, <1>9, <1>10 DEF PartOK

(* RedeliverUnresolvedFinalizer.                                              *)
LEMMA Redelivered ==
    ASSUME NEW md, NEW bt, NEW cl, NEW rn, NEW p, NEW o, NEW c, NEW pos, NEW mk, NEW pd, NEW wv,
           NEW ph, NEW fl, NEW hd, NEW ex, NEW ft, NEW at, NEW left, NEW f, NEW l,
           PartOK(md, bt, cl, rn, p, o, c, pos, mk, pd, wv, ph, fl, hd, ex, ft, at),
           md # "before",
           ph = "failed",
           rn = "wave",
           cl # "no" \/ (pd >= 0 /\ pd < f) => left = pd,
           ~(cl # "no" \/ (pd >= 0 /\ pd < f)) => left = f,
           IsUnit(UnitOf(bt, wv), f, l, wv)
    PROVE  PartOK(md, bt, cl, rn, p, o, c, f, mk, left, wv, "done", Rewound, hd, ex, ft, at)
<1>1. /\ PartTypes(c, pos, mk, pd, wv, ph, fl, ft, at)
      /\ WaveShape(cl, rn, p, o, pos, pd, wv, ph, fl, hd \cup ex, ft)
      /\ WorkerAt(md, c, ph, UnitOf(bt, wv), hd)
      /\ ReadsOn(cl, rn, p, o, pos, wv, hd \cup ex, ft)
      /\ CommitCovers(md, p, o, c, pos, ph, UnitOf(bt, wv), hd \cup ex, ft)
      /\ MarksCover(p, o, pos, mk, wv, hd \cup ex, ft)
      /\ Remembered(cl, c, mk, pd, wv, hd \cup ex, ft)
      /\ SeenOnce(md, p, o, c, pos, wv, ph, fl, at)
  BY DEF PartOK
<1>2. \A r \in Offsets : r \in Int /\ r >= 0
  BY CompatBounds DEF Offsets
<1>3. PartTypes(c, f, mk, left, wv, "done", Rewound, ft, at)
  BY <1>1, <1>2 DEF None, Rewound, PartTypes, IsUnit
<1>4. WaveShape(cl, rn, p, o, f, left, wv, "done", Rewound, hd \cup ex, ft)
  BY <1>1, <1>2 DEF None, Rewound, PartTypes, WaveShape, WorkerAt, IsUnit
<1>5. WorkerAt(md, c, "done", UnitOf(bt, wv), hd)
  BY <1>1, <1>2 DEF None, Rewound, PartTypes, WaveShape, WorkerAt, IsUnit
<1>6. ReadsOn(cl, rn, p, o, f, wv, hd \cup ex, ft)
  BY <1>1, <1>2 DEF None, Rewound, PartTypes, WaveShape, WorkerAt, ReadsOn, IsUnit
<1>7. CommitCovers(md, p, o, c, f, "done", UnitOf(bt, wv), hd \cup ex, ft)
  BY <1>1, <1>2 DEF None, Rewound, PartTypes, WaveShape, WorkerAt, ReadsOn, CommitCovers, IsUnit
<1>8. MarksCover(p, o, f, mk, wv, hd \cup ex, ft)
  BY <1>1, <1>2 DEF None, Rewound, PartTypes, WaveShape, WorkerAt, ReadsOn, MarksCover, IsUnit
<1>9. Remembered(cl, c, mk, left, wv, hd \cup ex, ft)
  BY <1>1, <1>2 DEF None, Rewound, PartTypes, WaveShape, WorkerAt, ReadsOn, Remembered, IsUnit
<1>10. SeenOnce(md, p, o, c, f, wv, "done", Rewound, at)
  BY <1>1, <1>2 DEF None, Rewound, PartTypes, WaveShape, WorkerAt, SeenOnce, IsUnit
<1> QED BY <1>3, <1>4, <1>5, <1>6, <1>7, <1>8, <1>9, <1>10 DEF PartOK

(* The unit is resolved without a commit: handled, or given up.               *)
LEMMA Marked ==
    ASSUME NEW md, NEW bt, NEW cl, NEW rn, NEW p, NEW o, NEW c, NEW pos, NEW mk, NEW pd, NEW wv,
           NEW ph, NEW fl, NEW hd, NEW ex, NEW ft, NEW at, NEW exc, NEW left, NEW nx, NEW f, NEW l,
           PartOK(md, bt, cl, rn, p, o, c, pos, mk, pd, wv, ph, fl, hd, ex, ft, at),
           pd <= l => left = None,
           ~(pd <= l) => left = pd,
           wv = UnitOf(bt, wv) => nx = "done",
           wv # UnitOf(bt, wv) => nx = "next",
           md # "before",
           ph \in {"resolve", "failed"},
           ex \subseteq exc,
           UnitOf(bt, wv) \subseteq hd \cup exc,
           rn = "wave",
           IsUnit(UnitOf(bt, wv), f, l, wv)
    PROVE  PartOK(md, bt, cl, rn, p, o, c, pos, l + 1, left, wv \ UnitOf(bt, wv), nx, fl, hd,
                  exc, ft, at)
<1>1. /\ PartTypes(c, pos, mk, pd, wv, ph, fl, ft, at)
      /\ WaveShape(cl, rn, p, o, pos, pd, wv, ph, fl, hd \cup ex, ft)
      /\ WorkerAt(md, c, ph, UnitOf(bt, wv), hd)
      /\ ReadsOn(cl, rn, p, o, pos, wv, hd \cup ex, ft)
      /\ CommitCovers(md, p, o, c, pos, ph, UnitOf(bt, wv), hd \cup ex, ft)
      /\ MarksCover(p, o, pos, mk, wv, hd \cup ex, ft)
      /\ Remembered(cl, c, mk, pd, wv, hd \cup ex, ft)
      /\ SeenOnce(md, p, o, c, pos, wv, ph, fl, at)
  BY DEF PartOK
<1>2. \A r \in Offsets : r \in Int /\ r >= 0
  BY CompatBounds DEF Offsets
<1>3. PartTypes(c, pos, l + 1, left, wv \ UnitOf(bt, wv), nx, fl, ft, at)
  BY <1>1, <1>2 DEF None, Rewound, PartTypes, IsUnit
<1>4. WaveShape(cl, rn, p, o, pos, left, wv \ UnitOf(bt, wv), nx, fl, hd \cup exc, ft)
  BY <1>1, <1>2 DEF None, Rewound, PartTypes, WaveShape, WorkerAt, IsUnit
<1>5. WorkerAt(md, c, nx, UnitOf(bt, wv \ UnitOf(bt, wv)), hd)
  BY <1>1, <1>2 DEF None, Rewound, PartTypes, WaveShape, WorkerAt, IsUnit
<1>6. ReadsOn(cl, rn, p, o, pos, wv \ UnitOf(bt, wv), hd \cup exc, ft)
  BY <1>1, <1>2 DEF None, Rewound, PartTypes, WaveShape, WorkerAt, ReadsOn, IsUnit
<1>7. CommitCovers(md, p, o, c, pos, nx, UnitOf(bt, wv \ UnitOf(bt, wv)), hd \cup exc, ft)
  BY <1>1, <1>2 DEF None, Rewound, PartTypes, WaveShape, WorkerAt, ReadsOn, CommitCovers, IsUnit
<1>8. MarksCover(p, o, pos, l + 1, wv \ UnitOf(bt, wv), hd \cup exc, ft)
  BY <1>1, <1>2 DEF None, Rewound, PartTypes, WaveShape, WorkerAt, ReadsOn, MarksCover, IsUnit
<1>9. Remembered(cl, c, l + 1, left, wv \ UnitOf(bt, wv), hd \cup exc, ft)
  BY <1>1, <1>2 DEF None, Rewound, PartTypes, WaveShape, WorkerAt, ReadsOn, Remembered, IsUnit
<1>10. SeenOnce(md, p, o, c, pos, wv \ UnitOf(bt, wv), nx, fl, at)
  BY <1>1, <1>2 DEF None, Rewound, PartTypes, WaveShape, WorkerAt, SeenOnce, IsUnit
<1> QED BY <1>3, <1>4, <1>5, <1>6, <1>7, <1>8, <1>9, <1>10 DEF PartOK

(* The unit is resolved by a commit.                                          *)
LEMMA Committed ==
    ASSUME NEW md, NEW bt, NEW cl, NEW rn, NEW p, NEW o, NEW c, NEW pos, NEW mk, NEW pd, NEW wv,
           NEW ph, NEW fl, NEW hd, NEW ex, NEW ft, NEW at, NEW left, NEW nx, NEW f, NEW l,
           PartOK(md, bt, cl, rn, p, o, c, pos, mk, pd, wv, ph, fl, hd, ex, ft, at),
           pd <= l => left = None,
           ~(pd <= l) => left = pd,
           wv = UnitOf(bt, wv) => nx = "done",
           wv # UnitOf(bt, wv) => nx = "next",
           md # "auto",
           ph = "resolve",
           rn = "wave",
           IsUnit(UnitOf(bt, wv), f, l, wv)
    PROVE  PartOK(md, bt, cl, rn, p, o, l + 1, pos, mk, left, wv \ UnitOf(bt, wv), nx, fl, hd,
                  ex, ft, at)
<1>1. /\ PartTypes(c, pos, mk, pd, wv, ph, fl, ft, at)
      /\ WaveShape(cl, rn, p, o, pos, pd, wv, ph, fl, hd \cup ex, ft)
      /\ WorkerAt(md, c, ph, UnitOf(bt, wv), hd)
      /\ ReadsOn(cl, rn, p, o, pos, wv, hd \cup ex, ft)
      /\ CommitCovers(md, p, o, c, pos, ph, UnitOf(bt, wv), hd \cup ex, ft)
      /\ MarksCover(p, o, pos, mk, wv, hd \cup ex, ft)
      /\ Remembered(cl, c, mk, pd, wv, hd \cup ex, ft)
      /\ SeenOnce(md, p, o, c, pos, wv, ph, fl, at)
  BY DEF PartOK
<1>2. \A r \in Offsets : r \in Int /\ r >= 0
  BY CompatBounds DEF Offsets
<1>3. PartTypes(l + 1, pos, mk, left, wv \ UnitOf(bt, wv), nx, fl, ft, at)
  BY <1>1, <1>2 DEF None, Rewound, PartTypes, IsUnit
<1>4. WaveShape(cl, rn, p, o, pos, left, wv \ UnitOf(bt, wv), nx, fl, hd \cup ex, ft)
  BY <1>1, <1>2 DEF None, Rewound, PartTypes, WaveShape, WorkerAt, IsUnit
<1>5. WorkerAt(md, l + 1, nx, UnitOf(bt, wv \ UnitOf(bt, wv)), hd)
  BY <1>1, <1>2 DEF None, Rewound, PartTypes, WaveShape, WorkerAt, IsUnit
<1>6. ReadsOn(cl, rn, p, o, pos, wv \ UnitOf(bt, wv), hd \cup ex, ft)
  BY <1>1, <1>2 DEF None, Rewound, PartTypes, WaveShape, WorkerAt, ReadsOn, IsUnit
<1>7. CommitCovers(md, p, o, l + 1, pos, nx, UnitOf(bt, wv \ UnitOf(bt, wv)), hd \cup ex,
       ft)
  BY <1>1, <1>2 DEF None, Rewound, PartTypes, WaveShape, WorkerAt, ReadsOn, CommitCovers, IsUnit
<1>8. MarksCover(p, o, pos, mk, wv \ UnitOf(bt, wv), hd \cup ex, ft)
  BY <1>1, <1>2 DEF None, Rewound, PartTypes, WaveShape, WorkerAt, ReadsOn, MarksCover, IsUnit
<1>9. Remembered(cl, l + 1, mk, left, wv \ UnitOf(bt, wv), hd \cup ex, ft)
  BY <1>1, <1>2 DEF None, Rewound, PartTypes, WaveShape, WorkerAt, ReadsOn, Remembered, IsUnit
<1>10. SeenOnce(md, p, o, l + 1, pos, wv \ UnitOf(bt, wv), nx, fl, at)
  BY <1>1, <1>2 DEF None, Rewound, PartTypes, WaveShape, WorkerAt, SeenOnce, IsUnit
<1> QED BY <1>3, <1>4, <1>5, <1>6, <1>7, <1>8, <1>9, <1>10 DEF PartOK

(* The commit of a handled unit fails, applied or not, or its finalizer does. *)
LEMMA CommitFailed ==
    ASSUME NEW md, NEW bt, NEW cl, NEW rn, NEW p, NEW o, NEW c, NEW pos, NEW mk, NEW pd, NEW wv,
           NEW ph, NEW fl, NEW hd, NEW ex, NEW ft, NEW at, NEW cc, NEW f, NEW l,
           PartOK(md, bt, cl, rn, p, o, c, pos, mk, pd, wv, ph, fl, hd, ex, ft, at),
           md # "before",
           ph \in {"resolve", "failed"},
           rn = "wave",
           cc = c \/ (cc = l + 1 /\ ph = "resolve"),
           IsUnit(UnitOf(bt, wv), f, l, wv)
    PROVE  PartOK(md, bt, cl, rn, p, o, cc, pos, mk, pd, wv, "done", f, hd, ex, ft, at)
<1>1. /\ PartTypes(c, pos, mk, pd, wv, ph, fl, ft, at)
      /\ WaveShape(cl, rn, p, o, pos, pd, wv, ph, fl, hd \cup ex, ft)
      /\ WorkerAt(md, c, ph, UnitOf(bt, wv), hd)
      /\ ReadsOn(cl, rn, p, o, pos, wv, hd \cup ex, ft)
      /\ CommitCovers(md, p, o, c, pos, ph, UnitOf(bt, wv), hd \cup ex, ft)
      /\ MarksCover(p, o, pos, mk, wv, hd \cup ex, ft)
      /\ Remembered(cl, c, mk, pd, wv, hd \cup ex, ft)
      /\ SeenOnce(md, p, o, c, pos, wv, ph, fl, at)
  BY DEF PartOK
<1>2. \A r \in Offsets : r \in Int /\ r >= 0
  BY CompatBounds DEF Offsets
<1>3. PartTypes(cc, pos, mk, pd, wv, "done", f, ft, at)
  BY <1>1, <1>2 DEF None, Rewound, PartTypes, IsUnit
<1>4. WaveShape(cl, rn, p, o, pos, pd, wv, "done", f, hd \cup ex, ft)
  BY <1>1, <1>2 DEF None, Rewound, PartTypes, WaveShape, WorkerAt, IsUnit
<1>5. WorkerAt(md, cc, "done", UnitOf(bt, wv), hd)
  BY <1>1, <1>2 DEF None, Rewound, PartTypes, WaveShape, WorkerAt, IsUnit
<1>6. ReadsOn(cl, rn, p, o, pos, wv, hd \cup ex, ft)
  BY <1>1, <1>2 DEF None, Rewound, PartTypes, WaveShape, WorkerAt, ReadsOn, IsUnit
<1>7. CommitCovers(md, p, o, cc, pos, "done", UnitOf(bt, wv), hd \cup ex, ft)
  BY <1>1, <1>2 DEF None, Rewound, PartTypes, WaveShape, WorkerAt, ReadsOn, CommitCovers, IsUnit
<1>8. MarksCover(p, o, pos, mk, wv, hd \cup ex, ft)
  BY <1>1, <1>2 DEF None, Rewound, PartTypes, WaveShape, WorkerAt, ReadsOn, MarksCover, IsUnit
<1>9. Remembered(cl, cc, mk, pd, wv, hd \cup ex, ft)
  BY <1>1, <1>2 DEF None, Rewound, PartTypes, WaveShape, WorkerAt, ReadsOn, Remembered, IsUnit
<1>10. SeenOnce(md, p, o, cc, pos, wv, "done", f, at)
  BY <1>1, <1>2 DEF None, Rewound, PartTypes, WaveShape, WorkerAt, SeenOnce, IsUnit
<1> QED BY <1>3, <1>4, <1>5, <1>6, <1>7, <1>8, <1>9, <1>10 DEF PartOK

(* The handler fails and its finalizer is next.                               *)
LEMMA FinalizerNext ==
    ASSUME NEW md, NEW bt, NEW cl, NEW rn, NEW p, NEW o, NEW c, NEW pos, NEW mk, NEW pd, NEW wv,
           NEW ph, NEW fl, NEW hd, NEW ex, NEW ft, NEW at, NEW seen, NEW f, NEW l,
           PartOK(md, bt, cl, rn, p, o, c, pos, mk, pd, wv, ph, fl, hd, ex, ft, at),
           md # "before",
           ph = "next",
           rn = "wave",
           seen \in [Offsets -> Nat],
           IsUnit(UnitOf(bt, wv), f, l, wv)
    PROVE  PartOK(md, bt, cl, rn, p, o, c, pos, mk, pd, wv, "failed", fl, hd, ex, ft, seen)
<1>1. /\ PartTypes(c, pos, mk, pd, wv, ph, fl, ft, at)
      /\ WaveShape(cl, rn, p, o, pos, pd, wv, ph, fl, hd \cup ex, ft)
      /\ WorkerAt(md, c, ph, UnitOf(bt, wv), hd)
      /\ ReadsOn(cl, rn, p, o, pos, wv, hd \cup ex, ft)
      /\ CommitCovers(md, p, o, c, pos, ph, UnitOf(bt, wv), hd \cup ex, ft)
      /\ MarksCover(p, o, pos, mk, wv, hd \cup ex, ft)
      /\ Remembered(cl, c, mk, pd, wv, hd \cup ex, ft)
      /\ SeenOnce(md, p, o, c, pos, wv, ph, fl, at)
  BY DEF PartOK
<1>2. \A r \in Offsets : r \in Int /\ r >= 0
  BY CompatBounds DEF Offsets
<1>3. PartTypes(c, pos, mk, pd, wv, "failed", fl, ft, seen)
  BY <1>1, <1>2 DEF None, Rewound, PartTypes, IsUnit
<1>4. WaveShape(cl, rn, p, o, pos, pd, wv, "failed", fl, hd \cup ex, ft)
  BY <1>1, <1>2 DEF None, Rewound, PartTypes, WaveShape, WorkerAt, IsUnit
<1>5. WorkerAt(md, c, "failed", UnitOf(bt, wv), hd)
  BY <1>1, <1>2 DEF None, Rewound, PartTypes, WaveShape, WorkerAt, IsUnit
<1>6. ReadsOn(cl, rn, p, o, pos, wv, hd \cup ex, ft)
  BY <1>1
<1>7. CommitCovers(md, p, o, c, pos, "failed", UnitOf(bt, wv), hd \cup ex, ft)
  BY <1>1, <1>2 DEF None, Rewound, PartTypes, WaveShape, WorkerAt, ReadsOn, CommitCovers, IsUnit
<1>8. MarksCover(p, o, pos, mk, wv, hd \cup ex, ft)
  BY <1>1
<1>9. Remembered(cl, c, mk, pd, wv, hd \cup ex, ft)
  BY <1>1, <1>2 DEF None, PartTypes, Remembered, IsUnit
<1>10. SeenOnce(md, p, o, c, pos, wv, "failed", fl, seen)
  BY <1>1 DEF SeenOnce
<1> QED BY <1>3, <1>4, <1>5, <1>6, <1>7, <1>8, <1>9, <1>10 DEF PartOK

(* A finalizer commits the offset of the record in hand.                      *)
LEMMA CommittedOwn ==
    ASSUME NEW md, NEW bt, NEW cl, NEW rn, NEW p, NEW o, NEW c, NEW pos, NEW mk, NEW pd, NEW wv,
           NEW ph, NEW fl, NEW hd, NEW ex, NEW ft, NEW at, NEW f, NEW l,
           PartOK(md, bt, cl, rn, p, o, c, pos, mk, pd, wv, ph, fl, hd, ex, ft, at),
           md # "before",
           ph \in {"resolve", "failed"},
           rn = "wave",
           IsUnit(UnitOf(bt, wv), f, l, wv)
    PROVE  PartOK(md, bt, cl, rn, p, o, f, pos, mk, pd, wv, ph, fl, hd, ex, ft, at)
<1>1. /\ PartTypes(c, pos, mk, pd, wv, ph, fl, ft, at)
      /\ WaveShape(cl, rn, p, o, pos, pd, wv, ph, fl, hd \cup ex, ft)
      /\ WorkerAt(md, c, ph, UnitOf(bt, wv), hd)
      /\ ReadsOn(cl, rn, p, o, pos, wv, hd \cup ex, ft)
      /\ CommitCovers(md, p, o, c, pos, ph, UnitOf(bt, wv), hd \cup ex, ft)
      /\ MarksCover(p, o, pos, mk, wv, hd \cup ex, ft)
      /\ Remembered(cl, c, mk, pd, wv, hd \cup ex, ft)
      /\ SeenOnce(md, p, o, c, pos, wv, ph, fl, at)
  BY DEF PartOK
<1>2. \A r \in Offsets : r \in Int /\ r >= 0
  BY CompatBounds DEF Offsets
<1>3. PartTypes(f, pos, mk, pd, wv, ph, fl, ft, at)
  BY <1>1, <1>2 DEF None, Rewound, PartTypes, IsUnit
<1>4. WaveShape(cl, rn, p, o, pos, pd, wv, ph, fl, hd \cup ex, ft)
  BY <1>1, <1>2 DEF None, Rewound, PartTypes, WaveShape, WorkerAt, IsUnit
<1>5. WorkerAt(md, f, ph, UnitOf(bt, wv), hd)
  BY <1>1, <1>2 DEF None, Rewound, PartTypes, WaveShape, WorkerAt, IsUnit
<1>6. ReadsOn(cl, rn, p, o, pos, wv, hd \cup ex, ft)
  BY <1>1
<1>7. CommitCovers(md, p, o, f, pos, ph, UnitOf(bt, wv), hd \cup ex, ft)
  BY <1>1, <1>2 DEF None, Rewound, PartTypes, WaveShape, WorkerAt, ReadsOn, CommitCovers, IsUnit
<1>8. MarksCover(p, o, pos, mk, wv, hd \cup ex, ft)
  BY <1>1
<1>9. Remembered(cl, f, mk, pd, wv, hd \cup ex, ft)
  BY <1>1, <1>2 DEF None, PartTypes, Remembered, IsUnit
<1>10. SeenOnce(md, p, o, f, pos, wv, ph, fl, at)
  BY <1>1 DEF SeenOnce
<1> QED BY <1>3, <1>4, <1>5, <1>6, <1>7, <1>8, <1>9, <1>10 DEF PartOK
-----------------------------------------------------------------------------
(* The actions.  What an action does not change keeps its predicate.         *)

shared == <<mode, batch, closing, run, owned>>

LEMMA Kept ==
    ASSUME NEW q \in Partitions, Here(q), UNCHANGED shared,
           committed'[q] = committed[q], position'[q] = position[q], marked'[q] = marked[q],
           pending'[q] = pending[q], wave'[q] = wave[q], phase'[q] = phase[q],
           failed'[q] = failed[q], handled'[q] = handled[q], excused'[q] = excused[q],
           fetched'[q] = fetched[q], attempts'[q] = attempts[q]
    PROVE  Here(q)'
BY DEF Here, shared

LEMMA InitInv == Init => CompatInv
<1> SUFFICES ASSUME Init PROVE CompatInv
  OBVIOUS
<1>1. CompatShape
  <2>1. batch \in BOOLEAN
    BY CompatBounds DEF Init
  <2>2. end \in [Partitions -> 0..LogEnd]
    BY CompatBounds DEF Init, Each
  <2> QED BY <2>1, <2>2 DEF Init, CompatShape, Each
<1>2. ASSUME NEW q \in Partitions PROVE Here(q)
  <2>1. /\ closing = "no" /\ run = "idle" /\ q \notin owned /\ committed[q] = None
        /\ position[q] = 0 /\ marked[q] = None /\ pending[q] = None /\ wave[q] = {}
        /\ phase[q] = "done" /\ failed[q] = None /\ handled[q] = {} /\ excused[q] = {}
        /\ fetched[q] = {} /\ attempts[q] = [r \in Offsets |-> 0]
    BY DEF Init, Each
  <2>2. \A r \in Offsets : r \in Int /\ r >= 0
    BY CompatBounds DEF Offsets
  <2>3. PartTypes(committed[q], position[q], marked[q], pending[q], wave[q], phase[q],
                  failed[q], fetched[q], attempts[q])
    BY <2>1 DEF PartTypes, None
  <2>4. WaveShape(closing, run, q, owned, position[q], pending[q], wave[q], phase[q],
                  failed[q], handled[q] \cup excused[q], fetched[q])
    BY <2>1 DEF WaveShape, None, Rewound
  <2>5. WorkerAt(mode, committed[q], phase[q], UnitOf(batch, wave[q]), handled[q])
    BY <2>1 DEF WorkerAt
  <2>6. ReadsOn(closing, run, q, owned, position[q], wave[q], handled[q] \cup excused[q], fetched[q])
    BY <2>1 DEF ReadsOn
  <2>7. CommitCovers(mode, q, owned, committed[q], position[q], phase[q],
                     UnitOf(batch, wave[q]), handled[q] \cup excused[q], fetched[q])
    BY <2>1 DEF CommitCovers
  <2>8. MarksCover(q, owned, position[q], marked[q], wave[q], handled[q] \cup excused[q], fetched[q])
    BY <2>1 DEF MarksCover
  <2>9. Remembered(closing, committed[q], marked[q], pending[q], wave[q],
                   handled[q] \cup excused[q], fetched[q])
    BY <2>1 DEF Remembered
  <2>10. SeenOnce(mode, q, owned, committed[q], position[q], wave[q], phase[q], failed[q], attempts[q])
    BY <2>1 DEF SeenOnce
  <2> QED BY <2>3, <2>4, <2>5, <2>6, <2>7, <2>8, <2>9, <2>10 DEF Here, PartOK
<1> QED BY <1>1, <1>2 DEF CompatInv, PartsOK

(* The log grows, the broker fences the member: nothing of this changes.     *)
LEMMA OutsideStep ==
    ASSUME CompatInv, (\E p \in Partitions : Append1(p)) \/ Fence PROVE CompatInv'
<1>1. /\ UNCHANGED <<runVars, groupVars, closing, history>> \/ Fence
      /\ UNCHANGED <<runVars, committed, client, owned, position, marked, pending, closing, history>>
  BY DEF Append1, Fence, groupVars
<1>2. ASSUME NEW q \in Partitions PROVE Here(q)'
  <2>1. Here(q)
    BY DEF CompatInv, PartsOK
  <2> QED BY <1>1, <2>1, Kept DEF shared, runVars, history
<1>3. end' \in [Partitions -> 0..LogEnd]
  <2>1. CASE \E p \in Partitions : Append1(p)
    <3>1. PICK p \in Partitions : Append1(p)
      BY <2>1
    <3>2. end \in [Partitions -> 0..LogEnd] /\ end[p] < LogEnd /\ end' = [end EXCEPT ![p] = end[p] + 1]
      BY <3>1 DEF Append1, CompatInv, CompatShape
    <3>3. end[p] + 1 \in 0..LogEnd
      BY <3>2, CompatBounds
    <3> QED BY <3>2, <3>3
  <2>2. CASE Fence
    BY <2>2 DEF Fence, CompatInv, CompatShape
  <2> QED BY <2>1, <2>2
<1>5. CompatShape'
  BY <1>1, <1>3 DEF runVars, history, CompatInv, CompatShape
<1> QED BY <1>2, <1>5 DEF CompatInv, PartsOK

LEMMA AssignStep ==
    ASSUME CompatInv, FetchedInLog, NEW p \in Partitions, AssignPartition(p) PROVE CompatInv'
<1>1. CompatShape'
  BY DEF AssignPartition, runVars, CompatInv, CompatShape
<1>2. ASSUME NEW q \in Partitions PROVE Here(q)'
  <2>1. Here(q)
    BY DEF CompatInv, PartsOK
  <2>2. CASE q # p
    <3>1. /\ UNCHANGED <<mode, batch, closing, run>> /\ owned' = owned \cup {p}
          /\ committed'[q] = committed[q] /\ position'[q] = position[q] /\ marked'[q] = marked[q]
          /\ pending'[q] = pending[q] /\ wave'[q] = wave[q] /\ phase'[q] = phase[q]
          /\ failed'[q] = failed[q] /\ handled'[q] = handled[q] /\ excused'[q] = excused[q]
          /\ fetched'[q] = fetched[q] /\ attempts'[q] = attempts[q] /\ run # "wave"
      BY <2>2 DEF AssignPartition, runVars, CompatInv, CompatShape, GateOpen
    <3>2. q \in owned \cup {p} => q \in owned
      BY <2>2
    <3>3. PartOK(mode, batch, closing, run, q, owned \cup {p}, committed[q], position[q], marked[q],
                 pending[q], wave[q], phase[q], failed[q], handled[q], excused[q], fetched[q], attempts[q])
      BY <2>1, <3>1, <3>2, Disowned DEF Here
    <3> QED BY <3>1, <3>3 DEF Here
  <2>3. CASE q = p
    <3> DEFINE start == AdjustedStart(p)
               left == AdjustedPending(p)
               exc == IF Uncommitted(p) THEN excused[p] \cup {r \in fetched[p] : r < AdjustedStart(p)}
                      ELSE excused[p]
    <3>1. /\ UNCHANGED <<mode, batch, closing, run>> /\ owned' = owned \cup {p}
          /\ committed'[p] = committed[p] /\ position'[p] = start /\ marked'[p] = None
          /\ pending'[p] = left /\ wave'[p] = wave[p] /\ phase'[p] = phase[p]
          /\ failed'[p] = failed[p] /\ handled'[p] = handled[p] /\ excused'[p] = exc
          /\ fetched'[p] = fetched[p] /\ attempts'[p] = attempts[p] /\ run # "wave" /\ p \notin owned
      BY DEF AssignPartition, runVars, CompatInv, CompatShape, GateOpen
    <3>2. committed[p] \in Int /\ pending[p] \in Int
      BY <2>1, <2>3 DEF Here, PartOK, PartTypes
    <3>3. end[p] \in Nat
      BY CompatBounds DEF CompatInv, CompatShape
    <3>4. start \in Nat
      BY <3>2, <3>3 DEF AdjustedStart
    <3>5. /\ committed[p] >= 0 => start = committed[p]
          /\ committed[p] < 0 /\ pending[p] >= 0 => start = pending[p]
          /\ committed[p] < 0 /\ pending[p] < 0 /\ FromBeginning => start = 0
          /\ committed[p] < 0 /\ pending[p] < 0 /\ ~FromBeginning => \A r \in fetched[p] : r < start
      BY <3>2 DEF AdjustedStart, FetchedInLog
    <3>6. /\ committed[p] >= 0 /\ committed[p] >= pending[p] => left = None
          /\ ~(committed[p] >= 0 /\ committed[p] >= pending[p]) => left = pending[p]
      BY DEF AdjustedPending
    <3>7. /\ committed[p] = None /\ marked[p] >= 0 =>
                exc = excused[p] \cup {r \in fetched[p] : r < start}
          /\ ~(committed[p] = None /\ marked[p] >= 0) => exc = excused[p]
      BY DEF Uncommitted
    <3> HIDE DEF start, left, exc
    <3>8. PartOK(mode, batch, closing, run, p, owned \cup {p}, committed[p], start, None,
                 left, wave[p], phase[p], failed[p], handled[p], exc, fetched[p], attempts[p])
      <4>1. PartOK(mode, batch, closing, run, p, owned, committed[p], position[p], marked[p], pending[p],
                   wave[p], phase[p], failed[p], handled[p], excused[p], fetched[p], attempts[p])
        BY <2>1, <2>3 DEF Here
      <4>2. run # "wave" /\ p \notin owned
        BY <3>1
      <4> QED BY <4>1, <4>2, <3>4, <3>5, <3>6, <3>7, Assigned
    <3> QED BY <2>3, <3>1, <3>8 DEF Here
  <2> QED BY <2>2, <2>3
<1> QED BY <1>1, <1>2 DEF CompatInv, PartsOK
(* A commit of the marks on behalf of an owned partition, or none.           *)
LEMMA MarksMayCommit ==
    ASSUME NEW q \in Partitions, Here(q), NEW v,
           v = committed[q] \/ (q \in owned /\ mode = "auto" /\ v = Larger(committed[q], marked[q]))
    PROVE  PartOK(mode, batch, closing, run, q, owned, v, position[q], marked[q], pending[q],
                  wave[q], phase[q], failed[q], handled[q], excused[q], fetched[q], attempts[q])
<1>1. PartOK(mode, batch, closing, run, q, owned, committed[q], position[q], marked[q], pending[q],
             wave[q], phase[q], failed[q], handled[q], excused[q], fetched[q], attempts[q])
  BY DEF Here
<1>2. CASE v = committed[q]
  BY <1>1, <1>2
<1>3. CASE q \in owned /\ mode = "auto" /\ v = Larger(committed[q], marked[q])
  <2>1. PartOK(mode, batch, closing, run, q, owned, Larger(committed[q], marked[q]), position[q],
               marked[q], pending[q], wave[q], phase[q], failed[q], handled[q], excused[q],
               fetched[q], attempts[q])
    BY <1>1, <1>3, MarksCommitted
  <2> QED BY <2>1, <1>3
<1> QED BY <1>2, <1>3

(* The ends of an assignment: marks may be committed, partitions leave, and  *)
(* the run and the close may move on, outside waves.                         *)
LEMMA Leaving ==
    ASSUME CompatInv, NEW q \in Partitions, run # "wave", run' # "wave",
           closing' = closing \/ closing' # "no", owned' \subseteq owned,
           \/ committed'[q] = committed[q]
           \/ q \in owned /\ mode = "auto" /\ committed'[q] = Larger(committed[q], marked[q]),
           UNCHANGED <<mode, batch, wave, phase, failed, position, marked, pending, history>>
    PROVE  Here(q)'
<1>1. Here(q)
  BY DEF CompatInv, PartsOK
<1> DEFINE v == committed'[q]
<1>2. v = committed[q] \/ (q \in owned /\ mode = "auto" /\ v = Larger(committed[q], marked[q]))
  OBVIOUS
<1> HIDE DEF v
<1>3. PartOK(mode, batch, closing, run, q, owned, v, position[q], marked[q], pending[q],
             wave[q], phase[q], failed[q], handled[q], excused[q], fetched[q], attempts[q])
  BY <1>1, <1>2, MarksMayCommit
<1>4. q \in owned' => q \in owned
  OBVIOUS
<1>5. PartOK(mode, batch, closing, run, q, owned', v, position[q], marked[q], pending[q],
             wave[q], phase[q], failed[q], handled[q], excused[q], fetched[q], attempts[q])
  BY <1>3, <1>4, Disowned
<1>6. PartOK(mode, batch, closing', run', q, owned', v, position[q], marked[q], pending[q],
             wave[q], phase[q], failed[q], handled[q], excused[q], fetched[q], attempts[q])
  BY <1>5, RunMoves
<1>7. v = committed'[q]
  BY DEF v
<1> QED BY <1>6, <1>7 DEF Here, history

LEMMA RevokedStep ==
    ASSUME CompatInv, NEW p \in Partitions, HandleRevoked(p) PROVE CompatInv'
<1>1. /\ run # "wave" /\ owned' = owned \ {p} /\ p \in owned
      /\ UNCHANGED <<runVars, end, position, marked, pending, closing, history>>
      /\ CommitMarked({p}) \/ committed' = committed
  BY DEF HandleRevoked, GateOpen
<1>2. ASSUME NEW q \in Partitions PROVE Here(q)'
  <2>1. \/ committed'[q] = committed[q]
        \/ q \in owned /\ mode = "auto" /\ committed'[q] = Larger(committed[q], marked[q])
    BY <1>1 DEF CommitMarked
  <2> QED BY <1>1, <2>1, Leaving DEF runVars
<1>3. CompatShape'
  BY <1>1 DEF runVars, history, CommitMarked, CompatInv, CompatShape
<1> QED BY <1>2, <1>3 DEF CompatInv, PartsOK

LEMMA LostStep == ASSUME CompatInv, HandleLost PROVE CompatInv'
<1>1. /\ run # "wave" /\ owned' = {}
      /\ UNCHANGED <<runVars, end, committed, position, marked, pending, closing, history>>
  BY DEF HandleLost, GateOpen
<1>2. ASSUME NEW q \in Partitions PROVE Here(q)'
  BY <1>1, Leaving DEF runVars
<1>3. CompatShape'
  BY <1>1 DEF runVars, history, CompatInv, CompatShape
<1> QED BY <1>2, <1>3 DEF CompatInv, PartsOK

LEMMA BeginStep ==
    ASSUME CompatInv, BeginRun \/ PollErrorForGood PROVE CompatInv'
<1>1. /\ run # "wave" /\ run' \in {"polling", "dead"} /\ owned' = owned
      /\ UNCHANGED <<mode, batch, wave, phase, failed, end, committed, position, marked, pending,
                     closing, history>>
  BY DEF BeginRun, PollErrorForGood, groupVars
<1>2. ASSUME NEW q \in Partitions PROVE Here(q)'
  BY <1>1, Leaving
<1>3. CompatShape'
  BY <1>1 DEF history, CompatInv, CompatShape
<1> QED BY <1>2, <1>3 DEF CompatInv, PartsOK

LEMMA DiscardStep ==
    ASSUME CompatInv, PollErrorAlone \/ FinishClose PROVE CompatInv'
<1>1. /\ run # "wave" /\ run' # "wave" /\ run' \in {"idle", run} /\ owned' = {} /\ CommitMarked(owned)
      /\ closing' = closing \/ closing' = "done"
      /\ UNCHANGED <<mode, batch, wave, phase, failed, end, position, marked, pending, history>>
  BY DEF PollErrorAlone, FinishClose, runVars
<1>2. ASSUME NEW q \in Partitions PROVE Here(q)'
  <2>1. \/ committed'[q] = committed[q]
        \/ q \in owned /\ mode = "auto" /\ committed'[q] = Larger(committed[q], marked[q])
    BY <1>1 DEF CommitMarked
  <2> QED BY <1>1, <2>1, Leaving
<1>3. CompatShape'
  BY <1>1 DEF history, CommitMarked, CompatInv, CompatShape
<1> QED BY <1>2, <1>3 DEF CompatInv, PartsOK

LEMMA RequestCloseStep == ASSUME CompatInv, RequestClose PROVE CompatInv'
<1>1. /\ closing' = "requested" /\ closing = "no" /\ owned' = owned
      /\ run' = IF run = "polling" THEN "idle" ELSE run
      /\ UNCHANGED <<mode, batch, wave, phase, failed, end, committed, position, marked, pending, history>>
  BY DEF RequestClose, groupVars
<1>2. ASSUME NEW q \in Partitions PROVE Here(q)'
  <2>1. PartOK(mode, batch, closing, run, q, owned, committed[q], position[q], marked[q], pending[q],
               wave[q], phase[q], failed[q], handled[q], excused[q], fetched[q], attempts[q])
    BY DEF CompatInv, PartsOK, Here
  <2>2. (run # "wave" \/ run' = run) /\ (run' # "wave" \/ run' = run) /\ closing' # "no"
    BY <1>1
  <2>3. PartOK(mode, batch, closing', run', q, owned, committed[q], position[q], marked[q], pending[q],
               wave[q], phase[q], failed[q], handled[q], excused[q], fetched[q], attempts[q])
    BY <2>1, <2>2, RunMoves
  <2> QED BY <1>1, <2>3 DEF Here, history
<1>3. CompatShape'
  BY <1>1 DEF history, CompatInv, CompatShape
<1> QED BY <1>2, <1>3 DEF CompatInv, PartsOK

LEMMA BackgroundStep == ASSUME CompatInv, BackgroundCommit PROVE CompatInv'
<1>1. /\ mode = "auto" /\ owned' = owned /\ CommitMarked(owned)
      /\ UNCHANGED <<runVars, end, position, marked, pending, closing, history>>
  BY DEF BackgroundCommit
<1>2. ASSUME NEW q \in Partitions PROVE Here(q)'
  <2> DEFINE v == committed'[q]
  <2>1. v = committed[q] \/ (q \in owned /\ mode = "auto" /\ v = Larger(committed[q], marked[q]))
    BY <1>1 DEF CommitMarked
  <2> HIDE DEF v
  <2>2. PartOK(mode, batch, closing, run, q, owned, v, position[q], marked[q], pending[q],
               wave[q], phase[q], failed[q], handled[q], excused[q], fetched[q], attempts[q])
    BY <2>1, MarksMayCommit DEF CompatInv, PartsOK
  <2>3. v = committed'[q]
    BY DEF v
  <2> QED BY <1>1, <2>2, <2>3 DEF Here, runVars, history
<1>3. CompatShape'
  BY <1>1 DEF runVars, history, CommitMarked, CompatInv, CompatShape
<1> QED BY <1>2, <1>3 DEF CompatInv, PartsOK

(* The unit of a partition whose worker is under way.                        *)
LEMMA UnitHere ==
    ASSUME CompatInv, NEW p \in Partitions, phase[p] # "done"
    PROVE  /\ Unit(p) = UnitOf(batch, wave[p]) /\ wave[p] \in SUBSET Offsets /\ wave[p] # {}
           /\ p \in owned /\ failed[p] = None
           /\ IsUnit(UnitOf(batch, wave[p]), First(p), Last(p), wave[p])
<1>1. PartOK(mode, batch, closing, run, p, owned, committed[p], position[p], marked[p], pending[p],
             wave[p], phase[p], failed[p], handled[p], excused[p], fetched[p], attempts[p])
  BY DEF CompatInv, PartsOK, Here
<1>2. PartTypes(committed[p], position[p], marked[p], pending[p], wave[p], phase[p],
                failed[p], fetched[p], attempts[p])
  BY <1>1 DEF PartOK
<1>3. WaveShape(closing, run, p, owned, position[p], pending[p], wave[p], phase[p],
                failed[p], handled[p] \cup excused[p], fetched[p])
  BY <1>1 DEF PartOK
<1>4. wave[p] \in SUBSET Offsets
  BY <1>2 DEF PartTypes
<1>5. wave[p] # {} /\ p \in owned /\ failed[p] = None
  BY <1>3 DEF WaveShape
<1>6. Unit(p) = UnitOf(batch, wave[p])
  BY DEF Unit, UnitOf
<1>7. batch \in BOOLEAN
  BY DEF CompatInv, CompatShape
<1>8. IsUnit(UnitOf(batch, wave[p]), Least(UnitOf(batch, wave[p])), Most(UnitOf(batch, wave[p])), wave[p])
  BY <1>4, <1>5, <1>7, UnitIs
<1> QED BY <1>4, <1>5, <1>6, <1>8 DEF First, Last

LEMMA OtherStep ==
    ASSUME CompatInv, NEW p \in Partitions, OtherMember(p) PROVE CompatInv'
<1> DEFINE atEnd == committed[p] < 0 /\ ~FromBeginning
           k == IF committed[p] >= 0 THEN committed[p] ELSE IF FromBeginning THEN 0 ELSE end[p]
           exc == IF atEnd THEN excused[p] \cup 0..(k - 1) ELSE excused[p]
<1>1. /\ committed' = [committed EXCEPT ![p] = k + 1]
      /\ handled' = [handled EXCEPT ![p] = handled[p] \cup {k}]
      /\ excused' = [excused EXCEPT ![p] = exc]
      /\ UNCHANGED <<runVars, owned, position, marked, pending, closing, fetched, attempts>>
      /\ (end[p] < LogEnd /\ end' = [end EXCEPT ![p] = end[p] + 1]) \/ end' = end
  BY DEF OtherMember
<1>2. committed[p] \in Int /\ committed[p] >= -1 /\ end[p] \in Nat
  <2>1. Here(p)
    BY DEF CompatInv, PartsOK
  <2>2. committed[p] \in Int /\ committed[p] >= -1
    BY <2>1 DEF Here, PartOK, PartTypes
  <2>3. end[p] \in Nat
    BY CompatBounds DEF CompatInv, CompatShape
  <2> QED BY <2>2, <2>3
<1>3. /\ k \in Nat /\ (committed[p] >= 0 => k = committed[p])
      /\ excused[p] \subseteq exc /\ (committed[p] < 0 => 0..(k - 1) \subseteq exc)
  BY <1>2
<1> HIDE DEF k, exc, atEnd
<1>4. end' \in [Partitions -> 0..LogEnd]
  <2>1. end \in [Partitions -> 0..LogEnd]
    BY DEF CompatInv, CompatShape
  <2>2. CASE end[p] < LogEnd /\ end' = [end EXCEPT ![p] = end[p] + 1]
    <3>1. end[p] + 1 \in 0..LogEnd
      BY <1>2, <2>2, CompatBounds
    <3> QED BY <2>1, <2>2, <3>1
  <2> QED BY <1>1, <2>1, <2>2
<1>5. ASSUME NEW q \in Partitions PROVE Here(q)'
  <2>1. Here(q)
    BY DEF CompatInv, PartsOK
  <2>2. CASE q # p
    BY <1>1, <2>1, <2>2, Kept DEF shared, runVars, CompatInv, CompatShape
  <2>3. CASE q = p
    <3>1. PartOK(mode, batch, closing, run, p, owned, committed[p], position[p], marked[p], pending[p],
                 wave[p], phase[p], failed[p], handled[p], excused[p], fetched[p], attempts[p])
      BY <2>1, <2>3 DEF Here
    <3>2. phase[p] = "handle" => UnitOf(batch, wave[p]) \subseteq Offsets
      BY UnitHere DEF IsUnit
    <3>3. PartOK(mode, batch, closing, run, p, owned, k + 1, position[p], marked[p], pending[p],
                 wave[p], phase[p], failed[p], handled[p] \cup {k}, exc, fetched[p], attempts[p])
      BY <1>3, <3>1, <3>2, OthersCommit
    <3>4. committed'[p] = k + 1 /\ handled'[p] = handled[p] \cup {k} /\ excused'[p] = exc
      BY <1>1 DEF CompatInv, CompatShape
    <3> QED BY <1>1, <2>3, <3>3, <3>4 DEF Here, runVars
  <2> QED BY <2>2, <2>3
<1>6. CompatShape'
  BY <1>1, <1>4 DEF runVars, CompatInv, CompatShape
<1> QED BY <1>5, <1>6 DEF CompatInv, PartsOK

(* What a poll of n records returns.                                         *)
LEMMA FetchableIs ==
    ASSUME CompatInv, NEW q \in Partitions, NEW n \in Nat, n > 0 => position[q] + n <= end[q]
    PROVE  /\ Fetchable(q, n) = {x \in Offsets : position[q] <= x /\ x < position[q] + n}
           /\ n > 0 => position[q] \in Offsets
           /\ position[q] \in Nat
<1>1. position[q] \in Nat
  <2>1. Here(q)
    BY DEF CompatInv, PartsOK
  <2> QED BY <2>1 DEF Here, PartOK, PartTypes
<1>2. end[q] \in 0..LogEnd
  BY DEF CompatInv, CompatShape
<1>3. ASSUME NEW x \in Fetchable(q, n)
      PROVE  x \in Offsets /\ position[q] <= x /\ x < position[q] + n
  <2>1. PICK i \in 0..(n - 1) : x = position[q] + i
    BY <1>3 DEF Fetchable
  <2> QED BY <1>1, <1>2, <2>1, CompatBounds DEF Offsets
<1>4. ASSUME NEW x \in Offsets, position[q] <= x, x < position[q] + n
      PROVE  x \in Fetchable(q, n)
  <2>1. x \in Int
    BY CompatBounds DEF Offsets
  <2>2. x - position[q] \in 0..(n - 1) /\ x = position[q] + (x - position[q])
    BY <1>1, <1>4, <2>1
  <2> QED BY <2>2 DEF Fetchable
<1>5. n > 0 => position[q] \in Offsets
  BY <1>1, <1>2, CompatBounds DEF Offsets
<1> QED BY <1>1, <1>3, <1>4, <1>5

LEMMA PollStep == ASSUME CompatInv, Poll PROVE CompatInv'
<1>1. PICK count \in [Partitions -> 0..MaxRecords] :
        /\ Polled(count)
        /\ position' = [p \in Partitions |-> position[p] + count[p]]
        /\ wave' = [p \in Partitions |-> Fetchable(p, count[p])]
        /\ phase' = [p \in Partitions |-> IF count[p] > 0 THEN "next" ELSE "done"]
  BY DEF Poll
<1>2. /\ run = "polling" /\ closing = "no" /\ run' = "wave" /\ failed' = Each(None)
      /\ UNCHANGED <<mode, batch, end, committed, owned, marked, pending, closing, handled, excused, attempts>>
  BY DEF Poll
<1>3. ASSUME NEW q \in Partitions PROVE Here(q)'
  <2> DEFINE n == count[q]
             got == Fetchable(q, n)
             nx == IF n > 0 THEN "next" ELSE "done"
  <2>1. n \in Nat
    BY CompatBounds
  <2>2. (n > 0 => q \in owned) /\ (n > 0 => position[q] + n <= end[q])
    BY <1>1 DEF Polled
  <2>3. /\ position'[q] = position[q] + n /\ wave'[q] = got /\ phase'[q] = nx
        /\ fetched'[q] = fetched[q] \cup got /\ failed'[q] = None
    BY <1>1, <1>2 DEF Polled, Each
  <2>4. (n > 0 => nx = "next") /\ (n = 0 => nx = "done")
    OBVIOUS
  <2> HIDE DEF n
  <2>5. /\ got = {x \in Offsets : position[q] <= x /\ x < position[q] + n}
        /\ n > 0 => position[q] \in Offsets
    BY <2>1, <2>2, FetchableIs
  <2> HIDE DEF got, nx
  <2>6. PartOK(mode, batch, closing, run, q, owned, committed[q], position[q], marked[q], pending[q],
               wave[q], phase[q], failed[q], handled[q], excused[q], fetched[q], attempts[q])
    BY DEF CompatInv, PartsOK, Here
  <2>7. run # "wave"
    BY <1>2
  <2>8. PartOK(mode, batch, closing, "wave", q, owned, committed[q], position[q] + n, marked[q],
               pending[q], got, nx, None, handled[q], excused[q], fetched[q] \cup got, attempts[q])
    BY <1>2, <2>1, <2>2, <2>4, <2>5, <2>6, <2>7, PolledOK
  <2> QED BY <1>2, <2>3, <2>8 DEF Here
<1>4. CompatShape'
  BY <1>1, <1>2 DEF Polled, Each, CompatInv, CompatShape
<1> QED BY <1>3, <1>4 DEF CompatInv, PartsOK

LEMMA PollDroppedStep == ASSUME CompatInv, PollErrorWithRecords PROVE CompatInv'
<1>1. PICK count \in [Partitions -> 0..MaxRecords] :
        /\ Polled(count)
        /\ pending' = Remember([p \in Partitions |-> IF count[p] > 0 THEN position[p] ELSE None])
  BY DEF PollErrorWithRecords
<1>2. /\ run = "polling" /\ closing = "no" /\ run' = "idle"
      /\ UNCHANGED <<mode, batch, wave, phase, failed, end, committed, owned, position, marked, closing,
                     handled, excused, attempts>>
  BY DEF PollErrorWithRecords
<1>3. ASSUME NEW q \in Partitions PROVE Here(q)'
  <2> DEFINE n == count[q]
             got == Fetchable(q, n)
             left == pending'[q]
  <2>1. n \in Nat
    BY CompatBounds
  <2>2. (n > 0 => q \in owned) /\ (n > 0 => position[q] + n <= end[q])
    BY <1>1 DEF Polled
  <2>3. fetched'[q] = fetched[q] \cup got
    BY <1>1 DEF Polled
  <2>4. position[q] \in Nat /\ got = {x \in Offsets : position[q] <= x /\ x < position[q] + n}
    BY <2>1, <2>2, FetchableIs
  <2>5. /\ n = 0 \/ (pending[q] >= 0 /\ pending[q] < position[q]) => left = pending[q]
        /\ n > 0 /\ ~(pending[q] >= 0 /\ pending[q] < position[q]) => left = position[q]
    BY <1>1, <1>2, <2>1, <2>4 DEF Remember, None
  <2>6. PartOK(mode, batch, closing, run, q, owned, committed[q], position[q], marked[q], pending[q],
               wave[q], phase[q], failed[q], handled[q], excused[q], fetched[q], attempts[q])
    BY DEF CompatInv, PartsOK, Here
  <2>7. left = pending'[q]
    OBVIOUS
  <2> HIDE DEF n, got, left
  <2>8. PartOK(mode, batch, closing, "idle", q, owned, committed[q], position[q], marked[q], left,
               wave[q], phase[q], failed[q], handled[q], excused[q], fetched[q] \cup got, attempts[q])
    <3>1. run = "polling" /\ closing = "no"
      BY <1>2
    <3>2. got \subseteq Offsets /\ \A x \in got : position[q] <= x
      BY <2>4
    <3>3. got # {} <=> n > 0
      <4>1. n > 0 => position[q] \in Offsets
        BY <2>1, <2>2, FetchableIs
      <4>2. n > 0 => position[q] \in got
        BY <2>1, <2>4, <4>1
      <4>3. ASSUME NEW x \in got PROVE n > 0
        <5>1. x \in Int /\ position[q] <= x /\ x < position[q] + n
          BY <2>4, <4>3, CompatBounds DEF Offsets
        <5> QED BY <5>1, <2>1, <2>4
      <4> QED BY <4>2, <4>3
    <3>4. /\ got # {} => q \in owned
          /\ got = {} \/ (pending[q] >= 0 /\ pending[q] < position[q]) => left = pending[q]
          /\ got # {} /\ ~(pending[q] >= 0 /\ pending[q] < position[q]) => left = position[q]
      BY <2>1, <2>2, <2>5, <3>3
    <3> QED BY <2>6, <3>1, <3>2, <3>4, PollDropped
  <2> QED BY <1>2, <2>3, <2>7, <2>8 DEF Here
<1>4. CompatShape'
  BY <1>1, <1>2 DEF Polled, Remember, CompatInv, CompatShape
<1> QED BY <1>3, <1>4 DEF CompatInv, PartsOK

LEMMA EndWaveStep == ASSUME CompatInv, EndWave PROVE CompatInv'
<1>1. /\ run = "wave" /\ run' \in {"idle", "polling"} /\ \A p \in Partitions : phase[p] = "done"
      /\ position' = SetOffsets(failed) /\ pending' = Remember(failed)
      /\ wave' = Each({}) /\ failed' = Each(None)
      /\ UNCHANGED <<mode, batch, phase, end, committed, owned, marked, closing, history>>
  BY DEF EndWave
<1>2. ASSUME NEW q \in Partitions PROVE Here(q)'
  <2> DEFINE back == position'[q]
             left == pending'[q]
  <2>1. PartOK(mode, batch, closing, run, q, owned, committed[q], position[q], marked[q], pending[q],
               wave[q], phase[q], failed[q], handled[q], excused[q], fetched[q], attempts[q])
    BY DEF CompatInv, PartsOK, Here
  <2>2. failed[q] \in Int
    BY <2>1 DEF PartOK, PartTypes
  <2>3. (failed[q] >= 0 /\ q \in owned => back = failed[q]) /\ (failed[q] < 0 => back = position[q])
    BY <1>1, <2>2 DEF SetOffsets
  <2>4. /\ closing # "no" \/ failed[q] < 0 \/ (pending[q] >= 0 /\ pending[q] < failed[q])
              => left = pending[q]
        /\ ~(closing # "no" \/ failed[q] < 0 \/ (pending[q] >= 0 /\ pending[q] < failed[q]))
              => left = failed[q]
    BY <1>1, <2>2 DEF Remember
  <2>5. run' # "wave" /\ phase[q] = "done"
    BY <1>1
  <2>6. left = pending'[q] /\ back = position'[q] /\ wave'[q] = {} /\ failed'[q] = None
    BY <1>1 DEF Each
  <2> HIDE DEF back, left
  <2>7. PartOK(mode, batch, closing, run', q, owned, committed[q], back, marked[q], left,
               {}, phase[q], None, handled[q], excused[q], fetched[q], attempts[q])
    BY <1>1, <2>1, <2>3, <2>4, <2>5, WaveEnded
  <2> QED BY <1>1, <2>6, <2>7 DEF Here, history
<1>3. CompatShape'
  BY <1>1 DEF SetOffsets, Remember, Each, history, CompatInv, CompatShape
<1> QED BY <1>2, <1>3 DEF CompatInv, PartsOK

LEMMA SkipStep ==
    ASSUME CompatInv, NEW p \in Partitions, SkipGroup(p) PROVE CompatInv'
<1>1. /\ phase[p] = "next" /\ closing = "requested" /\ phase' = [phase EXCEPT ![p] = "done"]
      /\ UNCHANGED <<mode, batch, run, wave, failed, end, groupVars, closing, history>>
  BY DEF SkipGroup
<1>2. ASSUME NEW q \in Partitions PROVE Here(q)'
  <2>1. Here(q)
    BY DEF CompatInv, PartsOK
  <2>2. CASE q # p
    BY <1>1, <2>1, <2>2, Kept DEF shared, groupVars, history, CompatInv, CompatShape
  <2>3. CASE q = p
    <3>1. phase'[p] = "done"
      BY <1>1 DEF CompatInv, CompatShape
    <3>2. PartOK(mode, batch, closing, run, p, owned, committed[p], position[p], marked[p], pending[p],
                 wave[p], phase[p], failed[p], handled[p], excused[p], fetched[p], attempts[p])
      BY <2>1, <2>3 DEF Here
    <3>3. PartOK(mode, batch, closing, run, p, owned, committed[p], position[p], marked[p], pending[p],
                 wave[p], "done", failed[p], handled[p], excused[p], fetched[p], attempts[p])
      BY <1>1, <3>2, Skipped
    <3> QED BY <1>1, <2>3, <3>1, <3>3 DEF Here, groupVars, history
  <2> QED BY <2>2, <2>3
<1>3. CompatShape'
  BY <1>1 DEF groupVars, history, CompatInv, CompatShape
<1> QED BY <1>2, <1>3 DEF CompatInv, PartsOK
(* How a commit ends.                                                        *)
LEMMA CommitEnds ==
    ASSUME NEW p \in Partitions, DOMAIN committed = Partitions
    PROVE  /\ CommitTo(p, TRUE) => committed' = [committed EXCEPT ![p] = Last(p) + 1]
           /\ CommitTo(p, FALSE) => \/ committed' = committed
                                    \/ committed' = [committed EXCEPT ![p] = Last(p) + 1]
BY DEF CommitTo

LEMMA CompletedIs ==
    ASSUME CompatInv, NEW p \in Partitions
    PROVE  /\ pending[p] <= Last(p) => Complete(p)[p] = None
           /\ ~(pending[p] <= Last(p)) => Complete(p)[p] = pending[p]
           /\ DOMAIN Complete(p) = Partitions
           /\ \A q \in Partitions : q # p => Complete(p)[q] = pending[q]
BY DEF Complete, CompatInv, CompatShape

LEMMA ResolvedIs ==
    ASSUME CompatInv, NEW p \in Partitions, Resolved(p)
    PROVE  /\ wave'[p] = wave[p] \ Unit(p) /\ failed' = failed
           /\ wave[p] = Unit(p) => phase'[p] = "done"
           /\ wave[p] # Unit(p) => phase'[p] = "next"
           /\ DOMAIN wave' = Partitions /\ DOMAIN phase' = Partitions
           /\ \A q \in Partitions : q # p => wave'[q] = wave[q] /\ phase'[q] = phase[q]
BY DEF Resolved, CompatInv, CompatShape

LEMMA FailIs ==
    ASSUME CompatInv, NEW p \in Partitions, NEW back, Fail(p, back)
    PROVE  /\ wave' = wave /\ failed'[p] = back /\ phase'[p] = "done"
           /\ DOMAIN failed' = Partitions /\ DOMAIN phase' = Partitions
           /\ \A q \in Partitions : q # p => failed'[q] = failed[q] /\ phase'[q] = phase[q]
BY DEF Fail, CompatInv, CompatShape

LEMMA PreCommitStep ==
    ASSUME CompatInv, NEW p \in Partitions, PreCommit(p) PROVE CompatInv'
<1>1. /\ run = "wave" /\ phase[p] = "next" /\ mode = "before"
      /\ UNCHANGED <<mode, batch, run, end, owned, position, marked, closing, handled, fetched, attempts>>
  BY DEF PreCommit
<1>2. /\ Unit(p) = UnitOf(batch, wave[p])
      /\ IsUnit(UnitOf(batch, wave[p]), First(p), Last(p), wave[p])
  BY <1>1, UnitHere
<1>3. PartOK(mode, batch, closing, run, p, owned, committed[p], position[p], marked[p], pending[p],
             wave[p], phase[p], failed[p], handled[p], excused[p], fetched[p], attempts[p])
  BY DEF CompatInv, PartsOK, Here
<1>4. CompatShape
  BY DEF CompatInv
<1>5. CASE CommitTo(p, TRUE) /\ pending' = Complete(p) /\ phase' = [phase EXCEPT ![p] = "handle"]
           /\ UNCHANGED <<wave, failed, excused>>
  <2>1. committed' = [committed EXCEPT ![p] = Last(p) + 1]
    BY <1>5, <1>4, CommitEnds DEF CompatShape
  <2>2. ASSUME NEW q \in Partitions, q # p PROVE Here(q)'
    <3>1. Here(q)
      BY DEF CompatInv, PartsOK
    <3> QED BY <1>1, <1>4, <1>5, <2>1, <2>2, <3>1, CompletedIs, Kept DEF shared, CompatShape
  <2>3. Here(p)'
    <3> DEFINE left == Complete(p)[p]
    <3>1. (pending[p] <= Last(p) => left = None) /\ (~(pending[p] <= Last(p)) => left = pending[p])
      BY CompletedIs
    <3>2. committed'[p] = Last(p) + 1 /\ pending'[p] = left /\ phase'[p] = "handle"
      BY <1>4, <1>5, <2>1 DEF CompatShape
    <3> HIDE DEF left
    <3>3. PartOK(mode, batch, closing, run, p, owned, Last(p) + 1, position[p], marked[p], left,
                 wave[p], "handle", failed[p], handled[p], excused[p], fetched[p], attempts[p])
      BY <1>1, <1>2, <1>3, <3>1, CommittedFirst
    <3> QED BY <1>1, <1>5, <3>2, <3>3 DEF Here
  <2>4. CompatShape'
    BY <1>1, <1>4, <1>5, <2>1, CompletedIs DEF CompatShape
  <2> QED BY <2>2, <2>3, <2>4 DEF CompatInv, PartsOK
<1>6. CASE CommitTo(p, FALSE) /\ Fail(p, First(p)) /\ UNCHANGED pending
           /\ excused' = [excused EXCEPT ![p] = IF committed'[p] = committed[p] THEN excused[p]
                                                ELSE excused[p] \cup Unit(p)]
  <2>1. committed' = committed \/ committed' = [committed EXCEPT ![p] = Last(p) + 1]
    BY <1>6, <1>4, CommitEnds DEF CompatShape
  <2>2. /\ wave' = wave /\ failed'[p] = First(p) /\ phase'[p] = "done"
        /\ DOMAIN failed' = Partitions /\ DOMAIN phase' = Partitions
        /\ \A q \in Partitions : q # p => failed'[q] = failed[q] /\ phase'[q] = phase[q]
    BY <1>6, FailIs
  <2>3. ASSUME NEW q \in Partitions, q # p PROVE Here(q)'
    <3>1. Here(q)
      BY DEF CompatInv, PartsOK
    <3> QED BY <1>1, <1>4, <1>6, <2>1, <2>2, <2>3, <3>1, Kept DEF shared, CompatShape
  <2>4. Here(p)'
    <3> DEFINE cc == committed'[p]
               exc == excused'[p]
    <3>1. cc = committed[p] \/ cc = Last(p) + 1
      BY <1>4, <2>1 DEF CompatShape
    <3>2. (cc = committed[p] => exc = excused[p]) /\ (cc # committed[p] => exc = excused[p] \cup UnitOf(batch, wave[p]))
      BY <1>2, <1>4, <1>6 DEF CompatShape
    <3>3. cc = committed'[p] /\ exc = excused'[p]
      OBVIOUS
    <3> HIDE DEF cc, exc
    <3>4. PartOK(mode, batch, closing, run, p, owned, cc, position[p], marked[p], pending[p],
                 wave[p], "done", First(p), handled[p], exc, fetched[p], attempts[p])
      BY <1>1, <1>2, <1>3, <3>1, <3>2, CommitFirstFailed
    <3> QED BY <1>1, <1>6, <2>2, <3>3, <3>4 DEF Here
  <2>5. CompatShape'
    BY <1>1, <1>4, <1>6, <2>1, <2>2 DEF CompatShape
  <2> QED BY <2>3, <2>4, <2>5 DEF CompatInv, PartsOK
<1> QED BY <1>5, <1>6 DEF PreCommit

LEMMA ResolveStep ==
    ASSUME CompatInv, NEW p \in Partitions, Resolve(p) PROVE CompatInv'
<1>1. /\ run = "wave" /\ phase[p] = "resolve"
      /\ UNCHANGED <<mode, batch, run, end, owned, position, closing, handled, excused, fetched, attempts>>
  BY DEF Resolve, history
<1>2. /\ Unit(p) = UnitOf(batch, wave[p])
      /\ IsUnit(UnitOf(batch, wave[p]), First(p), Last(p), wave[p])
  BY <1>1, UnitHere
<1>3. PartOK(mode, batch, closing, run, p, owned, committed[p], position[p], marked[p], pending[p],
             wave[p], phase[p], failed[p], handled[p], excused[p], fetched[p], attempts[p])
  BY DEF CompatInv, PartsOK, Here
<1>4. CompatShape
  BY DEF CompatInv
<1>5. CASE /\ Resolved(p) /\ pending' = Complete(p)
           /\ \/ /\ mode # "before" /\ marked' = [marked EXCEPT ![p] = Last(p) + 1]
                 /\ committed' = committed
              \/ /\ mode # "auto" /\ committed' = [committed EXCEPT ![p] = Last(p) + 1]
                 /\ marked' = marked
  <2>1. /\ wave'[p] = wave[p] \ Unit(p) /\ failed' = failed
        /\ wave[p] = Unit(p) => phase'[p] = "done"
        /\ wave[p] # Unit(p) => phase'[p] = "next"
        /\ DOMAIN wave' = Partitions /\ DOMAIN phase' = Partitions
        /\ \A q \in Partitions : q # p => wave'[q] = wave[q] /\ phase'[q] = phase[q]
    BY <1>5, ResolvedIs
  <2>2. ASSUME NEW q \in Partitions, q # p PROVE Here(q)'
    <3>1. Here(q)
      BY DEF CompatInv, PartsOK
    <3> QED BY <1>1, <1>4, <1>5, <2>1, <2>2, <3>1, CompletedIs, Kept DEF shared, CompatShape
  <2>3. Here(p)'
    <3> DEFINE left == Complete(p)[p]
               nx == phase'[p]
    <3>1. (pending[p] <= Last(p) => left = None) /\ (~(pending[p] <= Last(p)) => left = pending[p])
      BY CompletedIs
    <3>2. /\ wave[p] = UnitOf(batch, wave[p]) => nx = "done"
          /\ wave[p] # UnitOf(batch, wave[p]) => nx = "next"
      BY <1>2, <2>1
    <3>3. /\ pending'[p] = left /\ nx = phase'[p] /\ wave'[p] = wave[p] \ UnitOf(batch, wave[p])
          /\ failed'[p] = failed[p]
      BY <1>2, <1>5, <2>1
    <3> HIDE DEF left, nx
    <3>4. CASE mode # "before" /\ marked'[p] = Last(p) + 1 /\ committed'[p] = committed[p]
      <4>1. PartOK(mode, batch, closing, run, p, owned, committed[p], position[p], Last(p) + 1, left,
                   wave[p] \ UnitOf(batch, wave[p]), nx, failed[p], handled[p], excused[p], fetched[p],
                   attempts[p])
        <5>1. UnitOf(batch, wave[p]) \subseteq handled[p] \cup excused[p]
          BY <1>1, <1>3 DEF PartOK, WorkerAt
        <5> QED BY <1>1, <1>2, <1>3, <3>1, <3>2, <3>4, <5>1, Marked
      <4> QED BY <1>1, <3>3, <3>4, <4>1 DEF Here
    <3>5. CASE mode # "auto" /\ marked'[p] = marked[p] /\ committed'[p] = Last(p) + 1
      <4>1. PartOK(mode, batch, closing, run, p, owned, Last(p) + 1, position[p], marked[p], left,
                   wave[p] \ UnitOf(batch, wave[p]), nx, failed[p], handled[p], excused[p], fetched[p],
                   attempts[p])
        BY <1>1, <1>2, <1>3, <3>1, <3>2, <3>5, Committed
      <4> QED BY <1>1, <3>3, <3>5, <4>1 DEF Here
    <3> QED BY <1>4, <1>5, <3>4, <3>5 DEF CompatShape
  <2>4. CompatShape'
    BY <1>1, <1>4, <1>5, <2>1, CompletedIs DEF CompatShape
  <2> QED BY <2>2, <2>3, <2>4 DEF CompatInv, PartsOK
<1>6. CASE mode # "auto" /\ CommitTo(p, FALSE) /\ Fail(p, First(p)) /\ UNCHANGED <<marked, pending>>
  <2>1. committed' = committed \/ committed' = [committed EXCEPT ![p] = Last(p) + 1]
    BY <1>6, <1>4, CommitEnds DEF CompatShape
  <2>2. /\ wave' = wave /\ failed'[p] = First(p) /\ phase'[p] = "done"
        /\ DOMAIN failed' = Partitions /\ DOMAIN phase' = Partitions
        /\ \A q \in Partitions : q # p => failed'[q] = failed[q] /\ phase'[q] = phase[q]
    BY <1>6, FailIs
  <2>3. ASSUME NEW q \in Partitions, q # p PROVE Here(q)'
    <3>1. Here(q)
      BY DEF CompatInv, PartsOK
    <3> QED BY <1>1, <1>4, <1>6, <2>1, <2>2, <2>3, <3>1, Kept DEF shared, CompatShape
  <2>4. Here(p)'
    <3> DEFINE cc == committed'[p]
    <3>1. cc = committed[p] \/ cc = Last(p) + 1
      BY <1>4, <2>1 DEF CompatShape
    <3>2. cc = committed'[p]
      OBVIOUS
    <3> HIDE DEF cc
    <3>3. PartOK(mode, batch, closing, run, p, owned, cc, position[p], marked[p], pending[p],
                 wave[p], "done", First(p), handled[p], excused[p], fetched[p], attempts[p])
      <4>1. mode # "before"
        BY <1>1, <1>3 DEF PartOK, WorkerAt
      <4> QED BY <1>1, <1>2, <1>3, <4>1, <3>1, CommitFailed
    <3> QED BY <1>1, <1>6, <2>2, <3>2, <3>3 DEF Here
  <2>5. CompatShape'
    BY <1>1, <1>4, <1>6, <2>1, <2>2 DEF CompatShape
  <2> QED BY <2>3, <2>4, <2>5 DEF CompatInv, PartsOK
<1>7. mode # "auto" /\ CommitTo(p, TRUE) => committed' = [committed EXCEPT ![p] = Last(p) + 1]
  BY <1>4, CommitEnds DEF CompatShape
<1> QED BY <1>5, <1>6, <1>7 DEF Resolve, Finalizers

(* The handler is called for every record of the unit.                       *)
LEMMA CalledIs ==
    ASSUME CompatInv, NEW p \in Partitions, phase[p] # "done"
    PROVE  /\ Called(p)[p] \in [Offsets -> Nat] /\ DOMAIN Called(p) = Partitions
           /\ \A r \in UnitOf(batch, wave[p]) : attempts[p][r] = 0 => Called(p)[p][r] = 1
           /\ \A r \in Offsets \ UnitOf(batch, wave[p]) : Called(p)[p][r] = attempts[p][r]
           /\ \A q \in Partitions : q # p => Called(p)[q] = attempts[q]
<1>1. attempts[p] \in [Offsets -> Nat]
  <2>1. Here(p)
    BY DEF CompatInv, PartsOK
  <2> QED BY <2>1 DEF Here, PartOK, PartTypes
<1>2. DOMAIN attempts = Partitions
  BY DEF CompatInv, CompatShape
<1>3. UnitOf(batch, wave[p]) = Unit(p) /\ Unit(p) \subseteq Offsets
  BY UnitHere DEF IsUnit
<1> DEFINE seen == [r \in Offsets |-> IF r \in Unit(p) /\ attempts[p][r] < 2 THEN attempts[p][r] + 1
                                      ELSE attempts[p][r]]
<1>4. Called(p) = [attempts EXCEPT ![p] = seen]
  BY DEF Called
<1>5. seen \in [Offsets -> Nat]
  BY <1>1
<1>6. \A r \in UnitOf(batch, wave[p]) : attempts[p][r] = 0 => seen[r] = 1
  BY <1>3
<1>7. \A r \in Offsets \ UnitOf(batch, wave[p]) : seen[r] = attempts[p][r]
  BY <1>3
<1> HIDE DEF seen
<1>8. Called(p)[p] = seen /\ DOMAIN Called(p) = Partitions /\ \A q \in Partitions : q # p => Called(p)[q] = attempts[q]
  BY <1>2, <1>4
<1> QED BY <1>5, <1>6, <1>7, <1>8

LEMMA HandleStep ==
    ASSUME CompatInv, NEW p \in Partitions, Handle(p) PROVE CompatInv'
<1>1. /\ run = "wave" /\ attempts' = Called(p)
      /\ mode = "before" => phase[p] = "handle"
      /\ mode # "before" => phase[p] = "next"
      /\ UNCHANGED <<mode, batch, run, end, committed, owned, marked, closing, fetched>>
  BY DEF Handle
<1>2. /\ Unit(p) = UnitOf(batch, wave[p]) /\ p \in owned
      /\ IsUnit(UnitOf(batch, wave[p]), First(p), Last(p), wave[p])
  BY <1>1, UnitHere
<1>3. PartOK(mode, batch, closing, run, p, owned, committed[p], position[p], marked[p], pending[p],
             wave[p], phase[p], failed[p], handled[p], excused[p], fetched[p], attempts[p])
  BY DEF CompatInv, PartsOK, Here
<1>4. CompatShape
  BY DEF CompatInv
<1> DEFINE seen == attempts'[p]
<1>5. /\ seen \in [Offsets -> Nat] /\ DOMAIN attempts' = Partitions
      /\ \A r \in UnitOf(batch, wave[p]) : attempts[p][r] = 0 => seen[r] = 1
      /\ \A r \in Offsets \ UnitOf(batch, wave[p]) : seen[r] = attempts[p][r]
      /\ \A q \in Partitions : q # p => attempts'[q] = attempts[q]
  BY <1>1, CalledIs
<1>6. seen = attempts'[p]
  OBVIOUS
<1> HIDE DEF seen
<1>7. CASE /\ mode = "before" /\ handled' = [handled EXCEPT ![p] = handled[p] \cup Unit(p)]
           /\ Resolved(p) /\ pending' = Complete(p) /\ UNCHANGED <<excused, position>>
  <2>1. /\ wave'[p] = wave[p] \ Unit(p) /\ failed' = failed
        /\ wave[p] = Unit(p) => phase'[p] = "done"
        /\ wave[p] # Unit(p) => phase'[p] = "next"
        /\ DOMAIN wave' = Partitions /\ DOMAIN phase' = Partitions
        /\ \A q \in Partitions : q # p => wave'[q] = wave[q] /\ phase'[q] = phase[q]
    BY <1>7, ResolvedIs
  <2>2. ASSUME NEW q \in Partitions, q # p PROVE Here(q)'
    <3>1. Here(q)
      BY DEF CompatInv, PartsOK
    <3> QED BY <1>1, <1>4, <1>5, <1>7, <2>1, <2>2, <3>1, CompletedIs, Kept DEF shared, CompatShape
  <2>3. Here(p)'
    <3> DEFINE left == Complete(p)[p]
               nx == phase'[p]
    <3>1. (pending[p] <= Last(p) => left = None) /\ (~(pending[p] <= Last(p)) => left = pending[p])
      BY CompletedIs
    <3>2. /\ wave[p] = UnitOf(batch, wave[p]) => nx = "done"
          /\ wave[p] # UnitOf(batch, wave[p]) => nx = "next"
      BY <1>2, <2>1
    <3>3. /\ pending'[p] = left /\ nx = phase'[p] /\ wave'[p] = wave[p] \ UnitOf(batch, wave[p])
          /\ failed'[p] = failed[p] /\ handled'[p] = handled[p] \cup UnitOf(batch, wave[p])
      BY <1>2, <1>4, <1>7, <2>1 DEF CompatShape
    <3> HIDE DEF left, nx
    <3>4. PartOK(mode, batch, closing, run, p, owned, committed[p], position[p], marked[p], left,
                 wave[p] \ UnitOf(batch, wave[p]), nx, failed[p], handled[p] \cup UnitOf(batch, wave[p]),
                 excused[p], fetched[p], seen)
      BY <1>1, <1>2, <1>3, <1>5, <1>7, <3>1, <3>2, HandledAfterCommit
    <3> QED BY <1>1, <1>6, <1>7, <3>3, <3>4 DEF Here
  <2>4. CompatShape'
    BY <1>1, <1>4, <1>5, <1>7, <2>1, CompletedIs DEF CompatShape
  <2> QED BY <2>2, <2>3, <2>4 DEF CompatInv, PartsOK
<1>8. CASE /\ mode # "before" /\ handled' = [handled EXCEPT ![p] = handled[p] \cup Unit(p)]
           /\ phase' = [phase EXCEPT ![p] = "resolve"]
           /\ UNCHANGED <<wave, failed, pending, excused, position>>
  <2>1. ASSUME NEW q \in Partitions, q # p PROVE Here(q)'
    <3>1. Here(q)
      BY DEF CompatInv, PartsOK
    <3> QED BY <1>1, <1>4, <1>5, <1>8, <2>1, <3>1, Kept DEF shared, CompatShape
  <2>2. Here(p)'
    <3>1. handled'[p] = handled[p] \cup UnitOf(batch, wave[p]) /\ phase'[p] = "resolve"
      BY <1>2, <1>4, <1>8 DEF CompatShape
    <3>2. PartOK(mode, batch, closing, run, p, owned, committed[p], position[p], marked[p], pending[p],
                 wave[p], "resolve", failed[p], handled[p] \cup UnitOf(batch, wave[p]), excused[p],
                 fetched[p], seen)
      BY <1>1, <1>2, <1>3, <1>5, <1>8, Handled
    <3> QED BY <1>1, <1>6, <1>8, <3>1, <3>2 DEF Here
  <2>3. CompatShape'
    BY <1>1, <1>4, <1>5, <1>8 DEF CompatShape
  <2> QED BY <2>1, <2>2, <2>3 DEF CompatInv, PartsOK
<1>9. ASSUME NEW back, Fail(p, back), UNCHANGED handled,
             \/ /\ mode = "before" /\ back = NextOf(p) /\ UNCHANGED <<pending, position>>
                /\ excused' = [excused EXCEPT ![p] = excused[p] \cup Unit(p)]
             \/ mode # "before" /\ back = First(p) /\ UNCHANGED <<excused, pending, position>>
      PROVE  CompatInv'
  <2>1. /\ wave' = wave /\ failed'[p] = back /\ phase'[p] = "done"
        /\ DOMAIN failed' = Partitions /\ DOMAIN phase' = Partitions
        /\ \A q \in Partitions : q # p => failed'[q] = failed[q] /\ phase'[q] = phase[q]
    BY <1>9, FailIs
  <2>2. CASE mode = "before" /\ back = NextOf(p) /\ UNCHANGED <<pending, position>>
             /\ excused' = [excused EXCEPT ![p] = excused[p] \cup Unit(p)]
    <3>1. ASSUME NEW q \in Partitions, q # p PROVE Here(q)'
      <4>1. Here(q)
        BY DEF CompatInv, PartsOK
      <4> QED BY <1>1, <1>4, <1>5, <1>9, <2>1, <2>2, <3>1, <4>1, Kept DEF shared, CompatShape
    <3>2. excused'[p] = excused[p] \cup UnitOf(batch, wave[p])
      BY <1>2, <1>4, <2>2 DEF CompatShape
    <3>3. /\ wave[p] = UnitOf(batch, wave[p]) => back = None
          /\ wave[p] # UnitOf(batch, wave[p]) => back = Last(p) + 1
      BY <1>2, <2>2 DEF NextOf
    <3>4. PartOK(mode, batch, closing, run, p, owned, committed[p], position[p], marked[p], pending[p],
                 wave[p], "done", back, handled[p], excused[p] \cup UnitOf(batch, wave[p]), fetched[p], seen)
      BY <1>1, <1>2, <1>3, <1>5, <2>2, <3>3, FailedAfterCommit
    <3>5. Here(p)'
      BY <1>1, <1>6, <1>9, <2>1, <2>2, <3>2, <3>4 DEF Here
    <3>6. CompatShape'
      BY <1>1, <1>4, <1>5, <1>9, <2>1, <2>2 DEF CompatShape
    <3> QED BY <3>1, <3>5, <3>6 DEF CompatInv, PartsOK
  <2>3. CASE mode # "before" /\ back = First(p) /\ UNCHANGED <<excused, pending, position>>
    <3>1. ASSUME NEW q \in Partitions, q # p PROVE Here(q)'
      <4>1. Here(q)
        BY DEF CompatInv, PartsOK
      <4> QED BY <1>1, <1>4, <1>5, <1>9, <2>1, <2>3, <3>1, <4>1, Kept DEF shared, CompatShape
    <3>2. PartOK(mode, batch, closing, run, p, owned, committed[p], position[p], marked[p], pending[p],
                 wave[p], "done", First(p), handled[p], excused[p], fetched[p], seen)
      BY <1>1, <1>2, <1>3, <1>5, <2>3, HandlerFailed
    <3>3. Here(p)'
      BY <1>1, <1>6, <1>9, <2>1, <2>3, <3>2 DEF Here
    <3>4. CompatShape'
      BY <1>1, <1>4, <1>5, <1>9, <2>1, <2>3 DEF CompatShape
    <3> QED BY <3>1, <3>3, <3>4 DEF CompatInv, PartsOK
  <2> QED BY <1>9, <2>2, <2>3
<1>10. CASE UNCHANGED handled /\ mode = "before" /\ Fail(p, NextOf(p)) /\ UNCHANGED <<pending, position>>
            /\ excused' = [excused EXCEPT ![p] = excused[p] \cup Unit(p)]
  BY <1>9, <1>10
<1>11. CASE UNCHANGED handled /\ mode \in {"auto", "after"} /\ Fail(p, First(p))
            /\ UNCHANGED <<excused, pending, position>>
  BY <1>9, <1>11
<1>12. CASE /\ mode # "before" /\ phase' = [phase EXCEPT ![p] = "failed"]
            /\ UNCHANGED <<handled, wave, failed, excused, pending, position>>
  <2>1. ASSUME NEW q \in Partitions, q # p PROVE Here(q)'
    <3>1. Here(q)
      BY DEF CompatInv, PartsOK
    <3> QED BY <1>1, <1>4, <1>5, <1>12, <2>1, <3>1, Kept DEF shared, CompatShape
  <2>2. Here(p)'
    <3>1. phase'[p] = "failed"
      BY <1>4, <1>12 DEF CompatShape
    <3>2. PartOK(mode, batch, closing, run, p, owned, committed[p], position[p], marked[p], pending[p],
                 wave[p], "failed", failed[p], handled[p], excused[p], fetched[p], seen)
      BY <1>1, <1>2, <1>3, <1>5, <1>12, FinalizerNext
    <3> QED BY <1>1, <1>6, <1>12, <3>1, <3>2 DEF Here
  <2>3. CompatShape'
    BY <1>1, <1>4, <1>5, <1>12 DEF CompatShape
  <2> QED BY <2>1, <2>2, <2>3 DEF CompatInv, PartsOK
<1> QED BY <1>7, <1>8, <1>10, <1>11, <1>12 DEF Handle, Finalizers

LEMMA FinalizerCommitStep ==
    ASSUME CompatInv, NEW p \in Partitions, FinalizerCommits(p) PROVE CompatInv'
<1>1. /\ run = "wave" /\ mode # "before" /\ phase[p] \in {"resolve", "failed"}
      /\ committed' = [committed EXCEPT ![p] = First(p)]
      /\ UNCHANGED <<mode, batch, run, wave, phase, failed, end, owned, position, marked, pending,
                     closing, handled, fetched, excused, attempts>>
  BY DEF FinalizerCommits, Finalizers, runVars, history
<1>2. CompatShape
  BY DEF CompatInv
<1>3. ASSUME NEW q \in Partitions PROVE Here(q)'
  <2>1. Here(q)
    BY DEF CompatInv, PartsOK
  <2>2. CASE q # p
    BY <1>1, <1>2, <2>1, <2>2, Kept DEF shared, CompatShape
  <2>3. CASE q = p
    <3>1. committed'[p] = First(p)
      BY <1>1, <1>2 DEF CompatShape
    <3>2. IsUnit(UnitOf(batch, wave[p]), First(p), Last(p), wave[p])
      BY <1>1, UnitHere
    <3>3. PartOK(mode, batch, closing, run, p, owned, First(p), position[p], marked[p], pending[p],
                 wave[p], phase[p], failed[p], handled[p], excused[p], fetched[p], attempts[p])
      BY <1>1, <2>1, <2>3, <3>2, CommittedOwn DEF Here
    <3> QED BY <1>1, <2>3, <3>1, <3>3 DEF Here
  <2> QED BY <2>2, <2>3
<1>4. CompatShape'
  BY <1>1, <1>2 DEF CompatShape
<1> QED BY <1>3, <1>4 DEF CompatInv, PartsOK

LEMMA FinalizeStep ==
    ASSUME CompatInv, NEW p \in Partitions, Finalize(p) PROVE CompatInv'
<1>1. /\ run = "wave" /\ phase[p] = "failed"
      /\ UNCHANGED <<mode, batch, run, end, committed, owned, closing, handled, fetched, attempts>>
  BY DEF Finalize
<1>2. /\ Unit(p) = UnitOf(batch, wave[p]) /\ p \in owned
      /\ IsUnit(UnitOf(batch, wave[p]), First(p), Last(p), wave[p])
  BY <1>1, UnitHere
<1>3. PartOK(mode, batch, closing, run, p, owned, committed[p], position[p], marked[p], pending[p],
             wave[p], phase[p], failed[p], handled[p], excused[p], fetched[p], attempts[p])
  BY DEF CompatInv, PartsOK, Here
<1>4. CompatShape
  BY DEF CompatInv
<1>5. mode # "before"
  BY <1>1, <1>3 DEF PartOK, WorkerAt
<1>6. CASE Fail(p, First(p)) /\ UNCHANGED <<excused, marked, pending, position>>
  <2>1. /\ wave' = wave /\ failed'[p] = First(p) /\ phase'[p] = "done"
        /\ DOMAIN failed' = Partitions /\ DOMAIN phase' = Partitions
        /\ \A q \in Partitions : q # p => failed'[q] = failed[q] /\ phase'[q] = phase[q]
    BY <1>6, FailIs
  <2>2. ASSUME NEW q \in Partitions, q # p PROVE Here(q)'
    <3>1. Here(q)
      BY DEF CompatInv, PartsOK
    <3> QED BY <1>1, <1>4, <1>6, <2>1, <2>2, <3>1, Kept DEF shared, CompatShape
  <2>3. PartOK(mode, batch, closing, run, p, owned, committed[p], position[p], marked[p], pending[p],
               wave[p], "done", First(p), handled[p], excused[p], fetched[p], attempts[p])
    BY <1>1, <1>2, <1>3, <1>5, CommitFailed
  <2>4. Here(p)'
    BY <1>1, <1>6, <2>1, <2>3 DEF Here
  <2>5. CompatShape'
    BY <1>1, <1>4, <1>6, <2>1 DEF CompatShape
  <2> QED BY <2>2, <2>4, <2>5 DEF CompatInv, PartsOK
<1>7. CASE /\ Fail(p, Rewound) /\ UNCHANGED <<excused, marked>>
           /\ pending' = Remember([Each(None) EXCEPT ![p] = First(p)])
           /\ position' = SetOffsets([Each(None) EXCEPT ![p] = First(p)])
  <2>0. /\ wave' = wave /\ failed'[p] = Rewound /\ phase'[p] = "done"
        /\ DOMAIN failed' = Partitions /\ DOMAIN phase' = Partitions
        /\ \A q \in Partitions : q # p => failed'[q] = failed[q] /\ phase'[q] = phase[q]
    BY <1>7, FailIs
  <2> DEFINE where == [Each(None) EXCEPT ![p] = First(p)]
  <2>1. where[p] = First(p) /\ \A q \in Partitions : q # p => where[q] = None
    BY DEF Each
  <2>2. pending' = Remember(where) /\ position' = SetOffsets(where)
    BY <1>7
  <2>3. First(p) \in Nat
    <3>1. wave[p] \in SUBSET Offsets /\ First(p) \in wave[p]
      BY <1>1, <1>2, UnitHere DEF IsUnit
    <3> QED BY <3>1, CompatBounds DEF Offsets
  <2> HIDE DEF where
  <2>4. ASSUME NEW q \in Partitions, q # p PROVE Here(q)'
    <3>1. Here(q)
      BY DEF CompatInv, PartsOK
    <3>2. pending'[q] = pending[q] /\ position'[q] = position[q]
      BY <2>1, <2>2, <2>4 DEF Remember, SetOffsets, None
    <3> QED BY <1>1, <1>4, <1>7, <2>0, <2>4, <3>1, <3>2, Kept DEF shared, CompatShape
  <2> DEFINE left == pending'[p]
  <2>5. /\ closing # "no" \/ (pending[p] >= 0 /\ pending[p] < First(p)) => left = pending[p]
        /\ ~(closing # "no" \/ (pending[p] >= 0 /\ pending[p] < First(p))) => left = First(p)
    BY <2>1, <2>2, <2>3 DEF Remember
  <2>6. position'[p] = First(p) /\ left = pending'[p]
    BY <1>2, <2>1, <2>2, <2>3 DEF SetOffsets
  <2> HIDE DEF left
  <2>7. PartOK(mode, batch, closing, run, p, owned, committed[p], First(p), marked[p], left,
               wave[p], "done", Rewound, handled[p], excused[p], fetched[p], attempts[p])
    BY <1>1, <1>2, <1>3, <1>5, <2>5, Redelivered
  <2>8. Here(p)'
    BY <1>1, <1>7, <2>0, <2>6, <2>7 DEF Here
  <2>9. CompatShape'
    BY <1>1, <1>4, <1>7, <2>0 DEF CompatShape, Remember, SetOffsets
  <2> QED BY <2>4, <2>8, <2>9 DEF CompatInv, PartsOK
<1>8. CASE /\ excused' = [excused EXCEPT ![p] = excused[p] \cup Unit(p)]
           /\ marked' = [marked EXCEPT ![p] = Last(p) + 1]
           /\ Resolved(p) /\ pending' = Complete(p) /\ UNCHANGED position
  <2>1. /\ wave'[p] = wave[p] \ Unit(p) /\ failed' = failed
        /\ wave[p] = Unit(p) => phase'[p] = "done"
        /\ wave[p] # Unit(p) => phase'[p] = "next"
        /\ DOMAIN wave' = Partitions /\ DOMAIN phase' = Partitions
        /\ \A q \in Partitions : q # p => wave'[q] = wave[q] /\ phase'[q] = phase[q]
    BY <1>8, ResolvedIs
  <2>2. ASSUME NEW q \in Partitions, q # p PROVE Here(q)'
    <3>1. Here(q)
      BY DEF CompatInv, PartsOK
    <3> QED BY <1>1, <1>4, <1>8, <2>1, <2>2, <3>1, CompletedIs, Kept DEF shared, CompatShape
  <2> DEFINE left == Complete(p)[p]
             nx == phase'[p]
             exc == excused[p] \cup UnitOf(batch, wave[p])
  <2>3. (pending[p] <= Last(p) => left = None) /\ (~(pending[p] <= Last(p)) => left = pending[p])
    BY CompletedIs
  <2>4. /\ wave[p] = UnitOf(batch, wave[p]) => nx = "done"
        /\ wave[p] # UnitOf(batch, wave[p]) => nx = "next"
    BY <1>2, <2>1
  <2>5. /\ pending'[p] = left /\ nx = phase'[p] /\ wave'[p] = wave[p] \ UnitOf(batch, wave[p])
        /\ failed'[p] = failed[p] /\ excused'[p] = exc /\ marked'[p] = Last(p) + 1
    BY <1>2, <1>4, <1>8, <2>1 DEF CompatShape
  <2>6. excused[p] \subseteq exc /\ UnitOf(batch, wave[p]) \subseteq handled[p] \cup exc
    OBVIOUS
  <2> HIDE DEF left, nx, exc
  <2>7. PartOK(mode, batch, closing, run, p, owned, committed[p], position[p], Last(p) + 1, left,
               wave[p] \ UnitOf(batch, wave[p]), nx, failed[p], handled[p], exc, fetched[p],
               attempts[p])
    BY <1>1, <1>2, <1>3, <1>5, <2>3, <2>4, <2>6, Marked
  <2>8. Here(p)'
    BY <1>1, <1>8, <2>5, <2>7 DEF Here
  <2>9. CompatShape'
    BY <1>1, <1>4, <1>8, <2>1, CompletedIs DEF CompatShape
  <2> QED BY <2>2, <2>8, <2>9 DEF CompatInv, PartsOK
<1> QED BY <1>6, <1>7, <1>8 DEF Finalize
-----------------------------------------------------------------------------
(* The invariant and what it says.                                           *)

(* Polls read what the log holds, and it only grows.                         *)
LEMMA InLogStep == CompatInv /\ FetchedInLog /\ [Next]_compatVars => FetchedInLog'
<1> SUFFICES ASSUME CompatInv, FetchedInLog, [Next]_compatVars PROVE FetchedInLog'
  OBVIOUS
<1>1. /\ end \in [Partitions -> 0..LogEnd] /\ DOMAIN fetched = Partitions
      /\ \A q \in Partitions : fetched[q] \subseteq Offsets
  BY DEF CompatInv, CompatShape, PartsOK, Here, PartOK, PartTypes
<1>2. CASE fetched' = fetched /\ end' = end
  BY <1>2 DEF FetchedInLog
<1>3. ASSUME NEW p \in Partitions, fetched' = fetched, end' = [end EXCEPT ![p] = end[p] + 1]
      PROVE  FetchedInLog'
  <2>1. ASSUME NEW q \in Partitions, NEW r \in fetched[q] PROVE r < end'[q]
    <3>1. r < end[q] /\ r \in Int /\ end[q] \in Int
      BY <1>1, CompatBounds DEF FetchedInLog, Offsets
    <3>2. end'[q] = end[q] \/ end'[q] = end[q] + 1
      BY <1>1, <1>3
    <3> QED BY <3>1, <3>2
  <2> QED BY <1>3, <2>1 DEF FetchedInLog
<1>4. ASSUME NEW count \in [Partitions -> 0..MaxRecords], Polled(count), end' = end
      PROVE  FetchedInLog'
  <2>1. ASSUME NEW q \in Partitions, NEW r \in fetched'[q] PROVE r < end[q]
    <3>1. fetched'[q] = fetched[q] \cup Fetchable(q, count[q])
      BY <1>4 DEF Polled
    <3>2. CASE r \in fetched[q]
      BY <3>2 DEF FetchedInLog
    <3>3. CASE r \in Fetchable(q, count[q])
      <4>1. count[q] \in Nat
        BY CompatBounds
      <4>2. count[q] > 0 => position[q] + count[q] <= end[q]
        BY <1>4 DEF Polled
      <4>3. r \in Offsets /\ position[q] <= r /\ r < position[q] + count[q] /\ position[q] \in Nat
        BY <3>3, <4>1, <4>2, FetchableIs
      <4>4. r \in Int /\ end[q] \in Int
        BY <1>1, <4>3, CompatBounds DEF Offsets
      <4> QED BY <4>1, <4>2, <4>3, <4>4
    <3> QED BY <3>1, <3>2, <3>3
  <2> QED BY <1>4, <2>1 DEF FetchedInLog
<1>5. CASE Next
  <2>1. CASE \E p \in Partitions : Append1(p) \/ OtherMember(p)
    <3>1. \/ fetched' = fetched /\ end' = end
          \/ \E p \in Partitions : fetched' = fetched /\ end' = [end EXCEPT ![p] = end[p] + 1]
      BY <2>1 DEF Append1, OtherMember, history
    <3> QED BY <1>2, <1>3, <3>1
  <2>2. CASE Poll \/ PollErrorWithRecords
    <3>1. PICK count \in [Partitions -> 0..MaxRecords] : Polled(count)
      BY <2>2 DEF Poll, PollErrorWithRecords
    <3>2. end' = end
      BY <2>2 DEF Poll, PollErrorWithRecords
    <3> QED BY <1>4, <3>1, <3>2
  <2>3. CASE \E p \in Partitions : AssignPartition(p) \/ HandleRevoked(p) \/ PreCommit(p) \/ Handle(p)
    BY <1>2, <2>3 DEF AssignPartition, HandleRevoked, PreCommit, Handle, history
  <2>4. CASE \E p \in Partitions : FinalizerCommits(p) \/ Finalize(p) \/ Resolve(p) \/ SkipGroup(p)
    BY <1>2, <2>4 DEF FinalizerCommits, Finalize, Resolve, SkipGroup, history
  <2>5. CASE Fence \/ HandleLost \/ BackgroundCommit \/ BeginRun \/ PollErrorAlone \/ PollErrorForGood
    BY <1>2, <2>5 DEF Fence, HandleLost, BackgroundCommit, BeginRun, PollErrorAlone,
                      PollErrorForGood, history
  <2>6. CASE EndWave \/ RequestClose \/ FinishClose
    BY <1>2, <2>6 DEF EndWave, RequestClose, FinishClose, history
  <2> QED BY <1>5, <2>1, <2>2, <2>3, <2>4, <2>5, <2>6 DEF Next
<1>6. CASE UNCHANGED compatVars
  BY <1>2, <1>6 DEF compatVars, history
<1> QED BY <1>5, <1>6

LEMMA StepInv == CompatInv /\ FetchedInLog /\ [Next]_compatVars => CompatInv'
<1> SUFFICES ASSUME CompatInv, FetchedInLog, [Next]_compatVars PROVE CompatInv'
  OBVIOUS
<1>1. CASE UNCHANGED compatVars
  <2>1. UNCHANGED <<runVars, end, groupVars, closing, history>>
    BY <1>1 DEF compatVars
  <2>2. ASSUME NEW q \in Partitions PROVE Here(q)'
    <3>1. Here(q)
      BY DEF CompatInv, PartsOK
    <3> QED BY <2>1, <3>1, Kept DEF shared, runVars, groupVars, history
  <2>3. CompatShape'
    BY <2>1 DEF runVars, groupVars, history, CompatInv, CompatShape
  <2> QED BY <2>2, <2>3 DEF CompatInv, PartsOK
<1>2. CASE Next
  BY <1>2, OutsideStep, AssignStep, RevokedStep, OtherStep, PreCommitStep, HandleStep, ResolveStep,
     FinalizerCommitStep, FinalizeStep, SkipStep, LostStep, BackgroundStep, BeginStep, PollStep,
     PollDroppedStep, DiscardStep, EndWaveStep, RequestCloseStep DEF Next
<1> QED BY <1>1, <1>2

LEMMA AlwaysInv == Spec => []CompatInv
<1>1. Init => FetchedInLog
  BY DEF Init, FetchedInLog, Each
<1> QED BY <1>1, InitInv, StepInv, InLogStep, PTL DEF Spec

(* What the predicate says of one partition.                                 *)
LEMMA PartHere ==
    ASSUME CompatInv, NEW p \in Partitions
    PROVE  /\ PartTypes(committed[p], position[p], marked[p], pending[p], wave[p], phase[p],
                        failed[p], fetched[p], attempts[p])
           /\ WaveShape(closing, run, p, owned, position[p], pending[p], wave[p], phase[p],
                        failed[p], handled[p] \cup excused[p], fetched[p])
           /\ ReadsOn(closing, run, p, owned, position[p], wave[p], handled[p] \cup excused[p], fetched[p])
           /\ CommitCovers(mode, p, owned, committed[p], position[p], phase[p],
                           UnitOf(batch, wave[p]), handled[p] \cup excused[p], fetched[p])
           /\ Remembered(closing, committed[p], marked[p], pending[p], wave[p],
                         handled[p] \cup excused[p], fetched[p])
           /\ SeenOnce(mode, p, owned, committed[p], position[p], wave[p], phase[p], failed[p], attempts[p])
<1>1. Here(p)
  BY DEF CompatInv, PartsOK
<1> QED BY <1>1 DEF Here, PartOK

(* CommitRecords, CommitMarkedOffsets and a finalizer's own commits: no      *)
(* commit ever covers a record that was fetched and is neither handled nor   *)
(* given up, in any offset mode and through fencing, lost answers, rewinds   *)
(* and other members' commits.  What lies before the end of the log where    *)
(* another member of a group without a commit begins is given up by it.      *)
THEOREM CommitsCoverSettledRecords == Spec => []CommitsCoverSettled
<1>1. CompatInv => CommitsCoverSettled
  <2> SUFFICES ASSUME CompatInv, NEW p \in Partitions, NEW r \in fetched[p] \ Settled(p), r < committed[p]
               PROVE  mode = "before" /\ phase[p] = "handle"
    BY DEF CommitsCoverSettled
  <2> QED BY PartHere DEF CommitCovers, Settled
<1> QED BY <1>1, AlwaysInv, PTL

(* CommitBeforeHandler: no record reaches a handler twice, although a commit *)
(* whose answer was lost is retried and a member may be fenced and return.   *)
THEOREM DeliversAtMostOnce == Spec => []AtMostOnceDelivery
<1>1. CompatInv => AtMostOnceDelivery
  BY PartHere DEF AtMostOnceDelivery, SeenOnce
<1> QED BY <1>1, AlwaysInv, PTL

(* pendingRecovery: until the consumer is closed, every record a poll ever   *)
(* returned is handled, given up, in its wave, or ahead of where reading     *)
(* resumes, even when the group has no committed offset and starts at the    *)
(* end of the log; what follows records that this member resolved without    *)
(* any commit is excepted, since nothing durable says where to resume.       *)
THEOREM FetchedIsNeverLost == Spec => []FetchedNeverLost
<1>1. CompatInv => FetchedNeverLost
  <2> SUFFICES ASSUME CompatInv, closing = "no", NEW p \in Partitions,
                      NEW r \in fetched[p] \ Settled(p), r \notin wave[p], ~Uncommitted(p)
               PROVE  NextStart(p) <= r
    BY DEF FetchedNeverLost
  <2> DEFINE c == committed[p]
  <2>1. r \in fetched[p] \ (handled[p] \cup excused[p])
    BY DEF Settled
  <2>2. /\ c \in Int /\ c >= -1 /\ pending[p] \in Int /\ pending[p] >= -1 /\ marked[p] \in Int
        /\ r \in Int /\ r >= 0
    <3>1. /\ c \in Int /\ c >= -1 /\ pending[p] \in Int /\ pending[p] >= -1 /\ marked[p] \in Int
          /\ fetched[p] \subseteq Offsets
      BY PartHere DEF PartTypes
    <3>2. r \in Offsets
      BY <2>1, <3>1
    <3> QED BY <3>1, <3>2, CompatBounds DEF Offsets
  <2>3. CASE p \in owned /\ ~fenced
    BY <2>1, <2>3, PartHere DEF ReadsOn, NextStart
  <2>4. CASE ~(p \in owned /\ ~fenced)
    <3>1. NextStart(p) = AdjustedStart(p)
      BY <2>4 DEF NextStart
    <3>2. CASE c >= 0
      <4>1. c <= r
        <5>1. r < c => phase[p] = "handle" /\ r \in UnitOf(batch, wave[p])
          BY <2>1, PartHere DEF CommitCovers
        <5>2. phase[p] = "handle" => UnitOf(batch, wave[p]) \subseteq wave[p]
          BY UnitHere DEF IsUnit
        <5> QED BY <2>2, <5>1, <5>2
      <4> QED BY <3>1, <3>2, <4>1 DEF AdjustedStart
    <3>3. CASE c = None
      <4>1. ~(marked[p] >= 0)
        BY <3>3 DEF Uncommitted
      <4>2. (pending[p] >= 0 /\ pending[p] <= r) \/ (pending[p] = None /\ FromBeginning)
        BY <2>1, <3>3, <4>1, PartHere DEF Remembered
      <4> QED BY <2>2, <3>1, <3>3, <4>2 DEF AdjustedStart, None
    <3> QED BY <2>2, <3>2, <3>3 DEF None
  <2> QED BY <2>3, <2>4
<1> QED BY <1>1, AlwaysInv, PTL
============================================================================
