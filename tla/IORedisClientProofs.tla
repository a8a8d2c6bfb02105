------------------------ MODULE IORedisClientProofs ------------------------
(* Theorems about the Redis client: what callers are told accounts for     *)
(* everything the server executed, for any requests and retry budget.      *)
EXTENDS IORedisClient, NaturalsInduction, WellFoundedInduction, TLAPS

(* A request with a result, and one that may have reached the server since *)
(* its replays were last counted.                                          *)
Settled(r) == state[r] \in Results

Exposed(r) ==
    /\ state[r] \notin {"new", "rejected"}
    /\ \/ Settled(r) \/ pc \in {"exit", "done"}
       \/ r \in ToSet(inFlight)
       \/ r = writing /\ written \in {"ok", "partial"}

Count(condition) == IF condition THEN 1 ELSE 0
OnWire(r, i) == <<r, i>> \in ToSet(wire)

(* The retry budget: a request still queued is within it, and a replay is  *)
(* counted only where a failure is.                                        *)
BudgetInv ==
    \A r \in Requests :
        /\ state[r] \in {"new", "rejected"} => failures[r] = 0
        /\ state[r] = "queued" => failures[r] <= MaxRetries
        /\ ambiguous[r] <= failures[r]
        /\ IsExclusive(r) => ambiguous[r] = 0

(* The queue holds the accepted requests in the order they came, QUIT      *)
(* last.                                                                   *)
QueueInv ==
    /\ NothingForgotten
    /\ \A i \in DOMAIN queue : queue[i] = QuitRequest => i = Len(queue)
    /\ \A i \in DOMAIN arrival : arrival[i] \in Submitted /\ state[arrival[i]] # "new"
    /\ \A i, j \in DOMAIN arrival : arrival[i] = arrival[j] => i = j
    /\ \A i \in DOMAIN queue : queue[i] # QuitRequest => queue[i] \in ToSet(arrival)
    /\ \A i, j \in DOMAIN queue, a, b \in DOMAIN arrival :
          i < j /\ arrival[a] = queue[i] /\ arrival[b] = queue[j] => a < b

(* QUIT is sent once, and answered when nothing is left.                   *)
QuitInv ==
    /\ state[QuitRequest] # "new" => closing
    /\ closed => pc = "done"
    /\ \A r \in Submitted : state[r] = "closed" => closed
    /\ QuitDrains

(* A session has written a prefix of the queue, and is writing the next    *)
(* request; a request that must be alone is.                               *)
SessionInv ==
    /\ pc # "session" => inFlight = <<>> /\ writing = NoRequest
    /\ written = "none" <=> writing = NoRequest
    /\ Len(inFlight) <= Len(queue)
    /\ \A i \in DOMAIN inFlight : inFlight[i] = queue[i]
    /\ writing # NoRequest => Len(inFlight) < Len(queue) /\ writing = queue[Len(inFlight) + 1]
    /\ inFlight = <<>> => reading = "idle" /\ replies = 0
    /\ inFlight # <<>> => replies < Size(inFlight[1])
    /\ reading = "reply" => back # <<>>
    /\ \A i \in DOMAIN inFlight : IsExclusive(inFlight[i]) => Len(inFlight) = 1 /\ writing = NoRequest
    /\ writing # NoRequest /\ IsExclusive(writing) => inFlight = <<>>

(* No command is under way twice, and on a connection that is up only what *)
(* this session wrote.                                                     *)
WireInv ==
    /\ \A k, m \in DOMAIN wire : wire[k] = wire[m] => k = m
    /\ \A k \in DOMAIN wire : wire[k][2] <= Size(wire[k][1])
    /\ up => \A k \in DOMAIN wire :
                \/ Settled(wire[k][1]) \/ wire[k][1] \in ToSet(inFlight)
                \/ wire[k][1] = writing /\ written = "ok"
    /\ up => \A r \in Requests :
                r \in ToSet(inFlight) \/ (r = writing /\ written = "ok") =>
                    executed[r][1] > 0 \/ OnWire(r, 1)

ExposureInv ==
    \A r \in Requests : \A i \in 1 .. Size(r) :
        executed[r][i] + Count(OnWire(r, i)) <= ambiguous[r] + Count(Exposed(r))

(* Commands reach the server in the order of their requests.               *)
OrderInv ==
    \A a, b \in DOMAIN arrival : a < b /\ state[arrival[a]] = "queued" =>
        /\ executed[arrival[b]][1] > 0 => executed[arrival[a]][1] > 0
        /\ \A k \in DOMAIN wire : wire[k] = <<arrival[b], 1>> =>
              \/ executed[arrival[a]][1] > 0
              \/ \E m \in DOMAIN wire : m < k /\ wire[m] = <<arrival[a], 1>>

(* A request of which a reply was taken is the first one in flight, or has *)
(* its result, unless the client is stopping.                              *)
SuffixInv ==
    \A r \in replied :
        \/ Settled(r) \/ pc \in {"exit", "done"}
        \/ inFlight # <<>> /\ r = inFlight[1] /\ replies > 0

IInv ==
    /\ TypeOK /\ BudgetInv /\ QueueInv /\ QuitInv /\ SessionInv
    /\ WireInv /\ ExposureInv /\ OrderInv /\ SuffixInv
----------------------------------------------------------------------------
(* A nonempty set of numbers has a least one; induction below is the       *)
(* absence of a least counterexample.                                      *)
LEMMA LeastNumber ==
    ASSUME NEW B \in SUBSET Nat, B # {}
    PROVE  \E n \in B : \A m \in B : n <= m
<1>1. \E n \in B : \A m \in B : ~(<<m, n>> \in OpToRel(<, Nat))
  BY WFMin, NatLessThanWellFounded
<1>2. PICK n \in B : \A m \in B : ~(<<m, n>> \in OpToRel(<, Nat))
  BY <1>1
<1>3. ASSUME NEW m \in B PROVE n <= m
  <2>1. m \in Nat /\ n \in Nat
    OBVIOUS
  <2>2. ~(<<m, n>> \in OpToRel(<, Nat))
    BY <1>2, <1>3
  <2>3. ~(m < n)
    BY <2>1, <2>2 DEF OpToRel
  <2> QED BY <2>1, <2>3
<1> QED BY <1>3

(* The recursive function of Retained, up to n.                            *)
IsRetained(f, q, S, n) ==
    f = [i \in 0 .. n |->
            IF i = 0 THEN <<>>
            ELSE IF q[i] \in S THEN f[i - 1] ELSE Append(f[i - 1], q[i])]

LEMMA RetainedExists ==
    ASSUME NEW T, NEW q \in Seq(T), NEW S, NEW n \in Nat
    PROVE  \E f : IsRetained(f, q, S, n)
<1> DEFINE Bad == {m \in Nat : ~ \E f : IsRetained(f, q, S, m)}
<1>1. SUFFICES ASSUME Bad # {} PROVE FALSE
  OBVIOUS
<1>2. PICK m \in Bad : \A y \in Bad : m <= y
  BY <1>1, LeastNumber
<1>3. m # 0
  <2>1. IsRetained([i \in 0 .. 0 |-> <<>>], q, S, 0)
    BY DEF IsRetained
  <2> QED BY <2>1
<1>4. m - 1 \in Nat /\ m - 1 \notin Bad
  BY <1>2, <1>3
<1>5. PICK f : IsRetained(f, q, S, m - 1)
  BY <1>4
<1> DEFINE next == IF q[m] \in S THEN f[m - 1] ELSE Append(f[m - 1], q[m])
           g == [i \in 0 .. m |-> IF i = m THEN next ELSE f[i]]
<1>6. ASSUME NEW i \in 0 .. m
      PROVE  g[i] = IF i = 0 THEN <<>>
                    ELSE IF q[i] \in S THEN g[i - 1] ELSE Append(g[i - 1], q[i])
  <2>1. CASE i = m
    <3>1. m - 1 \in 0 .. m /\ g[m - 1] = f[m - 1] /\ g[m] = next
      BY <1>3, <1>4
    <3> QED BY <3>1, <2>1, <1>3
  <2>2. CASE i = 0
    <3>1. g[0] = f[0] /\ f[0] = <<>>
      BY <1>3, <1>4, <1>5 DEF IsRetained
    <3> QED BY <3>1, <2>2
  <2>3. CASE i # m /\ i # 0
    <3>1. i \in 0 .. m - 1 /\ i - 1 \in 0 .. m - 1 /\ i - 1 # m /\ i - 1 \in 0 .. m
      BY <2>3, <1>4
    <3>2. g[i] = f[i] /\ g[i - 1] = f[i - 1]
      BY <3>1, <2>3
    <3>3. f[i] = IF q[i] \in S THEN f[i - 1] ELSE Append(f[i - 1], q[i])
      BY <3>1, <2>3, <1>5 DEF IsRetained
    <3> QED BY <3>2, <3>3, <2>3
  <2> QED BY <2>1, <2>2, <2>3
<1>7. IsRetained(g, q, S, m)
  <2> HIDE DEF next
  <2> QED BY <1>6 DEF IsRetained
<1> QED BY <1>7
(* e places s in the first n elements of q: s is those without the         *)
(* elements of S, in the same order.                                       *)
Embeds(e, s, q, S, n) ==
    /\ e \in [1 .. Len(s) -> 1 .. n]
    /\ \A k \in 1 .. Len(s) : s[k] = q[e[k]] /\ s[k] \notin S
    /\ \A k, l \in 1 .. Len(s) : k < l => e[k] < e[l]
    /\ \A i \in 1 .. n : q[i] \notin S => \E k \in 1 .. Len(s) : e[k] = i

SubOf(s, q, S) == \E e : Embeds(e, s, q, S, Len(q))

LEMMA EmbedsNext ==
    ASSUME NEW T, NEW q \in Seq(T), NEW S, NEW n \in Nat, n + 1 <= Len(q),
           NEW s \in Seq(T), \E e : Embeds(e, s, q, S, n)
    PROVE  /\ q[n + 1] \in S => \E e : Embeds(e, s, q, S, n + 1)
           /\ q[n + 1] \notin S => \E e : Embeds(e, Append(s, q[n + 1]), q, S, n + 1)
<1>0. PICK e : Embeds(e, s, q, S, n)
  OBVIOUS
<1>1. /\ e \in [1 .. Len(s) -> 1 .. n]
      /\ \A k \in 1 .. Len(s) : s[k] = q[e[k]] /\ s[k] \notin S
      /\ \A k, l \in 1 .. Len(s) : k < l => e[k] < e[l]
      /\ \A i \in 1 .. n : q[i] \notin S => \E k \in 1 .. Len(s) : e[k] = i
  BY <1>0 DEF Embeds
<1>2. CASE q[n + 1] \in S
  <2>1. e \in [1 .. Len(s) -> 1 .. n + 1]
    BY <1>1
  <2>2. \A i \in 1 .. n + 1 : q[i] \notin S => i \in 1 .. n
    BY <1>2
  <2>3. Embeds(e, s, q, S, n + 1)
    BY <1>1, <2>1, <2>2 DEF Embeds
  <2> QED BY <2>3, <1>2
<1>3. CASE q[n + 1] \notin S
  <2> DEFINE s2 == Append(s, q[n + 1])
             e2 == [k \in 1 .. Len(s) + 1 |-> IF k = Len(s) + 1 THEN n + 1 ELSE e[k]]
  <2>1. /\ Len(s) \in Nat /\ Len(s2) = Len(s) + 1 /\ s2[Len(s) + 1] = q[n + 1]
        /\ \A k \in 1 .. Len(s) : s2[k] = s[k]
    OBVIOUS
  <2>2. e2[Len(s) + 1] = n + 1 /\ \A k \in 1 .. Len(s) : e2[k] = e[k]
    BY <2>1
  <2>3. e2 \in [1 .. Len(s) + 1 -> 1 .. n + 1]
    BY <1>1, <2>1
  <2> HIDE DEF s2, e2
  <2>4. ASSUME NEW k \in 1 .. Len(s2) PROVE s2[k] = q[e2[k]] /\ s2[k] \notin S
    <3>1. CASE k = Len(s) + 1
      BY <1>3, <2>1, <2>2, <3>1
    <3>2. CASE k \in 1 .. Len(s)
      BY <1>1, <2>1, <2>2, <3>2
    <3>3. k = Len(s) + 1 \/ k \in 1 .. Len(s)
      BY <2>1
    <3> QED BY <3>1, <3>2, <3>3
  <2>5. \A k, l \in 1 .. Len(s2) : k < l => e2[k] < e2[l]
    <3>1. SUFFICES ASSUME NEW k \in 1 .. Len(s2), NEW l \in 1 .. Len(s2), k < l
                   PROVE  e2[k] < e2[l]
      OBVIOUS
    <3>2. k \in 1 .. Len(s) /\ e2[k] = e[k] /\ e[k] \in 1 .. n
      <4>1. k \in 1 .. Len(s)
        BY <3>1, <2>1
      <4> QED BY <4>1, <2>2, <1>1
    <3>3. CASE l = Len(s) + 1
      BY <3>2, <3>3, <2>2
    <3>4. CASE l \in 1 .. Len(s)
      BY <3>1, <3>2, <3>4, <2>2, <1>1
    <3> QED BY <3>3, <3>4, <2>1
  <2>6. \A i \in 1 .. n + 1 : q[i] \notin S => \E k \in 1 .. Len(s2) : e2[k] = i
    <3>1. SUFFICES ASSUME NEW i \in 1 .. n + 1, q[i] \notin S
                   PROVE  \E k \in 1 .. Len(s2) : e2[k] = i
      OBVIOUS
    <3>2. CASE i = n + 1
      BY <3>2, <2>1, <2>2
    <3>3. CASE i \in 1 .. n
      <4>1. PICK k \in 1 .. Len(s) : e[k] = i
        BY <3>1, <3>3, <1>1
      <4> QED BY <4>1, <2>1, <2>2
    <3> QED BY <3>2, <3>3
  <2>7. Embeds(e2, s2, q, S, n + 1)
    BY <2>1, <2>3, <2>4, <2>5, <2>6 DEF Embeds
  <2> QED BY <2>7, <1>3 DEF s2
<1> QED BY <1>2, <1>3

(* What the loop returns.                                                  *)
LEMMA WithoutFacts ==
    ASSUME NEW T, NEW q \in Seq(T), NEW S
    PROVE  Without(q, S) \in Seq(T) /\ SubOf(Without(q, S), q, S)
<1> DEFINE f == Retained(q, S)
<1>1. IsRetained(f, q, S, Len(q))
  <2>1. f = CHOOSE g : IsRetained(g, q, S, Len(q))
    BY DEF Retained, IsRetained
  <2>2. \E g : IsRetained(g, q, S, Len(q))
    <3>1. Len(q) \in Nat
      OBVIOUS
    <3> QED BY <3>1, RetainedExists
  <2> HIDE DEF f
  <2> QED BY <2>1, <2>2
<1> HIDE DEF f
<1> DEFINE P(m) == f[m] \in Seq(T) /\ \E e : Embeds(e, f[m], q, S, m)
           Bad == {m \in Nat : m <= Len(q) /\ ~P(m)}
<1>2. Bad = {}
  <2>1. SUFFICES ASSUME Bad # {} PROVE FALSE
    OBVIOUS
  <2>2. PICK m \in Bad : \A y \in Bad : m <= y
    BY <2>1, LeastNumber
  <2>3. m # 0
    <3>1. f[0] = <<>>
      BY <1>1 DEF IsRetained
    <3>2. Embeds(<<>>, <<>>, q, S, 0)
      BY DEF Embeds
    <3>3. <<>> \in Seq(T)
      OBVIOUS
    <3>4. P(0)
      BY <3>1, <3>2, <3>3
    <3> QED BY <3>4
  <2>4. m - 1 \in Nat /\ m - 1 \notin Bad /\ m <= Len(q)
    BY <2>2, <2>3
  <2>5. P(m - 1)
    BY <2>4
  <2>6. f[m] = IF q[m] \in S THEN f[m - 1] ELSE Append(f[m - 1], q[m])
    <3>1. m \in 0 .. Len(q)
      BY <2>4
    <3>2. \A i \in 0 .. Len(q) :
             f[i] = IF i = 0 THEN <<>>
                    ELSE IF q[i] \in S THEN f[i - 1] ELSE Append(f[i - 1], q[i])
      BY <1>1 DEF IsRetained
    <3> QED BY <3>1, <3>2, <2>3
  <2>7. q[m] \in T
    BY <2>3, <2>4
  <2>8. m - 1 + 1 = m
    BY <2>4
  <2>9. P(m)
    <3>1. f[m - 1] \in Seq(T) /\ \E e : Embeds(e, f[m - 1], q, S, m - 1)
      BY <2>5
    <3>2. /\ q[m] \in S => \E e : Embeds(e, f[m - 1], q, S, m)
          /\ q[m] \notin S => \E e : Embeds(e, Append(f[m - 1], q[m]), q, S, m)
      <4> DEFINE n == m - 1
      <4>1. n \in Nat /\ n + 1 = m /\ n + 1 <= Len(q)
        BY <2>4
      <4> HIDE DEF n
      <4>2. /\ q[n + 1] \in S => \E e : Embeds(e, f[n], q, S, n + 1)
            /\ q[n + 1] \notin S => \E e : Embeds(e, Append(f[n], q[n + 1]), q, S, n + 1)
        BY <4>1, <3>1, EmbedsNext DEF n
      <4> QED BY <4>1, <4>2 DEF n
    <3>3. Append(f[m - 1], q[m]) \in Seq(T)
      BY <3>1, <2>7
    <3> QED BY <3>1, <3>2, <3>3, <2>6
  <2> QED BY <2>9
<1>3. P(Len(q))
  BY <1>2
<1> QED BY <1>3 DEF f, Without, SubOf

(* Leaving out twice.                                                      *)
LEMMA SubOfSub ==
    ASSUME NEW T, NEW q \in Seq(T), NEW s \in Seq(T), NEW t \in Seq(T), NEW R, NEW S,
           SubOf(s, q, R), SubOf(t, s, S)
    PROVE  SubOf(t, q, R \cup S)
<1>1. PICK d : Embeds(d, s, q, R, Len(q))
  BY DEF SubOf
<1>2. PICK e : Embeds(e, t, s, S, Len(s))
  BY DEF SubOf
<1> DEFINE f == [k \in 1 .. Len(t) |-> d[e[k]]]
<1>3. \A k \in 1 .. Len(t) : e[k] \in 1 .. Len(s) /\ d[e[k]] \in 1 .. Len(q) /\ f[k] = d[e[k]]
  BY <1>1, <1>2 DEF Embeds
<1>4. f \in [1 .. Len(t) -> 1 .. Len(q)]
  BY <1>3
<1> HIDE DEF f
<1>5. \A k \in 1 .. Len(t) : t[k] = q[f[k]] /\ t[k] \notin R \cup S
  BY <1>1, <1>2, <1>3 DEF Embeds
<1>6. \A k, l \in 1 .. Len(t) : k < l => f[k] < f[l]
  BY <1>1, <1>2, <1>3 DEF Embeds
<1>7. \A i \in 1 .. Len(q) : q[i] \notin R \cup S => \E k \in 1 .. Len(t) : f[k] = i
  <2>1. SUFFICES ASSUME NEW i \in 1 .. Len(q), q[i] \notin R \cup S
                 PROVE  \E k \in 1 .. Len(t) : f[k] = i
    OBVIOUS
  <2>2. PICK j \in 1 .. Len(s) : d[j] = i
    BY <2>1, <1>1 DEF Embeds
  <2>3. s[j] = q[i]
    BY <2>2, <1>1 DEF Embeds
  <2>4. PICK k \in 1 .. Len(t) : e[k] = j
    BY <2>1, <2>3, <1>2 DEF Embeds
  <2> QED BY <2>2, <2>4, <1>3
<1>8. Embeds(f, t, q, R \cup S, Len(q))
  BY <1>4, <1>5, <1>6, <1>7 DEF Embeds
<1> QED BY <1>8 DEF SubOf

(* Leaving out the first element, or nothing.                              *)
LEMMA SubOfTail ==
    ASSUME NEW T, NEW q \in Seq(T), q # <<>>,
           \A i, j \in DOMAIN q : q[i] = q[j] => i = j
    PROVE  Tail(q) \in Seq(T) /\ SubOf(Tail(q), q, {q[1]})
<1>1. /\ Len(q) \in Nat \ {0} /\ Tail(q) \in Seq(T) /\ Len(Tail(q)) = Len(q) - 1
      /\ DOMAIN q = 1 .. Len(q)
      /\ \A k \in 1 .. Len(q) - 1 : Tail(q)[k] = q[k + 1]
  OBVIOUS
<1> DEFINE e == [k \in 1 .. Len(q) - 1 |-> k + 1]
<1>2. e \in [1 .. Len(Tail(q)) -> 1 .. Len(q)]
  BY <1>1
<1>3. \A k \in 1 .. Len(Tail(q)) : Tail(q)[k] = q[e[k]] /\ Tail(q)[k] \notin {q[1]}
  BY <1>1
<1>4. \A k, l \in 1 .. Len(Tail(q)) : k < l => e[k] < e[l]
  BY <1>1
<1>5. \A i \in 1 .. Len(q) : q[i] \notin {q[1]} => \E k \in 1 .. Len(Tail(q)) : e[k] = i
  <2>1. SUFFICES ASSUME NEW i \in 1 .. Len(q), q[i] \notin {q[1]}
                 PROVE  \E k \in 1 .. Len(Tail(q)) : e[k] = i
    OBVIOUS
  <2>2. i - 1 \in 1 .. Len(Tail(q)) /\ e[i - 1] = i
    BY <2>1, <1>1
  <2> QED BY <2>2
<1>6. Embeds(e, Tail(q), q, {q[1]}, Len(q))
  <2> HIDE DEF e
  <2> QED BY <1>2, <1>3, <1>4, <1>5 DEF Embeds
<1> QED BY <1>1, <1>6 DEF SubOf

LEMMA SubOfSame ==
    ASSUME NEW T, NEW q \in Seq(T)
    PROVE  SubOf(q, q, {})
<1> DEFINE e == [k \in 1 .. Len(q) |-> k]
<1>1. Embeds(e, q, q, {}, Len(q))
  BY DEF Embeds
<1> QED BY <1>1 DEF SubOf
----------------------------------------------------------------------------
(* Sequences                                                               *)
LEMMA AppendFacts ==
    ASSUME NEW T, NEW s \in Seq(T), NEW x \in T
    PROVE  /\ Append(s, x) \in Seq(T)
           /\ DOMAIN s = 1 .. Len(s) /\ DOMAIN Append(s, x) = 1 .. Len(s) + 1
           /\ Len(s) \in Nat /\ Len(Append(s, x)) = Len(s) + 1
           /\ Append(s, x)[Len(s) + 1] = x
           /\ \A k \in 1 .. Len(s) : Append(s, x)[k] = s[k]
           /\ ToSet(Append(s, x)) = ToSet(s) \cup {x}
<1>1. /\ Append(s, x) \in Seq(T)
      /\ DOMAIN s = 1 .. Len(s) /\ DOMAIN Append(s, x) = 1 .. Len(s) + 1
      /\ Len(s) \in Nat /\ Len(Append(s, x)) = Len(s) + 1
      /\ Append(s, x)[Len(s) + 1] = x
      /\ \A k \in 1 .. Len(s) : Append(s, x)[k] = s[k]
  OBVIOUS
<1> DEFINE t == Append(s, x)
<1> HIDE DEF t
<1>2. \A k \in 1 .. Len(s) + 1 : k \in 1 .. Len(s) \/ k = Len(s) + 1
  BY <1>1
<1>3. ToSet(t) = ToSet(s) \cup {x}
  BY <1>1, <1>2 DEF ToSet, t
<1> QED BY <1>1, <1>3 DEF t

LEMMA TailFacts ==
    ASSUME NEW T, NEW s \in Seq(T), s # <<>>
    PROVE  /\ Tail(s) \in Seq(T)
           /\ DOMAIN s = 1 .. Len(s) /\ DOMAIN Tail(s) = 1 .. Len(s) - 1
           /\ Len(s) \in Nat \ {0} /\ Len(Tail(s)) = Len(s) - 1
           /\ \A k \in 1 .. Len(s) - 1 : Tail(s)[k] = s[k + 1]
           /\ Head(s) = s[1] /\ s[1] \in T
           /\ ToSet(s) = ToSet(Tail(s)) \cup {s[1]}
<1>1. /\ Tail(s) \in Seq(T)
      /\ DOMAIN s = 1 .. Len(s) /\ DOMAIN Tail(s) = 1 .. Len(s) - 1
      /\ Len(s) \in Nat \ {0} /\ Len(Tail(s)) = Len(s) - 1
      /\ \A k \in 1 .. Len(s) - 1 : Tail(s)[k] = s[k + 1]
      /\ Head(s) = s[1] /\ s[1] \in T
  OBVIOUS
<1> DEFINE t == Tail(s)
<1> HIDE DEF t
<1>2. \A k \in 1 .. Len(s) : k = 1 \/ (k - 1 \in 1 .. Len(s) - 1 /\ k - 1 + 1 = k)
  BY <1>1
<1>3. \A k \in 1 .. Len(s) - 1 : k + 1 \in 1 .. Len(s)
  BY <1>1
<1>4. 1 \in 1 .. Len(s)
  BY <1>1
<1>5. ToSet(s) \subseteq ToSet(t) \cup {s[1]}
  <2>1. SUFFICES ASSUME NEW k \in 1 .. Len(s) PROVE s[k] \in ToSet(t) \cup {s[1]}
    BY <1>1 DEF ToSet
  <2>2. CASE k = 1
    BY <2>2
  <2>3. CASE k # 1
    <3>1. k - 1 \in DOMAIN t /\ t[k - 1] = s[k]
      BY <2>3, <1>1, <1>2 DEF t
    <3> QED BY <3>1 DEF ToSet
  <2> QED BY <2>2, <2>3
<1>6. ToSet(t) \cup {s[1]} \subseteq ToSet(s)
  BY <1>1, <1>3, <1>4 DEF ToSet, t
<1> QED BY <1>1, <1>5, <1>6 DEF t

LEMMA SubOfSet ==
    ASSUME NEW T, NEW q \in Seq(T), NEW s \in Seq(T), NEW S, SubOf(s, q, S)
    PROVE  ToSet(s) = ToSet(q) \ S
<1>1. PICK e : Embeds(e, s, q, S, Len(q))
  BY DEF SubOf
<1>2. DOMAIN q = 1 .. Len(q) /\ DOMAIN s = 1 .. Len(s)
  OBVIOUS
<1>3. /\ \A k \in 1 .. Len(s) : e[k] \in 1 .. Len(q) /\ s[k] = q[e[k]] /\ s[k] \notin S
      /\ \A i \in 1 .. Len(q) : q[i] \notin S => \E k \in 1 .. Len(s) : e[k] = i
  BY <1>1 DEF Embeds
<1>4. ToSet(s) \subseteq ToSet(q) \ S
  BY <1>2, <1>3 DEF ToSet
<1>5. ASSUME NEW i \in 1 .. Len(q), q[i] \notin S PROVE q[i] \in ToSet(s)
  <2>1. PICK k \in 1 .. Len(s) : e[k] = i
    BY <1>3, <1>5
  <2>2. s[k] = q[i]
    BY <1>3, <2>1
  <2> QED BY <2>2, <1>2 DEF ToSet
<1>6. ToSet(q) \ S \subseteq ToSet(s)
  BY <1>2, <1>5 DEF ToSet
<1> QED BY <1>4, <1>6
----------------------------------------------------------------------------
LEMMA RequestFacts ==
    /\ QuitRequest \in Requests /\ Submitted \subseteq Requests
    /\ NoRequest \notin Requests /\ QuitRequest \notin Submitted
    /\ \A r \in Requests : r # QuitRequest => r \in Submitted
    /\ \A r \in Requests : Size(r) \in Nat /\ 1 <= Size(r) /\ Size(r) <= PipelineSize
    /\ \A r \in Requests : r \notin Pipelines => Size(r) = 1
    /\ \A r \in Pipelines : r \in Requests /\ ~IsExclusive(r) /\ r # QuitRequest
    /\ IsExclusive(QuitRequest)
BY ClientAssumption DEF Requests, Submitted, Size, IsExclusive

(* Settling some requests and taking them out of the queue.                *)
LEMMA QueueShrinks ==
    ASSUME TypeOK, QueueInv, NEW S, SubOf(queue', queue, S),
           queue' \in Seq(Requests), state' \in [Requests -> Results \cup {"new", "rejected", "queued"}],
           S \subseteq ToSet(queue), arrival' = arrival,
           \A r \in S : state'[r] \in Results,
           \A r \in Requests : r \notin S => state'[r] = state[r]
    PROVE  QueueInv'
<1>1. PICK e : Embeds(e, queue', queue, S, Len(queue))
  BY DEF SubOf
<1>2. /\ queue \in Seq(Requests) /\ DOMAIN queue = 1 .. Len(queue) /\ Len(queue) \in Nat
      /\ DOMAIN queue' = 1 .. Len(queue') /\ Len(queue') \in Nat
  BY DEF TypeOK
<1>3. /\ e \in [1 .. Len(queue') -> 1 .. Len(queue)]
      /\ \A k \in 1 .. Len(queue') : queue'[k] = queue[e[k]] /\ queue'[k] \notin S
      /\ \A k, l \in 1 .. Len(queue') : k < l => e[k] < e[l]
  BY <1>1 DEF Embeds
<1>4. ToSet(queue') = ToSet(queue) \ S
  BY <1>2, SubOfSet
<1>5. ToSet(queue)' = {r \in Requests : state'[r] = "queued"}
  <2>1. ToSet(queue) = {r \in Requests : state[r] = "queued"}
    BY DEF QueueInv, NothingForgotten
  <2>2. \A r \in S : state'[r] # "queued"
    BY DEF Results
  <2> QED BY <1>4, <2>1, <2>2
<1>6. \A k, l \in 1 .. Len(queue') : queue'[k] = queue'[l] => k = l
  <2>1. SUFFICES ASSUME NEW k \in 1 .. Len(queue'), NEW l \in 1 .. Len(queue'), queue'[k] = queue'[l], k # l
                 PROVE  FALSE
    OBVIOUS
  <2>2. e[k] \in DOMAIN queue /\ e[l] \in DOMAIN queue /\ queue[e[k]] = queue[e[l]]
    <3>1. e[k] \in 1 .. Len(queue) /\ e[l] \in 1 .. Len(queue)
      BY <1>3
    <3> QED BY <2>1, <3>1, <1>2, <1>3
  <2>3. e[k] = e[l]
    BY <2>2 DEF QueueInv, NothingForgotten
  <2>4. k < l \/ l < k
    BY <2>1, <1>2
  <2> QED BY <2>2, <2>3, <2>4, <1>2, <1>3
<1>7. \A k \in 1 .. Len(queue') : queue'[k] = QuitRequest => k = Len(queue')
  <2>1. SUFFICES ASSUME NEW k \in 1 .. Len(queue'), queue'[k] = QuitRequest, k # Len(queue')
                 PROVE  FALSE
    OBVIOUS
  <2>2. e[k] = Len(queue)
    BY <2>1, <1>2, <1>3 DEF QueueInv
  <2>3. Len(queue') \in 1 .. Len(queue') /\ k < Len(queue')
    BY <2>1, <1>2
  <2>4. e[Len(queue')] \in 1 .. Len(queue) /\ e[k] < e[Len(queue')]
    BY <2>3, <1>3
  <2> QED BY <2>2, <2>4, <1>2
<1>8. \A k \in 1 .. Len(queue') : queue'[k] # QuitRequest => queue'[k] \in ToSet(arrival)
  BY <1>2, <1>3 DEF QueueInv
<1>9. ASSUME NEW k \in 1 .. Len(queue'), NEW l \in 1 .. Len(queue'),
             NEW a \in DOMAIN arrival, NEW b \in DOMAIN arrival,
             k < l, arrival[a] = queue'[k], arrival[b] = queue'[l]
      PROVE  a < b
  <2>1. /\ e[k] \in DOMAIN queue /\ e[l] \in DOMAIN queue /\ e[k] < e[l]
        /\ arrival[a] = queue[e[k]] /\ arrival[b] = queue[e[l]]
    BY <1>2, <1>3, <1>9
  <2> QED BY <2>1 DEF QueueInv
<1>10. \A i \in DOMAIN arrival : arrival[i] \in Submitted /\ state'[arrival[i]] # "new"
  <2>1. SUFFICES ASSUME NEW i \in DOMAIN arrival
                 PROVE  arrival[i] \in Submitted /\ state'[arrival[i]] # "new"
    OBVIOUS
  <2>2. arrival[i] \in Submitted /\ arrival[i] \in Requests /\ state[arrival[i]] # "new"
    BY RequestFacts DEF QueueInv
  <2> QED BY <2>2 DEF Results
<1>11. \A i, j \in DOMAIN arrival : arrival[i] = arrival[j] => i = j
  BY DEF QueueInv
<1>12. NothingForgotten'
  BY <1>2, <1>5, <1>6 DEF NothingForgotten
<1>13. ToSet(arrival)' = ToSet(arrival) /\ DOMAIN arrival' = DOMAIN arrival
  BY DEF ToSet
<1>14. /\ \A i \in DOMAIN queue' : queue'[i] = QuitRequest => i = Len(queue')
       /\ \A i \in DOMAIN queue' : queue'[i] # QuitRequest => queue'[i] \in ToSet(arrival)'
  BY <1>2, <1>7, <1>8, <1>13
<1>15. \A i, j \in DOMAIN queue', a, b \in DOMAIN arrival' :
          i < j /\ arrival'[a] = queue'[i] /\ arrival'[b] = queue'[j] => a < b
  BY <1>2, <1>9
<1>16. /\ \A i \in DOMAIN arrival' : arrival'[i] \in Submitted /\ state'[arrival'[i]] # "new"
       /\ \A i, j \in DOMAIN arrival' : arrival'[i] = arrival'[j] => i = j
  BY <1>10, <1>11
<1> QED
  BY <1>12, <1>14, <1>15, <1>16 DEF QueueInv
(* A session has ended: the requests S have got a result, and those that   *)
(* may have been executed and stay queued were counted.                    *)
LEMMA SessionEnds ==
    ASSUME IInv, TypeOK', BudgetInv', pc = "session",
           NEW next \in {"lost", "exit"}, EndSession(next), closing' = closing, closed' = closed,
           NEW S, S \subseteq ToSet(queue), SubOf(queue', queue, S),
           \A r \in S : state'[r] \in Results \ {"answered", "closed"},
           \A r \in Requests : r \notin S => state'[r] = state[r],
           \A r \in Requests : ambiguous[r] <= ambiguous'[r],
           next = "lost" =>
               /\ \A r \in Requests :
                     r \in ToSet(inFlight) \/ (r = writing /\ written \in {"ok", "partial"}) =>
                         r \in S \/ ambiguous'[r] = ambiguous[r] + 1
               /\ inFlight # <<>> /\ replies > 0 => inFlight[1] \in S
    PROVE  IInv'
<1>t. /\ TypeOK /\ BudgetInv /\ QueueInv /\ QuitInv /\ SessionInv
      /\ WireInv /\ ExposureInv /\ OrderInv /\ SuffixInv
  BY DEF IInv
<1>e. /\ pc' = next /\ up' = FALSE
      /\ inFlight' = <<>> /\ replies' = 0 /\ back' = <<>>
      /\ writing' = NoRequest /\ written' = "none" /\ reading' = "idle"
      /\ wire' = wire /\ executed' = executed /\ arrival' = arrival /\ replied' = replied
  BY DEF EndSession, history
<1>s. /\ queue' \in Seq(Requests)
      /\ state' \in [Requests -> Results \cup {"new", "rejected", "queued"}]
      /\ \A r \in S : r \in Requests /\ state[r] = "queued"
      /\ \A r \in S : state'[r] \in Results /\ state'[r] # "queued"
      /\ \A r \in Requests : ambiguous[r] \in Nat /\ ambiguous'[r] \in Nat
  <2>1. \A r \in S : r \in Requests /\ state[r] = "queued"
    BY <1>t DEF QueueInv, NothingForgotten
  <2>2. \A r \in S : state'[r] \in Results /\ state'[r] # "queued"
    BY DEF Results
  <2>3. \A r \in Requests : ambiguous[r] \in 0 .. MaxRetries + 1 /\ ambiguous'[r] \in 0 .. MaxRetries + 1
    BY <1>t DEF TypeOK
  <2>4. \A r \in Requests : ambiguous[r] \in Nat /\ ambiguous'[r] \in Nat
    BY <2>3, ClientAssumption
  <2> QED BY <2>1, <2>2, <2>4 DEF TypeOK
<1>1. QueueInv'
  BY <1>t, <1>e, <1>s, QueueShrinks
<1>2. QuitInv'
  <2>1. state'[QuitRequest] # "new" => closing'
    <3>1. CASE QuitRequest \in S
      BY <3>1, <1>s, <1>t DEF QuitInv
    <3>2. CASE QuitRequest \notin S
      BY <3>2, <1>t, RequestFacts DEF QuitInv
    <3> QED BY <3>1, <3>2
  <2>2. ~closed'
    BY <1>t DEF QuitInv
  <2>3. ASSUME NEW r \in Submitted PROVE state'[r] # "closed"
    BY <2>2, <1>s, <1>t, RequestFacts DEF QuitInv
  <2>4. ASSUME state'[QuitRequest] = "answered", NEW r \in Submitted
        PROVE  state'[r] # "queued"
    <3>1. QuitRequest \notin S /\ state[QuitRequest] = "answered"
      BY <2>4, RequestFacts
    <3>2. state[r] # "queued" /\ r \in Requests
      BY <3>1, <1>t, RequestFacts DEF QuitInv, QuitDrains
    <3> QED BY <3>2, <1>s
  <2> QED BY <2>1, <2>2, <2>3, <2>4 DEF QuitInv, QuitDrains
<1>3. SessionInv'
  <2>1. Len(<<>>) = 0 /\ Len(queue') \in Nat /\ DOMAIN <<>> = {}
    BY <1>s
  <2> QED BY <1>e, <2>1, RequestFacts DEF SessionInv
<1>4. WireInv'
  BY <1>e, <1>t DEF WireInv
<1>5. ExposureInv'
  <2>1. SUFFICES ASSUME NEW r \in Requests, NEW i \in 1 .. Size(r)
                 PROVE  executed[r][i] + Count(OnWire(r, i)) <= ambiguous'[r] + Count(Exposed(r)')
    BY <1>e DEF ExposureInv, OnWire
  <2>2. executed[r][i] + Count(OnWire(r, i)) <= ambiguous[r] + Count(Exposed(r))
    BY <1>t DEF ExposureInv
  <2>3. executed[r][i] \in Nat
    <3>1. i \in 1 .. PipelineSize
      BY RequestFacts, ClientAssumption
    <3>2. executed \in [Requests -> [1 .. PipelineSize -> Nat]]
      BY <1>t DEF TypeOK
    <3> QED BY <3>1, <3>2
  <2>4. ambiguous[r] + Count(Exposed(r)) <= ambiguous'[r] + Count(Exposed(r)')
    <3>0. r \in S \/ Settled(r) => Settled(r)' /\ state'[r] \notin {"new", "rejected"}
      BY <1>s DEF Settled, Results
    <3>1. CASE next = "exit" /\ Exposed(r)
      <4>1. state'[r] \notin {"new", "rejected"}
        BY <3>0, <3>1 DEF Exposed
      <4>2. Exposed(r)'
        BY <3>1, <4>1, <1>e DEF Exposed
      <4> QED BY <4>2, <1>s DEF Count
    <3>2. CASE Settled(r)
      <4>1. Exposed(r)'
        BY <3>0, <3>2 DEF Exposed
      <4> QED BY <4>1, <1>s DEF Count
    <3>3. CASE ~Exposed(r)
      BY <3>3, <1>s DEF Count
    <3>4. CASE next = "lost" /\ ~Settled(r) /\ Exposed(r)
      <4>1. r \in ToSet(inFlight) \/ (r = writing /\ written \in {"ok", "partial"})
        BY <3>4 DEF Exposed
      <4>2. CASE r \in S
        <5>1. Exposed(r)'
          BY <4>2, <3>0 DEF Exposed
        <5> QED BY <5>1, <1>s DEF Count
      <4>3. CASE r \notin S
        <5>1. ambiguous'[r] = ambiguous[r] + 1
          BY <4>1, <4>3, <3>4
        <5> QED BY <5>1, <1>s DEF Count
      <4> QED BY <4>2, <4>3
    <3> QED BY <3>1, <3>2, <3>3, <3>4
  <2>5. Count(OnWire(r, i)) \in Nat /\ Count(Exposed(r)) \in Nat /\ Count(Exposed(r)') \in Nat
    BY DEF Count
  <2>6. ambiguous[r] \in Nat /\ ambiguous'[r] \in Nat
    BY <1>s
  <2> QED BY <2>2, <2>3, <2>4, <2>5, <2>6, SMTT(60)
<1>6. OrderInv'
  <2>1. \A a \in DOMAIN arrival : state'[arrival[a]] = "queued" => state[arrival[a]] = "queued"
    BY <1>s, <1>t, RequestFacts DEF QueueInv
  <2> QED BY <2>1, <1>e, <1>t DEF OrderInv
<1>7. SuffixInv'
  <2>1. SUFFICES ASSUME NEW r \in replied, next = "lost" PROVE Settled(r)'
    BY <1>e DEF SuffixInv
  <2>2. r \in Requests
    BY <1>t DEF TypeOK
  <2>3. Settled(r) \/ r \in S
    BY <2>1, <1>t DEF SuffixInv
  <2> QED BY <2>2, <2>3, <1>s DEF Settled
<1> QED
  BY <1>1, <1>2, <1>3, <1>4, <1>5, <1>6, <1>7 DEF IInv
----------------------------------------------------------------------------
(* The end of a session, action by action.                                 *)
LEMMA EndTypes ==
    ASSUME TypeOK, NEW next \in {"lost", "exit"}, EndSession(next),
           queue' \in Seq(Requests),
           state' \in [Requests -> Results \cup {"new", "rejected", "queued"}],
           ambiguous' \in [Requests -> 0 .. MaxRetries + 1],
           failures' \in [Requests -> 0 .. MaxRetries + 1],
           {closing', disconnecting', closed', cancelled'} \subseteq BOOLEAN
    PROVE  TypeOK'
<1>1. 0 \in 0 .. PipelineSize - 1 /\ <<>> \in Seq(Requests)
  BY ClientAssumption
<1>2. {closing', disconnecting', closed', ready', cancelled', up'} \subseteq BOOLEAN
  BY DEF TypeOK, EndSession
<1> QED BY <1>1, <1>2 DEF TypeOK, EndSession, history

LEMMA ChargeFacts ==
    ASSUME TypeOK, BudgetInv, NEW S \in SUBSET Requests, \A r \in S : state[r] = "queued",
           NEW q \in Seq(Requests),
           NEW outcome \in [Requests -> Results \cup {"new", "rejected", "queued"}],
           Charge(S, q, outcome)
    PROVE  /\ queue' \in Seq(Requests) /\ SubOf(queue', q, Exhausted(S))
           /\ state' \in [Requests -> Results \cup {"new", "rejected", "queued"}]
           /\ failures' \in [Requests -> 0 .. MaxRetries + 1]
           /\ closing' = closing /\ closed' = closed
           /\ {disconnecting', cancelled'} \subseteq BOOLEAN
           /\ Exhausted(S) \subseteq S
           /\ \A r \in Exhausted(S) : state'[r] = "exhausted"
           /\ \A r \in Requests : r \notin Exhausted(S) => state'[r] = outcome[r]
           /\ \A r \in S : failures'[r] = failures[r] + 1
           /\ \A r \in Requests : r \notin S => failures'[r] = failures[r]
           /\ \A r \in S : r \notin Exhausted(S) => failures'[r] <= MaxRetries
<1>1. queue' \in Seq(Requests) /\ SubOf(queue', q, Exhausted(S))
  BY WithoutFacts DEF Charge
<1>2. Exhausted(S) \subseteq S
  BY DEF Exhausted
<1>3. \A r \in S : failures[r] \in 0 .. MaxRetries
  <2>1. \A r \in S : failures[r] \in 0 .. MaxRetries + 1 /\ failures[r] <= MaxRetries
    BY DEF TypeOK, BudgetInv
  <2> QED BY <2>1, ClientAssumption
<1>4. /\ \A r \in S : failures'[r] = failures[r] + 1
      /\ \A r \in Requests : r \notin S => failures'[r] = failures[r]
      /\ DOMAIN failures' = Requests
      /\ failures' = [r \in Requests |-> failures'[r]]
  BY DEF Charge
<1>5. failures' \in [Requests -> 0 .. MaxRetries + 1]
  <2>1. ASSUME NEW r \in Requests PROVE failures'[r] \in 0 .. MaxRetries + 1
    <3>1. CASE r \in S
      BY <3>1, <1>3, <1>4, ClientAssumption
    <3>2. CASE r \notin S
      BY <3>2, <1>4 DEF TypeOK
    <3> QED BY <3>1, <3>2
  <2> QED BY <2>1, <1>4
<1>6. ASSUME NEW r \in S, r \notin Exhausted(S) PROVE failures'[r] <= MaxRetries
  <2>1. failures[r] # MaxRetries
    BY <1>6 DEF Exhausted
  <2> QED BY <2>1, <1>3, <1>4, ClientAssumption
<1>7. state' \in [Requests -> Results \cup {"new", "rejected", "queued"}]
  BY DEF Charge, Results
<1>8. /\ \A r \in Exhausted(S) : state'[r] = "exhausted"
      /\ \A r \in Requests : r \notin Exhausted(S) => state'[r] = outcome[r]
  BY <1>2 DEF Charge
<1>9. closing' = closing /\ closed' = closed /\ {disconnecting', cancelled'} \subseteq BOOLEAN
  BY DEF Charge, StopAfterQuitFailure
<1> QED BY <1>1, <1>2, <1>4, <1>5, <1>6, <1>7, <1>8, <1>9

(* Where the requests of a session are.                                    *)
LEMMA SessionFacts ==
    ASSUME IInv
    PROVE  /\ queue \in Seq(Requests) /\ inFlight \in Seq(Requests)
           /\ DOMAIN queue = 1 .. Len(queue) /\ DOMAIN inFlight = 1 .. Len(inFlight)
           /\ Len(queue) \in Nat /\ Len(inFlight) \in Nat
           /\ inFlight # <<>> => /\ queue # <<>> /\ Head(inFlight) = inFlight[1]
                                 /\ inFlight[1] = queue[1] /\ 1 \in DOMAIN inFlight
                                 /\ 1 \in DOMAIN queue
           /\ inFlight = <<>> /\ writing # NoRequest => queue # <<>> /\ writing = queue[1]
           /\ queue # <<>> => Head(queue) = queue[1] /\ Len(queue) >= 1
           /\ ToSet(inFlight) \subseteq ToSet(queue)
           /\ writing # NoRequest => writing \in ToSet(queue) /\ writing \notin ToSet(inFlight)
           /\ \A r \in ToSet(queue) : r \in Requests /\ state[r] = "queued" /\ ~Settled(r)
<1>1. /\ queue \in Seq(Requests) /\ inFlight \in Seq(Requests)
      /\ DOMAIN queue = 1 .. Len(queue) /\ DOMAIN inFlight = 1 .. Len(inFlight)
      /\ Len(queue) \in Nat /\ Len(inFlight) \in Nat
  BY DEF IInv, TypeOK
<1>2. /\ Len(inFlight) <= Len(queue)
      /\ \A i \in DOMAIN inFlight : inFlight[i] = queue[i]
      /\ writing # NoRequest => Len(inFlight) < Len(queue) /\ writing = queue[Len(inFlight) + 1]
  BY DEF IInv, SessionInv
<1>3. inFlight # <<>> => /\ queue # <<>> /\ Head(inFlight) = inFlight[1]
                         /\ inFlight[1] = queue[1] /\ 1 \in DOMAIN inFlight
                         /\ 1 \in DOMAIN queue
  <2>1. SUFFICES ASSUME inFlight # <<>>
                 PROVE  /\ queue # <<>> /\ Head(inFlight) = inFlight[1]
                        /\ inFlight[1] = queue[1] /\ 1 \in DOMAIN inFlight
                        /\ 1 \in DOMAIN queue
    OBVIOUS
  <2>2. Head(inFlight) = inFlight[1] /\ Len(inFlight) >= 1
    BY <2>1, <1>1
  <2>3. 1 \in DOMAIN inFlight /\ 1 \in DOMAIN queue
    BY <2>2, <1>1, <1>2
  <2>4. queue # <<>>
    BY <2>3, <1>1
  <2> QED BY <2>2, <2>3, <2>4, <1>2
<1>4. inFlight = <<>> /\ writing # NoRequest => queue # <<>> /\ writing = queue[1]
  BY <1>1, <1>2
<1>5. queue # <<>> => Head(queue) = queue[1] /\ Len(queue) >= 1
  BY <1>1
<1>6. ToSet(inFlight) \subseteq ToSet(queue)
  <2>1. \A i \in DOMAIN inFlight : i \in DOMAIN queue
    BY <1>1, <1>2
  <2> QED BY <2>1, <1>2 DEF ToSet
<1>7. ASSUME writing # NoRequest PROVE writing \in ToSet(queue) /\ writing \notin ToSet(inFlight)
  <2>1. Len(inFlight) + 1 \in DOMAIN queue /\ writing = queue[Len(inFlight) + 1]
    BY <1>1, <1>2, <1>7
  <2>2. \A i \in DOMAIN inFlight : i \in DOMAIN queue /\ i # Len(inFlight) + 1
    BY <1>1, <1>2
  <2>3. \A i \in DOMAIN inFlight : inFlight[i] # writing
    BY <2>1, <2>2, <1>2 DEF IInv, QueueInv, NothingForgotten
  <2> QED BY <2>1, <2>3 DEF ToSet
<1>8. \A r \in ToSet(queue) : r \in Requests /\ state[r] = "queued" /\ ~Settled(r)
  BY DEF IInv, QueueInv, NothingForgotten, Settled, Results
<1> QED BY <1>1, <1>3, <1>4, <1>5, <1>6, <1>7, <1>8
(* settleDuplexTerminalFailure                                             *)
LEMMA SettleKeeps ==
    ASSUME IInv, pc = "session", NEW S, S \subseteq ToSet(queue), ToSet(inFlight) \subseteq S,
           writing # NoRequest => writing \in S, SettleAll(S), EndSession("lost")
    PROVE  IInv'
<1>1. /\ queue \in Seq(Requests) /\ \A r \in S : r \in Requests /\ state[r] = "queued"
      /\ TypeOK /\ BudgetInv
  BY SessionFacts DEF IInv
<1>2. /\ queue' = Without(queue, S)
      /\ state' = [r \in Requests |-> IF r \in S THEN "failed" ELSE state[r]]
      /\ ambiguous' = ambiguous /\ failures' = failures
      /\ closing' = closing /\ closed' = closed
  BY DEF SettleAll, StopAfterQuitFailure
<1>3. {disconnecting', cancelled'} \subseteq BOOLEAN
  BY <1>1 DEF SettleAll, StopAfterQuitFailure, TypeOK
<1>4. queue' \in Seq(Requests) /\ SubOf(queue', queue, S)
  BY <1>1, <1>2, WithoutFacts
<1>5. /\ state' \in [Requests -> Results \cup {"new", "rejected", "queued"}]
      /\ \A r \in S : state'[r] = "failed"
      /\ \A r \in Requests : r \notin S => state'[r] = state[r]
  BY <1>1, <1>2 DEF TypeOK, Results
<1>6. TypeOK'
  <2>1. {closing', disconnecting', closed', cancelled'} \subseteq BOOLEAN
    BY <1>1, <1>2, <1>3 DEF TypeOK
  <2> QED BY <2>1, <1>1, <1>2, <1>4, <1>5, EndTypes DEF TypeOK
<1>7. BudgetInv'
  <2>1. SUFFICES ASSUME NEW r \in Requests
                 PROVE  /\ state'[r] \in {"new", "rejected"} => failures[r] = 0
                        /\ state'[r] = "queued" => failures[r] <= MaxRetries
                        /\ ambiguous[r] <= failures[r]
                        /\ IsExclusive(r) => ambiguous[r] = 0
    BY <1>2 DEF BudgetInv
  <2>2. CASE r \in S
    BY <2>2, <1>1, <1>5 DEF BudgetInv
  <2>3. CASE r \notin S
    BY <2>3, <1>1, <1>5 DEF BudgetInv
  <2> QED BY <2>2, <2>3
<1>8. \A r \in S : state'[r] \in Results \ {"answered", "closed"}
  BY <1>5 DEF Results
<1>9. \A r \in Requests : ambiguous[r] <= ambiguous'[r]
  <2>1. \A r \in Requests : ambiguous[r] \in 0 .. MaxRetries + 1
    BY <1>1 DEF TypeOK
  <2> QED BY <2>1, <1>2, ClientAssumption
<1>10. \A r \in Requests : r \in ToSet(inFlight) \/ (r = writing /\ written \in {"ok", "partial"}) => r \in S
  BY RequestFacts
<1>11. inFlight # <<>> => inFlight[1] \in S
  BY SessionFacts DEF ToSet
<1> QED
  BY <1>2, <1>4, <1>5, <1>6, <1>7, <1>8, <1>9, <1>10, <1>11, SessionEnds

(* reconcileDuplexFailure                                                  *)
LEMMA ReconcileKeeps ==
    ASSUME IInv, pc = "session", NEW W, W = {writing} \ {NoRequest},
           written \notin {"busy", "ok"}, \A r \in ToSet(inFlight) : ~IsExclusive(r),
           written = "partial" => ~IsExclusive(writing),
           Reconcile(W), EndSession("lost")
    PROVE  IInv'
<1> DEFINE quit == (ToSet(inFlight) \cup W) \cap {QuitRequest}
           gone == Cut \cup quit
           retried == (ToSet(inFlight) \cup W) \ gone
           popped == IF queue # <<>> /\ Head(queue) \in gone THEN Tail(queue) ELSE queue
           outcome == [r \in Requests |-> IF r \in Cut THEN "aborted"
                                          ELSE IF r \in quit THEN "failed" ELSE state[r]]
<1>t. TypeOK /\ BudgetInv /\ SessionInv /\ QueueInv
  BY DEF IInv
<1>0. /\ ambiguous' = [r \in Requests |->
                         IF r \in retried \cap Uncertain(W) THEN ambiguous[r] + 1 ELSE ambiguous[r]]
      /\ Charge(retried, popped, outcome)
  BY DEF Reconcile
<1>1. /\ W \subseteq ToSet(queue) /\ ToSet(inFlight) \subseteq ToSet(queue)
      /\ \A r \in ToSet(queue) : r \in Requests /\ state[r] = "queued"
      /\ queue \in Seq(Requests)
  BY SessionFacts
<1>2. /\ \A r \in Cut : r \in Pipelines /\ queue # <<>> /\ r = queue[1] /\ r \in ToSet(inFlight)
      /\ inFlight # <<>> /\ replies > 0 => inFlight[1] \in Cut
  <2>1. ASSUME NEW r \in Cut
        PROVE  r \in Pipelines /\ queue # <<>> /\ r = queue[1] /\ r \in ToSet(inFlight)
    BY SessionFacts DEF Cut, ToSet
  <2>2. ASSUME inFlight # <<>>, replies > 0 PROVE inFlight[1] \in Cut
    <3>1. inFlight[1] \in Requests /\ replies < Size(inFlight[1]) /\ replies \in Nat
          /\ inFlight[1] = Head(inFlight)
      <4>1. replies \in 0 .. PipelineSize - 1
        BY <1>t DEF TypeOK
      <4> QED BY <4>1, <2>2, <1>t, SessionFacts, ClientAssumption DEF SessionInv
    <3>2. Size(inFlight[1]) # 1
      BY <3>1, <2>2
    <3> QED BY <3>1, <3>2, <2>2, RequestFacts DEF Cut
  <2> QED BY <2>1, <2>2
<1>3. \A r \in quit : /\ r = QuitRequest /\ r = writing /\ queue # <<>> /\ r = queue[1]
                      /\ inFlight = <<>>
  <2>1. ASSUME QuitRequest \in ToSet(inFlight) PROVE FALSE
    BY <2>1, RequestFacts
  <2>2. ASSUME QuitRequest \in W
        PROVE  QuitRequest = writing /\ queue # <<>> /\ QuitRequest = queue[1] /\ inFlight = <<>>
    <3>1. writing = QuitRequest /\ writing # NoRequest
      BY <2>2
    <3>2. inFlight = <<>>
      BY <3>1, <1>t, RequestFacts DEF SessionInv
    <3> QED BY <3>1, <3>2, SessionFacts
  <2> QED BY <2>1, <2>2
<1>4. gone # {} => queue # <<>> /\ gone = {queue[1]}
  BY <1>2, <1>3
<1>5. popped \in Seq(Requests) /\ SubOf(popped, queue, gone) /\ gone \subseteq ToSet(queue)
  <2>1. CASE gone = {}
    <3>1. popped = queue
      BY <2>1
    <3> QED BY <2>1, <3>1, <1>1, SubOfSame
  <2>2. CASE gone # {}
    <3>1. queue # <<>> /\ gone = {queue[1]} /\ Head(queue) = queue[1]
      BY <2>2, <1>4, SessionFacts
    <3>2. popped = Tail(queue)
      BY <3>1
    <3>3. queue[1] \in ToSet(queue)
      BY <3>1, <1>1, TailFacts
    <3>4. \A i, j \in DOMAIN queue : queue[i] = queue[j] => i = j
      BY <1>t DEF QueueInv, NothingForgotten
    <3> QED BY <3>1, <3>2, <3>3, <3>4, <1>1, SubOfTail
  <2> QED BY <2>1, <2>2
<1>6. /\ retried \in SUBSET Requests /\ \A r \in retried : state[r] = "queued"
      /\ outcome \in [Requests -> Results \cup {"new", "rejected", "queued"}]
      /\ \A r \in gone : r \in Requests /\ outcome[r] \in {"aborted", "failed"} /\ r \notin retried
      /\ \A r \in Requests : r \notin gone => outcome[r] = state[r]
  <2>1. /\ retried \in SUBSET Requests /\ \A r \in retried : state[r] = "queued"
        /\ \A r \in gone : r \in Requests /\ r \notin retried
    BY <1>1, <1>5
  <2>2. outcome \in [Requests -> Results \cup {"new", "rejected", "queued"}]
    BY <1>t DEF TypeOK, Results
  <2>3. \A r \in gone : outcome[r] \in {"aborted", "failed"}
    BY <2>1
  <2>4. \A r \in Requests : r \notin gone => outcome[r] = state[r]
    OBVIOUS
  <2> QED BY <2>1, <2>2, <2>3, <2>4
<1>7. \A r \in retried \cap Uncertain(W) :
         ~IsExclusive(r)
  BY DEF Uncertain
<1>8. \A r \in Requests : r \in ToSet(inFlight) \/ (r = writing /\ written \in {"ok", "partial"}) =>
         r \in gone \/ r \in retried \cap Uncertain(W)
  BY RequestFacts DEF Uncertain
<1>9. inFlight # <<>> /\ replies > 0 => inFlight[1] \in gone
  BY <1>2
<1> HIDE DEF quit, gone, retried, popped, outcome
<1> DEFINE S == gone \cup Exhausted(retried)
<1>10. /\ queue' \in Seq(Requests) /\ SubOf(queue', popped, Exhausted(retried))
       /\ state' \in [Requests -> Results \cup {"new", "rejected", "queued"}]
       /\ failures' \in [Requests -> 0 .. MaxRetries + 1]
       /\ closing' = closing /\ closed' = closed
       /\ {disconnecting', cancelled'} \subseteq BOOLEAN
       /\ Exhausted(retried) \subseteq retried
       /\ \A r \in Exhausted(retried) : state'[r] = "exhausted"
       /\ \A r \in Requests : r \notin Exhausted(retried) => state'[r] = outcome[r]
       /\ \A r \in retried : failures'[r] = failures[r] + 1
       /\ \A r \in Requests : r \notin retried => failures'[r] = failures[r]
       /\ \A r \in retried : r \notin Exhausted(retried) => failures'[r] <= MaxRetries
  BY <1>t, <1>0, <1>5, <1>6, ChargeFacts
<1>11. SubOf(queue', queue, S)
  BY <1>1, <1>5, <1>10, SubOfSub
<1>12. S \subseteq ToSet(queue)
  <2>1. retried \subseteq ToSet(queue)
    BY <1>1 DEF retried
  <2> QED BY <2>1, <1>5, <1>10
<1>13. /\ \A r \in S : state'[r] \in {"aborted", "failed", "exhausted"}
       /\ \A r \in Requests : r \notin S => state'[r] = state[r]
  <2>1. ASSUME NEW r \in S PROVE state'[r] \in {"aborted", "failed", "exhausted"}
    <3>1. CASE r \in Exhausted(retried)
      BY <3>1, <1>10
    <3>2. CASE r \notin Exhausted(retried)
      BY <3>2, <1>6, <1>10
    <3> QED BY <3>1, <3>2
  <2>2. ASSUME NEW r \in Requests, r \notin S PROVE state'[r] = state[r]
    BY <2>2, <1>6, <1>10
  <2> QED BY <2>1, <2>2
<1>14. \A r \in Requests :
          /\ ambiguous[r] \in Nat /\ failures[r] \in Nat /\ ambiguous[r] <= failures[r]
          /\ failures[r] <= failures'[r] /\ failures'[r] \in Nat
          /\ r \in retried \cap Uncertain(W) => ambiguous'[r] = ambiguous[r] + 1
          /\ r \notin retried \cap Uncertain(W) => ambiguous'[r] = ambiguous[r]
  <2>1. SUFFICES ASSUME NEW r \in Requests
                 PROVE  /\ ambiguous[r] \in Nat /\ failures[r] \in Nat /\ ambiguous[r] <= failures[r]
                        /\ failures[r] <= failures'[r] /\ failures'[r] \in Nat
                        /\ r \in retried \cap Uncertain(W) => ambiguous'[r] = ambiguous[r] + 1
                        /\ r \notin retried \cap Uncertain(W) => ambiguous'[r] = ambiguous[r]
    OBVIOUS
  <2>2. ambiguous[r] \in 0 .. MaxRetries + 1 /\ failures[r] \in 0 .. MaxRetries + 1
        /\ ambiguous[r] <= failures[r]
    BY <1>t DEF TypeOK, BudgetInv
  <2>3. failures'[r] = failures[r] \/ failures'[r] = failures[r] + 1
    BY <1>10
  <2>4. /\ r \in retried \cap Uncertain(W) => ambiguous'[r] = ambiguous[r] + 1
        /\ r \notin retried \cap Uncertain(W) => ambiguous'[r] = ambiguous[r]
    BY <1>0
  <2> QED BY <2>2, <2>3, <2>4, ClientAssumption
<1>15. /\ ambiguous' \in [Requests -> 0 .. MaxRetries + 1]
       /\ \A r \in Requests : ambiguous[r] <= ambiguous'[r] /\ ambiguous'[r] <= failures'[r]
  <2>1. ASSUME NEW r \in Requests
        PROVE  /\ ambiguous[r] <= ambiguous'[r] /\ ambiguous'[r] <= failures'[r]
               /\ ambiguous'[r] \in 0 .. MaxRetries + 1
    <3>1. failures'[r] \in 0 .. MaxRetries + 1
      BY <1>10
    <3>2. CASE r \in retried \cap Uncertain(W)
      <4>1. ambiguous'[r] = ambiguous[r] + 1 /\ failures'[r] = failures[r] + 1
        BY <3>2, <1>10, <1>14
      <4>2. ambiguous[r] \in Nat /\ failures[r] \in Nat /\ ambiguous[r] <= failures[r]
        BY <1>14
      <4> QED BY <4>1, <4>2, <3>1, ClientAssumption
    <3>3. CASE r \notin retried \cap Uncertain(W)
      <4>1. ambiguous'[r] = ambiguous[r]
        BY <3>3, <1>14
      <4>2. /\ ambiguous[r] \in Nat /\ failures[r] \in Nat /\ ambiguous[r] <= failures[r]
            /\ failures[r] <= failures'[r]
        BY <1>14
      <4> QED BY <4>1, <4>2, <3>1, ClientAssumption
    <3> QED BY <3>2, <3>3
  <2>2. ambiguous' = [r \in Requests |-> ambiguous'[r]]
    BY <1>0
  <2> QED BY <2>1, <2>2
<1>16. TypeOK'
  <2>1. {closing', disconnecting', closed', cancelled'} \subseteq BOOLEAN
    BY <1>t, <1>10 DEF TypeOK
  <2> QED BY <2>1, <1>t, <1>10, <1>15, EndTypes
<1>17. BudgetInv'
  <2>1. SUFFICES ASSUME NEW r \in Requests
                 PROVE  /\ state'[r] \in {"new", "rejected"} => failures'[r] = 0
                        /\ state'[r] = "queued" => failures'[r] <= MaxRetries
                        /\ IsExclusive(r) => ambiguous'[r] = 0
    BY <1>15 DEF BudgetInv
  <2>2. IsExclusive(r) => ambiguous'[r] = 0
    BY <1>7, <1>14, <1>t DEF BudgetInv
  <2>3. state'[r] \in {"new", "rejected"} => failures'[r] = 0
    <3>1. SUFFICES ASSUME state'[r] \in {"new", "rejected"} PROVE failures'[r] = 0
      OBVIOUS
    <3>2. r \notin S /\ state[r] \in {"new", "rejected"}
      BY <3>1, <1>13
    <3>3. r \notin retried
      BY <3>2, <1>6
    <3> QED BY <3>2, <3>3, <1>10, <1>t DEF BudgetInv
  <2>4. state'[r] = "queued" => failures'[r] <= MaxRetries
    <3>1. SUFFICES ASSUME state'[r] = "queued" PROVE failures'[r] <= MaxRetries
      OBVIOUS
    <3>2. r \notin S /\ state[r] = "queued"
      BY <3>1, <1>13
    <3> QED BY <3>2, <1>10, <1>t DEF BudgetInv
  <2> QED BY <2>2, <2>3, <2>4
<1>18. \A r \in S : state'[r] \in Results \ {"answered", "closed"}
  BY <1>13 DEF Results
<1>19. \A r \in Requests : r \in ToSet(inFlight) \/ (r = writing /\ written \in {"ok", "partial"}) =>
          r \in S \/ ambiguous'[r] = ambiguous[r] + 1
  BY <1>8, <1>14
<1>20. inFlight # <<>> /\ replies > 0 => inFlight[1] \in S
  BY <1>9
<1> HIDE DEF S
<1> QED
  BY <1>10, <1>11, <1>12, <1>13, <1>15, <1>16, <1>17, <1>18, <1>19, <1>20, SessionEnds
LEMMA WriteFailedKeeps == ASSUME IInv, WriteFailed PROVE IInv'
<1>1. /\ pc = "session" /\ written \in {"unwritten", "partial"} /\ EndSession("lost")
      /\ reading \notin {"busy", "reply"}
  BY DEF WriteFailed
<1>2. writing # NoRequest
  BY <1>1 DEF IInv, SessionInv
<1>3. ToSet(inFlight) \cup {writing} \subseteq ToSet(queue)
  BY <1>2, SessionFacts
<1>4. CASE SettleAll(ToSet(inFlight) \cup {writing})
  <2> DEFINE S == ToSet(inFlight) \cup {writing}
  <2>1. S \subseteq ToSet(queue) /\ ToSet(inFlight) \subseteq S /\ writing \in S
    BY <1>3
  <2>2. SettleAll(S)
    BY <1>4
  <2> HIDE DEF S
  <2> QED BY <1>1, <2>1, <2>2, SettleKeeps
<1>5. CASE Reconcile({writing}) /\ ~(IsExclusive(writing) /\ written = "partial")
  <2>1. \A r \in ToSet(inFlight) : ~IsExclusive(r)
    BY <1>2 DEF IInv, SessionInv, ToSet
  <2>2. {writing} = {writing} \ {NoRequest}
    BY <1>2
  <2>3. written \notin {"busy", "ok"}
    BY <1>1
  <2> QED BY <1>1, <1>5, <2>1, <2>2, <2>3, ReconcileKeeps
<1> QED BY <1>4, <1>5 DEF WriteFailed

LEMMA ReadFailedKeeps == ASSUME IInv, ReadFailed PROVE IInv'
<1> DEFINE W == {writing} \ {NoRequest}
<1>1. /\ pc = "session" /\ reading \in {"error", "terminal"} /\ EndSession("lost")
      /\ written \notin {"busy", "ok"}
  BY DEF ReadFailed
<1>2. inFlight # <<>>
  BY <1>1 DEF IInv, SessionInv
<1>3. ToSet(inFlight) \cup W \subseteq ToSet(queue)
  BY SessionFacts
<1>4. CASE SettleAll(ToSet(inFlight) \cup W)
  <2> DEFINE S == ToSet(inFlight) \cup W
  <2>1. /\ S \subseteq ToSet(queue) /\ ToSet(inFlight) \subseteq S
        /\ writing # NoRequest => writing \in S
    BY <1>3
  <2>2. SettleAll(S)
    BY <1>4
  <2> HIDE DEF S
  <2> QED BY <1>1, <2>1, <2>2, SettleKeeps
<1>5. CASE Reconcile(W) /\ ~(W = {} /\ IsExclusive(Head(inFlight)))
  <2>1. ASSUME NEW i \in DOMAIN inFlight, IsExclusive(inFlight[i]) PROVE FALSE
    <3>1. Len(inFlight) = 1 /\ writing = NoRequest
      BY <2>1 DEF IInv, SessionInv
    <3>2. i = 1
      BY <3>1, SessionFacts
    <3> QED BY <3>1, <3>2, <2>1, <1>2, <1>5, SessionFacts
  <2>2. \A r \in ToSet(inFlight) : ~IsExclusive(r)
    BY <2>1 DEF ToSet
  <2>3. written = "partial" => ~IsExclusive(writing)
    BY <1>2 DEF IInv, SessionInv
  <2> HIDE DEF W
  <2>4. W = {writing} \ {NoRequest}
    BY DEF W
  <2> QED BY <1>1, <1>5, <2>2, <2>3, <2>4, ReconcileKeeps
<1> QED BY <1>4, <1>5 DEF ReadFailed

LEMMA StopKeeps == ASSUME IInv, IdleClose \/ StopSession PROVE IInv'
<1>1. PICK next \in {"lost", "exit"} :
         /\ EndSession(next) /\ pc = "session" /\ UNCHANGED <<queueVars, closeVars>>
         /\ next = "lost" => inFlight = <<>> /\ written = "none"
  BY DEF IdleClose, StopSession
<1>2. /\ TypeOK /\ BudgetInv /\ queue \in Seq(Requests)
      /\ UNCHANGED <<queue, state, ambiguous, failures, closing, disconnecting, closed, cancelled>>
  BY <1>1 DEF IInv, TypeOK, queueVars, closeVars
<1>3. TypeOK'
  <2>1. {closing', disconnecting', closed', cancelled'} \subseteq BOOLEAN
    BY <1>2 DEF TypeOK
  <2> QED BY <2>1, <1>1, <1>2, EndTypes DEF TypeOK
<1>4. BudgetInv'
  BY <1>2 DEF BudgetInv
<1>5. SubOf(queue', queue, {})
  BY <1>2, SubOfSame
<1>6. \A r \in Requests : ambiguous[r] <= ambiguous'[r]
  <2>1. \A r \in Requests : ambiguous[r] \in 0 .. MaxRetries + 1
    BY <1>2 DEF TypeOK
  <2> QED BY <2>1, <1>2, ClientAssumption
<1>7. next = "lost" => /\ ToSet(inFlight) = {} /\ written \notin {"ok", "partial"}
  BY <1>1 DEF ToSet
<1> QED BY <1>1, <1>2, <1>3, <1>4, <1>5, <1>6, <1>7, SessionEnds
----------------------------------------------------------------------------
(* The other steps.                                                        *)
LEMMA CountFacts ==
    ASSUME TypeOK, NEW r \in Requests
    PROVE  /\ ambiguous[r] \in Nat /\ Count(Exposed(r)) \in Nat
           /\ \A i \in 1 .. Size(r) : executed[r][i] \in Nat /\ Count(OnWire(r, i)) \in Nat
           /\ 1 \in 1 .. Size(r) /\ 1 \in 1 .. PipelineSize
<1>1. ambiguous[r] \in 0 .. MaxRetries + 1
  BY DEF TypeOK
<1>2. \A i \in 1 .. Size(r) : i \in 1 .. PipelineSize
  BY RequestFacts, ClientAssumption
<1>3. \A i \in 1 .. PipelineSize : executed[r][i] \in Nat
  BY DEF TypeOK
<1> QED BY <1>1, <1>2, <1>3, RequestFacts, ClientAssumption DEF Count

LEMMA ExposureKeeps ==
    ASSUME TypeOK, TypeOK', ExposureInv, executed' = executed, ambiguous' = ambiguous,
           ToSet(wire') \subseteq ToSet(wire),
           \A r \in Requests : Exposed(r) => Exposed(r)'
    PROVE  ExposureInv'
<1>1. SUFFICES ASSUME NEW r \in Requests, NEW i \in 1 .. Size(r)
               PROVE  executed[r][i] + Count(OnWire(r, i)') <= ambiguous[r] + Count(Exposed(r)')
  BY DEF ExposureInv
<1>2. executed[r][i] + Count(OnWire(r, i)) <= ambiguous[r] + Count(Exposed(r))
  BY DEF ExposureInv
<1>3. OnWire(r, i)' => OnWire(r, i)
  BY DEF OnWire
<1>4. executed[r][i] \in Nat /\ ambiguous[r] \in Nat
  BY CountFacts
<1> QED BY <1>2, <1>3, <1>4 DEF Count

LEMMA Quiet ==
    ASSUME IInv, TypeOK',
           UNCHANGED <<queue, state, ambiguous, failures, closing, closed, writing, written, inFlight,
                       replies, wire, executed, arrival, replied>>,
           up' => up,
           pc' = pc \/ (pc \notin {"session", "exit", "done"} /\ pc' # "session"),
           inFlight = <<>> => reading' = "idle", reading' = "reply" => back' # <<>>
    PROVE  IInv'
<1>1. /\ TypeOK /\ BudgetInv /\ QueueInv /\ QuitInv /\ SessionInv
      /\ WireInv /\ ExposureInv /\ OrderInv /\ SuffixInv
  BY DEF IInv
<1>2. UNCHANGED <<queue, state, ambiguous, failures, closing, closed, writing, written, inFlight,
                  replies, wire, executed, arrival, replied>>
  OBVIOUS
<1>3. BudgetInv'
  BY <1>1, <1>2 DEF BudgetInv
<1>4. QueueInv'
  BY <1>1, <1>2 DEF QueueInv, NothingForgotten, ToSet
<1>5. QuitInv'
  BY <1>1, <1>2 DEF QuitInv, QuitDrains
<1>6. SessionInv'
  BY <1>1, <1>2 DEF SessionInv
<1>7. ToSet(wire') = ToSet(wire) /\ ToSet(inFlight)' = ToSet(inFlight)
  BY <1>2 DEF ToSet
<1>8. WireInv'
  BY <1>1, <1>2, <1>7 DEF WireInv, Settled, OnWire
<1>9. ExposureInv'
  <2>1. \A r \in Requests : Exposed(r) => Exposed(r)'
    BY <1>2, <1>7 DEF Exposed, Settled
  <2> QED BY <2>1, <1>1, <1>2, <1>7, ExposureKeeps
<1>10. OrderInv'
  BY <1>1, <1>2 DEF OrderInv
<1>11. SuffixInv'
  BY <1>1, <1>2 DEF SuffixInv, Settled
<1> QED
  BY <1>3, <1>4, <1>5, <1>6, <1>8, <1>9, <1>10, <1>11 DEF IInv

LEMMA QuietSteps ==
    ASSUME IInv, \/ Disconnect \/ Loop \/ Reconnect \/ StartRead \/ ReadReply \/ ReadFails \/ Drop
                 \/ UNCHANGED vars
    PROVE  IInv'
<1>1. TypeOK /\ SessionInv /\ QuitInv
  BY DEF IInv
<1>2. /\ UNCHANGED <<queue, state, ambiguous, failures, closing, closed, writing, written, inFlight,
                     replies, wire, executed, arrival, replied>>
      /\ up' => up
  BY DEF Disconnect, Loop, Reconnect, StartRead, ReadReply, ReadFails, Drop, vars, queueVars,
         closeVars, sessionVars, writerVars, connVars, history
<1>3. pc' = pc \/ (pc \notin {"session", "exit", "done"} /\ pc' # "session")
  BY DEF Disconnect, Loop, Reconnect, StartRead, ReadReply, ReadFails, Drop, vars
<1>4. (inFlight = <<>> => reading' = "idle") /\ (reading' = "reply" => back' # <<>>)
  <2>1. CASE Disconnect
    BY <2>1, <1>1 DEF Disconnect, sessionVars, connVars, SessionInv
  <2>2. CASE Loop
    BY <2>2, <1>1 DEF Loop, sessionVars, connVars, SessionInv
  <2>3. CASE Reconnect
    BY <2>3, <1>1 DEF Reconnect, sessionVars, connVars, SessionInv
  <2>4. CASE StartRead
    BY <2>4, <1>1 DEF StartRead, connVars, SessionInv
  <2>5. CASE ReadReply
    BY <2>5, <1>1 DEF ReadReply, connVars, SessionInv
  <2>6. CASE ReadFails
    BY <2>6, <1>1 DEF ReadFails, SessionInv
  <2>7. CASE Drop
    BY <2>7, <1>1 DEF Drop, sessionVars, SessionInv
  <2>8. CASE UNCHANGED vars
    BY <2>8, <1>1 DEF vars, sessionVars, connVars, SessionInv
  <2> QED BY <2>1, <2>2, <2>3, <2>4, <2>5, <2>6, <2>7, <2>8
<1>5. TypeOK'
  <2>1. {closing', disconnecting', closed', ready', cancelled', up'} \subseteq BOOLEAN
    BY <1>1 DEF TypeOK, Disconnect, Loop, Reconnect, StartRead, ReadReply, ReadFails, Drop, vars,
                closeVars, connVars
  <2>2. /\ pc' \in {"loop", "connect", "session", "lost", "exit", "done"}
        /\ reading' \in {"idle", "busy", "reply", "error", "terminal"}
        /\ back' = back
    BY <1>1 DEF TypeOK, Disconnect, Loop, Reconnect, StartRead, ReadReply, ReadFails, Drop, vars,
                sessionVars, connVars
  <2> QED BY <2>1, <2>2, <1>1, <1>2 DEF TypeOK
<1> QED
  BY <1>2, <1>3, <1>4, <1>5, Quiet
(* A request joins the end of the queue.                                   *)
LEMMA SessionGrows ==
    ASSUME IInv, NEW r \in Requests, queue' = Append(queue, r),
           UNCHANGED <<pc, inFlight, writing, written, reading, replies, back>>
    PROVE  SessionInv'
<1>1. /\ queue \in Seq(Requests) /\ inFlight \in Seq(Requests) /\ SessionInv
      /\ DOMAIN inFlight = 1 .. Len(inFlight) /\ Len(inFlight) \in Nat
  BY SessionFacts DEF IInv
<1>2. /\ Len(queue) \in Nat /\ Len(queue') = Len(queue) + 1
      /\ \A k \in 1 .. Len(queue) : queue'[k] = queue[k]
  BY <1>1, AppendFacts
<1>3. Len(inFlight) <= Len(queue')
  BY <1>1, <1>2 DEF SessionInv
<1>4. \A i \in DOMAIN inFlight : inFlight[i] = queue'[i]
  <2>1. \A i \in DOMAIN inFlight : i \in 1 .. Len(queue) /\ inFlight[i] = queue[i]
    BY <1>1, <1>2 DEF SessionInv
  <2> QED BY <2>1, <1>2
<1>5. writing # NoRequest => Len(inFlight) < Len(queue') /\ writing = queue'[Len(inFlight) + 1]
  <2>1. SUFFICES ASSUME writing # NoRequest
                 PROVE  Len(inFlight) < Len(queue') /\ writing = queue'[Len(inFlight) + 1]
    OBVIOUS
  <2>2. Len(inFlight) < Len(queue) /\ writing = queue[Len(inFlight) + 1]
    BY <1>1, <2>1 DEF SessionInv
  <2>3. Len(inFlight) + 1 \in 1 .. Len(queue)
    BY <1>1, <1>2, <2>2
  <2> QED BY <2>2, <2>3, <1>1, <1>2
<1> QED BY <1>1, <1>3, <1>4, <1>5 DEF SessionInv

LEMMA QueueGrows ==
    ASSUME TypeOK, QueueInv, NEW r \in Requests, state[r] = "new",
           queue' = Append(queue, r), state' = [state EXCEPT ![r] = "queued"],
           \A i \in DOMAIN queue : queue[i] # QuitRequest,
           \/ r \in Submitted /\ arrival' = Append(arrival, r)
           \/ r = QuitRequest /\ arrival' = arrival
    PROVE  QueueInv'
<1>1. queue \in Seq(Requests) /\ arrival \in Seq(Requests)
  BY DEF TypeOK
<1>2. /\ DOMAIN queue = 1 .. Len(queue) /\ DOMAIN queue' = 1 .. Len(queue) + 1
      /\ Len(queue) \in Nat /\ Len(queue') = Len(queue) + 1 /\ queue'[Len(queue) + 1] = r
      /\ \A k \in 1 .. Len(queue) : queue'[k] = queue[k]
      /\ ToSet(queue') = ToSet(queue) \cup {r}
  BY <1>1, AppendFacts
<1>3. \A k \in 1 .. Len(queue) + 1 : k \in 1 .. Len(queue) \/ k = Len(queue) + 1
  BY <1>2
<1>4. /\ ToSet(queue) = {x \in Requests : state[x] = "queued"}
      /\ \A i, j \in DOMAIN queue : queue[i] = queue[j] => i = j
      /\ \A i \in DOMAIN arrival : arrival[i] \in Submitted /\ state[arrival[i]] # "new"
      /\ \A i, j \in DOMAIN arrival : arrival[i] = arrival[j] => i = j
      /\ \A i \in DOMAIN queue : queue[i] # QuitRequest => queue[i] \in ToSet(arrival)
      /\ \A i, j \in DOMAIN queue, a, b \in DOMAIN arrival :
            i < j /\ arrival[a] = queue[i] /\ arrival[b] = queue[j] => a < b
  BY DEF QueueInv, NothingForgotten
<1>5. state'[r] = "queued" /\ \A x \in Requests : x # r => state'[x] = state[x]
  BY DEF TypeOK
<1>6. \A k \in 1 .. Len(queue) : queue[k] # r
  <2>1. r \notin ToSet(queue)
    BY <1>4
  <2> QED BY <2>1, <1>2 DEF ToSet
<1>7. NothingForgotten'
  <2>1. ToSet(queue)' = {x \in Requests : state'[x] = "queued"}
    BY <1>2, <1>4, <1>5
  <2>2. \A k, l \in DOMAIN queue' : queue'[k] = queue'[l] => k = l
    BY <1>2, <1>3, <1>4, <1>6
  <2> QED BY <2>1, <2>2 DEF NothingForgotten
<1>8. \A k \in DOMAIN queue' : queue'[k] = QuitRequest => k = Len(queue')
  BY <1>2, <1>3
<1>9. CASE r \in Submitted /\ arrival' = Append(arrival, r)
  <2>1. /\ DOMAIN arrival = 1 .. Len(arrival) /\ DOMAIN arrival' = 1 .. Len(arrival) + 1
        /\ Len(arrival) \in Nat /\ arrival'[Len(arrival) + 1] = r
        /\ \A k \in 1 .. Len(arrival) : arrival'[k] = arrival[k]
        /\ ToSet(arrival') = ToSet(arrival) \cup {r}
    BY <1>1, <1>9, AppendFacts
  <2>2. \A k \in 1 .. Len(arrival) + 1 : k \in 1 .. Len(arrival) \/ k = Len(arrival) + 1
    BY <2>1
  <2>3. \A k \in 1 .. Len(arrival) : arrival[k] # r /\ arrival[k] \in Requests
    <3>1. \A k \in 1 .. Len(arrival) : arrival[k] \in Requests
      BY <1>1
    <3>2. \A k \in DOMAIN arrival : state[arrival[k]] # "new"
      BY <1>4
    <3> QED BY <3>1, <3>2, <2>1
  <2>4. \A i \in DOMAIN arrival' : arrival'[i] \in Submitted /\ state'[arrival'[i]] # "new"
    <3>1. SUFFICES ASSUME NEW i \in DOMAIN arrival'
                   PROVE  arrival'[i] \in Submitted /\ state'[arrival'[i]] # "new"
      OBVIOUS
    <3>2. CASE i \in 1 .. Len(arrival)
      <4>1. arrival'[i] = arrival[i] /\ arrival[i] # r /\ arrival[i] \in Requests
        BY <3>2, <2>1, <2>3
      <4>2. arrival[i] \in Submitted /\ state[arrival[i]] # "new"
        BY <3>2, <1>4, <2>1
      <4> QED BY <4>1, <4>2, <1>5
    <3>3. CASE i = Len(arrival) + 1
      BY <3>3, <1>5, <1>9, <2>1
    <3> QED BY <3>2, <3>3, <2>1, <2>2
  <2>5. \A i, j \in DOMAIN arrival' : arrival'[i] = arrival'[j] => i = j
    BY <1>4, <2>1, <2>2, <2>3
  <2>6. \A i \in DOMAIN queue' : queue'[i] # QuitRequest => queue'[i] \in ToSet(arrival')
    BY <1>2, <1>3, <1>4, <2>1
  <2>7. ASSUME NEW i \in DOMAIN queue', NEW j \in DOMAIN queue', NEW a \in DOMAIN arrival',
               NEW b \in DOMAIN arrival', i < j, arrival'[a] = queue'[i], arrival'[b] = queue'[j]
        PROVE  a < b
    <3>1. i \in 1 .. Len(queue) /\ queue'[i] = queue[i] /\ queue[i] # r
      BY <2>7, <1>2, <1>6
    <3>2. a \in 1 .. Len(arrival) /\ arrival'[a] = arrival[a]
      BY <2>7, <3>1, <2>1, <2>2
    <3>3. CASE j = Len(queue) + 1
      <4>1. arrival'[b] = r
        BY <3>3, <2>7, <1>2
      <4>2. b = Len(arrival) + 1
        BY <4>1, <2>1, <2>2, <2>3, <2>7
      <4> QED BY <3>2, <4>2, <2>1
    <3>4. CASE j \in 1 .. Len(queue)
      <4>1. queue'[j] = queue[j] /\ queue[j] # r
        BY <3>4, <1>2, <1>6
      <4>2. b \in 1 .. Len(arrival) /\ arrival'[b] = arrival[b]
        BY <2>7, <4>1, <2>1, <2>2
      <4>3. /\ i \in DOMAIN queue /\ j \in DOMAIN queue
            /\ a \in DOMAIN arrival /\ b \in DOMAIN arrival
            /\ arrival[a] = queue[i] /\ arrival[b] = queue[j]
        BY <2>7, <3>1, <3>2, <3>4, <4>1, <4>2, <1>2, <2>1
      <4> QED BY <4>3, <2>7, <1>4
    <3> QED BY <3>3, <3>4, <2>7, <1>2, <1>3
  <2> QED BY <1>7, <1>8, <2>4, <2>5, <2>6, <2>7 DEF QueueInv
<1>10. CASE r = QuitRequest /\ arrival' = arrival
  <2>1. \A i \in DOMAIN arrival : arrival[i] # r /\ arrival[i] \in Requests
    BY <1>4, <1>10, RequestFacts
  <2>2. \A i \in DOMAIN arrival' : arrival'[i] \in Submitted /\ state'[arrival'[i]] # "new"
    BY <1>4, <1>5, <1>10, <2>1
  <2>3. \A i \in DOMAIN queue' : queue'[i] # QuitRequest => queue'[i] \in ToSet(arrival)'
    BY <1>2, <1>3, <1>4, <1>10
  <2>4. ASSUME NEW i \in DOMAIN queue', NEW j \in DOMAIN queue', NEW a \in DOMAIN arrival,
               NEW b \in DOMAIN arrival, i < j, arrival[a] = queue'[i], arrival[b] = queue'[j]
        PROVE  a < b
    <3>1. i \in 1 .. Len(queue) /\ queue'[i] = queue[i]
      BY <2>4, <1>2
    <3>2. j \in 1 .. Len(queue) /\ queue'[j] = queue[j]
      BY <2>4, <2>1, <1>2, <1>3
    <3> QED BY <3>1, <3>2, <2>4, <1>2, <1>4
  <2> QED BY <1>4, <1>7, <1>8, <1>10, <2>2, <2>3, <2>4 DEF QueueInv
<1> QED BY <1>9, <1>10

LEMMA SubmitKeeps == ASSUME IInv, NEW r \in Submitted, Submit(r) PROVE IInv'
<1>1. /\ TypeOK /\ BudgetInv /\ QueueInv /\ QuitInv /\ SessionInv
      /\ WireInv /\ ExposureInv /\ OrderInv /\ SuffixInv
  BY DEF IInv
<1>2. /\ r \in Requests /\ r # QuitRequest /\ state[r] = "new"
      /\ UNCHANGED <<ambiguous, failures, closing, disconnecting, closed, cancelled, ready, pc,
                     writing, written, inFlight, replies, reading, up, wire, back, executed, replied>>
  BY RequestFacts DEF Submit, closeVars, sessionVars, writerVars, connVars
<1>3. PICK s \in {"rejected", "queued"} : state' = [state EXCEPT ![r] = s]
  BY DEF Submit
<1>4. /\ state'[r] = s /\ \A x \in Requests : x # r => state'[x] = state[x]
      /\ \A x \in Requests : Settled(x)' <=> Settled(x)
      /\ state' \in [Requests -> Results \cup {"new", "rejected", "queued"}]
  <2>1. /\ state'[r] = s /\ \A x \in Requests : x # r => state'[x] = state[x]
        /\ state' \in [Requests -> Results \cup {"new", "rejected", "queued"}]
    BY <1>1, <1>2, <1>3 DEF TypeOK
  <2> QED BY <2>1, <1>2, <1>3 DEF Settled, Results
<1>5. queue' \in Seq(Requests) /\ arrival' \in Seq(Requests)
  <2>1. queue' \in {queue, Append(queue, r)} /\ arrival' \in {arrival, Append(arrival, r)}
    BY DEF Submit
  <2>2. queue \in Seq(Requests) /\ arrival \in Seq(Requests)
    BY <1>1 DEF TypeOK
  <2>3. Append(queue, r) \in Seq(Requests) /\ Append(arrival, r) \in Seq(Requests)
    BY <2>2, <1>2
  <2> QED BY <2>1, <2>2, <2>3
<1>6. TypeOK'
  BY <1>1, <1>2, <1>4, <1>5 DEF TypeOK
<1>7. failures[r] = 0 /\ ambiguous[r] = 0
  <2>1. failures[r] = 0 /\ ambiguous[r] <= failures[r] /\ ambiguous[r] \in Nat
    BY <1>1, <1>2, CountFacts DEF BudgetInv
  <2> QED BY <2>1
<1>8. BudgetInv'
  <2>1. SUFFICES ASSUME NEW x \in Requests
                 PROVE  /\ state'[x] \in {"new", "rejected"} => failures[x] = 0
                        /\ state'[x] = "queued" => failures[x] <= MaxRetries
                        /\ ambiguous[x] <= failures[x]
                        /\ IsExclusive(x) => ambiguous[x] = 0
    BY <1>2 DEF BudgetInv
  <2>2. CASE x = r
    BY <2>2, <1>7, ClientAssumption
  <2>3. CASE x # r
    BY <2>3, <1>1, <1>4 DEF BudgetInv
  <2> QED BY <2>2, <2>3
<1>9. ToSet(wire)' = ToSet(wire) /\ ToSet(inFlight)' = ToSet(inFlight)
  BY <1>2 DEF ToSet
<1>10. WireInv'
  <2>1. \A k \in DOMAIN wire : wire[k][1] \in Requests
    BY <1>1 DEF TypeOK
  <2> QED BY <2>1, <1>1, <1>2, <1>4, <1>9 DEF WireInv, OnWire, Settled
<1>11. ExposureInv'
  <2>1. ASSUME NEW x \in Requests, Exposed(x) PROVE Exposed(x)'
    <3>1. x # r
      BY <2>1, <1>2 DEF Exposed
    <3> QED BY <2>1, <3>1, <1>2, <1>4, <1>9 DEF Exposed
  <2> QED BY <2>1, <1>1, <1>2, <1>6, <1>9, ExposureKeeps
<1>12. SuffixInv'
  <2>1. \A x \in replied : x \in Requests
    BY <1>1 DEF TypeOK
  <2> QED BY <2>1, <1>1, <1>2, <1>4 DEF SuffixInv
<1>13. executed[r][1] = 0 /\ ~OnWire(r, 1)
  <2>1. executed[r][1] + Count(OnWire(r, 1)) <= ambiguous[r] + Count(Exposed(r))
    BY <1>1, <1>2, CountFacts DEF ExposureInv
  <2>2. ~Exposed(r)
    BY <1>2 DEF Exposed
  <2>3. executed[r][1] \in Nat
    BY <1>1, <1>2, CountFacts
  <2> QED BY <2>1, <2>2, <2>3, <1>7 DEF Count
<1>14. CASE s = "rejected" /\ queue' = queue /\ arrival' = arrival
  <2>1. QueueInv'
    <3>1. {x \in Requests : state'[x] = "queued"} = {x \in Requests : state[x] = "queued"}
      BY <1>2, <1>4, <1>14
    <3>2. \A i \in DOMAIN arrival : state'[arrival[i]] # "new"
      BY <1>1, <1>4, <1>14, RequestFacts DEF QueueInv
    <3> QED BY <3>1, <3>2, <1>1, <1>14 DEF QueueInv, NothingForgotten, ToSet
  <2>2. QuitInv'
    <3>1. state'[QuitRequest] = state[QuitRequest]
      BY <1>2, <1>4, RequestFacts
    <3>2. \A x \in Submitted : x \in Requests /\ (state'[x] = state[x] \/ state'[x] = "rejected")
      BY <1>4, <1>14, RequestFacts
    <3> QED BY <3>1, <3>2, <1>1, <1>2 DEF QuitInv, QuitDrains
  <2>3. SessionInv'
    BY <1>1, <1>2, <1>14 DEF SessionInv
  <2>4. OrderInv'
    <3>1. \A a \in DOMAIN arrival : state'[arrival[a]] = "queued" => state[arrival[a]] = "queued"
      BY <1>1, <1>4, <1>14, RequestFacts DEF QueueInv
    <3> QED BY <3>1, <1>1, <1>2, <1>14 DEF OrderInv
  <2> QED
    BY <2>1, <2>2, <2>3, <2>4, <1>6, <1>8, <1>10, <1>11, <1>12 DEF IInv
<1>15. CASE s = "queued" /\ queue' = Append(queue, r) /\ arrival' = Append(arrival, r) /\ ~closing
  <2>1. state[QuitRequest] = "new"
    BY <1>1, <1>15 DEF QuitInv
  <2>2. QueueInv'
    <3>1. QuitRequest \notin ToSet(queue)
      BY <2>1, <1>1 DEF QueueInv, NothingForgotten
    <3>2. \A i \in DOMAIN queue : queue[i] # QuitRequest
      BY <3>1 DEF ToSet
    <3> QED BY <3>2, <1>1, <1>2, <1>3, <1>15, QueueGrows
  <2>3. QuitInv'
    <3>1. state'[QuitRequest] = "new"
      BY <2>1, <1>2, <1>4, RequestFacts
    <3>2. \A x \in Submitted : x \in Requests /\ (state'[x] = state[x] \/ state'[x] = "queued")
      BY <1>4, <1>15, RequestFacts
    <3> QED BY <3>1, <3>2, <1>1, <1>2 DEF QuitInv, QuitDrains
  <2>4. SessionInv'
    BY <1>2, <1>15, SessionGrows
  <2>5. OrderInv'
    <3>1. arrival \in Seq(Requests)
      BY <1>1 DEF TypeOK
    <3>2. /\ DOMAIN arrival = 1 .. Len(arrival) /\ DOMAIN arrival' = 1 .. Len(arrival) + 1
          /\ Len(arrival) \in Nat /\ arrival'[Len(arrival) + 1] = r
          /\ \A k \in 1 .. Len(arrival) : arrival'[k] = arrival[k]
      BY <3>1, <1>2, <1>15, AppendFacts
    <3>3. \A k \in 1 .. Len(arrival) + 1 : k \in 1 .. Len(arrival) \/ k = Len(arrival) + 1
      BY <3>2
    <3>4. SUFFICES ASSUME NEW a \in DOMAIN arrival', NEW b \in DOMAIN arrival', a < b,
                          state'[arrival'[a]] = "queued"
                   PROVE  /\ executed[arrival'[b]][1] > 0 => executed[arrival'[a]][1] > 0
                          /\ \A k \in DOMAIN wire : wire[k] = <<arrival'[b], 1>> =>
                                \/ executed[arrival'[a]][1] > 0
                                \/ \E m \in DOMAIN wire : m < k /\ wire[m] = <<arrival'[a], 1>>
      BY <1>2 DEF OrderInv
    <3>5. CASE b = Len(arrival) + 1
      <4>1. arrival'[b] = r
        BY <3>2, <3>5
      <4>2. \A k \in DOMAIN wire : wire[k] # <<r, 1>>
        BY <1>13 DEF OnWire, ToSet
      <4> QED BY <4>1, <4>2, <1>13
    <3>6. CASE b # Len(arrival) + 1
      <4>1. a \in 1 .. Len(arrival) /\ b \in 1 .. Len(arrival)
        BY <3>2, <3>3, <3>4, <3>6
      <4>2. arrival'[a] = arrival[a] /\ arrival'[b] = arrival[b]
        BY <4>1, <3>2
      <4>3. arrival[a] \in Requests /\ state[arrival[a]] # "new"
        BY <4>1, <3>2, <1>1, RequestFacts DEF QueueInv
      <4>4. state[arrival[a]] = "queued"
        BY <4>2, <4>3, <3>4, <1>2, <1>4
      <4> QED BY <4>1, <4>2, <4>4, <3>2, <3>4, <1>1 DEF OrderInv
    <3> QED BY <3>5, <3>6
  <2> QED
    BY <2>2, <2>3, <2>4, <2>5, <1>6, <1>8, <1>10, <1>11, <1>12 DEF IInv
<1>16. \/ s = "rejected" /\ queue' = queue /\ arrival' = arrival
       \/ s = "queued" /\ queue' = Append(queue, r) /\ arrival' = Append(arrival, r) /\ ~closing
  <2>1. CASE closed \/ closing \/ disconnecting
    <3>1. state' = [state EXCEPT ![r] = "rejected"] /\ queue' = queue /\ arrival' = arrival
      BY <2>1 DEF Submit
    <3>2. state'[r] = "rejected"
      BY <3>1, <1>1, <1>2 DEF TypeOK
    <3> QED BY <3>1, <3>2, <1>4
  <2>2. CASE ~(closed \/ closing \/ disconnecting)
    <3>1. /\ state' = [state EXCEPT ![r] = "queued"]
          /\ queue' = Append(queue, r) /\ arrival' = Append(arrival, r)
      BY <2>2 DEF Submit
    <3>2. state'[r] = "queued"
      BY <3>1, <1>1, <1>2 DEF TypeOK
    <3> QED BY <2>2, <3>1, <3>2, <1>4
  <2> QED BY <2>1, <2>2
<1> QED BY <1>14, <1>15, <1>16

LEMMA QuitKeeps == ASSUME IInv, Quit PROVE IInv'
<1>1. /\ TypeOK /\ BudgetInv /\ QueueInv /\ QuitInv /\ SessionInv
      /\ WireInv /\ ExposureInv /\ OrderInv /\ SuffixInv
  BY DEF IInv
<1>2. /\ ~closed /\ ~closing /\ closing' = TRUE
      /\ UNCHANGED <<ambiguous, failures, closed, ready, pc, writing, written, inFlight, replies,
                     reading, up, wire, back, executed, arrival, replied>>
  BY DEF Quit, sessionVars, writerVars, connVars, history
<1>3. PICK s \in {"answered", "queued"} :
         /\ state' = [state EXCEPT ![QuitRequest] = s]
         /\ s = "answered" => queue = <<>> /\ queue' = queue
         /\ s = "queued" => queue' = Append(queue, QuitRequest)
  BY DEF Quit, OfflineAndEmpty
<1>4. QuitRequest \in Requests /\ state[QuitRequest] = "new"
  BY <1>1, <1>2, RequestFacts DEF QuitInv
<1>5. /\ state'[QuitRequest] = s
      /\ \A x \in Requests : x # QuitRequest => state'[x] = state[x]
      /\ state' \in [Requests -> Results \cup {"new", "rejected", "queued"}]
  BY <1>1, <1>3, <1>4 DEF TypeOK, Results
<1>6. TypeOK'
  <2>1. queue' \in Seq(Requests)
    <3>1. queue \in Seq(Requests)
      BY <1>1 DEF TypeOK
    <3>2. Append(queue, QuitRequest) \in Seq(Requests)
      BY <3>1, <1>4
    <3> QED BY <3>1, <3>2, <1>3
  <2>2. {closing', disconnecting', closed', ready', cancelled', up'} \subseteq BOOLEAN
    BY <1>1, <1>2 DEF TypeOK, Quit
  <2> QED BY <2>1, <2>2, <1>1, <1>2, <1>5 DEF TypeOK
<1>7. \A x \in Requests : Settled(x) => Settled(x)'
  BY <1>4, <1>5 DEF Settled, Results
<1>8. BudgetInv'
  <2>1. SUFFICES ASSUME NEW x \in Requests
                 PROVE  /\ state'[x] \in {"new", "rejected"} => failures[x] = 0
                        /\ state'[x] = "queued" => failures[x] <= MaxRetries
                        /\ ambiguous[x] <= failures[x]
                        /\ IsExclusive(x) => ambiguous[x] = 0
    BY <1>2 DEF BudgetInv
  <2>2. CASE x = QuitRequest
    <3>1. failures[x] = 0 /\ 0 <= MaxRetries
      BY <2>2, <1>1, <1>4, ClientAssumption DEF BudgetInv
    <3> QED BY <3>1, <1>1 DEF BudgetInv
  <2>3. CASE x # QuitRequest
    BY <2>3, <1>1, <1>5 DEF BudgetInv
  <2> QED BY <2>2, <2>3
<1>9. ToSet(wire)' = ToSet(wire) /\ ToSet(inFlight)' = ToSet(inFlight)
  BY <1>2 DEF ToSet
<1>10. WireInv'
  <2>1. \A k \in DOMAIN wire : wire[k][1] \in Requests
    BY <1>1 DEF TypeOK
  <2>2. \A k \in DOMAIN wire : Settled(wire[k][1]) => Settled(wire[k][1])'
    BY <2>1, <1>2, <1>7 DEF Settled
  <2> QED BY <2>2, <1>1, <1>2, <1>9 DEF WireInv, OnWire
<1>11. ExposureInv'
  <2>1. ASSUME NEW x \in Requests, Exposed(x) PROVE Exposed(x)'
    <3>1. x # QuitRequest
      BY <2>1, <1>4 DEF Exposed
    <3> QED BY <2>1, <3>1, <1>2, <1>5, <1>7, <1>9 DEF Exposed
  <2> QED BY <2>1, <1>1, <1>2, <1>6, <1>9, ExposureKeeps
<1>12. SuffixInv'
  <2>1. \A x \in replied : x \in Requests
    BY <1>1 DEF TypeOK
  <2> QED BY <2>1, <1>1, <1>2, <1>7 DEF SuffixInv
<1>13. OrderInv'
  <2>1. \A a \in DOMAIN arrival : state'[arrival[a]] = state[arrival[a]]
    BY <1>1, <1>5, RequestFacts DEF QueueInv
  <2> QED BY <2>1, <1>1, <1>2 DEF OrderInv
<1>14. QuitRequest \notin ToSet(queue)
  BY <1>1, <1>4 DEF QueueInv, NothingForgotten
<1>15. \A x \in Submitted : state'[x] = state[x] /\ state'[x] # "closed" /\ x \in Requests
  BY <1>1, <1>2, <1>5, RequestFacts DEF QuitInv
<1>16. CASE s = "answered"
  <2>1. QueueInv'
    <3>1. \A i \in DOMAIN arrival : state'[arrival[i]] # "new"
      BY <1>1, <1>15 DEF QueueInv
    <3>2. {x \in Requests : state'[x] = "queued"} = {x \in Requests : state[x] = "queued"}
      BY <1>4, <1>5, <1>16
    <3> QED BY <3>1, <3>2, <1>1, <1>2, <1>3, <1>16 DEF QueueInv, NothingForgotten, ToSet
  <2>2. QuitInv'
    <3>1. \A x \in Submitted : state[x] # "queued"
      <4>1. ToSet(queue) = {}
        BY <1>3, <1>16 DEF ToSet
      <4> QED BY <4>1, <1>1, <1>15 DEF QueueInv, NothingForgotten
    <3> QED BY <3>1, <1>1, <1>2, <1>15 DEF QuitInv, QuitDrains
  <2>3. SessionInv'
    BY <1>1, <1>2, <1>3, <1>16 DEF SessionInv
  <2> QED
    BY <2>1, <2>2, <2>3, <1>6, <1>8, <1>10, <1>11, <1>12, <1>13 DEF IInv
<1>17. CASE s = "queued"
  <2>1. QueueInv'
    <3>1. \A i \in DOMAIN queue : queue[i] # QuitRequest
      BY <1>14 DEF ToSet
    <3> QED BY <3>1, <1>1, <1>2, <1>3, <1>4, <1>17, QueueGrows
  <2>2. QuitInv'
    BY <1>1, <1>2, <1>5, <1>15, <1>17 DEF QuitInv, QuitDrains
  <2>3. SessionInv'
    BY <1>2, <1>3, <1>4, <1>17, SessionGrows
  <2> QED
    BY <2>1, <2>2, <2>3, <1>6, <1>8, <1>10, <1>11, <1>12, <1>13 DEF IInv
<1> QED BY <1>16, <1>17

(* Requests are settled while no session is under way.                     *)
LEMMA SettleIdle ==
    ASSUME IInv, TypeOK', BudgetInv', QuitInv', pc # "session", pc' # "session",
           pc \in {"exit", "done"} => pc' \in {"exit", "done"}, up' => up,
           UNCHANGED <<ambiguous, writing, written, inFlight, replies, reading, wire, back,
                       executed, arrival, replied>>,
           NEW S, S \subseteq ToSet(queue), SubOf(queue', queue, S),
           \A r \in S : state'[r] \in Results,
           \A r \in Requests : r \notin S => state'[r] = state[r]
    PROVE  IInv'
<1>1. /\ TypeOK /\ QueueInv /\ QuitInv /\ SessionInv
      /\ WireInv /\ ExposureInv /\ OrderInv /\ SuffixInv
  BY DEF IInv
<1>2. inFlight = <<>> /\ writing = NoRequest /\ written = "none" /\ reading = "idle" /\ replies = 0
  BY <1>1 DEF SessionInv
<1>3. queue' \in Seq(Requests) /\ state' \in [Requests -> Results \cup {"new", "rejected", "queued"}]
  BY DEF TypeOK
<1>4. \A r \in Requests : Settled(r) => Settled(r)'
  BY DEF Settled
<1>5. QueueInv'
  BY <1>1, <1>3, QueueShrinks
<1>6. SessionInv'
  <2>1. Len(<<>>) = 0 /\ Len(queue') \in Nat /\ DOMAIN <<>> = {}
    BY <1>3
  <2> QED BY <1>2, <2>1, RequestFacts DEF SessionInv
<1>7. ToSet(wire)' = ToSet(wire) /\ ToSet(inFlight)' = ToSet(inFlight)
  BY DEF ToSet
<1>8. WireInv'
  <2>1. \A k \in DOMAIN wire : wire[k][1] \in Requests
    BY <1>1 DEF TypeOK
  <2>2. \A k \in DOMAIN wire : Settled(wire[k][1]) => Settled(wire[k][1])'
    BY <2>1, <1>4 DEF Settled
  <2> QED BY <2>2, <1>1, <1>7 DEF WireInv, OnWire
<1>9. ExposureInv'
  <2>1. ASSUME NEW r \in Requests, Exposed(r) PROVE Exposed(r)'
    <3>1. state'[r] \notin {"new", "rejected"}
      BY <2>1 DEF Exposed, Results
    <3> QED BY <2>1, <3>1, <1>4, <1>7 DEF Exposed
  <2> QED BY <2>1, <1>1, <1>7, ExposureKeeps
<1>10. OrderInv'
  <2>1. \A a \in DOMAIN arrival : state'[arrival[a]] = "queued" => state[arrival[a]] = "queued"
    <3>1. \A a \in DOMAIN arrival : arrival[a] \in Requests
      BY <1>1, RequestFacts DEF QueueInv
    <3> QED BY <3>1 DEF Results
  <2> QED BY <2>1, <1>1 DEF OrderInv
<1>11. SuffixInv'
  <2>1. \A x \in replied : x \in Requests
    BY <1>1 DEF TypeOK
  <2> QED BY <2>1, <1>1, <1>2, <1>4 DEF SuffixInv
<1> QED
  BY <1>5, <1>6, <1>8, <1>9, <1>10, <1>11 DEF IInv

LEMMA FinishClosedKeeps == ASSUME IInv, FinishClosed PROVE IInv'
<1>1. TypeOK /\ BudgetInv /\ QueueInv /\ QuitInv
  BY DEF IInv
<1>2. /\ pc = "exit" /\ pc' = "done" /\ closed' = TRUE /\ up' = FALSE /\ queue' = <<>>
      /\ ready' = FALSE
      /\ state' = [r \in Requests |-> IF r \in ToSet(queue) THEN "closed" ELSE state[r]]
      /\ UNCHANGED <<ambiguous, failures, closing, disconnecting, cancelled, writing, written,
                     inFlight, replies, reading, wire, back, executed, arrival, replied>>
  BY DEF FinishClosed, sessionVars, writerVars, history
<1>3. /\ state' \in [Requests -> Results \cup {"new", "rejected", "queued"}]
      /\ \A r \in ToSet(queue) : r \in Requests /\ state[r] = "queued" /\ state'[r] = "closed"
      /\ \A r \in Requests : r \notin ToSet(queue) => state'[r] = state[r] /\ state[r] # "queued"
  BY <1>1, <1>2 DEF TypeOK, Results, QueueInv, NothingForgotten
<1>4. TypeOK'
  <2>1. <<>> \in Seq(Requests)
    OBVIOUS
  <2>2. {closing', disconnecting', closed', ready', cancelled', up'} \subseteq BOOLEAN
    BY <1>1, <1>2 DEF TypeOK
  <2> QED BY <2>1, <2>2, <1>1, <1>2, <1>3 DEF TypeOK
<1>5. BudgetInv'
  <2>1. SUFFICES ASSUME NEW x \in Requests
                 PROVE  /\ state'[x] \in {"new", "rejected"} => failures[x] = 0
                        /\ state'[x] = "queued" => failures[x] <= MaxRetries
                        /\ ambiguous[x] <= failures[x]
                        /\ IsExclusive(x) => ambiguous[x] = 0
    BY <1>2 DEF BudgetInv
  <2> QED BY <1>1, <1>3 DEF BudgetInv
<1>6. QuitInv'
  <2>1. state'[QuitRequest] # "new" => closing
    BY <1>1, <1>3, RequestFacts DEF QuitInv
  <2>2. ASSUME state'[QuitRequest] = "answered", NEW r \in Submitted
        PROVE  state'[r] \notin {"queued", "closed"}
    <3>1. state[QuitRequest] = "answered" /\ r \in Requests
      BY <2>2, <1>3, RequestFacts
    <3>2. state[r] \notin {"queued", "closed"}
      BY <3>1, <1>1 DEF QuitInv, QuitDrains
    <3> QED BY <3>1, <3>2, <1>3
  <2> QED BY <2>1, <2>2, <1>2 DEF QuitInv, QuitDrains
<1>7. SubOf(queue', queue, ToSet(queue))
  <2>1. queue \in Seq(Requests) /\ DOMAIN queue = 1 .. Len(queue)
    BY <1>1 DEF TypeOK
  <2>2. \A i \in 1 .. Len(queue) : queue[i] \in ToSet(queue)
    BY <2>1 DEF ToSet
  <2>3. Embeds(<<>>, <<>>, queue, ToSet(queue), Len(queue))
    BY <2>2 DEF Embeds
  <2> QED BY <2>3, <1>2 DEF SubOf
<1>8. \A r \in ToSet(queue) : state'[r] \in Results
  BY <1>3 DEF Results
<1> QED BY <1>2, <1>3, <1>4, <1>5, <1>6, <1>7, <1>8, SettleIdle

LEMMA ConnectKeeps == ASSUME IInv, Connect PROVE IInv'
<1>1. /\ TypeOK /\ BudgetInv /\ QueueInv /\ QuitInv /\ SessionInv
      /\ WireInv /\ ExposureInv /\ OrderInv /\ SuffixInv
  BY DEF IInv
<1>2. /\ pc = "connect" /\ inFlight = <<>> /\ writing = NoRequest /\ written = "none"
      /\ reading = "idle" /\ replies = 0
      /\ UNCHANGED <<writing, written, inFlight, replies, reading, executed, arrival, replied>>
  BY <1>1 DEF Connect, SessionInv, sessionVars, writerVars, history
<1>3. CASE /\ pc' = "session" /\ ready' = TRUE
           /\ up' = TRUE /\ wire' = <<>> /\ back' = <<>>
           /\ UNCHANGED <<queueVars, closeVars>>
  <2>1. UNCHANGED <<queue, state, ambiguous, failures, closing, disconnecting, closed, cancelled>>
    BY <1>3 DEF queueVars, closeVars
  <2>2. TypeOK'
    <3>1. <<>> \in Seq(Requests) /\ <<>> \in Seq(Requests \X (1 .. PipelineSize))
      OBVIOUS
    <3>2. {closing', disconnecting', closed', ready', cancelled', up'} \subseteq BOOLEAN
      BY <1>1, <1>3, <2>1 DEF TypeOK
    <3> QED BY <3>1, <3>2, <1>1, <1>2, <1>3, <2>1 DEF TypeOK
  <2>3. BudgetInv' /\ QueueInv'
    BY <1>1, <1>2, <2>1 DEF BudgetInv, QueueInv, NothingForgotten, ToSet
  <2>4. QuitInv'
    BY <1>1, <1>2, <1>3, <2>1 DEF QuitInv, QuitDrains
  <2>5. SessionInv'
    BY <1>1, <1>2, <1>3, <2>1 DEF SessionInv
  <2>6. ToSet(wire') = {} /\ ToSet(inFlight)' = {} /\ ToSet(inFlight) = {} /\ DOMAIN <<>> = {}
    BY <1>2, <1>3 DEF ToSet
  <2>7. WireInv'
    <3>1. writing' = NoRequest /\ NoRequest \notin Requests
      BY <1>2, RequestFacts
    <3> QED BY <1>3, <2>6, <3>1 DEF WireInv
  <2>8. ExposureInv'
    <3>1. ASSUME NEW r \in Requests, Exposed(r) PROVE Exposed(r)'
      <4>1. Settled(r)
        BY <3>1, <1>2, <2>6 DEF Exposed
      <4> QED BY <4>1, <3>1, <2>1 DEF Exposed, Settled
    <3> QED BY <3>1, <1>1, <1>2, <2>1, <2>2, <2>6, ExposureKeeps
  <2>9. OrderInv'
    BY <1>1, <1>2, <1>3, <2>1, <2>6 DEF OrderInv
  <2>10. SuffixInv'
    BY <1>1, <1>2, <2>1 DEF SuffixInv, Settled
  <2> QED
    BY <2>2, <2>3, <2>4, <2>5, <2>7, <2>8, <2>9, <2>10 DEF IInv
<1>4. CASE /\ Charge(ToSet(queue), queue, state)
           /\ pc' = "loop"
           /\ UNCHANGED <<ambiguous, ready, connVars>>
  <2> DEFINE Q == ToSet(queue)
             S == Exhausted(Q)
  <2>1. UNCHANGED <<ambiguous, ready, up, wire, back>>
    BY <1>4 DEF connVars
  <2>2. /\ Q \in SUBSET Requests /\ \A r \in Q : state[r] = "queued"
        /\ queue \in Seq(Requests)
        /\ state \in [Requests -> Results \cup {"new", "rejected", "queued"}]
        /\ Charge(Q, queue, state)
    BY <1>1, <1>4, SessionFacts DEF TypeOK
  <2> HIDE DEF Q
  <2>3. /\ queue' \in Seq(Requests) /\ SubOf(queue', queue, S)
        /\ state' \in [Requests -> Results \cup {"new", "rejected", "queued"}]
        /\ failures' \in [Requests -> 0 .. MaxRetries + 1]
        /\ closing' = closing /\ closed' = closed
        /\ {disconnecting', cancelled'} \subseteq BOOLEAN
        /\ S \subseteq Q
        /\ \A r \in S : state'[r] = "exhausted"
        /\ \A r \in Requests : r \notin S => state'[r] = state[r]
        /\ \A r \in Q : failures'[r] = failures[r] + 1
        /\ \A r \in Requests : r \notin Q => failures'[r] = failures[r]
        /\ \A r \in Q : r \notin S => failures'[r] <= MaxRetries
    BY <1>1, <2>2, ChargeFacts
  <2> HIDE DEF S
  <2>4. TypeOK'
    <3>1. {closing', disconnecting', closed', ready', cancelled', up'} \subseteq BOOLEAN
      BY <1>1, <2>1, <2>3 DEF TypeOK
    <3> QED BY <3>1, <1>1, <1>2, <1>4, <2>1, <2>3 DEF TypeOK
  <2>5. BudgetInv'
    <3>1. SUFFICES ASSUME NEW r \in Requests
                   PROVE  /\ state'[r] \in {"new", "rejected"} => failures'[r] = 0
                          /\ state'[r] = "queued" => failures'[r] <= MaxRetries
                          /\ ambiguous[r] <= failures'[r]
                          /\ IsExclusive(r) => ambiguous[r] = 0
      BY <2>1 DEF BudgetInv
    <3>2. /\ ambiguous[r] \in Nat /\ failures[r] \in 0 .. MaxRetries + 1
          /\ ambiguous[r] <= failures[r] /\ (IsExclusive(r) => ambiguous[r] = 0)
      BY <1>1, CountFacts DEF BudgetInv, TypeOK
    <3>3. CASE r \in Q
      <4>1. failures'[r] = failures[r] + 1
        BY <3>3, <2>3
      <4>2. ambiguous[r] <= failures'[r]
        BY <4>1, <3>2, ClientAssumption
      <4>3. state'[r] \in {"queued", "exhausted"} /\ (state'[r] = "queued" => r \notin S)
        BY <3>3, <2>2, <2>3
      <4> QED BY <3>2, <3>3, <4>2, <4>3, <2>3
    <3>4. CASE r \notin Q
      <4>1. failures'[r] = failures[r] /\ state'[r] = state[r]
        BY <3>4, <2>3
      <4> QED BY <3>2, <4>1, <1>1 DEF BudgetInv
    <3> QED BY <3>3, <3>4
  <2>6. QuitInv'
    <3>1. state'[QuitRequest] # "new" => closing
      BY <1>1, <2>2, <2>3, RequestFacts DEF QuitInv
    <3>2. ~closed
      BY <1>1, <1>2 DEF QuitInv
    <3>3. ASSUME NEW r \in Submitted PROVE state'[r] # "closed"
      BY <3>2, <1>1, <2>3, RequestFacts DEF QuitInv
    <3>4. ASSUME state'[QuitRequest] = "answered", NEW r \in Submitted PROVE state'[r] # "queued"
      <4>1. state[QuitRequest] = "answered"
        BY <3>4, <2>3, RequestFacts
      <4>2. state[r] # "queued" /\ r \in Requests
        BY <4>1, <1>1, RequestFacts DEF QuitInv, QuitDrains
      <4> QED BY <4>2, <2>3
    <3> QED BY <3>1, <3>2, <3>3, <3>4, <2>3 DEF QuitInv, QuitDrains
  <2>7. \A r \in S : state'[r] \in Results
    BY <2>3 DEF Results
  <2>8. S \subseteq ToSet(queue)
    BY <2>3 DEF Q
  <2> QED
    BY <1>2, <1>4, <2>1, <2>3, <2>4, <2>5, <2>6, <2>7, <2>8, SettleIdle
<1>5. CASE pc' = "exit" /\ UNCHANGED <<queueVars, closeVars, ready, connVars>>
  <2>1. /\ UNCHANGED <<queue, state, ambiguous, failures, closing, disconnecting, closed, cancelled>>
        /\ UNCHANGED <<ready, up, wire, back>>
    BY <1>5 DEF queueVars, closeVars, connVars
  <2>2. TypeOK'
    BY <1>1, <1>2, <1>5, <2>1 DEF TypeOK
  <2> QED BY <1>2, <1>5, <2>1, <2>2, Quiet
<1> QED BY <1>3, <1>4, <1>5 DEF Connect
----------------------------------------------------------------------------
(* The request written next is the first of the queue behind those in      *)
(* flight.                                                                 *)
LEMMA NextToWrite ==
    ASSUME IInv, writing = NoRequest, Unscheduled # <<>>
    PROVE  /\ Len(inFlight) < Len(queue)
           /\ Head(Unscheduled) = queue[Len(inFlight) + 1]
           /\ Head(Unscheduled) \in Requests
<1> DEFINE U == Unscheduled
           S == ToSet(inFlight)
           n == Len(inFlight)
<1>1. /\ queue \in Seq(Requests) /\ DOMAIN queue = 1 .. Len(queue)
      /\ DOMAIN inFlight = 1 .. n /\ Len(queue) \in Nat /\ n \in Nat
  BY SessionFacts
<1>2. Scheduled = S
  BY DEF Scheduled
<1>3. U \in Seq(Requests) /\ SubOf(U, queue, S)
  BY <1>1, <1>2, WithoutFacts DEF Unscheduled
<1>4. PICK e : Embeds(e, U, queue, S, Len(queue))
  BY <1>3 DEF SubOf
<1> HIDE DEF U
<1>5. Len(U) \in Nat /\ 1 \in 1 .. Len(U) /\ Head(U) = U[1] /\ U[1] \in Requests
  <2>1. U # <<>>
    BY DEF U
  <2> QED BY <2>1, <1>3
<1>6. e[1] \in 1 .. Len(queue) /\ U[1] = queue[e[1]] /\ U[1] \notin S
  BY <1>4, <1>5 DEF Embeds
<1>7. \A i \in 1 .. n : inFlight[i] = queue[i] /\ inFlight[i] \in S
  BY <1>1 DEF IInv, SessionInv, ToSet
<1>8. n < e[1]
  BY <1>1, <1>6, <1>7
<1>9. n + 1 \in 1 .. Len(queue) /\ n < Len(queue)
  BY <1>1, <1>6, <1>8
<1>10. queue[n + 1] \notin S
  <2>1. SUFFICES ASSUME NEW i \in 1 .. n, inFlight[i] = queue[n + 1] PROVE FALSE
    BY <1>1 DEF ToSet
  <2>2. queue[i] = queue[n + 1] /\ i \in DOMAIN queue /\ n + 1 \in DOMAIN queue /\ i # n + 1
    BY <2>1, <1>1, <1>7, <1>9
  <2> QED BY <2>2 DEF IInv, QueueInv, NothingForgotten
<1>11. PICK k \in 1 .. Len(U) : e[k] = n + 1
  BY <1>4, <1>9, <1>10 DEF Embeds
<1>12. k = 1
  <2>1. SUFFICES ASSUME 1 < k PROVE FALSE
    BY <1>5
  <2>2. e[1] < e[k]
    BY <2>1, <1>4, <1>5 DEF Embeds
  <2> QED BY <2>2, <1>1, <1>6, <1>8, <1>11
<1> QED BY <1>5, <1>6, <1>9, <1>11, <1>12 DEF U

LEMMA StartWriteKeeps == ASSUME IInv, StartWrite PROVE IInv'
<1>1. /\ TypeOK /\ BudgetInv /\ QueueInv /\ QuitInv /\ SessionInv
      /\ WireInv /\ ExposureInv /\ OrderInv /\ SuffixInv
  BY DEF IInv
<1>2. /\ pc = "session" /\ written = "none" /\ written' = "busy" /\ Unscheduled # <<>>
      /\ writing' = Head(Unscheduled) /\ MayWrite(writing')
      /\ UNCHANGED <<queue, state, ambiguous, failures, closing, disconnecting, closed, cancelled,
                     ready, pc, reading, inFlight, replies, up, wire, back, executed, arrival,
                     replied>>
  BY DEF StartWrite, queueVars, closeVars, connVars, history
<1>3. writing = NoRequest
  BY <1>1, <1>2 DEF SessionInv
<1>4. /\ Len(inFlight) < Len(queue) /\ writing' = queue[Len(inFlight) + 1]
      /\ writing' \in Requests /\ writing' # NoRequest
  BY <1>2, <1>3, NextToWrite, RequestFacts
<1>5. TypeOK'
  BY <1>1, <1>2, <1>4 DEF TypeOK
<1>6. BudgetInv' /\ QueueInv' /\ QuitInv' /\ OrderInv' /\ SuffixInv'
  <2>1. BudgetInv' /\ QueueInv'
    BY <1>1, <1>2 DEF BudgetInv, QueueInv, NothingForgotten, ToSet
  <2>2. QuitInv' /\ OrderInv'
    BY <1>1, <1>2 DEF QuitInv, QuitDrains, OrderInv
  <2>3. SuffixInv'
    BY <1>1, <1>2 DEF SuffixInv, Settled
  <2> QED BY <2>1, <2>2, <2>3
<1>7. SessionInv'
  <2>1. \A i \in DOMAIN inFlight : ~IsExclusive(inFlight[i])
    BY <1>2 DEF MayWrite, ToSet
  <2>2. IsExclusive(writing') => inFlight = <<>>
    BY <1>2 DEF MayWrite
  <2> QED BY <2>1, <2>2, <1>1, <1>2, <1>4 DEF SessionInv
<1>8. ToSet(wire') = ToSet(wire) /\ ToSet(inFlight)' = ToSet(inFlight)
  BY <1>2 DEF ToSet
<1>9. WireInv'
  BY <1>1, <1>2, <1>8 DEF WireInv, OnWire, Settled
<1>10. ExposureInv'
  <2>1. \A r \in Requests : Exposed(r) => Exposed(r)'
    BY <1>2, <1>8 DEF Exposed, Settled
  <2> QED BY <2>1, <1>1, <1>2, <1>5, <1>8, ExposureKeeps
<1> QED
  BY <1>5, <1>6, <1>7, <1>9, <1>10 DEF IInv

LEMMA TakeWrittenKeeps == ASSUME IInv, TakeWritten PROVE IInv'
<1>1. /\ TypeOK /\ BudgetInv /\ QueueInv /\ QuitInv /\ SessionInv
      /\ WireInv /\ ExposureInv /\ OrderInv /\ SuffixInv
  BY DEF IInv
<1>2. /\ pc = "session" /\ written = "ok" /\ written' = "none" /\ writing' = NoRequest
      /\ inFlight' = Append(inFlight, writing)
      /\ UNCHANGED <<queue, state, ambiguous, failures, closing, disconnecting, closed, cancelled,
                     ready, pc, reading, replies, up, wire, back, executed, arrival, replied>>
  BY DEF TakeWritten, queueVars, closeVars, connVars, history
<1>3. /\ writing # NoRequest /\ writing \in Requests /\ inFlight \in Seq(Requests)
      /\ queue \in Seq(Requests) /\ Len(queue) \in Nat
      /\ Len(inFlight) < Len(queue) /\ writing = queue[Len(inFlight) + 1]
  BY <1>1, <1>2, SessionFacts DEF SessionInv, TypeOK
<1>4. /\ inFlight' \in Seq(Requests)
      /\ DOMAIN inFlight = 1 .. Len(inFlight) /\ DOMAIN inFlight' = 1 .. Len(inFlight) + 1
      /\ Len(inFlight) \in Nat /\ Len(inFlight') = Len(inFlight) + 1
      /\ inFlight'[Len(inFlight) + 1] = writing
      /\ \A k \in 1 .. Len(inFlight) : inFlight'[k] = inFlight[k]
      /\ ToSet(inFlight') = ToSet(inFlight) \cup {writing}
  BY <1>2, <1>3, AppendFacts
<1>5. TypeOK'
  BY <1>1, <1>2, <1>4 DEF TypeOK
<1>6. BudgetInv' /\ QueueInv' /\ QuitInv' /\ OrderInv'
  <2>1. BudgetInv' /\ QueueInv'
    BY <1>1, <1>2 DEF BudgetInv, QueueInv, NothingForgotten, ToSet
  <2>2. QuitInv' /\ OrderInv'
    BY <1>1, <1>2 DEF QuitInv, QuitDrains, OrderInv
  <2> QED BY <2>1, <2>2
<1>7. inFlight # <<>> => 1 \in 1 .. Len(inFlight) /\ inFlight'[1] = inFlight[1]
  BY <1>3, <1>4
<1>8. inFlight' # <<>> /\ (inFlight = <<>> => inFlight'[1] = writing)
  BY <1>3, <1>4
<1>9. SuffixInv'
  BY <1>1, <1>2, <1>7, <1>8 DEF SuffixInv, Settled
<1>10. SessionInv'
  <2>1. \A k \in 1 .. Len(inFlight) + 1 : k \in 1 .. Len(inFlight) \/ k = Len(inFlight) + 1
    BY <1>4
  <2>2. \A i \in DOMAIN inFlight' : inFlight'[i] = queue[i]
    BY <2>1, <1>1, <1>3, <1>4 DEF SessionInv
  <2>3. replies < Size(inFlight'[1])
    <3>1. CASE inFlight = <<>>
      <4>1. replies = 0 /\ inFlight'[1] = writing
        BY <3>1, <1>1, <1>8 DEF SessionInv
      <4> QED BY <4>1, <1>3, RequestFacts
    <3>2. CASE inFlight # <<>>
      BY <3>2, <1>1, <1>7 DEF SessionInv
    <3> QED BY <3>1, <3>2
  <2>4. ASSUME NEW i \in DOMAIN inFlight', IsExclusive(inFlight'[i]) PROVE Len(inFlight') = 1
    <3>1. CASE i \in 1 .. Len(inFlight)
      BY <3>1, <2>4, <1>1, <1>3, <1>4 DEF SessionInv
    <3>2. CASE i = Len(inFlight) + 1
      <4>1. inFlight = <<>>
        BY <3>2, <2>4, <1>1, <1>3, <1>4 DEF SessionInv
      <4> QED BY <4>1, <1>4
    <3> QED BY <3>1, <3>2, <2>1, <1>4
  <2>5. Len(inFlight') <= Len(queue)
    BY <1>3, <1>4
  <2> QED BY <2>2, <2>3, <2>4, <2>5, <1>1, <1>2, <1>8 DEF SessionInv
<1>11. ToSet(wire') = ToSet(wire)
  BY <1>2 DEF ToSet
<1>12. WireInv'
  <2>1. writing' \notin Requests
    BY <1>2, RequestFacts
  <2> QED BY <2>1, <1>1, <1>2, <1>4, <1>11 DEF WireInv, OnWire, Settled
<1>13. ExposureInv'
  <2>1. \A r \in Requests : Exposed(r) => Exposed(r)'
    BY <1>2, <1>4 DEF Exposed, Settled
  <2> QED BY <2>1, <1>1, <1>2, <1>5, <1>11, ExposureKeeps
<1> QED
  BY <1>5, <1>6, <1>9, <1>10, <1>12, <1>13 DEF IInv

(* The server executes the first command under way.                        *)
LEMMA ExecuteKeeps == ASSUME IInv, Execute PROVE IInv'
<1>1. /\ TypeOK /\ BudgetInv /\ QueueInv /\ QuitInv /\ SessionInv
      /\ WireInv /\ ExposureInv /\ OrderInv /\ SuffixInv
  BY DEF IInv
<1> DEFINE c == wire[1]
<1>2. /\ wire \in Seq(Requests \X (1 .. PipelineSize)) /\ wire # <<>> /\ wire' = Tail(wire)
      /\ UNCHANGED <<queue, state, ambiguous, failures, closing, disconnecting, closed, cancelled,
                     ready, pc, writing, written, reading, inFlight, replies, up, arrival, replied>>
  BY <1>1 DEF TypeOK, Execute, queueVars, closeVars, sessionVars, writerVars
<1>3. /\ wire' \in Seq(Requests \X (1 .. PipelineSize))
      /\ DOMAIN wire = 1 .. Len(wire) /\ DOMAIN wire' = 1 .. Len(wire) - 1
      /\ Len(wire) \in Nat \ {0}
      /\ \A k \in 1 .. Len(wire) - 1 : wire'[k] = wire[k + 1]
      /\ Head(wire) = c /\ c \in Requests \X (1 .. PipelineSize)
      /\ ToSet(wire) = ToSet(wire') \cup {c}
  BY <1>2, TailFacts
<1>4. /\ executed' = [executed EXCEPT ![c[1]][c[2]] = @ + 1]
      /\ back' = IF up THEN Append(back, c[1]) ELSE back
  BY <1>3 DEF Execute
<1>5. c[1] \in Requests /\ c[2] \in 1 .. PipelineSize /\ c = <<c[1], c[2]>>
  BY <1>3
<1>6. c \notin ToSet(wire')
  <2>1. SUFFICES ASSUME NEW k \in 1 .. Len(wire) - 1, wire[k + 1] = c PROVE FALSE
    BY <1>3 DEF ToSet
  <2>2. k + 1 \in DOMAIN wire /\ 1 \in DOMAIN wire /\ k + 1 # 1
    BY <1>3
  <2> QED BY <2>1, <2>2, <1>1 DEF WireInv
<1> HIDE DEF c
<1>7. /\ executed' \in [Requests -> [1 .. PipelineSize -> Nat]]
      /\ \A r \in Requests, i \in 1 .. PipelineSize :
            /\ <<r, i>> = c => executed'[r][i] = executed[r][i] + 1
            /\ <<r, i>> # c => executed'[r][i] = executed[r][i]
            /\ executed[r][i] \in Nat
  <2> DEFINE r0 == c[1]
             i0 == c[2]
  <2>1. executed \in [Requests -> [1 .. PipelineSize -> Nat]]
    BY <1>1 DEF TypeOK
  <2>2. r0 \in Requests /\ i0 \in 1 .. PipelineSize /\ c = <<r0, i0>>
        /\ executed' = [executed EXCEPT ![r0][i0] = @ + 1]
    BY <1>4, <1>5
  <2> HIDE DEF r0, i0
  <2> DEFINE h == executed[r0]
             g == [h EXCEPT ![i0] = h[i0] + 1]
  <2>a. h \in [1 .. PipelineSize -> Nat] /\ executed' = [executed EXCEPT ![r0] = g]
    BY <2>1, <2>2
  <2>b. /\ g \in [1 .. PipelineSize -> Nat] /\ g[i0] = h[i0] + 1
        /\ \A i \in 1 .. PipelineSize : i # i0 => g[i] = h[i]
    <3> HIDE DEF h
    <3> QED BY <2>a, <2>2
  <2> HIDE DEF g
  <2>3. executed' \in [Requests -> [1 .. PipelineSize -> Nat]]
    BY <2>1, <2>a, <2>b
  <2>4. ASSUME NEW r \in Requests, NEW i \in 1 .. PipelineSize
        PROVE  /\ <<r, i>> = c => executed'[r][i] = executed[r][i] + 1
               /\ <<r, i>> # c => executed'[r][i] = executed[r][i]
               /\ executed[r][i] \in Nat
    <3>1. executed[r][i] \in Nat
      BY <2>1
    <3>2. CASE r = r0
      <4>1. executed'[r] = g /\ executed[r] = h
        BY <3>2, <2>1, <2>2, <2>a
      <4> QED BY <3>1, <3>2, <4>1, <2>2, <2>b
    <3>3. CASE r # r0
      <4>1. executed'[r] = executed[r]
        BY <3>3, <2>1, <2>2, <2>a
      <4> QED BY <3>1, <3>3, <4>1, <2>2
    <3> QED BY <3>2, <3>3
  <2> QED BY <2>3, <2>4
<1>8. /\ \A r \in Requests, i \in 1 .. PipelineSize : OnWire(r, i)' <=> OnWire(r, i) /\ <<r, i>> # c
      /\ \A r \in Requests, i \in 1 .. PipelineSize : <<r, i>> = c => OnWire(r, i)
      /\ \A r \in Requests : 1 \in 1 .. PipelineSize /\ \A i \in 1 .. Size(r) : i \in 1 .. PipelineSize
  <2>1. \A r \in Requests : 1 \in 1 .. PipelineSize /\ \A i \in 1 .. Size(r) : i \in 1 .. PipelineSize
    BY RequestFacts, ClientAssumption
  <2> QED BY <2>1, <1>3, <1>6 DEF OnWire
<1>9. back' \in Seq(Requests) /\ (back # <<>> => back' # <<>>)
  <2>1. back \in Seq(Requests)
    BY <1>1 DEF TypeOK
  <2> QED BY <2>1, <1>4, <1>5
<1>10. TypeOK'
  BY <1>1, <1>2, <1>3, <1>7, <1>9 DEF TypeOK
<1>11. BudgetInv' /\ QueueInv' /\ QuitInv' /\ SuffixInv'
  <2>1. BudgetInv' /\ QueueInv'
    BY <1>1, <1>2 DEF BudgetInv, QueueInv, NothingForgotten, ToSet
  <2>2. QuitInv' /\ SuffixInv'
    BY <1>1, <1>2 DEF QuitInv, QuitDrains, SuffixInv, Settled
  <2> QED BY <2>1, <2>2
<1>12. SessionInv'
  BY <1>1, <1>2, <1>9 DEF SessionInv
<1>13. ToSet(inFlight)' = ToSet(inFlight)
  BY <1>2 DEF ToSet
<1>14. \A k \in DOMAIN wire' : k + 1 \in DOMAIN wire /\ wire'[k] = wire[k + 1]
  BY <1>3
<1>15. WireInv'
  <2>1. ASSUME NEW k \in DOMAIN wire', NEW m \in DOMAIN wire', wire'[k] = wire'[m] PROVE k = m
    <3>1. k + 1 = m + 1
      BY <2>1, <1>1, <1>14 DEF WireInv
    <3> QED BY <3>1, <1>3
  <2>2. \A k \in DOMAIN wire' : wire'[k][2] <= Size(wire'[k][1])
    BY <1>1, <1>14 DEF WireInv
  <2>3. up => \A k \in DOMAIN wire' :
                \/ Settled(wire'[k][1]) \/ wire'[k][1] \in ToSet(inFlight)
                \/ wire'[k][1] = writing /\ written = "ok"
    BY <1>1, <1>14 DEF WireInv
  <2>4. ASSUME up, NEW r \in Requests, r \in ToSet(inFlight) \/ (r = writing /\ written = "ok")
        PROVE  executed'[r][1] > 0 \/ OnWire(r, 1)'
    <3>1. executed[r][1] > 0 \/ OnWire(r, 1)
      BY <2>4, <1>1 DEF WireInv
    <3>2. 1 \in 1 .. PipelineSize
      BY <1>8
    <3>3. CASE <<r, 1>> = c
      BY <3>2, <3>3, <1>7
    <3>4. CASE <<r, 1>> # c
      BY <3>1, <3>2, <3>4, <1>7, <1>8
    <3> QED BY <3>3, <3>4
  <2> QED BY <2>1, <2>2, <2>3, <2>4, <1>2, <1>13 DEF WireInv, Settled
<1>16. ExposureInv'
  <2>1. SUFFICES ASSUME NEW r \in Requests, NEW i \in 1 .. Size(r)
                 PROVE  executed'[r][i] + Count(OnWire(r, i)') <= ambiguous[r] + Count(Exposed(r)')
    BY <1>2 DEF ExposureInv
  <2>2. i \in 1 .. PipelineSize
    BY <1>8
  <2>3. Exposed(r)' <=> Exposed(r)
    BY <1>2, <1>13 DEF Exposed, Settled
  <2>4. executed[r][i] + Count(OnWire(r, i)) <= ambiguous[r] + Count(Exposed(r))
    BY <1>1 DEF ExposureInv
  <2>5. executed'[r][i] + Count(OnWire(r, i)') = executed[r][i] + Count(OnWire(r, i))
    <3>1. CASE <<r, i>> = c
      BY <2>2, <3>1, <1>7, <1>8 DEF Count
    <3>2. CASE <<r, i>> # c
      BY <2>2, <3>2, <1>7, <1>8 DEF Count
    <3> QED BY <3>1, <3>2
  <2>6. Count(Exposed(r)') = Count(Exposed(r))
    BY <2>3 DEF Count
  <2> QED BY <2>4, <2>5, <2>6
<1>17. OrderInv'
  <2>1. SUFFICES ASSUME NEW a \in DOMAIN arrival, NEW b \in DOMAIN arrival, a < b,
                        state[arrival[a]] = "queued"
                 PROVE  /\ executed'[arrival[b]][1] > 0 => executed'[arrival[a]][1] > 0
                        /\ \A k \in DOMAIN wire' : wire'[k] = <<arrival[b], 1>> =>
                              \/ executed'[arrival[a]][1] > 0
                              \/ \E m \in DOMAIN wire' : m < k /\ wire'[m] = <<arrival[a], 1>>
    <3>1. arrival' = arrival /\ state' = state
      BY <1>2
    <3> QED BY <3>1 DEF OrderInv
  <2> DEFINE x == arrival[a]
             y == arrival[b]
  <2>2. x \in Requests /\ y \in Requests /\ 1 \in 1 .. PipelineSize
    BY <1>1, <1>8, RequestFacts DEF QueueInv
  <2>3. /\ executed[y][1] > 0 => executed[x][1] > 0
        /\ \A k \in DOMAIN wire : wire[k] = <<y, 1>> =>
              \/ executed[x][1] > 0
              \/ \E m \in DOMAIN wire : m < k /\ wire[m] = <<x, 1>>
    BY <2>1, <1>1 DEF OrderInv
  <2> HIDE DEF x, y
  <2>4. executed[x][1] > 0 => executed'[x][1] > 0
    BY <2>2, <1>7
  <2>5. <<x, 1>> = c => executed'[x][1] > 0
    BY <2>2, <1>7
  <2>6. executed'[y][1] > 0 => executed'[x][1] > 0
    <3>1. CASE <<y, 1>> = c
      <4>1. 1 \in DOMAIN wire /\ wire[1] = <<y, 1>> /\ \A m \in DOMAIN wire : ~(m < 1)
        BY <3>1, <1>3 DEF c
      <4> QED BY <4>1, <2>3, <2>4
    <3>2. CASE <<y, 1>> # c
      BY <3>2, <2>2, <2>3, <2>4, <1>7
    <3> QED BY <3>1, <3>2
  <2>7. ASSUME NEW k \in DOMAIN wire', wire'[k] = <<y, 1>>
        PROVE  \/ executed'[x][1] > 0
               \/ \E m \in DOMAIN wire' : m < k /\ wire'[m] = <<x, 1>>
    <3>1. k + 1 \in DOMAIN wire /\ wire[k + 1] = <<y, 1>> /\ k \in Nat
      BY <2>7, <1>3, <1>14
    <3>2. SUFFICES ASSUME NEW m \in DOMAIN wire, m < k + 1, wire[m] = <<x, 1>>
                   PROVE  \/ executed'[x][1] > 0
                          \/ \E l \in DOMAIN wire' : l < k /\ wire'[l] = <<x, 1>>
      BY <3>1, <2>3, <2>4
    <3>3. CASE m = 1
      BY <3>2, <3>3, <2>5 DEF c
    <3>4. CASE m # 1
      <4>1. m - 1 \in DOMAIN wire' /\ m - 1 < k /\ m - 1 + 1 = m
        BY <3>1, <3>2, <3>4, <1>3
      <4>2. wire'[m - 1] = <<x, 1>>
        BY <4>1, <3>2, <1>14
      <4> QED BY <4>1, <4>2
    <3> QED BY <3>3, <3>4
  <2> QED BY <2>6, <2>7 DEF x, y
<1> QED
  BY <1>10, <1>11, <1>12, <1>15, <1>16, <1>17 DEF IInv

LEMMA JoinFacts ==
    ASSUME NEW T, NEW s \in Seq(T), NEW t \in Seq(T)
    PROVE  /\ s \o t \in Seq(T) /\ Len(s) \in Nat /\ Len(t) \in Nat
           /\ DOMAIN s = 1 .. Len(s) /\ DOMAIN (s \o t) = 1 .. Len(s) + Len(t)
           /\ \A k \in 1 .. Len(s) : (s \o t)[k] = s[k]
           /\ \A k \in 1 .. Len(s) + Len(t) :
                 k \notin 1 .. Len(s) => k - Len(s) \in 1 .. Len(t) /\ (s \o t)[k] = t[k - Len(s)]
OBVIOUS

(* The writer hands the first n commands of its request to the socket.     *)
LEMMA CommandsFollow ==
    ASSUME IInv, written = "busy", up, NEW n \in 0 .. Size(writing),
           wire' = wire \o Commands(writing, n)
    PROVE  /\ wire' \in Seq(Requests \X (1 .. PipelineSize))
           /\ DOMAIN wire = 1 .. Len(wire) /\ DOMAIN wire' = 1 .. Len(wire) + n
           /\ Len(wire) \in Nat /\ n \in Nat
           /\ \A k \in 1 .. Len(wire) : wire'[k] = wire[k] /\ wire[k][1] # writing
           /\ \A k \in 1 .. Len(wire) + n :
                 k \notin 1 .. Len(wire) =>
                    k - Len(wire) \in 1 .. n /\ wire'[k] = <<writing, k - Len(wire)>>
<1>1. TypeOK /\ SessionInv /\ WireInv
  BY DEF IInv
<1>2. writing # NoRequest /\ writing \in Requests
  BY <1>1 DEF SessionInv, TypeOK
<1> DEFINE t == Commands(writing, n)
<1>3. n \in Nat /\ \A i \in 1 .. n : i \in 1 .. PipelineSize
  BY <1>2, RequestFacts, ClientAssumption
<1>4. t \in Seq(Requests \X (1 .. PipelineSize)) /\ Len(t) = n /\ \A i \in 1 .. n : t[i] = <<writing, i>>
  BY <1>2, <1>3 DEF Commands
<1>5. wire \in Seq(Requests \X (1 .. PipelineSize)) /\ wire' = wire \o t
  BY <1>1 DEF TypeOK
<1> HIDE DEF t
<1>6. /\ wire' \in Seq(Requests \X (1 .. PipelineSize)) /\ Len(wire) \in Nat
      /\ DOMAIN wire = 1 .. Len(wire) /\ DOMAIN wire' = 1 .. Len(wire) + n
      /\ \A k \in 1 .. Len(wire) : wire'[k] = wire[k]
      /\ \A k \in 1 .. Len(wire) + n :
            k \notin 1 .. Len(wire) => k - Len(wire) \in 1 .. n /\ wire'[k] = t[k - Len(wire)]
  BY <1>4, <1>5, JoinFacts
<1>7. ASSUME NEW k \in 1 .. Len(wire) PROVE wire[k][1] # writing
  <2>1. Settled(wire[k][1]) \/ wire[k][1] \in ToSet(inFlight)
    BY <1>1, <1>6 DEF WireInv
  <2>2. writing \notin ToSet(inFlight) /\ ~Settled(writing)
    BY <1>2, SessionFacts
  <2> QED BY <2>1, <2>2
<1> QED BY <1>3, <1>4, <1>6, <1>7

(* What was accepted before the request being written is in flight.        *)
LEMMA EarlierInFlight ==
    ASSUME IInv, writing # NoRequest, NEW a \in DOMAIN arrival, NEW b \in DOMAIN arrival, a < b,
           state[arrival[a]] = "queued", arrival[b] = writing
    PROVE  arrival[a] \in ToSet(inFlight)
<1>1. /\ queue \in Seq(Requests) /\ DOMAIN queue = 1 .. Len(queue)
      /\ DOMAIN inFlight = 1 .. Len(inFlight) /\ Len(queue) \in Nat /\ Len(inFlight) \in Nat
  BY SessionFacts
<1>2. /\ Len(inFlight) < Len(queue) /\ writing = queue[Len(inFlight) + 1]
      /\ \A i \in DOMAIN inFlight : inFlight[i] = queue[i]
  BY DEF IInv, SessionInv
<1>3. arrival[a] \in ToSet(queue) /\ a \in Nat /\ b \in Nat /\ arrival[a] # arrival[b]
  <2>1. arrival[a] \in Requests
    BY RequestFacts DEF IInv, QueueInv
  <2>2. DOMAIN arrival = 1 .. Len(arrival)
    BY DEF IInv, TypeOK
  <2>3. a \in Nat /\ b \in Nat /\ a # b
    BY <2>2
  <2> QED BY <2>1, <2>3 DEF IInv, QueueInv, NothingForgotten
<1>4. PICK p \in DOMAIN queue : queue[p] = arrival[a]
  BY <1>3 DEF ToSet
<1>5. Len(inFlight) + 1 \in DOMAIN queue /\ p # Len(inFlight) + 1
  BY <1>1, <1>2, <1>3, <1>4
<1>6. ~(Len(inFlight) + 1 < p)
  <2>1. SUFFICES ASSUME Len(inFlight) + 1 < p PROVE FALSE
    OBVIOUS
  <2>2. b < a
    BY <2>1, <1>2, <1>4, <1>5 DEF IInv, QueueInv
  <2> QED BY <2>2, <1>3
<1>7. p \in DOMAIN inFlight
  BY <1>1, <1>4, <1>5, <1>6
<1> QED BY <1>2, <1>4, <1>7 DEF ToSet

LEMMA WriteKeeps == ASSUME IInv, Write PROVE IInv'
<1>1. /\ TypeOK /\ BudgetInv /\ QueueInv /\ QuitInv /\ SessionInv
      /\ WireInv /\ ExposureInv /\ OrderInv /\ SuffixInv
  BY DEF IInv
<1>2. /\ written = "busy" /\ written' \in {"ok", "unwritten", "partial"}
      /\ up' \in BOOLEAN /\ (up' => up /\ written' = "ok")
      /\ UNCHANGED <<queue, state, ambiguous, failures, closing, disconnecting, closed, cancelled,
                     ready, pc, writing, reading, inFlight, replies, back, executed, arrival,
                     replied>>
  <2>1. up \in BOOLEAN
    BY <1>1 DEF TypeOK
  <2>2. up' = FALSE \/ (written' = "ok" /\ up' = up)
    BY DEF Write
  <2>3. up' \in BOOLEAN /\ (up' => up /\ written' = "ok")
    <3>1. CASE up' = FALSE
      BY <3>1, Zenon
    <3>2. CASE written' = "ok" /\ up' = up
      <4>1. up' => up
        BY <3>2, Zenon
      <4>2. up' \in BOOLEAN
        BY <3>2, <2>1, Zenon
      <4> QED BY <4>1, <4>2, <3>2, Zenon
    <3> QED BY <3>1, <3>2, <2>2, Zenon
  <2>4. written = "busy" /\ written' \in {"ok", "unwritten", "partial"}
    BY DEF Write
  <2>5. UNCHANGED <<queue, state, ambiguous, failures, closing, disconnecting, closed, cancelled,
                    ready, pc, writing, reading, inFlight, replies, back, executed, arrival,
                    replied>>
    BY DEF Write, queueVars, closeVars, history
  <2> QED BY <2>3, <2>4, <2>5
<1>3. /\ writing # NoRequest /\ writing \in Requests /\ pc = "session"
      /\ state[writing] = "queued" /\ ~Settled(writing) /\ writing \notin ToSet(inFlight)
      /\ Size(writing) \in Nat /\ 1 <= Size(writing)
  BY <1>1, <1>2, SessionFacts, RequestFacts DEF SessionInv, TypeOK
<1>4. BudgetInv' /\ QueueInv' /\ QuitInv' /\ SuffixInv'
  <2>1. BudgetInv' /\ QueueInv'
    BY <1>1, <1>2 DEF BudgetInv, QueueInv, NothingForgotten, ToSet
  <2>2. QuitInv' /\ SuffixInv'
    BY <1>1, <1>2 DEF QuitInv, QuitDrains, SuffixInv, Settled
  <2> QED BY <2>1, <2>2
<1>5. SessionInv'
  BY <1>1, <1>2, <1>3 DEF SessionInv
<1>6. ToSet(inFlight)' = ToSet(inFlight)
  BY <1>2 DEF ToSet
<1>7. \A r \in Requests : Exposed(r) => Exposed(r)'
  BY <1>2, <1>6 DEF Exposed, Settled
<1>8. {closing', disconnecting', closed', ready', cancelled', up'} \subseteq BOOLEAN
  BY <1>1, <1>2 DEF TypeOK
<1>9. CASE wire' = wire /\ ~up'
  <2>1. TypeOK'
    BY <1>1, <1>2, <1>8, <1>9 DEF TypeOK
  <2>2. ToSet(wire') = ToSet(wire)
    BY <1>9 DEF ToSet
  <2>3. WireInv'
    BY <1>1, <1>9 DEF WireInv
  <2>4. ExposureInv'
    BY <2>1, <2>2, <1>1, <1>2, <1>7, ExposureKeeps
  <2>5. OrderInv'
    BY <1>1, <1>2, <1>9 DEF OrderInv
  <2> QED BY <2>1, <2>3, <2>4, <2>5, <1>4, <1>5 DEF IInv
<1>10. ASSUME up, NEW n \in 0 .. Size(writing), wire' = wire \o Commands(writing, n),
              written' \in {"ok", "partial"}, written' = "ok" => n = Size(writing)
       PROVE  IInv'
  <2>1. /\ wire' \in Seq(Requests \X (1 .. PipelineSize))
        /\ DOMAIN wire = 1 .. Len(wire) /\ DOMAIN wire' = 1 .. Len(wire) + n
        /\ Len(wire) \in Nat /\ n \in Nat
        /\ \A k \in 1 .. Len(wire) : wire'[k] = wire[k] /\ wire[k][1] # writing
        /\ \A k \in 1 .. Len(wire) + n :
              k \notin 1 .. Len(wire) =>
                 k - Len(wire) \in 1 .. n /\ wire'[k] = <<writing, k - Len(wire)>>
    BY <1>2, <1>10, CommandsFollow
  <2> HIDE <1>10
  <2>2. TypeOK'
    BY <1>1, <1>2, <1>8, <2>1 DEF TypeOK
  <2>3. \A k \in 1 .. Len(wire) + n : k \notin 1 .. Len(wire) => wire'[k][1] = writing
    BY <2>1
  <2>4. \A k \in 1 .. Len(wire) : k \in 1 .. Len(wire) + n
    BY <2>1
  <2>5. WireInv'
    <3>1. ASSUME NEW k \in DOMAIN wire', NEW m \in DOMAIN wire', wire'[k] = wire'[m] PROVE k = m
      <4>1. CASE k \in 1 .. Len(wire) /\ m \in 1 .. Len(wire)
        BY <3>1, <4>1, <2>1, <1>1 DEF WireInv
      <4>2. CASE k \notin 1 .. Len(wire) /\ m \notin 1 .. Len(wire)
        <5>1. k - Len(wire) = m - Len(wire)
          BY <3>1, <4>2, <2>1
        <5> QED BY <5>1, <2>1
      <4>3. CASE k \in 1 .. Len(wire) /\ m \notin 1 .. Len(wire)
        BY <3>1, <4>3, <2>1, <2>3
      <4>4. CASE k \notin 1 .. Len(wire) /\ m \in 1 .. Len(wire)
        BY <3>1, <4>4, <2>1, <2>3
      <4> QED BY <4>1, <4>2, <4>3, <4>4
    <3>2. ASSUME NEW k \in DOMAIN wire' PROVE wire'[k][2] <= Size(wire'[k][1])
      <4>1. CASE k \in 1 .. Len(wire)
        BY <4>1, <2>1, <1>1 DEF WireInv
      <4>2. CASE k \notin 1 .. Len(wire)
        <5>1. wire'[k][1] = writing /\ wire'[k][2] = k - Len(wire) /\ k - Len(wire) \in 1 .. n
          BY <3>2, <4>2, <2>1
        <5> QED BY <5>1, <1>3, <1>10
      <4> QED BY <4>1, <4>2
    <3>3. ASSUME up', NEW k \in DOMAIN wire'
          PROVE  \/ Settled(wire'[k][1]) \/ wire'[k][1] \in ToSet(inFlight)
                 \/ wire'[k][1] = writing /\ written' = "ok"
      <4>1. CASE k \in 1 .. Len(wire)
        <5>1. Settled(wire[k][1]) \/ wire[k][1] \in ToSet(inFlight)
          BY <4>1, <3>3, <2>1, <1>1, <1>2 DEF WireInv
        <5> QED BY <5>1, <4>1, <2>1, <1>2 DEF Settled
      <4>2. CASE k \notin 1 .. Len(wire)
        BY <3>3, <4>2, <2>1, <2>3, <1>2
      <4> QED BY <4>1, <4>2
    <3>4. ASSUME up', NEW r \in Requests, r \in ToSet(inFlight) \/ (r = writing /\ written' = "ok")
          PROVE  executed[r][1] > 0 \/ OnWire(r, 1)'
      <4>1. CASE r \in ToSet(inFlight)
        <5>1. executed[r][1] > 0 \/ OnWire(r, 1)
          BY <3>4, <4>1, <1>1, <1>2 DEF WireInv
        <5>2. ToSet(wire) \subseteq ToSet(wire')
          BY <2>1, <2>4 DEF ToSet
        <5> QED BY <5>1, <5>2 DEF OnWire
      <4>2. CASE r = writing /\ written' = "ok"
        <5>1. Len(wire) + 1 \in 1 .. Len(wire) + n /\ Len(wire) + 1 \notin 1 .. Len(wire)
              /\ Len(wire) + 1 - Len(wire) = 1
          BY <4>2, <1>3, <1>10, <2>1
        <5>2. wire'[Len(wire) + 1] = <<writing, 1>>
          BY <5>1, <2>1
        <5> QED BY <5>1, <5>2, <4>2, <2>1 DEF OnWire, ToSet
      <4> QED BY <3>4, <4>1, <4>2
    <3> QED BY <3>1, <3>2, <3>3, <3>4, <1>2, <1>6 DEF WireInv, Settled
  <2>6. ExposureInv'
    <3>1. SUFFICES ASSUME NEW r \in Requests, NEW i \in 1 .. Size(r)
                   PROVE  executed[r][i] + Count(OnWire(r, i)') <= ambiguous[r] + Count(Exposed(r)')
      BY <1>2 DEF ExposureInv
    <3>2. executed[r][i] + Count(OnWire(r, i)) <= ambiguous[r] + Count(Exposed(r))
      BY <1>1 DEF ExposureInv
    <3>3. executed[r][i] \in Nat /\ ambiguous[r] \in Nat
      BY <1>1, CountFacts
    <3>4. CASE r = writing
      <4>1. ~OnWire(r, i)
        <5>1. \A k \in DOMAIN wire : wire[k] # <<r, i>>
          BY <3>4, <2>1
        <5> QED BY <5>1 DEF OnWire, ToSet
      <4>2. ~Exposed(r)
        BY <3>4, <1>2, <1>3 DEF Exposed
      <4>3. Exposed(r)'
        BY <3>4, <1>2, <1>3, <1>10 DEF Exposed
      <4> QED BY <3>2, <3>3, <4>1, <4>2, <4>3 DEF Count
    <3>5. CASE r # writing
      <4>1. OnWire(r, i)' => OnWire(r, i)
        <5>1. SUFFICES ASSUME NEW k \in DOMAIN wire', wire'[k] = <<r, i>> PROVE OnWire(r, i)
          BY DEF OnWire, ToSet
        <5>2. k \in 1 .. Len(wire)
          BY <5>1, <3>5, <2>1, <2>3
        <5> QED BY <5>1, <5>2, <2>1 DEF OnWire, ToSet
      <4> QED BY <3>2, <3>3, <4>1, <1>7 DEF Count
    <3> QED BY <3>4, <3>5
  <2>7. OrderInv'
    <3>1. SUFFICES ASSUME NEW a \in DOMAIN arrival, NEW b \in DOMAIN arrival, a < b,
                          state[arrival[a]] = "queued"
                   PROVE  /\ executed[arrival[b]][1] > 0 => executed[arrival[a]][1] > 0
                          /\ \A k \in DOMAIN wire' : wire'[k] = <<arrival[b], 1>> =>
                                \/ executed[arrival[a]][1] > 0
                                \/ \E m \in DOMAIN wire' : m < k /\ wire'[m] = <<arrival[a], 1>>
      <4>1. arrival' = arrival /\ state' = state /\ executed' = executed
        BY <1>2
      <4> QED BY <4>1 DEF OrderInv
    <3>2. /\ executed[arrival[b]][1] > 0 => executed[arrival[a]][1] > 0
          /\ \A k \in DOMAIN wire : wire[k] = <<arrival[b], 1>> =>
                \/ executed[arrival[a]][1] > 0
                \/ \E m \in DOMAIN wire : m < k /\ wire[m] = <<arrival[a], 1>>
      BY <3>1, <1>1 DEF OrderInv
    <3>3. ASSUME NEW k \in DOMAIN wire', wire'[k] = <<arrival[b], 1>>, ~(executed[arrival[a]][1] > 0)
          PROVE  \E m \in DOMAIN wire' : m < k /\ wire'[m] = <<arrival[a], 1>>
      <4>1. \E m \in DOMAIN wire : m < k /\ wire[m] = <<arrival[a], 1>>
        <5>1. CASE k \in 1 .. Len(wire)
          BY <5>1, <3>2, <3>3, <2>1
        <5>2. CASE k \notin 1 .. Len(wire)
          <6>1. arrival[b] = writing /\ Len(wire) < k
            <7>1. wire'[k][1] = writing
              BY <5>2, <2>1, <2>3
            <7> QED BY <7>1, <3>3, <5>2, <2>1
          <6>2. arrival[a] \in ToSet(inFlight) /\ arrival[a] \in Requests
            BY <6>1, <3>1, <1>1, <1>3, EarlierInFlight, RequestFacts DEF QueueInv
          <6>3. OnWire(arrival[a], 1)
            BY <6>2, <3>3, <1>1, <1>10 DEF WireInv
          <6>4. PICK m \in DOMAIN wire : wire[m] = <<arrival[a], 1>>
            BY <6>3 DEF OnWire, ToSet
          <6>5. m < k
            BY <6>1, <2>1
          <6> QED BY <6>4, <6>5
        <5> QED BY <5>1, <5>2
      <4> QED BY <4>1, <2>1, <2>4
    <3> QED BY <3>2, <3>3
  <2> QED BY <2>2, <2>5, <2>6, <2>7, <1>4, <1>5 DEF IInv
<1>11. \/ wire' = wire /\ ~up'
       \/ /\ up
          /\ \E n \in 0 .. Size(writing) :
                /\ wire' = wire \o Commands(writing, n) /\ written' \in {"ok", "partial"}
                /\ written' = "ok" => n = Size(writing)
  <2>1. Size(writing) \in 0 .. Size(writing)
    BY <1>3
  <2>2. CASE ~up
    BY <2>2, <1>2 DEF Write
  <2>3. CASE up
    <3>1. CASE /\ written' = "ok"
               /\ wire' = IF up THEN wire \o Commands(writing, Size(writing)) ELSE wire
      BY <2>1, <2>3, <3>1
    <3>2. CASE written' = "unwritten" /\ up' = FALSE /\ UNCHANGED wire
      BY <3>2
    <3>3. CASE /\ written' = "partial" /\ up' = FALSE
               /\ \E n \in 0 .. Size(writing) :
                     wire' = IF up THEN wire \o Commands(writing, n) ELSE wire
      BY <2>3, <3>3
    <3> QED BY <3>1, <3>2, <3>3 DEF Write
  <2> QED BY <2>2, <2>3
<1> QED BY <1>9, <1>10, <1>11

(* A reply is taken: the request stays the first one in flight ...         *)
LEMMA ReplyKeeps ==
    ASSUME IInv, TakeReply, ~AllReplies(Head(inFlight), replies)
    PROVE  IInv'
<1> DEFINE r == inFlight[1]
<1>1. /\ TypeOK /\ BudgetInv /\ QueueInv /\ QuitInv /\ SessionInv
      /\ WireInv /\ ExposureInv /\ OrderInv /\ SuffixInv
  BY DEF IInv
<1>2. pc = "session" /\ reading = "reply" /\ inFlight # <<>> /\ back # <<>> /\ Head(inFlight) = r
  BY <1>1, SessionFacts DEF TakeReply, SessionInv
<1>3. /\ reading' = "idle" /\ back' = Tail(back) /\ replied' = replied \cup {r}
      /\ replies' = replies + 1
      /\ UNCHANGED <<queue, state, ambiguous, failures, closing, disconnecting, closed, cancelled,
                     ready, pc, writing, written, inFlight, up, wire, executed, arrival>>
  BY <1>2 DEF TakeReply, closeVars, writerVars
<1>4. r \in Requests /\ replies + 1 < Size(r) /\ replies \in 0 .. PipelineSize - 1
  <2>1. r \in Requests /\ replies < Size(r) /\ replies + 1 # Size(r) /\ replies \in 0 .. PipelineSize - 1
    BY <1>1, <1>2, SessionFacts DEF SessionInv, TypeOK, AllReplies
  <2>2. Size(r) \in Nat
    BY <2>1, RequestFacts
  <2> QED BY <2>1, <2>2, ClientAssumption
<1>5. replies' \in 0 .. PipelineSize - 1 /\ replies' > 0
  BY <1>3, <1>4, RequestFacts, ClientAssumption
<1>6. TypeOK'
  <2>1. back' \in Seq(Requests)
    BY <1>1, <1>2, <1>3 DEF TypeOK
  <2> QED BY <2>1, <1>1, <1>3, <1>4, <1>5 DEF TypeOK
<1>7. BudgetInv' /\ QueueInv' /\ QuitInv' /\ OrderInv'
  <2>1. BudgetInv' /\ QueueInv'
    BY <1>1, <1>3 DEF BudgetInv, QueueInv, NothingForgotten, ToSet
  <2>2. QuitInv' /\ OrderInv'
    BY <1>1, <1>3 DEF QuitInv, QuitDrains, OrderInv
  <2> QED BY <2>1, <2>2
<1>8. SuffixInv'
  BY <1>1, <1>2, <1>3, <1>5 DEF SuffixInv, Settled
<1>9. SessionInv'
  <2>1. replies' < Size(inFlight'[1])
    BY <1>3, <1>4
  <2> QED BY <2>1, <1>1, <1>2, <1>3 DEF SessionInv
<1>10. ToSet(wire') = ToSet(wire) /\ ToSet(inFlight)' = ToSet(inFlight)
  BY <1>3 DEF ToSet
<1>11. WireInv'
  BY <1>1, <1>3, <1>10 DEF WireInv, OnWire, Settled
<1>12. ExposureInv'
  <2>1. \A x \in Requests : Exposed(x) => Exposed(x)'
    BY <1>3, <1>10 DEF Exposed, Settled
  <2> QED BY <2>1, <1>1, <1>3, <1>6, <1>10, ExposureKeeps
<1> QED
  BY <1>6, <1>7, <1>8, <1>9, <1>11, <1>12 DEF IInv

(* ... or it was the last one, which completes the request.                *)
LEMMA LastReplyKeeps ==
    ASSUME IInv, TakeReply, AllReplies(Head(inFlight), replies)
    PROVE  IInv'
<1> DEFINE r == inFlight[1]
<1>1. /\ TypeOK /\ BudgetInv /\ QueueInv /\ QuitInv /\ SessionInv
      /\ WireInv /\ ExposureInv /\ OrderInv /\ SuffixInv
  BY DEF IInv
<1>2. /\ pc = "session" /\ reading = "reply" /\ inFlight # <<>> /\ back # <<>>
      /\ Head(inFlight) = r /\ queue # <<>> /\ Head(queue) = r /\ queue[1] = r
      /\ r \in ToSet(queue) /\ r \in Requests /\ state[r] = "queued"
  <2>1. pc = "session" /\ reading = "reply" /\ inFlight # <<>> /\ back # <<>>
    BY <1>1 DEF TakeReply, SessionInv
  <2>2. Head(inFlight) = r /\ queue # <<>> /\ Head(queue) = r /\ queue[1] = r /\ 1 \in DOMAIN queue
    BY <2>1, SessionFacts
  <2>3. r \in ToSet(queue)
    BY <2>2 DEF ToSet
  <2> QED BY <2>1, <2>2, <2>3, SessionFacts
<1>3. /\ reading' = "idle" /\ back' = Tail(back) /\ replied' = replied \cup {r}
      /\ inFlight' = Tail(inFlight) /\ replies' = 0 /\ queue' = Tail(queue)
      /\ pc' = IF r = QuitRequest THEN "exit" ELSE pc
      /\ UNCHANGED <<ambiguous, failures, closing, disconnecting, closed, cancelled, ready,
                     writing, written, up, wire, executed, arrival>>
  BY <1>2 DEF TakeReply, Popped, closeVars, writerVars
<1>4. PICK result \in {"answered", "failed"} : state' = [state EXCEPT ![r] = result]
  BY <1>2 DEF TakeReply
<1>5. /\ state'[r] = result /\ \A x \in Requests : x # r => state'[x] = state[x]
      /\ state' \in [Requests -> Results \cup {"new", "rejected", "queued"}]
      /\ result \in Results /\ result # "queued"
  <2>1. result \in Results /\ result # "queued"
    BY <1>4 DEF Results
  <2> QED BY <2>1, <1>1, <1>2, <1>4 DEF TypeOK
<1>6. /\ queue \in Seq(Requests) /\ inFlight \in Seq(Requests) /\ back \in Seq(Requests)
      /\ Len(queue) \in Nat /\ Len(inFlight) \in Nat
      /\ DOMAIN queue = 1 .. Len(queue) /\ DOMAIN inFlight = 1 .. Len(inFlight)
  BY <1>1, SessionFacts DEF TypeOK
<1>7. /\ queue' \in Seq(Requests) /\ Len(queue') = Len(queue) - 1
      /\ DOMAIN queue' = 1 .. Len(queue) - 1 /\ Len(queue) # 0
      /\ \A k \in 1 .. Len(queue) - 1 : queue'[k] = queue[k + 1]
  BY <1>2, <1>3, <1>6, TailFacts
<1>8. /\ inFlight' \in Seq(Requests) /\ Len(inFlight') = Len(inFlight) - 1
      /\ DOMAIN inFlight' = 1 .. Len(inFlight) - 1 /\ Len(inFlight) # 0
      /\ \A k \in 1 .. Len(inFlight) - 1 : inFlight'[k] = inFlight[k + 1]
      /\ ToSet(inFlight) = ToSet(inFlight') \cup {r}
  BY <1>2, <1>3, <1>6, TailFacts
<1>9. \A x \in Requests : Settled(x) => Settled(x)'
  BY <1>2, <1>5 DEF Settled
<1>10. state'[r] \in Results /\ state'[r] \notin {"new", "rejected", "queued"}
  BY <1>5 DEF Results
<1> HIDE DEF r
<1>11. TypeOK'
  <2>1. back' \in Seq(Requests)
    BY <1>2, <1>3, <1>6
  <2>2. 0 \in 0 .. PipelineSize - 1
    BY ClientAssumption
  <2> QED BY <2>1, <2>2, <1>1, <1>2, <1>3, <1>5, <1>7, <1>8 DEF TypeOK
<1>12. BudgetInv'
  <2>1. SUFFICES ASSUME NEW x \in Requests
                 PROVE  /\ state'[x] \in {"new", "rejected"} => failures[x] = 0
                        /\ state'[x] = "queued" => failures[x] <= MaxRetries
                        /\ ambiguous[x] <= failures[x]
                        /\ IsExclusive(x) => ambiguous[x] = 0
    BY <1>3 DEF BudgetInv
  <2> QED BY <1>1, <1>5, <1>10 DEF BudgetInv
<1>13. QueueInv'
  <2>1. SubOf(queue', queue, {r})
    <3>1. \A i, j \in DOMAIN queue : queue[i] = queue[j] => i = j
      BY <1>1 DEF QueueInv, NothingForgotten
    <3> QED BY <3>1, <1>2, <1>3, <1>6, SubOfTail
  <2>2. {r} \subseteq ToSet(queue)
    BY <1>2
  <2> QED BY <2>1, <2>2, <1>1, <1>3, <1>5, <1>7, QueueShrinks
<1>14. r = QuitRequest => Len(queue) = 1
  <2>1. 1 \in DOMAIN queue
    BY <1>6, <1>7
  <2> QED BY <2>1, <1>1, <1>2 DEF QueueInv
<1>15. QuitInv'
  <2>1. state'[QuitRequest] # "new" => closing
    <3>1. CASE r = QuitRequest
      BY <3>1, <1>1, <1>2 DEF QuitInv
    <3>2. CASE r # QuitRequest
      BY <3>2, <1>1, <1>5, RequestFacts DEF QuitInv
    <3> QED BY <3>1, <3>2
  <2>2. ~closed
    BY <1>1, <1>2 DEF QuitInv
  <2>3. ASSUME NEW x \in Submitted PROVE state'[x] # "closed"
    <3>1. x \in Requests /\ state[x] # "closed"
      BY <2>2, <1>1, RequestFacts DEF QuitInv
    <3> QED BY <3>1, <1>4, <1>5
  <2>4. ASSUME state'[QuitRequest] = "answered", NEW x \in Submitted PROVE state'[x] # "queued"
    <3>1. x \in Requests /\ x # QuitRequest
      BY RequestFacts
    <3>2. CASE r = QuitRequest
      <4>1. x \notin ToSet(queue)
        <5>1. \A i \in DOMAIN queue : i = 1
          <6>1. DOMAIN queue = 1 .. 1
            BY <3>2, <1>6, <1>14
          <6> QED BY <6>1
        <5> QED BY <5>1, <3>1, <3>2, <1>2 DEF ToSet
      <4>2. state[x] # "queued"
        BY <4>1, <3>1, <1>1 DEF QueueInv, NothingForgotten
      <4> QED BY <4>2, <3>1, <3>2, <1>5
    <3>3. CASE r # QuitRequest
      <4>1. state[QuitRequest] = "answered" /\ r \in Submitted
        BY <2>4, <3>3, <1>2, <1>5, RequestFacts
      <4> QED BY <4>1, <1>1, <1>2 DEF QuitInv, QuitDrains
    <3> QED BY <3>2, <3>3
  <2> QED BY <2>1, <2>2, <2>3, <2>4, <1>3 DEF QuitInv, QuitDrains
<1>16. SessionInv'
  <2>1. /\ Len(inFlight) <= Len(queue)
        /\ \A i \in DOMAIN inFlight : inFlight[i] = queue[i]
        /\ writing # NoRequest => Len(inFlight) < Len(queue) /\ writing = queue[Len(inFlight) + 1]
        /\ \A i \in DOMAIN inFlight : IsExclusive(inFlight[i]) => Len(inFlight) = 1 /\ writing = NoRequest
        /\ written = "none" <=> writing = NoRequest
        /\ ~(writing # NoRequest /\ IsExclusive(writing))
    BY <1>1, <1>2 DEF SessionInv
  <2>2. pc' # "session" => inFlight' = <<>> /\ writing = NoRequest
    <3>1. SUFFICES ASSUME r = QuitRequest PROVE inFlight' = <<>> /\ writing = NoRequest
      BY <1>2, <1>3
    <3>2. 1 \in DOMAIN inFlight /\ IsExclusive(inFlight[1])
      BY <3>1, <1>6, <1>8, RequestFacts DEF r
    <3>3. Len(inFlight) = 1 /\ writing = NoRequest
      BY <3>2, <2>1
    <3> QED BY <3>3, <1>8
  <2>3. Len(inFlight') <= Len(queue')
    BY <2>1, <1>6, <1>7, <1>8
  <2>4. ASSUME NEW i \in DOMAIN inFlight' PROVE inFlight'[i] = queue'[i]
    <3>1. i + 1 \in DOMAIN inFlight /\ inFlight'[i] = inFlight[i + 1] /\ i \in 1 .. Len(queue) - 1
      BY <2>1, <1>6, <1>8
    <3> QED BY <3>1, <2>1, <1>7
  <2>5. ASSUME writing # NoRequest
        PROVE  Len(inFlight') < Len(queue') /\ writing = queue'[Len(inFlight') + 1]
    <3>1. Len(inFlight) < Len(queue) /\ writing = queue[Len(inFlight) + 1]
      BY <2>1, <2>5
    <3>2. Len(inFlight) \in 1 .. Len(queue) - 1 /\ Len(inFlight') + 1 = Len(inFlight)
      BY <3>1, <1>6, <1>8
    <3> QED BY <3>1, <3>2, <1>6, <1>7
  <2>6. inFlight' # <<>> => 0 < Size(inFlight'[1])
    <3>1. SUFFICES ASSUME inFlight' # <<>> PROVE 0 < Size(inFlight'[1])
      OBVIOUS
    <3>2. inFlight'[1] \in Requests
      BY <3>1, <1>8
    <3> QED BY <3>2, RequestFacts
  <2>7. ASSUME NEW i \in DOMAIN inFlight' PROVE ~IsExclusive(inFlight'[i])
    <3>1. i + 1 \in DOMAIN inFlight /\ inFlight'[i] = inFlight[i + 1] /\ Len(inFlight) # 1
      BY <1>6, <1>8
    <3> QED BY <3>1, <2>1
  <2> QED BY <2>1, <2>2, <2>3, <2>4, <2>5, <2>6, <2>7, <1>3 DEF SessionInv
<1>17. ToSet(wire)' = ToSet(wire)
  BY <1>3 DEF ToSet
<1>18. WireInv'
  <2>1. ASSUME up, NEW k \in DOMAIN wire
        PROVE  \/ state'[wire[k][1]] \in Results \/ wire[k][1] \in ToSet(inFlight')
               \/ wire[k][1] = writing /\ written = "ok"
    <3>1. wire[k][1] \in Requests
      BY <1>1 DEF TypeOK
    <3>2. \/ Settled(wire[k][1]) \/ wire[k][1] \in ToSet(inFlight') \/ wire[k][1] = r
          \/ wire[k][1] = writing /\ written = "ok"
      BY <2>1, <1>1, <1>8 DEF WireInv
    <3>3. Settled(wire[k][1]) => state'[wire[k][1]] \in Results
      BY <3>1, <1>2, <1>5 DEF Settled
    <3>4. wire[k][1] = r => state'[wire[k][1]] \in Results
      BY <1>5
    <3> QED BY <3>2, <3>3, <3>4
  <2>2. ASSUME up, NEW x \in Requests, x \in ToSet(inFlight') \/ (x = writing /\ written = "ok")
        PROVE  executed[x][1] > 0 \/ OnWire(x, 1)
    BY <2>2, <1>1, <1>8 DEF WireInv
  <2> QED BY <2>1, <2>2, <1>1, <1>3, <1>17 DEF WireInv, Settled, OnWire
<1>19. ExposureInv'
  <2>1. ASSUME NEW x \in Requests, Exposed(x) PROVE Exposed(x)'
    <3>1. CASE x = r
      BY <3>1, <1>10 DEF Exposed, Settled
    <3>2. CASE x # r
      <4>1. state'[x] \notin {"new", "rejected"}
        BY <2>1, <3>2, <1>5 DEF Exposed
      <4>2. \/ Settled(x) \/ x \in ToSet(inFlight') \/ (x = writing /\ written \in {"ok", "partial"})
        BY <2>1, <3>2, <1>2, <1>8 DEF Exposed
      <4> QED BY <4>1, <4>2, <1>3, <1>9 DEF Exposed
    <3> QED BY <3>1, <3>2
  <2> QED BY <2>1, <1>1, <1>3, <1>11, <1>17, ExposureKeeps
<1>20. OrderInv'
  <2>1. \A a \in DOMAIN arrival : state'[arrival[a]] = "queued" => state[arrival[a]] = "queued"
    <3>1. \A a \in DOMAIN arrival : arrival[a] \in Requests
      BY <1>1, RequestFacts DEF QueueInv
    <3> QED BY <3>1, <1>5
  <2> QED BY <2>1, <1>1, <1>3 DEF OrderInv
<1>21. SuffixInv'
  <2>1. \A x \in replied : x \in Requests
    BY <1>1 DEF TypeOK
  <2>2. ASSUME NEW x \in replied' PROVE Settled(x)'
    <3>1. CASE x = r
      BY <3>1, <1>10 DEF Settled
    <3>2. CASE x # r
      <4>1. x \in replied
        BY <3>2, <1>3
      <4>2. Settled(x)
        BY <4>1, <3>2, <1>1, <1>2 DEF SuffixInv, r
      <4> QED BY <4>1, <4>2, <2>1, <1>9
    <3> QED BY <3>1, <3>2
  <2> QED BY <2>2 DEF SuffixInv
<1> QED
  BY <1>11, <1>12, <1>13, <1>15, <1>16, <1>18, <1>19, <1>20, <1>21 DEF IInv

LEMMA TakeReplyKeeps == ASSUME IInv, TakeReply PROVE IInv'
BY ReplyKeeps, LastReplyKeeps
----------------------------------------------------------------------------
LEMMA InitEstablishes == Init => IInv
<1>1. SUFFICES ASSUME Init PROVE IInv
  OBVIOUS
<1>2. /\ queue = <<>> /\ inFlight = <<>> /\ wire = <<>> /\ back = <<>> /\ arrival = <<>>
      /\ \A r \in Requests : state[r] = "new" /\ failures[r] = 0 /\ ambiguous[r] = 0
      /\ ToSet(queue) = {} /\ ToSet(inFlight) = {} /\ ToSet(wire) = {}
      /\ Len(queue) = 0 /\ DOMAIN queue = {} /\ DOMAIN arrival = {} /\ DOMAIN wire = {}
      /\ DOMAIN inFlight = {} /\ Len(inFlight) = 0
  BY <1>1 DEF Init, ToSet
<1>3. TypeOK
  <2>1. /\ <<>> \in Seq(Requests) /\ <<>> \in Seq(Requests \X (1 .. PipelineSize))
        /\ 0 \in 0 .. MaxRetries + 1 /\ 0 \in 0 .. PipelineSize - 1
    BY ClientAssumption
  <2>2. executed \in [Requests -> [1 .. PipelineSize -> Nat]]
    BY <1>1 DEF Init
  <2> QED BY <2>1, <2>2, <1>1 DEF Init, TypeOK
<1>4. BudgetInv
  BY <1>2, ClientAssumption DEF BudgetInv
<1>5. QueueInv
  BY <1>2 DEF QueueInv, NothingForgotten
<1>6. QuitInv
  BY <1>1, <1>2, RequestFacts DEF QuitInv, QuitDrains, Init
<1>7. SessionInv
  BY <1>1, <1>2 DEF SessionInv, Init
<1>8. WireInv
  BY <1>1, <1>2 DEF WireInv, Init
<1>9. ExposureInv
  <2>1. SUFFICES ASSUME NEW r \in Requests, NEW i \in 1 .. Size(r)
                 PROVE  executed[r][i] + Count(OnWire(r, i)) <= ambiguous[r] + Count(Exposed(r))
    BY DEF ExposureInv
  <2>2. i \in 1 .. PipelineSize
    BY RequestFacts, ClientAssumption
  <2>3. executed[r][i] = 0 /\ ambiguous[r] = 0
    BY <2>2, <1>1, <1>2 DEF Init
  <2>4. ~OnWire(r, i)
    BY <1>2 DEF OnWire
  <2> QED BY <2>3, <2>4 DEF Count
<1>10. OrderInv
  BY <1>2 DEF OrderInv
<1>11. SuffixInv
  BY <1>1 DEF SuffixInv, Init
<1> QED
  BY <1>3, <1>4, <1>5, <1>6, <1>7, <1>8, <1>9, <1>10, <1>11 DEF IInv

LEMMA NextKeeps == IInv /\ [Next]_vars => IInv'
<1>1. SUFFICES ASSUME IInv, [Next]_vars PROVE IInv'
  OBVIOUS
<1>2. CASE \E r \in Submitted : Submit(r)
  BY <1>1, <1>2, SubmitKeeps
<1>3. CASE Quit
  BY <1>1, <1>3, QuitKeeps
<1>4. CASE \/ Disconnect \/ Loop \/ Reconnect \/ StartRead \/ ReadReply \/ ReadFails \/ Drop
           \/ UNCHANGED vars
  BY <1>1, <1>4, QuietSteps
<1>5. CASE Connect
  BY <1>1, <1>5, ConnectKeeps
<1>6. CASE FinishClosed
  BY <1>1, <1>6, FinishClosedKeeps
<1>7. CASE StartWrite
  BY <1>1, <1>7, StartWriteKeeps
<1>8. CASE TakeWritten
  BY <1>1, <1>8, TakeWrittenKeeps
<1>9. CASE TakeReply
  BY <1>1, <1>9, TakeReplyKeeps
<1>10. CASE WriteFailed
  BY <1>1, <1>10, WriteFailedKeeps
<1>11. CASE ReadFailed
  BY <1>1, <1>11, ReadFailedKeeps
<1>12. CASE IdleClose \/ StopSession
  BY <1>1, <1>12, StopKeeps
<1>13. CASE Write
  BY <1>1, <1>13, WriteKeeps
<1>14. CASE Execute
  BY <1>1, <1>14, ExecuteKeeps
<1> QED
  BY <1>1, <1>2, <1>3, <1>4, <1>5, <1>6, <1>7, <1>8, <1>9, <1>10, <1>11, <1>12, <1>13, <1>14
     DEF Next, Session

LEMMA Invariance == Spec => []IInv
BY InitEstablishes, NextKeeps, PTL DEF Spec

(* The state of the client has its types: counters within the retry        *)
(* budget, replies within the pipeline.                                    *)
THEOREM TypeCorrect == Spec => []TypeOK
<1>1. IInv => TypeOK
  BY DEF IInv
<1> QED BY <1>1, Invariance, PTL

LEMMA InvariantAccounts == IInv => RepliesAccounted
<1>1. SUFFICES ASSUME IInv PROVE RepliesAccounted
  OBVIOUS
<1>2. TypeOK /\ BudgetInv /\ QueueInv /\ QuitInv /\ ExposureInv /\ OrderInv
  BY <1>1 DEF IInv
<1>3. ASSUME NEW r \in Requests, NEW i \in 1 .. Size(r)
      PROVE  executed[r][i] <= 1 + ambiguous[r]
  <2>1. executed[r][i] + Count(OnWire(r, i)) <= ambiguous[r] + Count(Exposed(r))
    BY <1>2 DEF ExposureInv
  <2>2. executed[r][i] \in Nat /\ ambiguous[r] \in Nat
    BY <1>2, CountFacts
  <2> QED BY <2>1, <2>2 DEF Count
<1>4. ExclusiveOnce
  <2>1. SUFFICES ASSUME NEW r \in Requests, IsExclusive(r) PROVE executed[r][1] <= 1
    BY DEF ExclusiveOnce
  <2>2. ambiguous[r] = 0 /\ 1 \in 1 .. Size(r)
    BY <2>1, <1>2, CountFacts DEF BudgetInv
  <2>3. executed[r][1] <= 1 + ambiguous[r]
    BY <2>2, <1>3
  <2> QED BY <2>2, <2>3
<1>5. InOrder
  BY <1>2 DEF InOrder, OrderInv
<1> QED
  BY <1>2, <1>3, <1>4, <1>5 DEF RepliesAccounted, ExposureReported, QueueInv, QuitInv

(* Whatever connections are lost, writes cut short and requests replayed:  *)
(* a result tells how often its command may have been executed, blocking   *)
(* commands and QUIT run at most once, no accepted request is forgotten or *)
(* settled twice, commands run in the order they were accepted, and QUIT   *)
(* is answered last.                                                       *)
THEOREM RepliesAreAccounted == Spec => []RepliesAccounted
BY Invariance, InvariantAccounts, PTL

LEMMA StartWriteFresh ==
    ASSUME IInv, StartWrite
    PROVE  writing' \notin replied
<1>1. writing = NoRequest /\ pc = "session" /\ writing' = Head(Unscheduled) /\ Unscheduled # <<>>
  BY DEF IInv, SessionInv, StartWrite
<1>2. /\ Len(inFlight) < Len(queue) /\ writing' = queue[Len(inFlight) + 1]
  BY <1>1, NextToWrite
<1>3. /\ DOMAIN queue = 1 .. Len(queue) /\ Len(queue) \in Nat /\ Len(inFlight) \in Nat
      /\ inFlight # <<>> => inFlight[1] = queue[1] /\ 1 \in DOMAIN queue
      /\ \A r \in ToSet(queue) : ~Settled(r)
  BY SessionFacts
<1>4. Len(inFlight) + 1 \in DOMAIN queue
  BY <1>2, <1>3
<1>5. writing' \in ToSet(queue)
  BY <1>2, <1>4 DEF ToSet
<1>6. inFlight # <<>> => writing' # inFlight[1]
  <2>1. SUFFICES ASSUME inFlight # <<>> PROVE Len(inFlight) + 1 # 1
    BY <1>2, <1>3, <1>4 DEF IInv, QueueInv, NothingForgotten
  <2>2. inFlight \in Seq(Requests)
    BY DEF IInv, TypeOK
  <2> QED BY <2>1, <2>2
<1>7. SuffixInv
  BY DEF IInv
<1> QED
  BY <1>1, <1>3, <1>5, <1>6, <1>7 DEF SuffixInv

(* No step of the client writes a request again of which a reply was       *)
(* taken: the rest of a cut pipeline is aborted and never replayed.        *)
THEOREM SuffixesNotReplayed == Spec => SuffixNotReplayed
<1>1. IInv /\ [Next]_vars => [written = "none" /\ written' = "busy" => writing' \notin replied]_vars
  <2>1. SUFFICES ASSUME IInv, Next, written = "none", written' = "busy" PROVE StartWrite
    BY StartWriteFresh
  <2>2. \A r \in Submitted : ~Submit(r)
    BY <2>1 DEF Submit, sessionVars, writerVars
  <2>3. ~Quit /\ ~Disconnect /\ ~Loop /\ ~Connect /\ ~Reconnect /\ ~FinishClosed
    BY <2>1 DEF Quit, Disconnect, Loop, Connect, Reconnect, FinishClosed, sessionVars, writerVars
  <2>4. ~TakeWritten /\ ~StartRead /\ ~TakeReply
    BY <2>1 DEF TakeWritten, StartRead, TakeReply, writerVars
  <2>5. ~WriteFailed /\ ~ReadFailed /\ ~IdleClose /\ ~StopSession
    BY <2>1 DEF WriteFailed, ReadFailed, IdleClose, StopSession, EndSession
  <2>6. ~Write /\ ~ReadReply /\ ~ReadFails /\ ~Execute /\ ~Drop
    BY <2>1 DEF Write, ReadReply, ReadFails, Execute, Drop, sessionVars, writerVars
  <2> QED BY <2>1, <2>2, <2>3, <2>4, <2>5, <2>6 DEF Next, Session
<1> QED BY <1>1, Invariance, PTL DEF Spec, SuffixNotReplayed
============================================================================
