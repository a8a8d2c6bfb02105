-------------------------- MODULE HTTPServerProofs --------------------------
(* The access log and the bypass of the advanced HTTP server, for every      *)
(* configuration, every sequence of the caller's middlewares and every       *)
(* request.  What was logged, opened or passed by a request is a function of *)
(* where it is in the chain: that is the inductive invariant.                *)
EXTENDS HTTPServer, Integers, TLAPS

Opening == {"markOwned", "requestID", "otel", "otelRoute"}
Guards == {"authorize", "parseData"}
Inner == {"cors", "staticHealth", "answersHealth", "passesHealth", "authorize", "user", "maxPayload", "parseData",
          "errorHandler", "recovery", "response"}

(* A chain ch of an advanced server: the log at l with the tracing at t and  *)
(* nothing that answers before it, the router last, and of a static server   *)
(* the marking first, and the static probes at h before the caller's own.    *)
ChainShape(static, ch, t, l, h, n) ==
    /\ t \in Nat /\ l \in Nat /\ h \in Nat /\ n \in Nat
    /\ 1 < t /\ t < l /\ l < n /\ DOMAIN ch = 1..n /\ Len(ch) = n
    /\ ch[t] = "otel" /\ ch[l] = "log" /\ ch[n] = "route"
    /\ \A k \in 1..n : k < l => ch[k] \in Opening /\ (k # t => ch[k] # "otel")
    /\ \A k \in 1..n : l < k /\ k < n => ch[k] \in Inner
    /\ static => /\ ch[1] = "markOwned" /\ l < h /\ h < n /\ ch[h] = "staticHealth"
                 /\ \A k \in 1..n : ch[k] = "answersHealth" => h < k
    /\ \A k \in 1..n : ch[k] = "markOwned" => static /\ k = 1

Ways == {"down", "up", "panic"}
RequestStates ==
    [at : Nat, server : Nat, r : Requests, owned : BOOLEAN, way : Ways, status : Nat,
     by : {"nobody", "health", "cors", "custom", "authorize", "parseData", "app", "notFound", "gin"},
     log : Seq({"REQ", "RES"}), span : {"none", "open", "ended"}, passed : SUBSET Guards]

(* Who answers the requests that are not logged: the caller's health         *)
(* middlewares only where no static response is.                             *)
ProbeAnswerers == {"health", "cors"} \cup IF Static(cfg) THEN {} ELSE {"custom"}

(* A request q in a chain of that shape.                                     *)
Marked(q) ==
    /\ q.way = "down" /\ q.at = 1 => q.owned = FALSE
    /\ q.way # "down" \/ q.at > 1 => q.owned = (Static(cfg) /\ IsStaticHealthProbe(q.r))
Logged(q, l) ==
    /\ (q.way = "down" /\ q.at <= l) \/ Bypassed(q) \/ ~cfg.logging => q.log = <<>>
    /\ ~Bypassed(q) /\ cfg.logging =>
           /\ q.at > l => q.log = <<"REQ">>
           /\ q.at <= l /\ q.way = "up" => q.log = <<"REQ", "RES">>
           /\ q.at <= l /\ q.way = "panic" => q.log = <<"REQ">>
Traced(q, t) ==
    /\ q.way = "down" /\ q.at <= t => q.span = "none"
    /\ q.way # "down" /\ q.at <= t => q.span # "open"
Guarded(q, ch, h) ==
    /\ q.way = "down" /\ Static(cfg) /\ Bypassed(q) => q.at <= h
    /\ q.way = "down" /\ ~Bypassed(q) =>
           \A k \in DOMAIN ch : k < q.at /\ ch[k] \in Guards => ch[k] \in q.passed
    /\ q.way # "down" /\ Bypassed(q) => q.by \in ProbeAnswerers
    /\ q.way # "down" /\ q.by = "app" => \A k \in DOMAIN ch : ch[k] \in Guards => ch[k] \in q.passed
RequestOK(q, ch, t, l, h, n) ==
    /\ q \in RequestStates /\ q.at \in 1..n
    /\ Marked(q) /\ Logged(q, l) /\ Traced(q, t) /\ Guarded(q, ch, h)

(* The inductive invariant.                                                  *)
HTTPInv ==
    /\ cfg \in Configs
    /\ chain = <<>> => servers = <<>> /\ req = Nobody
    /\ chain # <<>> => chain = Chain(cfg)
    /\ ~cfg.upstream /\ req # Nobody =>
           \A t, l, h, n \in 1..Len(chain) :
               ChainShape(Static(cfg), chain, t, l, h, n) => RequestOK(req, chain, t, l, h, n)
-----------------------------------------------------------------------------
(* The chain Init builds has that shape.                                     *)

LEMMA Concat ==
    ASSUME NEW S, NEW s \in Seq(S), NEW u \in Seq(S)
    PROVE  /\ s \o u \in Seq(S) /\ Len(s \o u) = Len(s) + Len(u) /\ Len(s) \in Nat /\ Len(u) \in Nat
           /\ \A k \in 1..Len(s) : (s \o u)[k] = s[k] /\ s[k] \in S
           /\ \A k \in 1..Len(u) : u[k] \in S
           /\ \A k \in Len(s)+1..Len(s)+Len(u) : (s \o u)[k] = u[k - Len(s)] /\ k - Len(s) \in 1..Len(u)
OBVIOUS

Middlewares == Opening \cup Inner \cup {"log", "route"}

(* A chain under construction, past the log.                                 *)
Begun(static, s, t, l) ==
    /\ s \in Seq(Middlewares) /\ t \in Nat /\ l \in Nat /\ 1 < t /\ t < l /\ l <= Len(s)
    /\ s[t] = "otel" /\ s[l] = "log"
    /\ \A k \in 1..Len(s) : k < l => s[k] \in Opening /\ (k # t => s[k] # "otel")
    /\ \A k \in 1..Len(s) : l < k => s[k] \in Inner
    /\ static => s[1] = "markOwned"
    /\ \A k \in 1..Len(s) : s[k] = "markOwned" => static /\ k = 1

LEMMA Extended ==
    ASSUME NEW static, NEW s, NEW t, NEW l, NEW u \in Seq(Inner), Begun(static, s, t, l)
    PROVE  /\ Begun(static, s \o u, t, l) /\ Len(s \o u) = Len(s) + Len(u)
           /\ \A k \in 1..Len(s) : (s \o u)[k] = s[k]
<1>1. s \in Seq(Middlewares) /\ u \in Seq(Middlewares)
  BY DEF Begun, Middlewares
<1>2. /\ s \o u \in Seq(Middlewares) /\ Len(s \o u) = Len(s) + Len(u) /\ Len(s) \in Nat /\ Len(u) \in Nat
      /\ \A k \in 1..Len(s) : (s \o u)[k] = s[k]
      /\ \A k \in Len(s)+1..Len(s)+Len(u) : (s \o u)[k] = u[k - Len(s)] /\ k - Len(s) \in 1..Len(u)
  BY <1>1, Concat
<1>3. \A k \in 1..Len(u) : u[k] \in Inner
  OBVIOUS
<1>4. \A k \in Len(s)+1..Len(s)+Len(u) : (s \o u)[k] \in Inner
  BY <1>2, <1>3
<1>5. \A x \in Inner : x # "markOwned"
  BY DEF Inner
<1> DEFINE w == s \o u
<1> HIDE DEF w
<1>6. /\ w \in Seq(Middlewares) /\ Len(w) = Len(s) + Len(u)
      /\ \A k \in 1..Len(s) : w[k] = s[k]
      /\ \A k \in Len(s)+1..Len(s)+Len(u) : w[k] \in Inner
  BY <1>2, <1>4 DEF w
<1>7. 1 \in 1..Len(s) /\ t \in 1..Len(s) /\ l \in 1..Len(s)
  BY <1>2 DEF Begun
<1>8. \A k \in 1..Len(w) : k \in 1..Len(s) \/ (k \in Len(s)+1..Len(s)+Len(u) /\ k > l /\ k # 1)
  BY <1>2, <1>6, <1>7
<1>9. Begun(static, w, t, l)
  <2>1. \A k \in 1..Len(w) : k < l => w[k] \in Opening /\ (k # t => w[k] # "otel")
    <3> SUFFICES ASSUME NEW k \in 1..Len(w), k < l
                 PROVE  w[k] \in Opening /\ (k # t => w[k] # "otel")
      OBVIOUS
    <3>1. k \in 1..Len(s)
      BY <1>8 DEF Begun
    <3> QED BY <1>6, <3>1 DEF Begun
  <2>2. \A k \in 1..Len(w) : l < k => w[k] \in Inner
    BY <1>2, <1>6, <1>8 DEF Begun
  <2>3. \A k \in 1..Len(w) : w[k] = "markOwned" => static /\ k = 1
    BY <1>5, <1>6, <1>8 DEF Begun
  <2>4. static => w[1] = "markOwned"
    BY <1>6, <1>7 DEF Begun
  <2>5. w[t] = "otel" /\ w[l] = "log"
    BY <1>6, <1>7 DEF Begun
  <2> QED BY <1>2, <1>6, <2>1, <2>2, <2>3, <2>4, <2>5 DEF Begun
<1> QED BY <1>2, <1>9 DEF w

LEMMA OnlyIs ==
    ASSUME NEW S, NEW s \in Seq(S), NEW b \in BOOLEAN
    PROVE  Only(b, s) \in Seq(S) /\ (b => Only(b, s) = s)
BY DEF Only

(* The opening of an advanced server's chain.                                *)
LEMMA OpeningIs ==
    ASSUME NEW static \in BOOLEAN
    PROVE  LET s == (Only(static, <<"markOwned">>) \o <<"requestID", "otel", "otelRoute">>) \o <<"log">>
           IN  Begun(static, s, Len(s) - 2, Len(s))
<1> DEFINE b == <<"requestID", "otel", "otelRoute">>
           m == Only(static, <<"markOwned">>)
           s == (m \o b) \o <<"log">>
<1>0. /\ b \in Seq(Middlewares) /\ Len(b) = 3 /\ b[1] = "requestID" /\ b[2] = "otel" /\ b[3] = "otelRoute"
      /\ <<"log">> \in Seq(Middlewares) /\ <<"markOwned">> \in Seq(Middlewares) /\ <<>> \in Seq(Middlewares)
  BY DEF Middlewares, Opening, Inner
<1>1. CASE static = TRUE
  <2>1. m = <<"markOwned">>
    BY <1>1 DEF Only
  <2>2. /\ Len(s) = 5 /\ s[1] = "markOwned" /\ s[2] = "requestID" /\ s[3] = "otel" /\ s[4] = "otelRoute"
        /\ s[5] = "log" /\ s \in Seq(Middlewares)
    <3> HIDE DEF b, m
    <3>1. m \in Seq(Middlewares) /\ Len(m) = 1 /\ m[1] = "markOwned"
      BY <1>0, <2>1
    <3>2. /\ m \o b \in Seq(Middlewares) /\ Len(m \o b) = 4 /\ (m \o b)[1] = "markOwned"
          /\ (m \o b)[2] = "requestID" /\ (m \o b)[3] = "otel" /\ (m \o b)[4] = "otelRoute"
      <4>0. m \in Seq(Middlewares) /\ b \in Seq(Middlewares)
        BY <1>0, <3>1
      <4>1. /\ m \o b \in Seq(Middlewares) /\ Len(m \o b) = Len(m) + Len(b)
            /\ \A k \in 1..Len(m) : (m \o b)[k] = m[k]
            /\ \A k \in Len(m)+1..Len(m)+Len(b) : (m \o b)[k] = b[k - Len(m)]
        BY <4>0, Concat
      <4>2. (m \o b)[1] = m[1] /\ (m \o b)[2] = b[2 - 1] /\ (m \o b)[3] = b[3 - 1] /\ (m \o b)[4] = b[4 - 1]
        BY <1>0, <3>1, <4>1
      <4> QED BY <1>0, <3>1, <4>1, <4>2
    <3> QED BY <1>0, <3>2, Concat
  <2> HIDE DEF s
  <2>3. \A k \in 1..5 : k = 1 \/ k = 2 \/ k = 3 \/ k = 4 \/ k = 5
    OBVIOUS
  <2>4. \A k \in 1..5 : k < 5 => s[k] \in Opening /\ (k # 3 => s[k] # "otel")
    BY <2>2, <2>3 DEF Opening
  <2>5. \A k \in 1..5 : s[k] = "markOwned" => static /\ k = 1
    BY <1>1, <2>2, <2>3
  <2>6. Begun(static, s, 3, 5)
    BY <2>2, <2>4, <2>5 DEF Begun
  <2> QED BY <2>2, <2>6 DEF s
<1>2. CASE static = FALSE
  <2>1. m = <<>>
    BY <1>2 DEF Only
  <2>2. /\ Len(s) = 4 /\ s[1] = "requestID" /\ s[2] = "otel" /\ s[3] = "otelRoute"
        /\ s[4] = "log" /\ s \in Seq(Middlewares)
    <3> HIDE DEF b, m
    <3>1. m \in Seq(Middlewares) /\ Len(m) = 0
      BY <1>0, <2>1
    <3>2. /\ m \o b \in Seq(Middlewares) /\ Len(m \o b) = 3
          /\ (m \o b)[1] = "requestID" /\ (m \o b)[2] = "otel" /\ (m \o b)[3] = "otelRoute"
      <4>0. m \in Seq(Middlewares) /\ b \in Seq(Middlewares)
        BY <1>0, <3>1
      <4>1. /\ m \o b \in Seq(Middlewares) /\ Len(m \o b) = Len(m) + Len(b)
            /\ \A k \in 1..Len(m) : (m \o b)[k] = m[k]
            /\ \A k \in Len(m)+1..Len(m)+Len(b) : (m \o b)[k] = b[k - Len(m)]
        BY <4>0, Concat
      <4>2. (m \o b)[1] = b[1 - 0] /\ (m \o b)[2] = b[2 - 0] /\ (m \o b)[3] = b[3 - 0]
        BY <1>0, <3>1, <4>1
      <4> QED BY <1>0, <3>1, <4>1, <4>2
    <3> QED BY <1>0, <3>2, Concat
  <2> HIDE DEF s
  <2>3. \A k \in 1..4 : k = 1 \/ k = 2 \/ k = 3 \/ k = 4
    OBVIOUS
  <2>4. \A k \in 1..4 : k < 4 => s[k] \in Opening /\ (k # 2 => s[k] # "otel")
    BY <2>2, <2>3 DEF Opening
  <2>5. \A k \in 1..4 : s[k] = "markOwned" => static /\ k = 1
    BY <2>2, <2>3
  <2>6. Begun(static, s, 2, 4)
    BY <1>2, <2>2, <2>4, <2>5 DEF Begun
  <2> QED BY <2>2, <2>6 DEF s
<1> QED BY <1>1, <1>2

LEMMA ChainHasShape ==
    ASSUME NEW c \in Configs, ~c.upstream
    PROVE  \E t, l, h, n \in 1..Len(Chain(c)) : ChainShape(Static(c), Chain(c), t, l, h, n)
<1>1. /\ c.user \in Seq(Inner) /\ c.response \in Seq(Inner) /\ c.static \in BOOLEAN /\ c.parse \in BOOLEAN
      /\ c.upstream = FALSE /\ c.health \in Seq(Inner)
  <2>1. /\ c.health \in Seq({"answersHealth", "passesHealth"})
        /\ c.user \in Seq({"authorize", "user"}) /\ c.static \in BOOLEAN /\ c.parse \in BOOLEAN
        /\ c.response \in Seq({"errorHandler", "recovery", "response"}) /\ c.upstream \in BOOLEAN
    BY ConfigsAreComplete
  <2> QED BY <2>1 DEF Inner
<1>2. Static(c) \in BOOLEAN
  BY <1>1 DEF Static
<1> DEFINE s2 == (Only(Static(c), <<"markOwned">>) \o <<"requestID", "otel", "otelRoute">>) \o <<"log">>
           l == Len(s2)
           t == Len(s2) - 2
           cors == Only(c.cors # "off", <<"cors">>)
           health == Only(Static(c), <<"staticHealth">>)
           parsers == Only(c.parse, <<"maxPayload", "parseData">>)
           s3 == s2 \o cors
           s4 == s3 \o health
           s0 == s4 \o c.health
           s5 == s0 \o c.user
           s6 == s5 \o parsers
           s7 == s6 \o c.response
           s8 == s7 \o <<"route">>
<1>3. Chain(c) = s8
  <2>1. Only(~c.upstream, <<"requestID", "otel", "otelRoute">>) = <<"requestID", "otel", "otelRoute">>
    BY <1>1 DEF Only
  <2> QED BY <2>1 DEF Chain
<1>4. Begun(Static(c), s2, t, l)
  BY <1>2, OpeningIs
<1>5. cors \in Seq(Inner) /\ health \in Seq(Inner) /\ parsers \in Seq(Inner)
  <2>1. /\ <<"cors">> \in Seq(Inner) /\ <<"staticHealth">> \in Seq(Inner)
        /\ <<"maxPayload", "parseData">> \in Seq(Inner) /\ <<>> \in Seq(Inner)
    BY DEF Inner
  <2> QED BY <2>1 DEF Only
<1>6. Static(c) => health = <<"staticHealth">>
  BY DEF Only
<1> HIDE DEF s2, t, l, cors, health, parsers
<1>7. Begun(Static(c), s3, t, l) /\ Len(s3) = Len(s2) + Len(cors)
  BY <1>4, <1>5, Extended
<1> HIDE DEF s3
<1>8. Begun(Static(c), s4, t, l) /\ Len(s4) = Len(s3) + Len(health)
  BY <1>5, <1>7, Extended
<1>9. Static(c) => Len(s4) = Len(s3) + 1 /\ s4[Len(s4)] = "staticHealth" /\ Len(s3) \in Nat
  <2> SUFFICES ASSUME Static(c) PROVE Len(s4) = Len(s3) + 1 /\ s4[Len(s4)] = "staticHealth" /\ Len(s3) \in Nat
    OBVIOUS
  <2>1. health = <<"staticHealth">> /\ Len(health) = 1 /\ health[1] = "staticHealth"
    BY <1>6
  <2>2. s3 \in Seq(Middlewares) /\ health \in Seq(Middlewares)
    BY <1>5, <1>7 DEF Begun, Middlewares
  <2>3. /\ Len(s3) \in Nat
        /\ \A k \in Len(s3)+1..Len(s3)+Len(health) : (s3 \o health)[k] = health[k - Len(s3)]
    BY <2>2, Concat
  <2>4. (s3 \o health)[Len(s3) + 1] = health[(Len(s3) + 1) - Len(s3)]
    BY <2>1, <2>3
  <2> QED BY <1>8, <2>1, <2>3, <2>4
<1>0. \A k \in 1..Len(s4) : s4[k] # "answersHealth"
  <2> DEFINE S == (Opening \cup {"log", "cors", "staticHealth"})
  <2>1. s2 \in Seq(S)
    <3>1. \A k \in 1..Len(s2) : s2[k] \in S
      <4>1. \A k \in 1..Len(s2) : k < l \/ k = l
        BY <1>4 DEF Begun, l
      <4> QED BY <1>4, <4>1 DEF Begun
    <3>2. s2 \in Seq(Middlewares)
      BY <1>4 DEF Begun
    <3> HIDE DEF S
    <3> QED BY <3>1, <3>2
  <2>2. cors \in Seq(S) /\ health \in Seq(S)
    <3>1. <<"cors">> \in Seq(S) /\ <<"staticHealth">> \in Seq(S) /\ <<>> \in Seq(S)
      OBVIOUS
    <3> HIDE DEF S
    <3> QED BY <3>1 DEF Only, cors, health
  <2>3. "answersHealth" \notin S
    BY DEF Opening
  <2> HIDE DEF S
  <2>4. s3 \in Seq(S)
    BY <2>1, <2>2, Concat DEF s3
  <2>5. s4 \in Seq(S)
    BY <2>2, <2>4, Concat DEF s4
  <2> QED BY <2>3, <2>5
<1> HIDE DEF s4
<1>10. Begun(Static(c), s0, t, l) /\ Len(s0) = Len(s4) + Len(c.health) /\ \A k \in 1..Len(s4) : s0[k] = s4[k]
  <2>1. c.health \in Seq(Inner) /\ Begun(Static(c), s4, t, l)
    BY <1>1, <1>8
  <2>2. Begun(Static(c), s0, t, l) /\ Len(s0) = Len(s4) + Len(c.health)
    BY <2>1, Extended
  <2>3. \A k \in 1..Len(s4) : s0[k] = s4[k]
    BY <2>1, Extended
  <2> QED BY <2>2, <2>3
<1> HIDE DEF s0
<1>a. Begun(Static(c), s5, t, l) /\ Len(s5) = Len(s0) + Len(c.user) /\ \A k \in 1..Len(s0) : s5[k] = s0[k]
  <2>1. c.user \in Seq(Inner) /\ Begun(Static(c), s0, t, l)
    BY <1>1, <1>10
  <2>2. Begun(Static(c), s5, t, l) /\ Len(s5) = Len(s0) + Len(c.user)
    BY <2>1, Extended
  <2>3. \A k \in 1..Len(s0) : s5[k] = s0[k]
    BY <2>1, Extended
  <2> QED BY <2>2, <2>3
<1> HIDE DEF s5
<1>11. Begun(Static(c), s6, t, l) /\ Len(s6) = Len(s5) + Len(parsers) /\ \A k \in 1..Len(s5) : s6[k] = s5[k]
  <2>1. parsers \in Seq(Inner) /\ Begun(Static(c), s5, t, l)
    BY <1>5, <1>a
  <2>2. Begun(Static(c), s6, t, l) /\ Len(s6) = Len(s5) + Len(parsers)
    BY <2>1, Extended
  <2>3. \A k \in 1..Len(s5) : s6[k] = s5[k]
    BY <2>1, Extended
  <2> QED BY <2>2, <2>3
<1> HIDE DEF s6
<1>12. Begun(Static(c), s7, t, l) /\ Len(s7) = Len(s6) + Len(c.response) /\ \A k \in 1..Len(s6) : s7[k] = s6[k]
  <2>1. c.response \in Seq(Inner) /\ Begun(Static(c), s6, t, l)
    BY <1>1, <1>11
  <2>2. Begun(Static(c), s7, t, l) /\ Len(s7) = Len(s6) + Len(c.response)
    BY <2>1, Extended
  <2>3. \A k \in 1..Len(s6) : s7[k] = s6[k]
    BY <2>1, Extended
  <2> QED BY <2>2, <2>3
<1> HIDE DEF s7
<1>13. /\ s8 \in Seq(Middlewares) /\ Len(s8) = Len(s7) + 1 /\ Len(s7) \in Nat /\ s8[Len(s7) + 1] = "route"
       /\ \A k \in 1..Len(s7) : s8[k] = s7[k]
  <2> DEFINE r == <<"route">>
  <2>1. r \in Seq(Middlewares) /\ Len(r) = 1 /\ r[1] = "route"
    BY DEF Middlewares
  <2> HIDE DEF r
  <2>2. s7 \in Seq(Middlewares) /\ r \in Seq(Middlewares)
    BY <1>12, <2>1 DEF Begun
  <2>3. /\ s7 \o r \in Seq(Middlewares) /\ Len(s7 \o r) = Len(s7) + Len(r) /\ Len(s7) \in Nat
        /\ \A k \in 1..Len(s7) : (s7 \o r)[k] = s7[k]
        /\ \A k \in Len(s7)+1..Len(s7)+Len(r) : (s7 \o r)[k] = r[k - Len(s7)]
    BY <2>2, Concat
  <2>4. (s7 \o r)[Len(s7) + 1] = r[(Len(s7) + 1) - Len(s7)]
    BY <2>1, <2>3
  <2>5. s8 = s7 \o r
    BY DEF r
  <2> HIDE DEF s8
  <2> QED BY <2>1, <2>3, <2>4, <2>5
<1> HIDE DEF s8
<1> DEFINE n == Len(s7) + 1
           h == IF Static(c) THEN Len(s4) ELSE 1
<1>14. /\ Len(s2) \in Nat /\ Len(s3) \in Nat /\ Len(s4) \in Nat /\ Len(s0) \in Nat /\ Len(s5) \in Nat /\ Len(s6) \in Nat
       /\ Len(cors) \in Nat /\ Len(c.health) \in Nat /\ Len(c.user) \in Nat /\ Len(parsers) \in Nat /\ Len(c.response) \in Nat
  <2>1. /\ s2 \in Seq(Middlewares) /\ s3 \in Seq(Middlewares) /\ s4 \in Seq(Middlewares)
        /\ s0 \in Seq(Middlewares) /\ s5 \in Seq(Middlewares) /\ s6 \in Seq(Middlewares)
    BY <1>4, <1>7, <1>8, <1>10, <1>a, <1>11 DEF Begun
  <2>2. \A S : \A s \in Seq(S) : Len(s) \in Nat
    OBVIOUS
  <2> QED BY <1>1, <1>5, <2>1, <2>2
<1>15. l \in Nat /\ t \in Nat /\ 1 < t /\ t < l /\ l = Len(s2)
  BY <1>4 DEF Begun, l
<1>16. Static(c) =>
         /\ l < Len(s4) /\ Len(s4) < n /\ s8[Len(s4)] = "staticHealth"
         /\ \A k \in 1..n : s8[k] = "answersHealth" => Len(s4) < k
  <2> SUFFICES ASSUME Static(c)
               PROVE  /\ l < Len(s4) /\ Len(s4) < n /\ s8[Len(s4)] = "staticHealth"
                      /\ \A k \in 1..n : s8[k] = "answersHealth" => Len(s4) < k
    OBVIOUS
  <2>1. /\ l < Len(s4) /\ Len(s4) <= Len(s0) /\ Len(s0) <= Len(s5) /\ Len(s5) <= Len(s6)
        /\ Len(s6) <= Len(s7) /\ Len(s4) >= 1
    <3>1. Len(s3) = Len(s2) + Len(cors) /\ Len(s4) = Len(s3) + 1 /\ Len(s0) = Len(s4) + Len(c.health)
      BY <1>7, <1>9, <1>10
    <3>2. /\ Len(s5) = Len(s0) + Len(c.user) /\ Len(s6) = Len(s5) + Len(parsers)
          /\ Len(s7) = Len(s6) + Len(c.response)
      BY <1>a, <1>11, <1>12
    <3>3. \A x, y, z \in Nat : z = x + y => x <= z
      OBVIOUS
    <3>4. Len(s2) <= Len(s3) /\ Len(s4) <= Len(s0)
      BY <1>14, <3>1, <3>3
    <3>5. Len(s0) <= Len(s5) /\ Len(s5) <= Len(s6)
      BY <1>14, <3>2, <3>3
    <3>7. Len(s7) \in Nat
      BY <1>13
    <3>8. Len(s6) <= Len(s7)
      BY <1>14, <3>2, <3>3, <3>7
    <3>9. l < Len(s4) /\ Len(s4) >= 1
      BY <1>14, <1>15, <3>1, <3>4
    <3> QED BY <3>4, <3>5, <3>8, <3>9
  <2>2. \A k \in 1..Len(s4) : s8[k] = s4[k]
    <3> SUFFICES ASSUME NEW k \in 1..Len(s4) PROVE s8[k] = s4[k]
      OBVIOUS
    <3>1. Len(s7) \in Nat
      BY <1>13
    <3>2. k \in 1..Len(s0) /\ k \in 1..Len(s5) /\ k \in 1..Len(s6) /\ k \in 1..Len(s7)
      BY <1>14, <2>1, <3>1
    <3>3. s0[k] = s4[k]
      BY <1>10
    <3>4. s5[k] = s0[k]
      BY <1>a, <3>2
    <3>5. s6[k] = s5[k]
      BY <1>11, <3>2
    <3>6. s7[k] = s6[k]
      BY <1>12, <3>2
    <3>7. s8[k] = s7[k]
      BY <1>13, <3>2
    <3> QED BY <3>3, <3>4, <3>5, <3>6, <3>7
  <2>3. s8[Len(s4)] = "staticHealth"
    BY <1>9, <1>14, <2>1, <2>2
  <2>4. ASSUME NEW k \in 1..n, s8[k] = "answersHealth" PROVE Len(s4) < k
    <3>1. k \notin 1..Len(s4)
      BY <1>0, <2>2, <2>4
    <3>2. k \in Nat /\ k >= 1
      BY <1>13
    <3> QED BY <1>14, <3>1, <3>2
  <2>5. Len(s4) < n
    BY <1>13, <1>14, <2>1
  <2> QED BY <2>1, <2>3, <2>4, <2>5
<1>17. h \in Nat /\ 1 <= h /\ h <= n
  BY <1>13, <1>14, <1>15, <1>16
<1>18. Static(c) => /\ l < h /\ h < n /\ s8[h] = "staticHealth"
                    /\ \A k \in 1..n : s8[k] = "answersHealth" => h < k
  BY <1>16
<1> HIDE DEF h
<1>19. /\ DOMAIN s8 = 1..n /\ Len(s8) = n /\ s8[n] = "route" /\ n \in Nat /\ l < n
       /\ s8[t] = "otel" /\ s8[l] = "log" /\ s8[1] = s7[1]
  <2>1. 1 \in 1..Len(s7) /\ t \in 1..Len(s7) /\ l \in 1..Len(s7)
    BY <1>12, <1>13, <1>15 DEF Begun
  <2>2. s7[t] = "otel" /\ s7[l] = "log"
    BY <1>12 DEF Begun
  <2> QED BY <1>13, <2>1, <2>2
<1>20. \A k \in 1..n : k = n \/ (k \in 1..Len(s7) /\ s8[k] = s7[k])
  BY <1>13
<1>21. \A k \in 1..n : k < l => s8[k] \in Opening /\ (k # t => s8[k] # "otel")
  <2> SUFFICES ASSUME NEW k \in 1..n, k < l PROVE s8[k] \in Opening /\ (k # t => s8[k] # "otel")
    OBVIOUS
  <2>1. k \in 1..Len(s7) /\ s8[k] = s7[k]
    BY <1>15, <1>19, <1>20
  <2> QED BY <1>12, <2>1 DEF Begun
<1>22. \A k \in 1..n : l < k /\ k < n => s8[k] \in Inner
  <2> SUFFICES ASSUME NEW k \in 1..n, l < k, k < n PROVE s8[k] \in Inner
    OBVIOUS
  <2>1. k \in 1..Len(s7) /\ s8[k] = s7[k]
    BY <1>19, <1>20
  <2> QED BY <1>12, <2>1 DEF Begun
<1>23. \A k \in 1..n : s8[k] = "markOwned" => Static(c) /\ k = 1
  <2> SUFFICES ASSUME NEW k \in 1..n, s8[k] = "markOwned" PROVE Static(c) /\ k = 1
    OBVIOUS
  <2>1. k \in 1..Len(s7) /\ s8[k] = s7[k]
    BY <1>19, <1>20
  <2> QED BY <1>12, <2>1 DEF Begun
<1>24. Static(c) => s8[1] = "markOwned"
  BY <1>12, <1>19 DEF Begun
<1> HIDE DEF n
<1>25. ChainShape(Static(c), s8, t, l, h, n)
  BY <1>15, <1>17, <1>18, <1>19, <1>21, <1>22, <1>23, <1>24 DEF ChainShape
<1>26. t \in 1..Len(s8) /\ l \in 1..Len(s8) /\ h \in 1..Len(s8) /\ n \in 1..Len(s8)
  BY <1>15, <1>17, <1>19
<1> QED BY <1>3, <1>25, <1>26
-----------------------------------------------------------------------------
(* A request in the chain of an advanced server.                             *)

(* Which requests are bypassed is settled by the request; past the marking,  *)
(* the same ones are not logged.                                             *)
LEMMA BypassIsFixed ==
    ASSUME NEW q, NEW q2, q2.r = q.r
    PROVE  Bypassed(q2) <=> Bypassed(q)
BY DEF Bypassed

LEMMA UnloggedIsBypassed ==
    ASSUME NEW q, cfg.upstream = FALSE, q.owned = (Static(cfg) /\ IsStaticHealthProbe(q.r))
    PROVE  Unlogged(q) <=> Bypassed(q)
BY DEF Unlogged, Bypassed, IsOwnedHealthProbe, IsHealthProbe, IsStaticHealthProbe

(* The middleware at q passes it on to the next one as q2.                   *)
LEMMA PassedOn ==
    ASSUME NEW ch, NEW t, NEW l, NEW h, NEW n, NEW q, NEW q2 \in RequestStates,
           ChainShape(Static(cfg), ch, t, l, h, n), RequestOK(q, ch, t, l, h, n),
           q.way = "down", q.at < n, q2.way = "down", q2.at = q.at + 1, q2.r = q.r,
           ch[q.at] = "markOwned" => q2.owned = IsStaticHealthProbe(q.r),
           ch[q.at] # "markOwned" => q2.owned = q.owned,
           ch[q.at] # "log" => q2.log = q.log,
           ch[q.at] = "log" /\ (Bypassed(q) \/ ~cfg.logging) => q2.log = <<>>,
           ch[q.at] = "log" /\ ~(Bypassed(q) \/ ~cfg.logging) => q2.log = <<"REQ">>,
           ch[q.at] # "otel" => q2.span = q.span,
           q.passed \subseteq q2.passed,
           ch[q.at] \in Guards /\ ~Bypassed(q) => ch[q.at] \in q2.passed,
           ~(Static(cfg) /\ Bypassed(q) /\ q.at = h)
    PROVE  RequestOK(q2, ch, t, l, h, n)
<1>1. q.at \in Nat /\ q.at >= 1 /\ n \in Nat /\ t \in Nat /\ l \in Nat /\ h \in Nat /\ 1 < t /\ t < l /\ l < n
  BY DEF RequestOK, ChainShape
<1>2. Bypassed(q2) <=> Bypassed(q)
  BY BypassIsFixed
<1>3. q2.at \in 1..n
  BY <1>1
<1>4. Marked(q2)
  <2>1. q2.at > 1
    BY <1>1
  <2>2. CASE ch[q.at] = "markOwned"
    <3>1. Static(cfg)
      BY <1>1, <2>2 DEF ChainShape
    <3>2. IsStaticHealthProbe(q.r) \in BOOLEAN
      BY DEF IsStaticHealthProbe
    <3>3. IsStaticHealthProbe(q.r) = (Static(cfg) /\ IsStaticHealthProbe(q.r))
      BY <3>1, <3>2
    <3>4. q2.owned = (Static(cfg) /\ IsStaticHealthProbe(q2.r))
      BY <2>2, <3>3
    <3> QED BY <2>1, <3>4 DEF Marked
  <2>3. CASE ch[q.at] # "markOwned"
    <3>1. CASE q.at = 1
      <4>1. ~Static(cfg) /\ q.owned = FALSE
        BY <2>3, <3>1 DEF ChainShape, RequestOK, Marked
      <4> QED BY <2>1, <2>3, <4>1 DEF Marked
    <3>2. CASE q.at # 1
      <4>1. q.at > 1
        BY <1>1, <3>2
      <4>2. q.owned = (Static(cfg) /\ IsStaticHealthProbe(q.r))
        BY <4>1 DEF RequestOK, Marked
      <4> QED BY <2>1, <2>3, <4>2 DEF Marked
    <3> QED BY <3>1, <3>2
  <2> QED BY <2>2, <2>3
<1>5. Logged(q2, l)
  <2>1. CASE q.at < l
    <3>1. ch[q.at] # "log"
      BY <1>1, <2>1 DEF ChainShape, Opening
    <3> QED BY <1>1, <1>2, <2>1, <3>1 DEF RequestOK, Logged
  <2>2. CASE q.at = l
    <3>1. ch[q.at] = "log"
      BY <2>2 DEF ChainShape
    <3> QED BY <1>1, <1>2, <2>2, <3>1 DEF Logged
  <2>3. CASE q.at > l
    <3>1. ch[q.at] # "log"
      BY <1>1, <2>3 DEF ChainShape, Inner
    <3> QED BY <1>1, <1>2, <2>3, <3>1 DEF RequestOK, Logged
  <2> QED BY <1>1, <2>1, <2>2, <2>3
<1>6. Traced(q2, t)
  <2>1. CASE q.at < t
    <3>1. ch[q.at] # "otel"
      BY <1>1, <2>1 DEF ChainShape
    <3> QED BY <1>1, <2>1, <3>1 DEF RequestOK, Traced
  <2>2. CASE q.at >= t
    BY <1>1, <2>2 DEF Traced
  <2> QED BY <1>1, <2>1, <2>2
<1>7. Guarded(q2, ch, h)
  <2>1. Static(cfg) /\ Bypassed(q) => q2.at <= h
    BY <1>1 DEF RequestOK, Guarded
  <2>2. ASSUME ~Bypassed(q), NEW k \in DOMAIN ch, k < q2.at, ch[k] \in Guards PROVE ch[k] \in q2.passed
    <3>1. k \in Nat
      BY <1>1 DEF ChainShape
    <3>2. CASE k < q.at
      BY <2>2, <3>2 DEF RequestOK, Guarded
    <3>3. CASE k = q.at
      BY <2>2, <3>3
    <3> QED BY <1>1, <2>2, <3>1, <3>2, <3>3
  <2> QED BY <1>2, <2>1, <2>2 DEF Guarded
<1> QED BY <1>3, <1>4, <1>5, <1>6, <1>7 DEF RequestOK

(* The middleware at q answers it, or its handler panics.                    *)
LEMMA TurnedBack ==
    ASSUME NEW ch, NEW t, NEW l, NEW h, NEW n, NEW q, NEW q2 \in RequestStates,
           ChainShape(Static(cfg), ch, t, l, h, n), RequestOK(q, ch, t, l, h, n),
           q.way = "down", q.at > l, q2.way # "down", q2.at = q.at, q2.r = q.r,
           q2.owned = q.owned, q2.log = q.log, q2.span = q.span, q2.passed = q.passed,
           Bypassed(q) => q2.by \in ProbeAnswerers,
           q2.by = "app" => q.at = n
    PROVE  RequestOK(q2, ch, t, l, h, n)
<1>1. /\ q.at \in Nat /\ q.at >= 1 /\ q.at <= n /\ n \in Nat /\ t \in Nat /\ l \in Nat /\ 1 < t /\ t < l /\ l < n
      /\ ch[n] = "route" /\ DOMAIN ch = 1..n
  BY DEF RequestOK, ChainShape
<1>2. Bypassed(q2) <=> Bypassed(q)
  BY BypassIsFixed
<1>3. Marked(q2)
  <2>1. q.owned = (Static(cfg) /\ IsStaticHealthProbe(q.r))
    BY <1>1 DEF RequestOK, Marked
  <2> QED BY <2>1 DEF Marked
<1>4. Logged(q2, l)
  BY <1>1, <1>2 DEF RequestOK, Logged
<1>5. Traced(q2, t)
  BY <1>1 DEF Traced
<1>6. Guarded(q2, ch, h)
  <2>1. ASSUME q2.by = "app", NEW k \in DOMAIN ch, ch[k] \in Guards PROVE ch[k] \in q2.passed
    <3>1. ~Bypassed(q) /\ q.at = n
      BY <2>1 DEF ProbeAnswerers
    <3>2. k \in 1..n /\ k # n
      BY <1>1, <2>1 DEF Guards
    <3>3. k < q.at
      BY <1>1, <3>1, <3>2
    <3> QED BY <2>1, <3>1, <3>3 DEF RequestOK, Guarded
  <2> QED BY <1>2, <2>1 DEF Guarded
<1> QED BY <1>1, <1>3, <1>4, <1>5, <1>6 DEF RequestOK

LEMMA TwoEntries == Append(<<"REQ">>, "RES") = <<"REQ", "RES">>
<1> DEFINE a == <<"REQ">>
           b == Append(a, "RES")
           c == <<"REQ", "RES">>
           S == {"REQ", "RES"}
<1>1. a \in Seq(S) /\ Len(a) = 1 /\ a[1] = "REQ"
  OBVIOUS
<1>2. c \in Seq(S) /\ Len(c) = 2 /\ c[1] = "REQ" /\ c[2] = "RES"
  OBVIOUS
<1> HIDE DEF a
<1>3. b \in Seq(S) /\ Len(b) = 2 /\ b[1] = "REQ" /\ b[2] = "RES"
  <2>1. \A x \in Seq(S), e \in S : /\ Append(x, e) \in Seq(S) /\ Len(Append(x, e)) = Len(x) + 1
                                    /\ \A k \in 1..Len(x) : Append(x, e)[k] = x[k]
                                    /\ Append(x, e)[Len(x) + 1] = e
    OBVIOUS
  <2>2. "RES" \in S
    OBVIOUS
  <2> HIDE DEF S
  <2>3. /\ b \in Seq(S) /\ Len(b) = Len(a) + 1 /\ b[Len(a) + 1] = "RES"
        /\ \A k \in 1..Len(a) : b[k] = a[k]
    BY <1>1, <2>1, <2>2
  <2> QED BY <1>1, <2>3
<1> HIDE DEF b, c
<1>4. \A k \in 1..2 : k = 1 \/ k = 2
  OBVIOUS
<1>5. \A k \in 1..2 : b[k] = c[k]
  BY <1>2, <1>3, <1>4
<1>6. \A x, y \in Seq(S) : Len(x) = Len(y) /\ (\A k \in 1..Len(x) : x[k] = y[k]) => x = y
  OBVIOUS
<1>7. b = c
  BY <1>2, <1>3, <1>5, <1>6
<1> QED BY <1>7 DEF a, b, c

(* The middleware above q sees it on the way back.                           *)
LEMMA BackUp ==
    ASSUME NEW ch, NEW t, NEW l, NEW h, NEW n, NEW q, NEW q2 \in RequestStates,
           ChainShape(Static(cfg), ch, t, l, h, n), RequestOK(q, ch, t, l, h, n),
           q.way # "down", q.at > 1, q2.way # "down", q2.at = q.at - 1, q2.r = q.r,
           q2.owned = q.owned, q2.passed = q.passed, q2.by = q.by,
           q.at - 1 <= l => q2.way = q.way,
           q.at - 1 # l => q2.log = q.log,
           q.at - 1 = l /\ (q.way # "up" \/ Bypassed(q) \/ ~cfg.logging) => q2.log = q.log,
           q.at - 1 = l /\ ~(q.way # "up" \/ Bypassed(q) \/ ~cfg.logging) => q2.log = Append(q.log, "RES"),
           q.at - 1 # t => q2.span = q.span,
           q.at - 1 = t => q2.span # "open"
    PROVE  RequestOK(q2, ch, t, l, h, n)
<1>1. /\ q.at \in Nat /\ q.at <= n /\ n \in Nat /\ t \in Nat /\ l \in Nat /\ 1 < t /\ t < l /\ l < n
  BY DEF RequestOK, ChainShape
<1>2. Bypassed(q2) <=> Bypassed(q)
  BY BypassIsFixed
<1>3. Marked(q2)
  <2>1. q.owned = (Static(cfg) /\ IsStaticHealthProbe(q.r))
    BY DEF RequestOK, Marked
  <2> QED BY <2>1 DEF Marked
<1>4. q.way \in Ways /\ q2.way \in Ways
  BY DEF RequestOK, RequestStates
<1>5. Logged(q2, l)
  <2>1. CASE Bypassed(q) \/ ~cfg.logging
    <3>1. q.log = <<>> /\ q2.log = q.log
      BY <2>1 DEF RequestOK, Logged
    <3> QED BY <1>2, <2>1, <3>1 DEF Logged
  <2>2. CASE ~(Bypassed(q) \/ ~cfg.logging)
    <3>1. CASE q.at - 1 > l
      BY <1>1, <1>2, <2>2, <3>1 DEF RequestOK, Logged
    <3>2. CASE q.at - 1 = l
      <4>1. q.log = <<"REQ">>
        BY <1>1, <2>2, <3>2 DEF RequestOK, Logged
      <4>2. Append(<<"REQ">>, "RES") = <<"REQ", "RES">>
        BY TwoEntries
      <4> QED BY <1>1, <1>2, <1>4, <2>2, <3>2, <4>1, <4>2 DEF Logged, Ways
    <3>3. CASE q.at - 1 < l
      BY <1>1, <1>2, <2>2, <3>3 DEF RequestOK, Logged
    <3> QED BY <1>1, <3>1, <3>2, <3>3
  <2> QED BY <2>1, <2>2
<1>6. Traced(q2, t)
  <2>1. CASE q.at - 1 = t
    BY <2>1 DEF Traced
  <2>2. CASE q.at - 1 < t
    BY <1>1, <2>2 DEF RequestOK, Traced
  <2>3. CASE q.at - 1 > t
    BY <1>1, <2>3 DEF Traced
  <2> QED BY <1>1, <2>1, <2>2, <2>3
<1>7. Guarded(q2, ch, h)
  BY <1>2 DEF RequestOK, Guarded
<1> QED BY <1>1, <1>3, <1>5, <1>6, <1>7 DEF RequestOK

(* What the steps down the chain make of a request.                          *)
LEMMA PassIs ==
    ASSUME NEW q \in RequestStates
    PROVE  /\ Pass(q) \in RequestStates /\ Pass(q).way = q.way /\ Pass(q).at = q.at + 1 /\ Pass(q).r = q.r
           /\ Pass(q).owned = q.owned /\ Pass(q).log = q.log /\ Pass(q).span = q.span
           /\ Pass(q).passed = q.passed /\ Pass(q).by = q.by
BY DEF Pass, RequestStates

Status == {200, 204, 304, 400, 401, 404}
Answerers == {"health", "cors", "custom", "authorize", "parseData", "app", "notFound", "gin"}

LEMMA ReplyIs ==
    ASSUME NEW q \in RequestStates, NEW status \in Status, NEW b \in Answerers
    PROVE  LET a == Reply(q, status, b)
           IN  /\ a \in RequestStates /\ a.way = "up" /\ a.at = q.at /\ a.r = q.r
               /\ a.owned = q.owned /\ a.log = q.log /\ a.span = q.span
               /\ a.passed = q.passed /\ a.by = b
<1> DEFINE a == Reply(q, status, b)
           By == {"nobody", "health", "cors", "custom", "authorize", "parseData", "app", "notFound", "gin"}
<1>1. status \in Nat /\ b \in By /\ "up" \in Ways
  BY DEF Status, Answerers, Ways
<1>2. a = [q EXCEPT !.way = "up", !.status = status, !.by = b]
  BY DEF Reply
<1>3. a \in RequestStates
  BY <1>1, <1>2 DEF RequestStates
<1>4. a.way = "up" /\ a.at = q.at /\ a.r = q.r /\ a.owned = q.owned
  BY <1>2 DEF RequestStates
<1>5. a.log = q.log /\ a.span = q.span /\ a.passed = q.passed /\ a.by = b
  BY <1>2 DEF RequestStates
<1> QED BY <1>3, <1>4, <1>5

LEMMA AnswerOK ==
    ASSUME NEW ch, NEW t, NEW l, NEW h, NEW n, NEW q,
           ChainShape(Static(cfg), ch, t, l, h, n), RequestOK(q, ch, t, l, h, n),
           q.way = "down", q.at > l, NEW status \in Status, NEW b \in Answerers,
           Bypassed(q) => b \in ProbeAnswerers, b = "app" => q.at = n
    PROVE  RequestOK(Reply(q, status, b), ch, t, l, h, n)
<1> DEFINE a == Reply(q, status, b)
<1>1. /\ a \in RequestStates /\ a.way = "up" /\ a.at = q.at /\ a.r = q.r
      /\ a.owned = q.owned /\ a.log = q.log /\ a.span = q.span
      /\ a.passed = q.passed /\ a.by = b
  BY ReplyIs DEF RequestOK
<1> HIDE DEF a
<1>2. RequestOK(a, ch, t, l, h, n)
  BY <1>1, TurnedBack
<1> QED BY <1>2 DEF a

(* Middlewares that change nothing pass a request on.                        *)
LEMMA PlainPass ==
    ASSUME NEW ch, NEW t, NEW l, NEW h, NEW n, NEW q,
           ChainShape(Static(cfg), ch, t, l, h, n), RequestOK(q, ch, t, l, h, n),
           q.way = "down", ch[q.at] \notin {"markOwned", "log", "otel", "route"},
           ch[q.at] \in Guards => Bypassed(q),
           ch[q.at] = "staticHealth" => ~Bypassed(q) \/ ~Static(cfg)
    PROVE  RequestOK(Pass(q), ch, t, l, h, n)
<1> DEFINE a == Pass(q)
<1>1. q \in RequestStates /\ q.at \in 1..n /\ n \in Nat /\ ch[n] = "route"
  BY DEF RequestOK, ChainShape
<1>2. /\ a \in RequestStates /\ a.way = q.way /\ a.at = q.at + 1 /\ a.r = q.r
      /\ a.owned = q.owned /\ a.log = q.log /\ a.span = q.span /\ a.passed = q.passed
  BY <1>1, PassIs
<1>3. q.at < n
  BY <1>1
<1>4. ~(Static(cfg) /\ Bypassed(q) /\ q.at = h)
  BY DEF ChainShape
<1> HIDE DEF a
<1>5. RequestOK(a, ch, t, l, h, n)
  BY <1>2, <1>3, <1>4, PassedOn
<1> QED BY <1>5 DEF a

LEMMA DownOK ==
    ASSUME NEW ch, NEW t, NEW l, NEW h, NEW n, NEW q, NEW down \in BOOLEAN, cfg.upstream = FALSE,
           ChainShape(Static(cfg), ch, t, l, h, n), RequestOK(q, ch, t, l, h, n), q.way = "down"
    PROVE  RequestOK(DownStep(q, ch[q.at], down), ch, t, l, h, n)
<1> DEFINE m == ch[q.at]
<1>1. /\ q \in RequestStates /\ q.at \in 1..n /\ n \in Nat /\ l \in Nat /\ l < n /\ ch[n] = "route"
      /\ ch[l] = "log" /\ q.at \in Nat
  BY DEF RequestOK, ChainShape
<1>2. m \in Opening \/ m = "log" \/ m \in Inner \/ m = "route"
  BY <1>1 DEF ChainShape
<1>3. m \in Inner \cup {"route"} => q.at > l
  BY <1>1 DEF ChainShape, Opening, Inner
<1>4. m = "route" => q.at = n
  BY <1>1 DEF ChainShape, Opening, Inner
<1>5. m # "route" => q.at < n
  BY <1>1
<1>6. m # "staticHealth" => ~(Static(cfg) /\ Bypassed(q) /\ q.at = h)
  BY DEF ChainShape
<1> HIDE DEF m
<1>7. CASE Bypassable(m) /\ Bypassed(q)
  <2>1. DownStep(q, m, down) = Pass(q)
    BY <1>7 DEF DownStep
  <2>2. m \notin {"markOwned", "log", "otel", "route", "staticHealth"}
    BY <1>7 DEF Bypassable
  <2>3. RequestOK(Pass(q), ch, t, l, h, n)
    BY <1>7, <2>2, PlainPass DEF m
  <2> QED BY <2>1, <2>3 DEF m
<1>8. CASE ~(Bypassable(m) /\ Bypassed(q))
  <2>1. CASE m = "markOwned"
    <3> DEFINE q1 == [q EXCEPT !.owned = IsStaticHealthProbe(q.r)]
               a == Pass(q1)
    <3>1. DownStep(q, m, down) = a
      BY <1>8, <2>1 DEF DownStep
    <3>2. IsStaticHealthProbe(q.r) \in BOOLEAN
      BY DEF IsStaticHealthProbe
    <3>3. /\ q1 \in RequestStates /\ q1.way = q.way /\ q1.at = q.at /\ q1.r = q.r
          /\ q1.log = q.log /\ q1.span = q.span /\ q1.passed = q.passed
      BY <1>1, <3>2 DEF RequestStates
    <3>4. q1.owned = IsStaticHealthProbe(q.r)
      BY <1>1 DEF RequestStates
    <3> HIDE DEF q1
    <3>5. /\ a \in RequestStates /\ a.way = "down" /\ a.at = q.at + 1 /\ a.r = q.r
          /\ a.log = q.log /\ a.span = q.span /\ a.passed = q.passed
      BY <3>3, PassIs
    <3>6. a.owned = IsStaticHealthProbe(q.r)
      BY <3>3, <3>4, PassIs
    <3>7. m # "log" /\ m # "otel" /\ m \notin Guards /\ m # "route" /\ m # "staticHealth"
      BY <2>1 DEF Guards
    <3> HIDE DEF a
    <3>8. RequestOK(a, ch, t, l, h, n)
      BY <1>5, <1>6, <2>1, <3>5, <3>6, <3>7, PassedOn DEF m
    <3> QED BY <3>1, <3>8 DEF m
  <2>2. CASE m = "log"
    <3> DEFINE q1 == Log(q, "REQ")
               a == Pass(q1)
    <3>1. DownStep(q, m, down) = a
      BY <1>8, <2>2 DEF DownStep
    <3>2. q.at = l /\ q.at > 1
      BY <1>1, <2>2 DEF m, ChainShape, Opening, Inner
    <3>3. Unlogged(q) <=> Bypassed(q)
      <4>1. q.owned = (Static(cfg) /\ IsStaticHealthProbe(q.r))
        BY <3>2 DEF RequestOK, Marked
      <4> QED BY <4>1, UnloggedIsBypassed
    <3>4. q.log = <<>>
      BY <3>2 DEF RequestOK, Logged
    <3>5. Append(<<>>, "REQ") = <<"REQ">>
      OBVIOUS
    <3>6. /\ q1 \in RequestStates /\ q1.way = q.way /\ q1.at = q.at /\ q1.r = q.r /\ q1.owned = q.owned
          /\ q1.span = q.span /\ q1.passed = q.passed
      <4> DEFINE lg == Append(q.log, "REQ")
                 q0 == [q EXCEPT !.log = lg]
      <4>1. lg \in Seq({"REQ", "RES"})
        BY <1>1 DEF RequestStates
      <4>2. q1 = q \/ q1 = q0
        BY DEF Log
      <4> HIDE DEF lg, q1
      <4>3. /\ q0 \in RequestStates /\ q0.way = q.way /\ q0.at = q.at /\ q0.r = q.r /\ q0.owned = q.owned
            /\ q0.span = q.span /\ q0.passed = q.passed
        BY <1>1, <4>1 DEF RequestStates
      <4> QED BY <1>1, <4>2, <4>3
    <3>7. /\ Bypassed(q) \/ ~cfg.logging => q1.log = <<>>
          /\ ~(Bypassed(q) \/ ~cfg.logging) => q1.log = <<"REQ">>
      BY <1>1, <3>3, <3>4, <3>5 DEF Log, RequestStates
    <3> HIDE DEF q1
    <3>8. /\ a \in RequestStates /\ a.way = "down" /\ a.at = q.at + 1 /\ a.r = q.r /\ a.owned = q.owned
          /\ a.log = q1.log /\ a.span = q.span /\ a.passed = q.passed
      BY <3>6, PassIs
    <3>9. m # "markOwned" /\ m # "otel" /\ m \notin Guards /\ m # "route" /\ m # "staticHealth"
      BY <2>2 DEF Guards
    <3> HIDE DEF a
    <3>10. RequestOK(a, ch, t, l, h, n)
      BY <1>5, <1>6, <2>2, <3>7, <3>8, <3>9, PassedOn DEF m
    <3> QED BY <3>1, <3>10 DEF m
  <2>3. CASE m = "otel"
    <3> DEFINE q1 == OpenSpan(q)
               a == Pass(q1)
    <3>1. DownStep(q, m, down) = a
      BY <1>8, <2>3 DEF DownStep
    <3>2. /\ q1 \in RequestStates /\ q1.way = q.way /\ q1.at = q.at /\ q1.r = q.r /\ q1.owned = q.owned
          /\ q1.log = q.log /\ q1.passed = q.passed
      BY <1>1 DEF OpenSpan, RequestStates
    <3> HIDE DEF q1
    <3>3. /\ a \in RequestStates /\ a.way = "down" /\ a.at = q.at + 1 /\ a.r = q.r /\ a.owned = q.owned
          /\ a.log = q.log /\ a.passed = q.passed
      BY <3>2, PassIs
    <3>4. m # "markOwned" /\ m # "log" /\ m \notin Guards /\ m # "route" /\ m # "staticHealth"
      BY <2>3 DEF Guards
    <3> HIDE DEF a
    <3>5. RequestOK(a, ch, t, l, h, n)
      BY <1>5, <1>6, <2>3, <3>3, <3>4, PassedOn DEF m
    <3> QED BY <3>1, <3>5 DEF m
  <2>4. CASE m = "cors"
    <3>1. DownStep(q, m, down) = Cors(q)
      BY <1>8, <2>4 DEF DownStep
    <3>2. q.at > l /\ m \notin Guards
      BY <1>3, <2>4 DEF Inner, Guards
    <3>3. RequestOK(Reply(q, 204, "cors"), ch, t, l, h, n)
      BY <3>2, AnswerOK DEF Status, Answerers, ProbeAnswerers
    <3>4. RequestOK(Pass(q), ch, t, l, h, n)
      BY <2>4, <3>2, PlainPass DEF m
    <3> QED BY <3>1, <3>3, <3>4 DEF Cors, m
  <2>5. CASE m = "staticHealth"
    <3>1. DownStep(q, m, down) = StaticHealth(q)
      BY <1>8, <2>5 DEF DownStep
    <3>2. q.at > l /\ m \notin Guards
      BY <1>3, <2>5 DEF Inner, Guards
    <3>3. \A status \in Status : RequestOK(Reply(q, status, "health"), ch, t, l, h, n)
      BY <3>2, AnswerOK DEF Answerers, ProbeAnswerers
    <3>4. ~IsStaticHealthProbe(q.r) => ~Bypassed(q) \/ ~Static(cfg)
      BY DEF Bypassed
    <3>5. ~IsStaticHealthProbe(q.r) => RequestOK(Pass(q), ch, t, l, h, n)
      BY <2>5, <3>2, <3>4, PlainPass DEF m
    <3> QED BY <3>1, <3>3, <3>5 DEF StaticHealth, m, Status
  <2>6. CASE m \in Guards
    <3>1. ~Bypassed(q) /\ q.at > l
      BY <1>3, <1>8, <2>6 DEF Guards, Bypassable, Inner
    <3> DEFINE q1 == [q EXCEPT !.passed = q.passed \cup {m}]
               a == Pass(q1)
    <3>2. DownStep(q, m, down) = a \/ \E b \in Guards : DownStep(q, m, down) = Reply(q, 401, b)
      <4>1. CASE m = "authorize"
        BY <1>8, <4>1 DEF DownStep, Authorize, Guards
      <4>2. CASE m = "parseData"
        BY <1>8, <4>2 DEF DownStep, ParseData, Guards
      <4> QED BY <2>6, <4>1, <4>2 DEF Guards
    <3>3. \A b \in Guards : RequestOK(Reply(q, 401, b), ch, t, l, h, n)
      BY <3>1, AnswerOK DEF Status, Answerers, Guards
    <3>4. /\ q1 \in RequestStates /\ q1.way = q.way /\ q1.at = q.at /\ q1.r = q.r /\ q1.owned = q.owned
          /\ q1.log = q.log /\ q1.span = q.span /\ q1.passed = q.passed \cup {m}
      BY <1>1, <2>6 DEF RequestStates
    <3> HIDE DEF q1
    <3>5. /\ a \in RequestStates /\ a.way = "down" /\ a.at = q.at + 1 /\ a.r = q.r /\ a.owned = q.owned
          /\ a.log = q.log /\ a.span = q.span /\ a.passed = q.passed \cup {m}
      BY <3>4, PassIs
    <3>6. m # "markOwned" /\ m # "log" /\ m # "otel" /\ m # "route" /\ m # "staticHealth"
      BY <2>6 DEF Guards
    <3> HIDE DEF a
    <3>7. RequestOK(a, ch, t, l, h, n)
      BY <1>5, <1>6, <3>5, <3>6, PassedOn DEF m
    <3> QED BY <3>2, <3>3, <3>7 DEF m
  <2>7. CASE m = "route"
    <3>1. DownStep(q, m, down) = Route(q, down)
      BY <1>8, <2>7 DEF DownStep
    <3>2. q.at > l /\ q.at = n
      BY <1>3, <1>4, <2>7
    <3>3. \A status \in Status : RequestOK(Reply(q, status, "health"), ch, t, l, h, n)
      BY <3>2, AnswerOK DEF Answerers, ProbeAnswerers
    <3>4. ~IsHealthProbe(q.r) => ~Bypassed(q)
      <4>1. CASE Static(cfg) /\ Bypassed(q)
        <5>1. q.at <= h /\ h < n /\ h \in Nat
          BY <4>1 DEF RequestOK, Guarded, ChainShape
        <5> QED BY <1>1, <3>2, <5>1
      <4>2. CASE ~Static(cfg)
        BY <4>2 DEF Bypassed
      <4> QED BY <4>1, <4>2
    <3>5. ~IsHealthProbe(q.r) =>
            \A status \in Status, b \in Answerers : RequestOK(Reply(q, status, b), ch, t, l, h, n)
      BY <3>2, <3>4, AnswerOK
    <3>6. ~IsHealthProbe(q.r) => RequestOK(Panic([q EXCEPT !.by = "app"]), ch, t, l, h, n)
      <4> SUFFICES ASSUME ~IsHealthProbe(q.r) PROVE RequestOK(Panic([q EXCEPT !.by = "app"]), ch, t, l, h, n)
        OBVIOUS
      <4> DEFINE a == Panic([q EXCEPT !.by = "app"])
      <4>1. /\ a \in RequestStates /\ a.way = "panic" /\ a.at = q.at /\ a.r = q.r
            /\ a.owned = q.owned /\ a.log = q.log /\ a.span = q.span /\ a.passed = q.passed
        BY <1>1 DEF Panic, RequestStates, Ways
      <4> HIDE DEF a
      <4>2. RequestOK(a, ch, t, l, h, n)
        BY <3>2, <3>4, <4>1, TurnedBack
      <4> QED BY <4>2 DEF a
    <3>7. CASE IsHealthProbe(q.r)
      BY <3>1, <3>3, <3>7 DEF Route, m, Status
    <3>8. CASE ~IsHealthProbe(q.r)
      <4>1. CASE Mounted(cfg, q.r) \/ fallback
        <5>1. DownStep(q, m, down) = App(q)
          BY <3>1, <3>8, <4>1 DEF Route
        <5> QED BY <3>5, <3>6, <3>8, <5>1 DEF App, m, Status, Answerers
      <4>2. CASE ~(Mounted(cfg, q.r) \/ fallback)
        <5>1. \E b \in Answerers : DownStep(q, m, down) = Reply(q, 404, b)
          BY <3>1, <3>8, <4>2 DEF Route, Answerers
        <5> QED BY <3>5, <3>8, <5>1 DEF m, Status
      <4> QED BY <4>1, <4>2
    <3> QED BY <3>7, <3>8
  <2>9. CASE m = "answersHealth"
    <3>1. DownStep(q, m, down) = CustomHealth(q)
      BY <1>8, <2>9 DEF DownStep
    <3>2. q.at > l /\ m \notin Guards /\ m # "staticHealth"
      BY <1>3, <2>9 DEF Inner, Guards
    <3>3. Bypassed(q) => "custom" \in ProbeAnswerers
      <4> SUFFICES ASSUME Bypassed(q), Static(cfg) PROVE FALSE
        BY DEF ProbeAnswerers
      <4>1. q.at <= h /\ h \in Nat
        BY DEF RequestOK, Guarded, ChainShape
      <4>2. h < q.at
        BY <1>1, <2>9 DEF ChainShape, m
      <4> QED BY <1>1, <4>1, <4>2
    <3>4. RequestOK(Reply(q, 200, "custom"), ch, t, l, h, n)
      BY <3>2, <3>3, AnswerOK DEF Status, Answerers
    <3>5. RequestOK(Pass(q), ch, t, l, h, n)
      BY <2>9, <3>2, PlainPass DEF m
    <3> QED BY <3>1, <3>4, <3>5 DEF CustomHealth, m
  <2>8. CASE m \notin Guards \cup {"markOwned", "log", "otel", "cors", "staticHealth", "answersHealth", "route"}
    <3>1. DownStep(q, m, down) = Pass(q)
      BY <1>8, <2>8 DEF DownStep, Guards
    <3>2. RequestOK(Pass(q), ch, t, l, h, n)
      BY <2>8, PlainPass DEF m
    <3> QED BY <3>1, <3>2 DEF m
  <2> QED BY <2>1, <2>2, <2>3, <2>4, <2>5, <2>6, <2>7, <2>8, <2>9
<1> QED BY <1>7, <1>8

(* What the steps back up make of one.                                       *)
LEMMA LogKeeps ==
    ASSUME NEW q \in RequestStates, NEW step \in {"REQ", "RES"}
    PROVE  /\ Log(q, step) \in RequestStates /\ Log(q, step).way = q.way /\ Log(q, step).at = q.at
           /\ Log(q, step).r = q.r /\ Log(q, step).owned = q.owned /\ Log(q, step).by = q.by
           /\ Log(q, step).span = q.span /\ Log(q, step).passed = q.passed
           /\ Unlogged(q) \/ ~cfg.logging => Log(q, step).log = q.log
           /\ ~(Unlogged(q) \/ ~cfg.logging) => Log(q, step).log = Append(q.log, step)
<1> DEFINE lg == Append(q.log, step)
           q0 == [q EXCEPT !.log = lg]
           a == Log(q, step)
<1>1. lg \in Seq({"REQ", "RES"})
  BY DEF RequestStates
<1>2. /\ Unlogged(q) \/ ~cfg.logging => a = q
      /\ ~(Unlogged(q) \/ ~cfg.logging) => a = q0
  BY DEF Log
<1> HIDE DEF lg, a
<1>3. /\ q0 \in RequestStates /\ q0.way = q.way /\ q0.at = q.at /\ q0.r = q.r /\ q0.owned = q.owned
      /\ q0.by = q.by /\ q0.span = q.span /\ q0.passed = q.passed
  BY <1>1 DEF RequestStates
<1>4. q0.log = lg
  BY <1>1 DEF RequestStates
<1> HIDE DEF q0
<1>5. /\ a \in RequestStates /\ a.way = q.way /\ a.at = q.at /\ a.r = q.r /\ a.owned = q.owned
      /\ a.by = q.by /\ a.span = q.span /\ a.passed = q.passed
      /\ Unlogged(q) \/ ~cfg.logging => a.log = q.log
      /\ ~(Unlogged(q) \/ ~cfg.logging) => a.log = lg
  BY <1>2, <1>3, <1>4
<1> QED BY <1>5 DEF a, lg

LEMMA UpOK ==
    ASSUME NEW ch, NEW t, NEW l, NEW h, NEW n, NEW q, cfg.upstream = FALSE,
           ChainShape(Static(cfg), ch, t, l, h, n), RequestOK(q, ch, t, l, h, n),
           q.way # "down", q.at > 1
    PROVE  RequestOK([UpStep(q, ch[q.at - 1]) EXCEPT !.at = q.at - 1], ch, t, l, h, n)
<1> DEFINE m == ch[q.at - 1]
           q1 == UpStep(q, m)
           q2 == [q1 EXCEPT !.at = q.at - 1]
<1>1. /\ q \in RequestStates /\ q.at \in 1..n /\ n \in Nat /\ l \in Nat /\ t \in Nat /\ t < l /\ l < n
      /\ ch[l] = "log" /\ ch[t] = "otel" /\ q.at \in Nat /\ q.at - 1 \in 1..n /\ q.at - 1 < n
  BY DEF RequestOK, ChainShape
<1>2. m = "log" <=> q.at - 1 = l
  BY <1>1 DEF ChainShape, Opening, Inner
<1>3. m = "otel" <=> q.at - 1 = t
  BY <1>1 DEF ChainShape, Opening, Inner
<1>4. m \in {"errorHandler", "recovery"} => q.at - 1 > l
  BY <1>1 DEF ChainShape, Opening, Inner
<1>5. Unlogged(q) <=> Bypassed(q)
  <2>1. q.owned = (Static(cfg) /\ IsStaticHealthProbe(q.r))
    BY DEF RequestOK, Marked
  <2> QED BY <2>1, UnloggedIsBypassed
<1>6. q.way \in {"up", "panic"}
  BY <1>1 DEF RequestStates, Ways
<1> HIDE DEF m
<1>7. /\ q1 \in RequestStates /\ q1.r = q.r /\ q1.owned = q.owned /\ q1.passed = q.passed /\ q1.by = q.by
      /\ q1.way # "down"
      /\ q.at - 1 <= l => q1.way = q.way
      /\ q.at - 1 # l => q1.log = q.log
      /\ q.at - 1 = l /\ (q.way # "up" \/ Bypassed(q) \/ ~cfg.logging) => q1.log = q.log
      /\ q.at - 1 = l /\ ~(q.way # "up" \/ Bypassed(q) \/ ~cfg.logging) => q1.log = Append(q.log, "RES")
      /\ q.at - 1 # t => q1.span = q.span
      /\ q.at - 1 = t => q1.span # "open"
  <2>1. CASE m = "log" /\ q.way = "up"
    <3>1. q1 = Log(q, "RES")
      BY <2>1 DEF UpStep
    <3>2. /\ q1 \in RequestStates /\ q1.r = q.r /\ q1.owned = q.owned /\ q1.passed = q.passed /\ q1.by = q.by
          /\ q1.way = q.way /\ q1.span = q.span
          /\ Unlogged(q) \/ ~cfg.logging => q1.log = q.log
          /\ ~(Unlogged(q) \/ ~cfg.logging) => q1.log = Append(q.log, "RES")
      BY <1>1, <3>1, LogKeeps
    <3>3. q.at - 1 = l /\ q.at - 1 # t
      BY <1>1, <1>2, <2>1
    <3> HIDE DEF q1
    <3> QED BY <1>5, <1>6, <2>1, <3>2, <3>3
  <2>2. CASE m = "otel"
    <3> DEFINE sp == IF q.span = "open" THEN "ended" ELSE q.span
    <3>1. q1 = [q EXCEPT !.span = sp]
      BY <2>2 DEF UpStep
    <3>2. sp # "open" /\ sp \in {"none", "open", "ended"}
      BY <1>1 DEF RequestStates
    <3> HIDE DEF sp, q1
    <3>3. /\ q1 \in RequestStates /\ q1.r = q.r /\ q1.owned = q.owned /\ q1.passed = q.passed /\ q1.by = q.by
          /\ q1.way = q.way /\ q1.log = q.log
      BY <1>1, <3>1, <3>2 DEF RequestStates
    <3>4. q1.span = sp
      BY <1>1, <3>1 DEF RequestStates
    <3>5. q.at - 1 = t /\ q.at - 1 # l
      BY <1>1, <1>3, <2>2
    <3> QED BY <1>6, <3>2, <3>3, <3>4, <3>5
  <2>3. CASE m \in {"errorHandler", "recovery"} /\ q.way = "panic"
    <3> DEFINE s == IF m = "errorHandler" THEN 400 ELSE 500
    <3>1. q1 = [q EXCEPT !.way = "up", !.status = s]
      <4>1. CASE m = "errorHandler"
        BY <2>3, <4>1 DEF UpStep
      <4>2. CASE m = "recovery"
        BY <2>3, <4>2 DEF UpStep
      <4> QED BY <2>3, <4>1, <4>2
    <3>2. s \in Nat
      OBVIOUS
    <3> HIDE DEF q1, s
    <3>3. /\ q1 \in RequestStates /\ q1.r = q.r /\ q1.owned = q.owned /\ q1.passed = q.passed /\ q1.by = q.by
          /\ q1.way = "up" /\ q1.log = q.log /\ q1.span = q.span
      BY <1>1, <3>1, <3>2 DEF RequestStates, Ways
    <3>4. q.at - 1 > l /\ q.at - 1 # l /\ q.at - 1 # t /\ ~(q.at - 1 <= l)
      BY <1>1, <1>4, <2>3
    <3> QED BY <3>3, <3>4
  <2>4. CASE ~(m = "log" /\ q.way = "up") /\ m # "otel" /\ ~(m \in {"errorHandler", "recovery"} /\ q.way = "panic")
    <3>1. q1 = q
      BY <2>4 DEF UpStep
    <3>2. q.at - 1 = l => q.way # "up"
      BY <1>2, <2>4
    <3>3. q.at - 1 # t
      BY <1>3, <2>4
    <3> QED BY <1>1, <3>1, <3>2, <3>3
  <2> QED BY <2>1, <2>2, <2>3, <2>4
<1> HIDE DEF q1
<1>8. q.at - 1 \in Nat
  BY <1>1
<1>9. /\ q2 \in RequestStates /\ q2.at = q.at - 1 /\ q2.r = q1.r /\ q2.owned = q1.owned
      /\ q2.passed = q1.passed /\ q2.by = q1.by /\ q2.way = q1.way
  BY <1>7, <1>8 DEF RequestStates
<1>10. q2.log = q1.log /\ q2.span = q1.span
  BY <1>7, <1>8 DEF RequestStates
<1> HIDE DEF q2
<1>11. RequestOK(q2, ch, t, l, h, n)
  BY <1>7, <1>9, <1>10, BackUp
<1> QED BY <1>11 DEF q2, q1, m
-----------------------------------------------------------------------------
(* The inductive invariant.                                                  *)

LEMMA HTTPInitially ==
    ASSUME Init PROVE HTTPInv
BY DEF Init, HTTPInv

(* A request that was just accepted is at the top of the chain.              *)
LEMMA AcceptedOK ==
    ASSUME NEW ch, NEW t, NEW l, NEW h, NEW n, NEW k \in Nat, NEW r \in Requests, NEW q,
           ChainShape(Static(cfg), ch, t, l, h, n),
           q = [at |-> 1, server |-> k, r |-> r, owned |-> FALSE, way |-> "down",
                status |-> 0, by |-> "nobody", log |-> <<>>, span |-> "none", passed |-> {}]
    PROVE  RequestOK(q, ch, t, l, h, n)
<1>1. q \in RequestStates
  BY DEF RequestStates, Ways
<1>2. /\ q.at = 1 /\ q.way = "down" /\ q.owned = FALSE /\ q.log = <<>> /\ q.span = "none"
  OBVIOUS
<1>3. /\ n \in Nat /\ t \in Nat /\ l \in Nat /\ h \in Nat /\ 1 < t /\ t < l /\ l < n /\ DOMAIN ch = 1..n
      /\ Static(cfg) => l < h
  BY DEF ChainShape
<1>4. Marked(q)
  BY <1>2 DEF Marked
<1>5. Logged(q, l)
  BY <1>2, <1>3 DEF Logged
<1>6. Traced(q, t)
  BY <1>2 DEF Traced
<1>7. Guarded(q, ch, h)
  BY <1>2, <1>3 DEF Guarded
<1> QED BY <1>1, <1>2, <1>3, <1>4, <1>5, <1>6, <1>7 DEF RequestOK

(* The steps that leave the chain and the request alone.                     *)
LEMMA SameRequest ==
    ASSUME HTTPInv, UNCHANGED <<cfg, chain, req>>, chain = <<>> => servers' = <<>>
    PROVE  HTTPInv'
<1>1. cfg' = cfg /\ chain' = chain /\ req' = req
  OBVIOUS
<1>2. /\ cfg' \in Configs
      /\ chain' = <<>> => servers' = <<>> /\ req' = Nobody
      /\ chain' # <<>> => chain' = Chain(cfg)
  BY <1>1 DEF HTTPInv
<1>3. ~cfg.upstream /\ req # Nobody =>
           \A t, l, h, n \in 1..Len(chain) :
               ChainShape(Static(cfg), chain, t, l, h, n) => RequestOK(req, chain, t, l, h, n)
  BY DEF HTTPInv
<1>4. ASSUME NEW t, NEW l, NEW h, NEW n, RequestOK(req', chain, t, l, h, n)
      PROVE  RequestOK(req, chain, t, l, h, n)'
  BY <1>1, <1>4 DEF RequestOK, Marked, Logged, Traced, Guarded, Bypassed, Static, ProbeAnswerers
<1>5. (~cfg.upstream /\ req # Nobody =>
           \A t, l, h, n \in 1..Len(chain) :
               ChainShape(Static(cfg), chain, t, l, h, n) => RequestOK(req, chain, t, l, h, n))'
  <2> SUFFICES ASSUME ~cfg.upstream, req' # Nobody, NEW t \in 1..Len(chain), NEW l \in 1..Len(chain),
                      NEW h \in 1..Len(chain), NEW n \in 1..Len(chain), ChainShape(Static(cfg), chain, t, l, h, n)
               PROVE  RequestOK(req, chain, t, l, h, n)'
    BY <1>1 DEF Static
  <2>1. RequestOK(req', chain, t, l, h, n)
    BY <1>1, <1>3
  <2> QED BY <2>1, <1>4
<1>6. (chain # <<>> => chain = Chain(cfg))'
  BY <1>1, <1>2 DEF Chain, Only, Static
<1> QED BY <1>2, <1>5, <1>6 DEF HTTPInv

(* The steps of a request.                                                   *)
LEMMA RequestSteps ==
    ASSUME HTTPInv, UNCHANGED <<cfg, chain, servers>>, chain # <<>>,
           ~cfg.upstream /\ req' # Nobody =>
               \A t, l, h, n \in 1..Len(chain) :
                   ChainShape(Static(cfg), chain, t, l, h, n) => RequestOK(req', chain, t, l, h, n)
    PROVE  HTTPInv'
<1>1. cfg' = cfg /\ chain' = chain
  OBVIOUS
<1>2. /\ cfg' \in Configs
      /\ chain' = <<>> => servers' = <<>> /\ req' = Nobody
      /\ chain' # <<>> => chain' = Chain(cfg)
  BY <1>1 DEF HTTPInv
<1>3. ASSUME NEW t, NEW l, NEW h, NEW n, RequestOK(req', chain, t, l, h, n)
      PROVE  RequestOK(req, chain, t, l, h, n)'
  BY <1>1, <1>3 DEF RequestOK, Marked, Logged, Traced, Guarded, Bypassed, Static, ProbeAnswerers
<1>4. (~cfg.upstream /\ req # Nobody =>
           \A t, l, h, n \in 1..Len(chain) :
               ChainShape(Static(cfg), chain, t, l, h, n) => RequestOK(req, chain, t, l, h, n))'
  <2> SUFFICES ASSUME ~cfg.upstream, req' # Nobody, NEW t \in 1..Len(chain), NEW l \in 1..Len(chain),
                      NEW h \in 1..Len(chain), NEW n \in 1..Len(chain), ChainShape(Static(cfg), chain, t, l, h, n)
               PROVE  RequestOK(req, chain, t, l, h, n)'
    BY <1>1 DEF Static
  <2>1. RequestOK(req', chain, t, l, h, n)
    OBVIOUS
  <2> QED BY <2>1, <1>3
<1>5. (chain # <<>> => chain = Chain(cfg))'
  BY <1>1, <1>2 DEF Chain, Only, Static
<1> QED BY <1>2, <1>4, <1>5 DEF HTTPInv

LEMMA HTTPStep ==
    ASSUME HTTPInv, [Next]_httpVars PROVE HTTPInv'
<1>0. cfg \in Configs /\ cfg.upstream \in BOOLEAN
  BY ConfigsAreComplete DEF HTTPInv
<1>1. CASE InitServer
  <2>1. /\ cfg' = cfg /\ chain' = Chain(cfg) /\ servers' = servers /\ req' = req
        /\ servers = <<>> /\ req = Nobody
    BY <1>1 DEF InitServer, HTTPInv
  <2>2. /\ cfg' \in Configs
        /\ chain' = <<>> => servers' = <<>> /\ req' = Nobody
        /\ chain' # <<>> => chain' = Chain(cfg)
    BY <1>0, <2>1
  <2>3. req' = Nobody
    BY <2>1
  <2> QED BY <2>1, <2>2, <2>3 DEF HTTPInv, Static, Chain, Only
<1>2. ASSUME NEW c \in Callers,
             Start(c) \/ ListenAndServe(c) \/ ServeEnds(c) \/ BeginShutdown(c) \/ EndShutdown(c)
      PROVE  HTTPInv'
  <2>1. cfg' = cfg /\ chain' = chain /\ req' = req
    BY <1>2 DEF Start, ListenAndServe, ServeEnds, BeginShutdown, EndShutdown
  <2>2. ASSUME chain = <<>> PROVE servers' = <<>>
    <3>1. servers = <<>>
      BY <2>2 DEF HTTPInv
    <3>2. \A k, v : [servers EXCEPT ![k] = v] = <<>>
      BY <3>1
    <3>3. CASE Start(c)
      BY <2>2, <3>1, <3>3 DEF Start
    <3>4. CASE ListenAndServe(c)
      BY <3>1, <3>2, <3>4 DEF ListenAndServe
    <3>5. CASE ServeEnds(c)
      BY <3>1, <3>5 DEF ServeEnds
    <3>6. CASE BeginShutdown(c)
      BY <3>1, <3>2, <3>6 DEF BeginShutdown
    <3>7. CASE EndShutdown(c)
      BY <3>1, <3>2, <3>7 DEF EndShutdown
    <3> QED BY <1>2, <3>3, <3>4, <3>5, <3>6, <3>7
  <2> QED BY <2>1, <2>2, SameRequest
<1>3. ASSUME NEW k \in 1..Len(servers), NEW r \in Requests, Accept(k, r)
      PROVE  HTTPInv'
  <2>1. cfg' = cfg /\ chain' = chain /\ servers' = servers
    BY <1>3 DEF Accept
  <2>2. chain # <<>>
    <3>1. servers # <<>>
      BY <1>3
    <3> QED BY <3>1 DEF HTTPInv
  <2>3. k \in Nat
    BY <1>3
  <2>4. req' = [at |-> 1, server |-> k, r |-> r, owned |-> FALSE, way |-> "down",
                status |-> 0, by |-> "nobody", log |-> <<>>, span |-> "none", passed |-> {}]
    BY <1>3 DEF Accept
  <2>5. \A t, l, h, n : ChainShape(Static(cfg), chain, t, l, h, n) => RequestOK(req', chain, t, l, h, n)
    BY <2>3, <2>4, AcceptedOK
  <2> QED BY <2>1, <2>2, <2>5, RequestSteps
<1>4. CASE Down
  <2>1. cfg' = cfg /\ chain' = chain /\ servers' = servers /\ req # Nobody /\ req.way = "down"
    BY <1>4 DEF Down
  <2>2. PICK down \in BOOLEAN : req' = DownStep(req, chain[req.at], down)
    BY <1>4 DEF Down
  <2>3. chain # <<>>
    BY <2>1 DEF HTTPInv
  <2>4. ASSUME ~cfg.upstream, NEW t \in 1..Len(chain), NEW l \in 1..Len(chain), NEW h \in 1..Len(chain),
               NEW n \in 1..Len(chain), ChainShape(Static(cfg), chain, t, l, h, n)
        PROVE  RequestOK(req', chain, t, l, h, n)
    <3>1. RequestOK(req, chain, t, l, h, n) /\ cfg.upstream = FALSE
      BY <1>0, <2>1, <2>4 DEF HTTPInv
    <3> QED BY <2>1, <2>2, <2>4, <3>1, DownOK
  <2> QED BY <2>1, <2>3, <2>4, RequestSteps
<1>5. CASE Up
  <2>1. /\ cfg' = cfg /\ chain' = chain /\ servers' = servers /\ req # Nobody /\ req.way # "down" /\ req.at > 1
        /\ req' = [UpStep(req, chain[req.at - 1]) EXCEPT !.at = req.at - 1]
    BY <1>5 DEF Up
  <2>2. chain # <<>>
    BY <2>1 DEF HTTPInv
  <2>3. ASSUME ~cfg.upstream, NEW t \in 1..Len(chain), NEW l \in 1..Len(chain), NEW h \in 1..Len(chain),
               NEW n \in 1..Len(chain), ChainShape(Static(cfg), chain, t, l, h, n)
        PROVE  RequestOK(req', chain, t, l, h, n)
    <3>1. RequestOK(req, chain, t, l, h, n) /\ cfg.upstream = FALSE
      BY <1>0, <2>1, <2>3 DEF HTTPInv
    <3> QED BY <2>1, <2>3, <3>1, UpOK
  <2> QED BY <2>1, <2>2, <2>3, RequestSteps
<1>6. CASE Finish
  <2>1. cfg' = cfg /\ chain' = chain /\ servers' = servers /\ req # Nobody /\ req' = Nobody
    BY <1>6 DEF Finish
  <2>2. chain # <<>>
    BY <2>1 DEF HTTPInv
  <2> QED BY <2>1, <2>2, RequestSteps
<1>7. CASE UNCHANGED httpVars
  <2>1. cfg' = cfg /\ chain' = chain /\ req' = req /\ servers' = servers
    BY <1>7 DEF httpVars
  <2>2. chain = <<>> => servers' = <<>>
    BY <2>1 DEF HTTPInv
  <2> QED BY <2>1, <2>2, SameRequest
<1> QED BY <1>1, <1>2, <1>3, <1>4, <1>5, <1>6, <1>7 DEF Next

LEMMA HTTPInvHolds == Spec => []HTTPInv
BY HTTPInitially, HTTPStep, PTL DEF Spec

LEMMA HTTPInvSays ==
    ASSUME HTTPInv PROVE ProbesAreOwned
<1>1. SUFFICES ASSUME req # Nobody, ~cfg.upstream PROVE ProbesAreOwned
  BY DEF ProbesAreOwned, OnlyOwnProbesUnlogged, ProbesBypassOthersDoNot, Ending, Answered
<1>2. cfg \in Configs /\ chain = Chain(cfg)
  BY <1>1 DEF HTTPInv
<1>3. PICK t \in 1..Len(chain), l \in 1..Len(chain), h \in 1..Len(chain), n \in 1..Len(chain) :
          ChainShape(Static(cfg), chain, t, l, h, n)
  BY <1>1, <1>2, ChainHasShape
<1>4. RequestOK(req, chain, t, l, h, n)
  BY <1>1, <1>3 DEF HTTPInv
<1>5. /\ t \in Nat /\ l \in Nat /\ 1 < t /\ t < l /\ DOMAIN chain = 1..n /\ Len(chain) = n
  BY <1>3 DEF ChainShape
<1>6. OnlyOwnProbesUnlogged
  <2> SUFFICES ASSUME req.at = 1, req.way \in {"up", "panic"}, cfg.logging
               PROVE  /\ req.log = <<>> =>
                             req.by \in {"health", "cors"} \/ (req.by = "custom" /\ IsHealthProbe(req.r))
                      /\ (req.log # <<>> /\ req.way = "up") => req.log = <<"REQ", "RES">>
                      /\ req.span # "open"
    BY DEF OnlyOwnProbesUnlogged, Ending
  <2>1. 1 <= l /\ 1 <= t /\ req.way # "down"
    BY <1>5
  <2>2. CASE Bypassed(req)
    <3>1. req.log = <<>> /\ req.by \in ProbeAnswerers /\ req.span # "open"
      BY <1>4, <2>1, <2>2 DEF RequestOK, Logged, Guarded, Traced
    <3>2. ~Static(cfg) => IsHealthProbe(req.r)
      BY <2>2 DEF Bypassed
    <3> QED BY <3>1, <3>2 DEF ProbeAnswerers
  <2>3. CASE ~Bypassed(req)
    <3>1. /\ req.way = "up" => req.log = <<"REQ", "RES">>
          /\ req.way = "panic" => req.log = <<"REQ">>
          /\ req.span # "open"
      BY <1>4, <2>1, <2>3 DEF RequestOK, Logged, Traced
    <3>2. <<"REQ", "RES">> # <<>> /\ <<"REQ">> # <<>>
      OBVIOUS
    <3> QED BY <3>1, <3>2
  <2> QED BY <2>2, <2>3
<1>7. ProbesBypassOthersDoNot
  <2> SUFFICES ASSUME req.way = "up"
               PROVE  /\ Bypassed(req) => req.by \in {"health", "cors", "custom"}
                      /\ req.by = "app" =>
                             {m \in {"authorize", "parseData"} :
                                  \E k \in 1..Len(chain) : chain[k] = m} \subseteq req.passed
    BY DEF ProbesBypassOthersDoNot, Answered
  <2>1. Bypassed(req) => req.by \in {"health", "cors", "custom"}
    BY <1>4 DEF RequestOK, Guarded, ProbeAnswerers
  <2>2. req.by = "app" => \A k \in 1..Len(chain) : chain[k] \in Guards => chain[k] \in req.passed
    BY <1>4, <1>5 DEF RequestOK, Guarded
  <2> QED BY <2>1, <2>2 DEF Guards
<1> QED BY <1>6, <1>7 DEF ProbesAreOwned

(* Only probes that fit-go answers itself, or an exact probe that a health   *)
(* middleware of the caller answers, are left out of the access log or pass  *)
(* the parsers and the authorization unchecked, whatever the caller's        *)
(* middlewares are and however often Start and Shutdown are called.          *)
THEOREM ProbesStayOwned == Spec => []ProbesAreOwned
BY HTTPInvHolds, HTTPInvSays, PTL

-----------------------------------------------------------------------------
(* The JWT middlewares that a chain may hold, for every token, configuration *)
(* and clock.  A payload is a function from claim names; "text" marks the    *)
(* payload that is a text and is no claim.                                   *)
Tokens == INSTANCE TokenChecks

Payloads(names, values) == UNION {[D -> values] : D \in SUBSET names}

(* The advanced verifier (verifyJWTToken) admits no object token with HS256  *)
(* that the released one (verifyHS256) refuses, whatever is expected of the  *)
(* payload: a service that moves to it opens no door.                        *)
THEOREM AdvancedVerifierIsStricter ==
    ASSUME NEW t, NEW opts, NEW company, NEW now \in Int, t.exp \in Int, t.nbf \in Int
    PROVE  Tokens!AdvancedIsStricter(t, opts, company, now)
<1> SUFFICES ASSUME opts.skew = 0, Tokens!Algorithms(opts) = {"HS256"}, t.payload = "object",
                    t.exp # 0, t.nbf # 0,
                    Tokens!AuthorizeJWTToken("bearer", t, opts, company, TRUE, TRUE, now)
             PROVE  Tokens!LegacyAuthorize("bearer", t, opts, company, now)
  BY DEF Tokens!AdvancedIsStricter
<1>1. /\ t.encoding \in {"plain", "padded"} /\ Tokens!Parsed(t, opts, Tokens!RSA, now)
      /\ Tokens!ServerExpected(opts, company) # Tokens!NoPayload =>
             Tokens!PayloadEqual(Tokens!ServerExpected(opts, company), t)
  BY Zenon DEF Tokens!AuthorizeJWTToken, Tokens!ServerVerify
<1>2. t.alg = "HS256" /\ t.signedBy = Tokens!Secret(opts)
  BY <1>1 DEF Tokens!Parsed, Tokens!KeyFor, Tokens!HMAC
<1>3. (t.exp >= 0 => now <= t.exp) /\ (t.nbf >= 0 => now >= t.nbf)
  <2>1. (t.exp > 0 => now < t.exp + 0) /\ (t.nbf > 0 => now >= t.nbf - 0)
    BY <1>1 DEF Tokens!Parsed, Tokens!TimesValid
  <2> QED BY <2>1
<1>4. Tokens!LegacyVerify(t, Tokens!Secret(opts), now)
  BY <1>1, <1>2, <1>3 DEF Tokens!LegacyVerify
<1>5. ASSUME NEW wanted, Tokens!PayloadEqual(wanted, t) PROVE Tokens!LegacyPayloadEqual(wanted, t)
  BY <1>5 DEF Tokens!PayloadEqual, Tokens!LegacyPayloadEqual, Tokens!Claims
<1> QED
  BY <1>1, <1>4, <1>5 DEF Tokens!LegacyAuthorize, Tokens!Extracted

(* Two functions are equal when they agree on the same domain.               *)
LEMMA SameFunctions ==
    ASSUME NEW A, NEW B, NEW V, NEW f \in [A -> V], NEW g \in [B -> V]
    PROVE  f = g <=> A = B /\ \A k \in A : g[k] = f[k]
<1>1. ASSUME f = g PROVE A = B /\ \A k \in A : g[k] = f[k]
  <2>1. DOMAIN f = A /\ DOMAIN g = B
    OBVIOUS
  <2> QED BY <1>1, <2>1
<1>2. ASSUME A = B, \A k \in A : g[k] = f[k] PROVE f = g
  BY <1>2
<1> QED BY <1>1, <1>2

(* The two comparisons of payloads agree on object tokens.                   *)
LEMMA ComparisonsAgree ==
    ASSUME NEW Names, NEW Values, "text" \notin Names, NEW t, t.payload = "object",
           t.claims \in Payloads(Names, Values), NEW wanted,
           wanted \in Payloads(Names, Values) \/ \E v : wanted = [text |-> v]
    PROVE  Tokens!ComparePayloads(wanted, t) <=> Tokens!PayloadEqual(wanted, t)
<1>1. PICK D \in SUBSET Names : t.claims \in [D -> Values]
  BY DEF Payloads
<1>2. Tokens!ComparePayloads(wanted, t) <=>
        DOMAIN wanted = D /\ \A k \in D : wanted[k] = t.claims[k]
  BY <1>1 DEF Tokens!ComparePayloads, Tokens!Claims
<1>3. Tokens!PayloadEqual(wanted, t) <=> ~Tokens!IsText(wanted) /\ t.claims = wanted
  BY DEF Tokens!PayloadEqual
<1>4. CASE wanted \in Payloads(Names, Values)
  <2>1. PICK E \in SUBSET Names : wanted \in [E -> Values]
    BY <1>4 DEF Payloads
  <2>2. ~Tokens!IsText(wanted) /\ DOMAIN wanted = E
    BY <2>1 DEF Tokens!IsText
  <2>3. t.claims = wanted <=> D = E /\ \A k \in D : wanted[k] = t.claims[k]
    <3> DEFINE f == t.claims
    <3>1. f \in [D -> Values] /\ wanted \in [E -> Values]
      BY <1>1, <2>1
    <3> HIDE DEF f
    <3>2. f = wanted <=> D = E /\ \A k \in D : wanted[k] = f[k]
      BY <3>1, SameFunctions
    <3> QED BY <3>2 DEF f
  <2> QED BY <1>2, <1>3, <2>2, <2>3
<1>5. CASE \E v : wanted = [text |-> v]
  <2>1. DOMAIN wanted = {"text"} /\ Tokens!IsText(wanted)
    BY <1>5 DEF Tokens!IsText
  <2>2. "text" \notin D
    BY <1>1
  <2> QED BY <1>2, <1>3, <2>1, <2>2
<1> QED BY <1>4, <1>5

(* HTTP admits every object token that gRPC admits, and gRPC every one that  *)
(* HTTP admits unless the request names an empty company: without what only  *)
(* HTTP can be told to check (issuer, audience, subject, RS384 and RS512),   *)
(* the two verifiers, their two ways to find the expected payload and their  *)
(* two comparisons (comparePayloads, jwtPayloadEqual) go together.           *)
THEOREM TransportsAgreeOnTokens ==
    ASSUME NEW Names, NEW Values, "text" \notin Names, NEW t, NEW opts, NEW company, NEW now,
           t.payload = "object" => t.claims \in Payloads(Names, Values),
           [company_id |-> company] \in Payloads(Names, Values),
           \/ opts.expected = Tokens!NoPayload
           \/ opts.expected \in Payloads(Names, Values)
           \/ \E v : opts.expected = [text |-> v]
    PROVE  Tokens!TransportsAgree(t, opts, company, now)
<1> DEFINE there == Tokens!GRPCExpected(opts, company)
           here == Tokens!ServerExpected(opts, company)
           grpc == Tokens!GRPCAuthorize("bearer", t, opts, company, now)
           http == Tokens!AuthorizeJWTToken("bearer", t, opts, company, FALSE, TRUE, now)
<1> SUFFICES ASSUME t.payload = "object", ~Tokens!AsksForNames(opts),
                    t.alg \notin {"RS384", "RS512"}
             PROVE  (grpc => http) /\ (http /\ company # Tokens!EmptyCompany => grpc)
  BY Zenon DEF Tokens!TransportsAgree
<1>1. Tokens!KeyFor(t, opts, {"RS256"}) = Tokens!KeyFor(t, opts, Tokens!RSA)
  BY DEF Tokens!KeyFor, Tokens!RSA
<1>2. Tokens!Parsed(t, opts, {"RS256"}, now) <=> Tokens!Parsed(t, opts, Tokens!RSA, now)
  BY <1>1 DEF Tokens!Parsed
<1>3. Tokens!GRPCVerify(t, opts, now) <=> Tokens!ServerVerify(t, opts, FALSE, TRUE, now)
  <2>1. Tokens!Registered(t, opts)
    BY Zenon DEF Tokens!AsksForNames, Tokens!Registered, Tokens!Named
  <2> QED BY <1>2, <2>1, Zenon DEF Tokens!GRPCVerify, Tokens!ServerVerify
<1>4. there # Tokens!NoPayload =>
        there \in Payloads(Names, Values) \/ \E v : there = [text |-> v]
  BY Zenon DEF Tokens!GRPCExpected
<1>5. here = there \/ (here = Tokens!NoPayload /\ company = Tokens!EmptyCompany)
  BY DEF Tokens!GRPCExpected, Tokens!ServerExpected
<1> HIDE DEF here, there
<1>6. there # Tokens!NoPayload =>
        (Tokens!ComparePayloads(there, t) <=> Tokens!PayloadEqual(there, t))
  BY <1>4, ComparisonsAgree, Zenon
<1>7. /\ grpc <=> /\ Tokens!GRPCVerify(t, opts, now)
                  /\ there # Tokens!NoPayload => Tokens!ComparePayloads(there, t)
      /\ http <=> /\ Tokens!ServerVerify(t, opts, FALSE, TRUE, now)
                  /\ here # Tokens!NoPayload => Tokens!PayloadEqual(here, t)
  BY Zenon DEF Tokens!GRPCAuthorize, Tokens!AuthorizeJWTToken, Tokens!Extracted, here, there
<1> HIDE DEF grpc, http
<1> QED BY <1>3, <1>5, <1>6, <1>7
============================================================================
