---------------------------- MODULE MCDecisions ----------------------------
(* The pure decisions of the repository: how a connection is made from its  *)
(* settings, which pool postgres opens, which value a feature has for a     *)
(* user and which bearer tokens are admitted.  A behaviour asks one question*)
(* taken from a small set; the invariants compare what two versions of the  *)
(* code, or one version on two related inputs, answer to it.                *)
EXTENDS Integers, Sequences, FiniteSets, TLC

VARIABLES question

Connections == INSTANCE ConnectionSettings WITH Int32Half <- 4

(* Values 0..3; 1 and 2 are numbers, 2 and 3 dates of the same day.         *)
TextRelations ==
    [INCLUDES |-> {<<1, 1>>, <<2, 2>>, <<2, 1>>, <<3, 3>>}, STARTS_WITH |-> {<<2, 1>>},
     NETWORK |-> {<<1, 2>>, <<3, 2>>}]
DayOfDate == 2 :> 2 @@ 3 :> 2
Strategies == INSTANCE FeatureStrategy WITH
    Text <- TextRelations, Numbers <- {1, 2}, Dates <- {2, 3}, DayOf <- DayOfDate

Tokens == INSTANCE TokenChecks

Unasked == [about |-> "nothing"]
Init == question = Unasked

-----------------------------------------------------------------------------
(* Connections.                                                             *)
Materials == [given : {{}, {"ca"}, {"ca", "cert", "key"}, {"ca", "cert", "key", "serverName"}},
              files : {"good", "badCA", "unreadable"}]
URIs == [scheme : {"redis", "rediss", "redis-sentinel"}, hosts : {1, 2}, sharded : BOOLEAN,
         tls : {"absent", "true", "junk"}, ssl : {"absent", "true"}, master : BOOLEAN]
RedisServices == [role : {"read", "write"}, compatible : BOOLEAN, protocols : {{}, {3}}]
Dialers == {[r \in {"sentinel", "cluster", "standalone"} |-> d] :
               d \in {{}, {"plain"}, {"plain", "advanced"}}}
RedisQuestions ==
    [about : {"connection"}, client : {"redis"}, strict : BOOLEAN, material : Materials,
     uri : URIs, service : RedisServices, dialers : Dialers,
     controls : [retries : BOOLEAN, backoff : {FALSE}]]
SQLQuestions ==
    [about : {"connection"}, client : {"mysql"}, strict : BOOLEAN,
     material : Materials, registrar : {"none", "works", "fails"},
     conn : [form : {"uri", "dsn", "malformed"}, host : {"h"},
             option : {"absent", "true", "false", "insecure"},
             dsn : {"default", "named", "unnamed"}]]
    \cup
    [about : {"connection"}, client : {"postgres", "mongo"}, strict : BOOLEAN,
     material : Materials,
     conn : [sslmode : DOMAIN Connections!FirstAttempt, hosts : {1, 2}]]
AskConnection ==
    question = Unasked /\ \E q \in RedisQuestions \cup SQLQuestions : question' = q

(* Pools: at most two variables and one override are set; -3 is what 5      *)
(* becomes where int32 wraps at 4.                                          *)
EnvValues == {[form |-> f, n |-> 0] : f \in {"absent", "blank", "junk"}}
             \cup {[form |-> "number", n |-> n] : n \in {-1, 0, 1, 5}}
             \cup {[form |-> "padded", n |-> 1]}
EnvNames == Connections!Fields \cup {"renamed"}
Uniform(n) == [f \in Connections!Fields |-> n]
AskPool ==
    /\ question = Unasked
    /\ \E g, k \in EnvNames, x, y \in EnvValues, n \in {0, 2}, o \in {"none", "max", "lifetime"} :
         question' = [about |-> "pool", options |-> Uniform(n), defaults |-> Uniform(3),
                      override |-> [f \in Connections!Fields |-> IF f = o THEN 2 ELSE 0],
                      env |-> [f \in EnvNames |-> IF f = g THEN x ELSE IF f = k THEN y
                                                  ELSE [form |-> "absent", n |-> 0]]]

(* Rollouts: up to three strategies by session or country.                  *)
Contexts == {<<>>, [session |-> <<1>>], [country |-> <<1, 2>>],
             [session |-> <<1>>, country |-> <<2>>]}
Condition == [field |-> "country", type |-> "STRING", conditional |-> "EQUALS",
              values |-> {2}, nil |-> FALSE]
StrategySet == [percentage : {0, 1, 2}, by : {<<>>, <<"country">>},
                attributes : {{}, {Condition}}, value : {"v"}]
Keys == {<<-1>>, <<0>>, <<1>>, <<2>>}
Buckets == {[k \in Keys |-> IF k = <<1>> THEN a ELSE b] : a, b \in 1..4}
AskRollout ==
    /\ question = Unasked
    /\ \E c \in Contexts, b \in Buckets, ss \in UNION {[1..n -> StrategySet] : n \in 2..3} :
         question' = [about |-> "rollout", context |-> c, bucket |-> b, strategies |-> ss]

ConditionTypes == {"BOOLEAN", "NUMBER", "DATE", "DATETIME", "SEMANTIC_VERSION", "IP_ADDRESS", "STRING"}
AskCondition ==
    /\ question = Unasked
    /\ \E v \in 0..3, c \in 0..3, type \in ConditionTypes :
         question' = [about |-> "condition", value |-> v,
                      attribute |-> [Condition EXCEPT !.type = type, !.values = {c}]]

(* Tokens with an object for a payload, signed with HS256 or RS256: what    *)
(* the invariants compare.  An empty company is in a request and in a token.*)
CompanyClaims == {<<>>} \cup {[company_id |-> c] : c \in {"c", Tokens!EmptyCompany}}
TokenSet == [encoding : {"plain", "padded"}, alg : {"HS256", "RS256"},
             signedBy : {"", "secret", "rsa"}, payload : {"object"},
             exp : {Tokens!Absent, Tokens!NotNumeric, 2}, nbf : {Tokens!Absent, 2},
             iss : {"i"}, aud : {{"a"}}, sub : {"s"}, claims : CompanyClaims]
Names == {<<"", "", "">>, <<"i", "a", "s">>, <<"j", "", "">>, <<"", "b", "">>, <<"", "", "x">>}
Secrets == {<<"", "">>, <<"", "secret">>, <<"secret", "">>}
OptionSet == {[secret |-> s[1], env |-> s[2], rsa |-> "rsa", algorithms |-> a, skew |-> d,
               issuer |-> n[1], audience |-> n[2], subject |-> n[3], expected |-> e] :
                 s \in Secrets, a \in {{}, {"HS256", "RS256"}}, d \in {0, 1},
                 n \in Names, e \in {Tokens!NoPayload, [company_id |-> "c"]}}
AskToken ==
    /\ question = Unasked
    /\ \E t \in TokenSet, o \in OptionSet, now \in 1..3,
          company \in {Tokens!NoCompany, Tokens!EmptyCompany, "c"} :
         question' = [about |-> "token", token |-> t, opts |-> o, company |-> company, now |-> now]

Next == AskConnection \/ AskPool \/ AskRollout \/ AskCondition \/ AskToken

-----------------------------------------------------------------------------
(* What is to hold of the answers, one formula per kind of question.        *)
TLSHolds == question.about = "connection" => Connections!TLSKeptUnlessOverridden(question)
PoolsHold == question.about = "pool" => Connections!PoolsAgree(question)
RolloutHolds ==
    question.about = "rollout" =>
        Strategies!RolloutIsSticky(question.context, question.strategies, question.bucket, 2)
NegationHolds ==
    question.about = "condition" =>
        Strategies!NegationsComplement(question.value, question.attribute)
TokensHold ==
    question.about = "token" =>
        /\ Tokens!AdvancedIsStricter(question.token, question.opts, question.company, question.now)
        /\ Tokens!TransportsAgree(question.token, question.opts, question.company, question.now)
=============================================================================
