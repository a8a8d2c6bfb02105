-------------------------- MODULE FeatureStrategy --------------------------
(* Rollout strategies of feature/strategy.go, evaluated by the client.  A   *)
(* context maps attribute names to sequences of values; values are naturals *)
(* ordered as the code orders the texts they stand for, and Text gives the  *)
(* textual relations (prefix, suffix, substring, regular expression,        *)
(* network) between a value and a candidate.  bucket is the murmur hash of  *)
(* a percentage key, salted with the feature and scaled: any function.      *)
EXTENDS Integers, Sequences, FiniteSetsExt

CONSTANTS
    Text,           \* conditional -> the pairs <<value, candidate>> it relates
    Numbers,        \* values that start with a number
    Dates,          \* values that parse as a date
    DayOf           \* the value of a date formatted without its time

(* firstAttribute and the default percentage key: session, then userkey.    *)
First(context, name, fallback) ==
    IF name \in DOMAIN context /\ Len(context[name]) > 0 THEN context[name][1] ELSE fallback
NoKey == 0
Missing == -1                                                      \* "<none>"
DefaultKey(context) == First(context, "session", First(context, "userkey", NoKey))

KeyOf(context, strategy) ==
    IF strategy.by = <<>> THEN <<DefaultKey(context)>>
    ELSE [i \in DOMAIN strategy.by |-> First(context, strategy.by[i], Missing)]

-----------------------------------------------------------------------------
(* Attribute conditions.                                                    *)

InOrder(conditional, v, c) ==
    \/ conditional = "EQUALS" /\ v = c
    \/ conditional = "GREATER" /\ v > c
    \/ conditional = "GREATER_EQUALS" /\ v >= c
    \/ conditional = "LESS" /\ v < c
    \/ conditional = "LESS_EQUALS" /\ v <= c
Textual(conditional, v, c) == conditional \in DOMAIN Text /\ <<v, c>> \in Text[conditional]
Occurs(v, c) == <<v, c>> \in Text["INCLUDES"]

MatchString(v, a) ==
    \/ \E c \in a.values : InOrder(a.conditional, v, c) \/ Textual(a.conditional, v, c)
    \/ a.conditional = "NOT_EQUALS" /\ v \notin a.values
    \/ a.conditional = "EXCLUDES" /\ \A c \in a.values : ~Occurs(v, c)

(* Candidates that are no number are passed over.                           *)
MatchNumber(v, a) ==
    /\ v \in Numbers
    /\ MatchString(v, [a EXCEPT !.values = @ \cap Numbers])

(* Here a negated condition needs one candidate that differs, not all.      *)
MatchSemanticVersion(v, a) ==
    \E c \in a.values :
        \/ InOrder(a.conditional, v, c)
        \/ a.conditional = "INCLUDES" /\ v = c
        \/ a.conditional \in {"NOT_EQUALS", "EXCLUDES"} /\ v # c

MatchIPAddress(v, a) ==
    LET contained == \E c \in a.values : v = c \/ <<v, c>> \in Text["NETWORK"]
    IN \/ a.conditional \in {"EQUALS", "INCLUDES"} /\ contained
       \/ a.conditional \in {"NOT_EQUALS", "EXCLUDES"} /\ ~contained

(* The first candidate only; any candidate but true is false.               *)
IsTrue(v) == v = 1
MatchBoolean(v, a) ==
    /\ a.values # {}
    /\ LET expected == IsTrue(Min(a.values)) IN
         \/ a.conditional = "EQUALS" /\ IsTrue(v) = expected
         \/ a.conditional = "NOT_EQUALS" /\ IsTrue(v) # expected

MatchAttributeValue(v, a) ==
    \/ a.type = "BOOLEAN" /\ MatchBoolean(v, a)
    \/ a.type = "NUMBER" /\ MatchNumber(v, a)
    \/ a.type = "DATE" /\ v \in Dates /\ MatchString(DayOf[v], a)
    \/ a.type = "DATETIME" /\ v \in Dates /\ MatchString(v, a)
    \/ a.type = "SEMANTIC_VERSION" /\ MatchSemanticVersion(v, a)
    \/ a.type = "IP_ADDRESS" /\ MatchIPAddress(v, a)
    \/ a.type = "STRING" /\ MatchString(v, a)

(* matchAttributes: all conditions, each by some supplied value; "now" is   *)
(* supplied by the clock.  A condition without values (nil) asks that       *)
(* nothing is supplied.                                                     *)
Supplied(context, a, now) ==
    LET given == IF a.field \in DOMAIN context THEN context[a.field] ELSE <<>>
    IN IF given = <<>> /\ a.field = "now" /\ a.type \in {"DATE", "DATETIME"} THEN <<now>> ELSE given

MatchAttributes(context, attributes, now) ==
    \A a \in attributes :
        LET supplied == Supplied(context, a, now) IN
        IF a.nil THEN supplied = <<>> /\ a.conditional = "EQUALS"
        ELSE \E i \in DOMAIN supplied : MatchAttributeValue(supplied[i], a)

-----------------------------------------------------------------------------
(* applyStrategies: unqualified strategies of one key share the range of    *)
(* percentages in order; a qualified one starts at zero.                    *)

Rolled(context, s) == s.percentage # 0 /\ (DefaultKey(context) # NoKey \/ s.by # <<>>)

\* Mutant: the range starts after the strategies that follow.
BaseOfLater(context, ss, i) ==
    IF ss[i].attributes # {} THEN 0
    ELSE MapThenSumSet(LAMBDA j : ss[j].percentage,
                       {j \in (i + 1)..Len(ss) : /\ Rolled(context, ss[j]) /\ ss[j].attributes = {}
                                                 /\ KeyOf(context, ss[j]) = KeyOf(context, ss[i])})

Base(context, ss, i) ==
    IF ss[i].attributes # {} THEN 0
    ELSE MapThenSumSet(LAMBDA j : ss[j].percentage,
                       {j \in 1..(i - 1) : /\ Rolled(context, ss[j]) /\ ss[j].attributes = {}
                                           /\ KeyOf(context, ss[j]) = KeyOf(context, ss[i])})

Takes(context, ss, i, bucket, now) ==
    \/ /\ Rolled(context, ss[i])
       /\ bucket[KeyOf(context, ss[i])] <= Base(context, ss, i) + ss[i].percentage
       /\ MatchAttributes(context, ss[i].attributes, now)
    \/ /\ ss[i].percentage = 0 /\ ss[i].attributes # {}
       /\ MatchAttributes(context, ss[i].attributes, now)

(* The strategy whose value the user gets, 0 for the feature's own.         *)
ApplyStrategies(context, ss, bucket, now) ==
    LET takers == {i \in DOMAIN ss : Takes(context, ss, i, bucket, now)}
    IN IF takers = {} THEN 0 ELSE Min(takers)

(* evaluatedValueFor: the strategies decide only client-evaluated features. *)
EvaluatedValue(feature, clientEvaluated, context, bucket, now) ==
    LET chosen == IF clientEvaluated THEN ApplyStrategies(context, feature.strategies, bucket, now) ELSE 0
    IN IF chosen = 0 THEN feature.value ELSE feature.strategies[chosen].value

-----------------------------------------------------------------------------
(* Properties.                                                              *)

(* Raising one strategy's percentage takes its value from nobody who had    *)
(* it, changes nothing for those an earlier strategy serves, and leaves     *)
(* nobody a later one served without a value, whatever keys and conditions  *)
(* the others have.                                                         *)
RolloutIsSticky(context, ss, bucket, now) ==
    LET got == ApplyStrategies(context, ss, bucket, now) IN
    \A i \in DOMAIN ss :
        ss[i].percentage > 0 =>
            LET raised == [ss EXCEPT ![i].percentage = @ + 1]
                now1 == ApplyStrategies(context, raised, bucket, now)
            IN got # 0 => (now1 \in 1..got /\ (got <= i => now1 = got))

(* With one candidate and one valid value, a negated condition is exactly   *)
(* the complement of the plain one, in every type.                          *)
NegationsComplement(v, a) ==
    LET As(conditional) == MatchAttributeValue(v, [a EXCEPT !.conditional = conditional])
        valid == (a.type = "NUMBER" => {v} \cup a.values \subseteq Numbers)
                 /\ (a.type \in {"DATE", "DATETIME"} => v \in Dates)
    IN (Cardinality(a.values) = 1 /\ valid) =>
         /\ As("EQUALS") # As("NOT_EQUALS")
         /\ a.type # "BOOLEAN" => (As("INCLUDES") # As("EXCLUDES"))
=============================================================================
