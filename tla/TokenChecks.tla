---------------------------- MODULE TokenChecks ----------------------------
(* Which bearer tokens the JWT middlewares admit: the released verifier and *)
(* the advanced one of server/middleware.go and the one of                  *)
(* grpc/middleware.go.  A token is a record of its encoding, algorithm, the *)
(* key that signed it, its payload's kind, its times and its other claims.  *)
(* The golang-jwt parser is external.                                       *)
EXTENDS Integers

Absent == -1        \* a time claim that is missing
NotNumeric == -2    \* one that is no number

HMAC == {"HS256", "HS384", "HS512"}
RSA == {"RS256", "RS384", "RS512"}
NoKey == "none"

(* The header must hold "Bearer " and something after it.                   *)
Extracted(header) == header = "bearer"

(* The configured secret, or the environment's.                             *)
Secret(opts) == IF opts.secret = "" THEN opts.env ELSE opts.secret

(* verifyHS256: padding is accepted, an empty secret is used as it is, and  *)
(* times that are no numbers are ignored.                                   *)
LegacyVerify(t, secret, now) ==
    /\ t.encoding \in {"plain", "padded"}
    /\ t.alg = "HS256" /\ t.signedBy = secret
    /\ t.payload \in {"object", "null"}
    /\ t.payload = "object" => /\ (t.exp >= 0 => now <= t.exp)
                               /\ (t.nbf >= 0 => now >= t.nbf)

(* golang-jwt's validation, external: a time of the wrong type is an error; *)
(* expiry is exclusive.  A numeric zero counts as missing.                  *)
TimesValid(t, skew, now) ==
    t.payload = "object" =>
        /\ t.exp # NotNumeric /\ t.nbf # NotNumeric
        /\ (t.exp > 0 => now < t.exp + skew)
        /\ (t.nbf > 0 => now >= t.nbf - skew)

(* The key function.  RSAFamily is what the case of the code accepts.       *)
KeyFor(t, opts, rsaFamily) ==
    IF t.alg \in HMAC THEN Secret(opts)
    ELSE IF t.alg \in rsaFamily THEN opts.rsa ELSE ""

Algorithms(opts) == IF opts.algorithms = {} THEN {"HS256"} ELSE opts.algorithms

Parsed(t, opts, rsaFamily, now) ==
    /\ t.alg \in Algorithms(opts)
    /\ KeyFor(t, opts, rsaFamily) # "" /\ t.signedBy = KeyFor(t, opts, rsaFamily)
    /\ TimesValid(t, opts.skew, now)

(* verifyJWTToken of the server: payload is an object, or text if allowed;  *)
(* null decodes as the empty text.                                          *)
Named(wanted, actual) == wanted = "" \/ wanted = actual
Registered(t, opts) ==
    /\ Named(opts.issuer, t.iss) /\ Named(opts.subject, t.sub)
    /\ opts.audience = "" \/ opts.audience \in t.aud
AsksForNames(opts) == {opts.issuer, opts.subject, opts.audience} # {""}
ServerVerify(t, opts, allowPadding, allowScalar, now) ==
    /\ t.encoding = "plain" \/ (allowPadding /\ t.encoding = "padded")
    /\ Parsed(t, opts, RSA, now)
    /\ t.payload \in {"object", "text", "null"} /\ (allowScalar \/ t.payload = "object")
    /\ IF t.payload = "object" THEN Registered(t, opts) ELSE ~AsksForNames(opts)

(* verifyJWTToken of gRPC: claims are a map, null is an empty one.          *)
GRPCVerify(t, opts, now) ==
    /\ t.encoding = "plain"
    /\ Parsed(t, opts, {"RS256"}, now)
    /\ t.payload \in {"object", "null"}

(* The expected payload: configured, else the company the request names.  A *)
(* path parameter that is empty is as good as absent; a field of a gRPC     *)
(* request counts as soon as it is there, empty or not.                     *)
NoPayload == [none |-> "none"]
NoCompany == "absent"
EmptyCompany == "empty"
ServerExpected(opts, company) ==
    IF opts.expected # NoPayload THEN opts.expected
    ELSE IF company \in {NoCompany, EmptyCompany} THEN NoPayload ELSE [company_id |-> company]
GRPCExpected(opts, company) ==
    IF opts.expected # NoPayload THEN opts.expected
    ELSE IF company = NoCompany THEN NoPayload ELSE [company_id |-> company]

(* jsonEqual, jwtPayloadEqual: all claims but the standard ones.            *)
Claims(t) == IF t.payload = "object" THEN t.claims ELSE <<>>
IsText(expected) == "text" \in DOMAIN expected
PayloadEqual(expected, t) ==
    /\ t.payload = (IF IsText(expected) THEN "text" ELSE "object")
    /\ t.claims = expected
LegacyPayloadEqual(expected, t) == Claims(t) = expected

(* comparePayloads of gRPC: as many claims, and each one equal.             *)
ComparePayloads(expected, t) ==
    LET actual == Claims(t) IN
    /\ DOMAIN expected = DOMAIN actual
    /\ \A k \in DOMAIN expected : expected[k] = actual[k]

(* The middlewares.                                                         *)
LegacyAuthorize(header, t, opts, company, now) ==
    /\ Extracted(header) /\ LegacyVerify(t, Secret(opts), now)
    /\ LET wanted == ServerExpected(opts, company) IN
       wanted # NoPayload => LegacyPayloadEqual(wanted, t)

AuthorizeJWTToken(header, t, opts, company, allowPadding, allowScalar, now) ==
    /\ Extracted(header) /\ ServerVerify(t, opts, allowPadding, allowScalar, now)
    /\ LET wanted == ServerExpected(opts, company) IN
       wanted # NoPayload => PayloadEqual(wanted, t)

GRPCAuthorize(header, t, opts, company, now) ==
    /\ Extracted(header) /\ GRPCVerify(t, opts, now)
    /\ LET wanted == GRPCExpected(opts, company) IN
       wanted # NoPayload => ComparePayloads(wanted, t)

-----------------------------------------------------------------------------
(* Properties.                                                              *)

(* The advanced verifier is stricter: without clock skew and with HS256     *)
(* alone it admits no object token that the released one refuses, times     *)
(* being positive.                                                          *)
AdvancedIsStricter(t, opts, company, now) ==
    (opts.skew = 0 /\ Algorithms(opts) = {"HS256"} /\ t.payload = "object"
       /\ t.exp # 0 /\ t.nbf # 0) =>
        (AuthorizeJWTToken("bearer", t, opts, company, TRUE, TRUE, now)
            => LegacyAuthorize("bearer", t, opts, company, now))

(* Where only what both transports know is configured (no issuer, audience  *)
(* or subject, and none of the RSA algorithms that only HTTP has), HTTP     *)
(* admits every object token that gRPC admits for the same request, and     *)
(* gRPC every one that HTTP admits unless the request names an empty        *)
(* company, which gRPC holds the token to and HTTP does not.                *)
TransportsAgree(t, opts, company, now) ==
    LET grpc == GRPCAuthorize("bearer", t, opts, company, now)
        http == AuthorizeJWTToken("bearer", t, opts, company, FALSE, TRUE, now)
    IN (t.payload = "object" /\ ~AsksForNames(opts) /\ t.alg \notin {"RS384", "RS512"}) =>
         /\ grpc => http
         /\ http /\ company # EmptyCompany => grpc
=============================================================================
