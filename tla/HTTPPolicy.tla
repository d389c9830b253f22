----------------------------- MODULE HTTPPolicy -----------------------------
(***************************************************************************)
(* The HTTP policy engine (internal/policy) and the gateway's use of it    *)
(* (internal/gateway/gateway.go): how much of a body is read, what of it   *)
(* the engine is shown, and what a list of rules decides.                  *)
(*                                                                         *)
(* A request is a record of its canonical method, path (a sequence of      *)
(* segments, the last one empty after a trailing slash), query (a function *)
(* from keys to the sequence of their values) and body.  A body is its     *)
(* size, whether it is readable (sent under no encoding, and it arrives to *)
(* its end), and what the decoders make of it: json, a function from       *)
(* pointers to values, and graphql, the operation (that of a GET is        *)
(* decoded from the query); Malformed for either.                          *)
(*                                                                         *)
(* External: the decoders, and CEL, an operator of expression and request. *)
(***************************************************************************)
EXTENDS Integers, Sequences

CONSTANTS Cel(_, _),      \* "true", "false" or "error"
          Malformed,      \* what a decoder does not take
          NoMatcher       \* a rule without GraphQL, or without CEL

\* No bytes: the JSON matchers take no empty body.
NoBody == [size |-> 0, readable |-> TRUE, json |-> Malformed, graphql |-> Malformed]

(***************************************************************************)
(* Path globs: which prefixes of the path the first i segments match.      *)
(***************************************************************************)
\* A wildcard never stands for the empty segment after a trailing slash.
StepsTo(pattern, path, j) ==
  CASE pattern.kind = "literal" -> {k \in {j + 1} : j < Len(path) /\ path[k] = pattern.literal}
    [] pattern.kind = "one" -> {k \in {j + 1} : j < Len(path) /\ path[k] # ""}
    [] pattern.kind = "many" -> {k \in j..Len(path) : \A n \in (j + 1)..k : path[n] # ""}

MatchesPath(glob, path) ==
  LET dp[i \in 0..Len(glob)] ==
        IF i = 0 THEN {0} ELSE UNION {StepsTo(glob[i], path, j) : j \in dp[i - 1]}
  IN  Len(path) \in dp[Len(glob)]

(***************************************************************************)
(* The other matchers of a rule.                                           *)
(***************************************************************************)
\* eq wants one value and in wants all of them listed, however often the key
\* comes.
MatchesQuery(m, query) ==
  LET present == m.key \in DOMAIN query
      values == IF present THEN query[m.key] ELSE <<>>
  IN  CASE m.op = "present" -> present
        [] m.op = "absent" -> ~present
        [] m.op = "eq" -> Len(values) = 1 /\ values[1] = m.value
        [] m.op = "in" -> Len(values) # 0 /\ \A i \in 1..Len(values) : values[i] \in m.values
        [] OTHER -> FALSE

MatchesJSON(m, document) == m.pointer \in DOMAIN document /\ document[m.pointer] \in m.values

\* The root fields are an allowlist: every field must be in it.
MatchesGraphQL(m, operation) ==
  /\ m.type = {} \/ operation.type \in m.type
  /\ m.name = {} \/ operation.name \in m.name
  /\ m.fields = {} \/ (operation.fields # {} /\ operation.fields \subseteq m.fields)

\* matches, first the part that looks at the request line only.
MatchesLine(rule, request) ==
  /\ rule.methods = {} \/ request.method \in rule.methods
  /\ rule.paths = {} \/ \E glob \in rule.paths : MatchesPath(glob, request.path)
  /\ \A m \in rule.query : MatchesQuery(m, request.query)

\* A body that cannot be decoded is an error only of the rules that look at it,
\* and only if nothing before it has settled that they do not match.
matches(rule, request) ==
  LET body == request.body
  IN  IF ~MatchesLine(rule, request) THEN "noMatch"
      ELSE IF rule.json # {} /\ body.json = Malformed THEN "error"
      ELSE IF \E m \in rule.json : ~MatchesJSON(m, body.json) THEN "noMatch"
      ELSE IF rule.graphql # NoMatcher /\ body.graphql = Malformed THEN "error"
      ELSE IF rule.graphql # NoMatcher /\ ~MatchesGraphQL(rule.graphql, body.graphql) THEN "noMatch"
      ELSE IF rule.cel = NoMatcher THEN "match"
      ELSE CASE Cel(rule.cel, request) = "true" -> "match"
             [] Cel(rule.cel, request) = "false" -> "noMatch"
             [] OTHER -> "error"

(***************************************************************************)
(* Compile and Evaluate.                                                   *)
(***************************************************************************)
NeedsBody(policy) ==
  \E i \in 1..Len(policy.rules) :
    policy.rules[i].json # {} \/ policy.rules[i].graphql # NoMatcher \/ policy.rules[i].cel # NoMatcher

\* Some rule with the effect has the outcome for the request.
Some(policy, effect, outcome, request) ==
  \E i \in 1..Len(policy.rules) :
    policy.rules[i].effect = effect /\ matches(policy.rules[i], request) = outcome

\* An error of any rule refuses, then a deny, and only then an allow counts.
Judge(policy, request) ==
  IF \E effect \in {"allow", "deny"} : Some(policy, effect, "error", request) THEN "evaluation_error"
  ELSE IF Some(policy, "deny", "match", request) THEN "explicit_deny"
  ELSE IF Some(policy, "allow", "match", request) THEN "allowed"
  ELSE "no_match"

\* valid: canonicalizeRequest takes the request.
Evaluate(policy, request) ==
  IF request.body.size > policy.bodyLimit THEN "body_too_large"
  ELSE IF ~request.valid THEN "invalid_request"
  ELSE Judge(policy, request)

(***************************************************************************)
(* The gateway.                                                            *)
(***************************************************************************)
\* The number of bytes prepareRequestBody reads at most; zero in a grant is no
\* limit of its own.
CapBytes(policy, grantMax, globalMax) ==
  LET engine == IF NeedsBody(policy) /\ policy.bodyLimit < globalMax THEN policy.bodyLimit ELSE globalMax
  IN  IF grantMax # 0 /\ grantMax < engine THEN grantMax ELSE engine

MaxGlobalBody == 2^30

prepareRequestBody(policy, grantMax, globalMax, body) ==
  /\ globalMax \in 1..MaxGlobalBody
  /\ body.size <= CapBytes(policy, grantMax, globalMax)
  /\ body.readable

\* What the engine is shown.
bodyBytes(policy, request) ==
  IF NeedsBody(policy) THEN request ELSE [request EXCEPT !.body = NoBody]

\* ServeHTTP's decision: the request is forwarded, with its whole body.
Forwarded(policy, grantMax, globalMax, request) ==
  /\ prepareRequestBody(policy, grantMax, globalMax, request.body)
  /\ Evaluate(policy, bodyBytes(policy, request)) = "allowed"
=============================================================================
