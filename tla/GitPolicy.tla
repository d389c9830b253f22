----------------------------- MODULE GitPolicy -----------------------------
(***************************************************************************)
(* The Git policy of internal/gitadapter/policy.go: what a compiled list   *)
(* of rules decides about a classified request, and about the access to a  *)
(* repository before the refs of a push are known.                         *)
(*                                                                         *)
(* A name is a sequence, so that a prefix means something.  A selector of  *)
(* a rule is a set, the empty one for a field that was left out; a *bool   *)
(* is a set of at most one Boolean.                                        *)
(***************************************************************************)
EXTENDS Naturals, Sequences, FiniteSets

UpdateKind == {"create", "update", "delete"}

\* A request without receive-pack data, and a rule looked at without an update.
NoReceivePack == [kind |-> "none", format |-> "sha1", updates |-> <<>>,
                  capabilities |-> {}, options |-> 0, negotiated |-> FALSE,
                  signed |-> FALSE, atomic |-> FALSE, hasPack |-> FALSE]

NoUpdate == [ref |-> <<>>, kind |-> "none"]

\* StringMatcher: an exact name or a prefix.
MatchesName(matcher, name) ==
  IF matcher.exact # <<>> THEN name = matcher.exact
  ELSE Len(matcher.prefix) <= Len(name) /\ SubSeq(name, 1, Len(matcher.prefix)) = matcher.prefix

matchStrings(matchers, name) ==
  matchers = {} \/ \E m \in matchers : MatchesName(m, name)

\* containsService, containsOperation, containsInt, ...: no selector, or one of
\* its values.
contains(values, target) == values = {} \/ target \in values

(***************************************************************************)
(* NewPolicy.                                                              *)
(***************************************************************************)
ValidMatcher(m) == (m.exact = <<>>) # (m.prefix = <<>>)

validRuleEnums(rule) ==
  /\ rule.services \subseteq {"upload-pack", "receive-pack"}
  /\ rule.operations \subseteq {"discover", "fetch", "push", "probe", "noop"}
  /\ rule.versions \subseteq 0..2
  /\ rule.formats \subseteq {"sha1", "sha256"}
  /\ rule.kinds \subseteq UpdateKind

\* The rules a policy can be made of, the bounds on their number aside.
NewPolicyAccepts(rules) ==
  /\ \A i \in 1..Len(rules) :
       /\ rules[i].effect \in {"allow", "deny"}
       /\ \A m \in rules[i].repositories \cup rules[i].refs : ValidMatcher(m)
       /\ validRuleEnums(rules[i])
  /\ \A i, j \in 1..Len(rules) : rules[i].id = rules[j].id => i = j

(***************************************************************************)
(* Matching.                                                               *)
(***************************************************************************)
matchesRepositoryAccess(rule, request) ==
  /\ matchStrings(rule.repositories, request.repository)
  /\ contains(rule.services, request.service)
  /\ contains(rule.operations, request.operation)
  /\ contains(rule.versions, request.version)

requestWide(rule) ==
  /\ rule.refs = {} /\ rule.kinds = {} /\ rule.formats = {}
  /\ rule.signed = {} /\ rule.atomic = {} /\ rule.hasPushOptions = {}

matches(rule, request, update) ==
  LET pack == request.receivePack
  IN  /\ matchesRepositoryAccess(rule, request)
      /\ rule.refs # {} \/ rule.kinds # {} =>
           update # NoUpdate /\ matchStrings(rule.refs, update.ref) /\ contains(rule.kinds, update.kind)
      /\ rule.formats # {} \/ rule.signed # {} \/ rule.atomic # {} \/ rule.hasPushOptions # {} =>
           /\ pack # NoReceivePack
           /\ contains(rule.formats, pack.format)
           /\ contains(rule.signed, pack.signed)
           /\ contains(rule.atomic, pack.atomic)
           /\ contains(rule.hasPushOptions, pack.negotiated)

(***************************************************************************)
(* Requests Evaluate accepts.                                              *)
(***************************************************************************)
validateReceiveForPolicy(pack) ==
  /\ pack.format \in {"sha1", "sha256"}
  /\ pack.negotiated = ("push-options" \in pack.capabilities)
  /\ pack.options # 0 => pack.negotiated
  /\ \A i \in 1..Len(pack.updates) : pack.updates[i].kind \in UpdateKind
  /\ \A i, j \in 1..Len(pack.updates) : pack.updates[i].ref = pack.updates[j].ref => i = j

validatePolicyRequest(request) ==
  /\ request.repository # <<>> /\ request.version \in 0..2
  /\ request.service \in {"upload-pack", "receive-pack"}
  /\ CASE request.operation = "discover" -> request.receivePack = NoReceivePack
       [] request.operation = "fetch" ->
            request.service = "upload-pack" /\ request.receivePack = NoReceivePack
       [] request.operation = "push" ->
            /\ request.service = "receive-pack" /\ request.receivePack.kind = "push"
            /\ request.receivePack.updates # <<>> /\ request.version # 2
            /\ validateReceiveForPolicy(request.receivePack)
       [] request.operation \in {"probe", "noop"} ->
            /\ request.service = "receive-pack" /\ request.receivePack.updates = <<>>
            /\ request.receivePack.kind = request.operation
       [] OTHER -> FALSE

validateRepositoryAccessRequest(request) ==
  /\ request.repository # <<>> /\ request.version \in 0..2
  /\ CASE request.operation = "fetch" -> request.service = "upload-pack"
       [] request.operation = "push" -> request.service = "receive-pack" /\ request.version # 2
       [] OTHER -> FALSE

(***************************************************************************)
(* Decisions.                                                              *)
(***************************************************************************)
Matching(rules, effect, request, update) ==
  {i \in 1..Len(rules) : rules[i].effect = effect /\ matches(rules[i], request, update)}

Reason(denied, allowed) ==
  IF denied THEN "explicit_deny" ELSE IF allowed THEN "allowed" ELSE "no_match"

\* A deny of any update refuses the whole push, whatever matches the others.
EvaluatePush(rules, request) ==
  LET updates == request.receivePack.updates
      denied == \E i \in 1..Len(updates) : Matching(rules, "deny", request, updates[i]) # {}
      allowed == \A i \in 1..Len(updates) : Matching(rules, "allow", request, updates[i]) # {}
  IN  Reason(denied, allowed)

Evaluate(rules, request) ==
  IF ~validatePolicyRequest(request) THEN "invalid_input"
  ELSE IF request.operation = "push" THEN EvaluatePush(rules, request)
  ELSE Reason(Matching(rules, "deny", request, NoUpdate) # {},
              Matching(rules, "allow", request, NoUpdate) # {})

\* A scoped allow is enough and only a request-wide deny counts.
CanAccessRepository(rules, request) ==
  IF ~validateRepositoryAccessRequest(request) THEN "invalid_input"
  ELSE Reason(\E i \in 1..Len(rules) :
                rules[i].effect = "deny" /\ requestWide(rules[i]) /\ matchesRepositoryAccess(rules[i], request),
              \E i \in 1..Len(rules) :
                rules[i].effect = "allow" /\ matchesRepositoryAccess(rules[i], request))
=============================================================================
