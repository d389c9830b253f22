-------------------------- MODULE AdmissionProofs --------------------------
(***************************************************************************)
(* What the gateway admits: what the HTTP policy engine decides as the     *)
(* gateway calls it (HTTPPolicy), for every policy and every request, and  *)
(* what the accounting of rates and budgets lets through (RequestLimits),  *)
(* for any delegation forest, limits, clock resolution and counter width.  *)
(***************************************************************************)
EXTENDS RequestLimits, Sequences, TLAPS

CONSTANTS Cel(_, _), Malformed, NoMatcher

HTTP == INSTANCE HTTPPolicy

-----------------------------------------------------------------------------
(* The HTTP engine *)

\* The rules of a policy; their order is left out.
RulesOf(policy) == {policy.rules[i] : i \in 1..Len(policy.rules)}

Request(M, P, Q, B) == [method : M, path : P, query : Q, body : B, valid : BOOLEAN]

\* A rule without a matcher for bodies matches a request whatever its body is
\* (compiledRule.matches).
LEMMA BodyUnseen ==
  ASSUME NEW M, NEW P, NEW Q, NEW B, NEW request \in Request(M, P, Q, B), NEW rule,
         rule.json = {}, rule.graphql = NoMatcher, rule.cel = NoMatcher
  PROVE  HTTP!matches(rule, [request EXCEPT !.body = HTTP!NoBody]) = HTTP!matches(rule, request)
<1> DEFINE bare == [request EXCEPT !.body = HTTP!NoBody]
<1>1. bare.method = request.method /\ bare.path = request.path /\ bare.query = request.query
  BY Zenon DEF Request
<1>2. HTTP!MatchesLine(rule, bare) <=> HTTP!MatchesLine(rule, request)
  BY Zenon, <1>1 DEF HTTP!MatchesLine
<1> HIDE DEF bare
<1>3. HTTP!matches(rule, bare) = HTTP!matches(rule, request)
  BY Zenon, <1>2 DEF HTTP!matches
<1> QED
  BY Zenon, <1>3 DEF bare

\* The decision depends on what the rules do with the request, one by one.
LEMMA SameOutcomes ==
  ASSUME NEW policy, NEW r, NEW s,
         \A i \in 1..Len(policy.rules) : HTTP!matches(policy.rules[i], r) = HTTP!matches(policy.rules[i], s)
  PROVE  HTTP!Judge(policy, r) = HTTP!Judge(policy, s)
<1>1. \A effect, outcome : HTTP!Some(policy, effect, outcome, r) <=> HTTP!Some(policy, effect, outcome, s)
  BY Zenon DEF HTTP!Some
<1> QED
  BY Zenon, <1>1 DEF HTTP!Judge

\* A request the gateway forwards is allowed by its policy with the body that
\* is forwarded: some allow matches it, no deny does, and no rule fails on it,
\* although the engine is not shown the body when no rule looks at bodies
\* (prepareRequestBody, bodyBytes, Policy.Evaluate).
THEOREM ForwardedIsAllowed ==
  ASSUME NEW M, NEW P, NEW Q, NEW B, NEW request \in Request(M, P, Q, B), NEW policy,
         NEW grantMax, NEW globalMax,
         HTTP!Forwarded(policy, grantMax, globalMax, request)
  PROVE  HTTP!Judge(policy, request) = "allowed"
<1>1. HTTP!Judge(policy, HTTP!bodyBytes(policy, request)) = "allowed"
  BY Zenon DEF HTTP!Forwarded, HTTP!Evaluate
<1>2. CASE HTTP!NeedsBody(policy)
  BY Zenon, <1>1, <1>2 DEF HTTP!bodyBytes
<1>3. CASE ~HTTP!NeedsBody(policy)
  <2>1. HTTP!bodyBytes(policy, request) = [request EXCEPT !.body = HTTP!NoBody]
    BY Zenon, <1>3 DEF HTTP!bodyBytes
  <2>2. ASSUME NEW i \in 1..Len(policy.rules)
        PROVE  HTTP!matches(policy.rules[i], [request EXCEPT !.body = HTTP!NoBody]) = HTTP!matches(policy.rules[i], request)
    <3>1. policy.rules[i].json = {} /\ policy.rules[i].graphql = NoMatcher /\ policy.rules[i].cel = NoMatcher
      BY Zenon, <1>3 DEF HTTP!NeedsBody
    <3> QED
      BY <3>1, BodyUnseen
  <2> QED
    BY <1>1, <2>1, <2>2, SameOutcomes
<1> QED
  BY Zenon, <1>2, <1>3

\* The size check of the engine refuses nothing the gateway has let through:
\* body_too_large is not a reason a forwarded size can be refused for.
THEOREM PreparedBodyFits ==
  ASSUME NEW M, NEW P, NEW Q, NEW B, NEW request \in Request(M, P, Q, B), NEW policy,
         NEW grantMax \in Nat, NEW globalMax \in Nat,
         request.body.size \in Nat, policy.bodyLimit \in Nat,
         HTTP!prepareRequestBody(policy, grantMax, globalMax, request.body)
  PROVE  HTTP!Evaluate(policy, HTTP!bodyBytes(policy, request)) # "body_too_large"
<1>1. HTTP!bodyBytes(policy, request).body.size <= policy.bodyLimit
  <2>1. CASE HTTP!NeedsBody(policy)
    BY <2>1 DEF HTTP!prepareRequestBody, HTTP!CapBytes, HTTP!bodyBytes
  <2>2. CASE ~HTTP!NeedsBody(policy)
    <3>1. HTTP!bodyBytes(policy, request).body = HTTP!NoBody
      BY Zenon, <2>2 DEF HTTP!bodyBytes, Request
    <3>2. HTTP!NoBody.size = 0
      BY Zenon DEF HTTP!NoBody
    <3> QED
      BY <3>1, <3>2
  <2> QED
    BY Zenon, <2>1, <2>2
<1>2. HTTP!bodyBytes(policy, request).body.size \in Int
  BY DEF HTTP!bodyBytes, HTTP!NoBody, Request
<1>3. \A req : HTTP!Judge(policy, req) # "body_too_large"
  BY Zenon DEF HTTP!Judge
<1> QED
  BY <1>1, <1>2, <1>3 DEF HTTP!Evaluate

\* Two policies with the same rules in any order, or with one of them written
\* twice, forward the same requests ("Rule order has no policy meaning",
\* Compile).
THEOREM OrderIsIrrelevant ==
  ASSUME NEW p, NEW q, NEW request, NEW grantMax, NEW globalMax,
         RulesOf(p) = RulesOf(q), p.bodyLimit = q.bodyLimit
  PROVE  HTTP!Forwarded(p, grantMax, globalMax, request) <=> HTTP!Forwarded(q, grantMax, globalMax, request)
<1>1. HTTP!NeedsBody(p) <=> HTTP!NeedsBody(q)
  <2>1. HTTP!NeedsBody(p) <=> \E r \in RulesOf(p) : r.json # {} \/ r.graphql # NoMatcher \/ r.cel # NoMatcher
    BY Zenon DEF HTTP!NeedsBody, RulesOf
  <2>2. HTTP!NeedsBody(q) <=> \E r \in RulesOf(q) : r.json # {} \/ r.graphql # NoMatcher \/ r.cel # NoMatcher
    BY Zenon DEF HTTP!NeedsBody, RulesOf
  <2> QED
    BY Zenon, <2>1, <2>2
<1>2. ASSUME NEW effect, NEW outcome, NEW req
      PROVE  HTTP!Some(p, effect, outcome, req) <=> HTTP!Some(q, effect, outcome, req)
  <2>1. HTTP!Some(p, effect, outcome, req) <=>
          \E r \in RulesOf(p) : r.effect = effect /\ HTTP!matches(r, req) = outcome
    BY Zenon DEF HTTP!Some, RulesOf
  <2>2. HTTP!Some(q, effect, outcome, req) <=>
          \E r \in RulesOf(q) : r.effect = effect /\ HTTP!matches(r, req) = outcome
    BY Zenon DEF HTTP!Some, RulesOf
  <2> QED
    BY Zenon, <2>1, <2>2
<1>3. \A req : HTTP!Judge(p, req) = HTTP!Judge(q, req)
  BY Zenon, <1>2 DEF HTTP!Judge
<1>4. \A req : HTTP!Evaluate(p, req) = HTTP!Evaluate(q, req)
  BY Zenon, <1>3 DEF HTTP!Evaluate
<1>5. HTTP!bodyBytes(p, request) = HTTP!bodyBytes(q, request)
  BY Zenon, <1>1 DEF HTTP!bodyBytes
<1>6. HTTP!CapBytes(p, grantMax, globalMax) = HTTP!CapBytes(q, grantMax, globalMax)
  BY Zenon, <1>1 DEF HTTP!CapBytes
<1> QED
  BY Zenon, <1>4, <1>5, <1>6 DEF HTTP!Forwarded, HTTP!prepareRequestBody

\* Rules added to a policy that are no allows only refuse: what the longer
\* policy allows, the shorter one does.
THEOREM DeniesOnlyRefuse ==
  ASSUME NEW p, NEW q, NEW request,
         RulesOf(p) \subseteq RulesOf(q),
         \A r \in RulesOf(q) \ RulesOf(p) : r.effect # "allow",
         HTTP!Judge(q, request) = "allowed"
  PROVE  HTTP!Judge(p, request) = "allowed"
<1>1. ASSUME NEW effect, NEW outcome
      PROVE  /\ HTTP!Some(p, effect, outcome, request) <=>
                  \E r \in RulesOf(p) : r.effect = effect /\ HTTP!matches(r, request) = outcome
             /\ HTTP!Some(q, effect, outcome, request) <=>
                  \E r \in RulesOf(q) : r.effect = effect /\ HTTP!matches(r, request) = outcome
  BY Zenon DEF HTTP!Some, RulesOf
<1>2. /\ ~\E effect \in {"allow", "deny"} : HTTP!Some(q, effect, "error", request)
      /\ ~HTTP!Some(q, "deny", "match", request)
      /\ HTTP!Some(q, "allow", "match", request)
  BY Zenon DEF HTTP!Judge
<1>3. /\ ~\E effect \in {"allow", "deny"} : HTTP!Some(p, effect, "error", request)
      /\ ~HTTP!Some(p, "deny", "match", request)
  BY <1>1, <1>2
<1>4. HTTP!Some(p, "allow", "match", request)
  BY Zenon, <1>1, <1>2
<1> QED
  BY Zenon, <1>3, <1>4 DEF HTTP!Judge

-----------------------------------------------------------------------------
(* Rates and budgets *)

State == [credit: Nat, last: Nat, requests: Nat, bytes: Nat]

\* What a bucket would hold if it were refilled now.
Potential(a, st) ==
    IF st.credit + (now - st.last) * Rate(a) > Capacity(a)
    THEN Capacity(a) ELSE st.credit + (now - st.last) * Rate(a)

StateOK(a, st) ==
    /\ st \in State /\ st.last <= now /\ st.credit <= Capacity(a)
    /\ st.requests <= MaxWord /\ st.bytes <= MaxWord

\* The states agree with the histories g of requests and c of bytes.
Counted(sts, g, c) ==
    /\ DOMAIN sts \subseteq Scope
    /\ \A a \in DOMAIN sts : StateOK(a, sts[a]) /\ sts[a].requests = g[a] /\ sts[a].bytes = c[a]
    /\ \A a \in Scope : a \notin DOMAIN sts => Expired(a) \/ (g[a] = 0 /\ c[a] = 0)

\* The admissions counted in the window, together with what the bucket could
\* still admit at once, are within the burst and the refills of that time.
WindowOK(sts, g, w) ==
    /\ w \in [scope: Scope, start: Nat, count: Nat]
    /\ w.start <= now
    /\ w.count <= g[w.scope]
    /\ Rate(w.scope) # 0 =>
        IF w.scope \in DOMAIN sts
        THEN w.count * Scale + Potential(w.scope, sts[w.scope])
                <= Capacity(w.scope) + (now - w.start) * Rate(w.scope)
        ELSE w.count * Scale <= Capacity(w.scope) + (now - w.start) * Rate(w.scope)

\* The inductive invariant.
IInv ==
    /\ now \in 0..MaxTime /\ nextSweep \in Nat
    /\ granted \in [Scope -> Nat] /\ carried \in [Scope -> Nat]
    /\ Counted(states, granted, carried)
    /\ AncestorBoundsDescendants
    /\ WindowOK(states, granted, window)

-----------------------------------------------------------------------------
(* Arithmetic and buckets *)

\* Products of naturals are natural.
LEMMA ProductNat == \A x, y \in Nat : x * y \in Nat
  OBVIOUS

\* The capacity of a bucket is a whole number of units.
LEMMA CapacityNat ==
    ASSUME NEW a \in Scope
    PROVE  /\ Rate(a) \in Nat /\ Capacity(a) \in Nat
           /\ ScopeLimits[a].requestBudget \in Nat /\ ScopeLimits[a].byteBudget \in Nat
           /\ ExpiresAt[a] \in Nat
  <1>1. Rate(a) \in Nat /\ effectiveBurst(a) \in Nat
    BY Zenon, ScopeAssumption DEF Rate, effectiveBurst
  <1>2. Capacity(a) \in Nat
    BY Zenon, <1>1, ProductNat, UnitAssumption DEF Capacity
  <1> QED  BY Zenon, <1>1, <1>2, ScopeAssumption

\* refill brings a bucket to its potential and changes no counter.
LEMMA RefillFacts ==
    ASSUME NEW a \in Scope, NEW st, StateOK(a, st), now \in Nat
    PROVE  /\ StateOK(a, refill(a, st))
           /\ refill(a, st).requests = st.requests /\ refill(a, st).bytes = st.bytes
           /\ refill(a, st).credit >= st.credit
           /\ Potential(a, refill(a, st)) = Potential(a, st)
           /\ Rate(a) # 0 => refill(a, st).credit = Potential(a, st)
                             /\ refill(a, st).last = now
  <1> DEFINE gain == (now - st.last) * Rate(a)
  <1>1. Rate(a) \in Nat /\ Capacity(a) \in Nat
    BY Zenon, CapacityNat
  <1>2. st \in State /\ st.last <= now /\ st.credit <= Capacity(a)
    BY Zenon DEF StateOK
  <1>3. st.credit \in Nat /\ st.last \in Nat /\ now - st.last \in Nat
    BY <1>2 DEF State
  <1>4. gain \in Nat
    BY Zenon, <1>1, <1>3, ProductNat
  <1>5. CASE Rate(a) = 0 \/ now <= st.last
    <2>1. refill(a, st) = st
      BY Zenon, <1>5 DEF refill
    <2>2. Rate(a) # 0 => st.last = now /\ Potential(a, st) = st.credit
      <3>1. SUFFICES ASSUME Rate(a) # 0 PROVE st.last = now /\ Potential(a, st) = st.credit
        BY Zenon
      <3>2. st.last = now
        BY <3>1, <1>5, <1>2, <1>3
      <3>3. (now - st.last) * Rate(a) = 0
        BY <3>2, <1>1, <1>3
      <3> QED  BY <3>2, <3>3, <1>1, <1>2, <1>3 DEF Potential
    <2> QED  BY <2>1, <2>2, <1>3
  <1>6. CASE Rate(a) # 0 /\ now > st.last
    <2> DEFINE p == Potential(a, st)
    <2>1. p \in Nat /\ p <= Capacity(a) /\ p >= st.credit
      BY <1>1, <1>2, <1>3, <1>4 DEF Potential
    <2>2. refill(a, st) = [st EXCEPT !.credit = p, !.last = now]
      BY <1>6, <1>2, <1>3 DEF refill, Potential
    <2> HIDE DEF p
    <2>3. refill(a, st) = [credit |-> p, last |-> now, requests |-> st.requests, bytes |-> st.bytes]
      BY <2>2, <1>2, Zenon DEF State
    <2>4. (now - now) * Rate(a) = 0
      BY <1>1
    <2>5. Potential(a, refill(a, st)) = p
      BY <2>1, <2>3, <2>4, <1>1 DEF Potential
    <2> QED  BY <2>1, <2>3, <2>5 DEF StateOK, State, p
  <1> QED  BY <1>5, <1>6, <1>2, <1>3

\* Charging a request takes one request's worth from a bucket that has it.
LEMMA TakeFacts ==
    ASSUME NEW a \in Scope, NEW st, StateOK(a, st), AdmitsRequest(a, st),
           Rate(a) # 0 => st.last = now, now \in Nat
    PROVE  /\ StateOK(a, TakeRequest(a, st))
           /\ TakeRequest(a, st).requests = st.requests + 1
           /\ TakeRequest(a, st).bytes = st.bytes
           /\ Rate(a) # 0 => Potential(a, TakeRequest(a, st)) + Scale = Potential(a, st)
  <1>1. Rate(a) \in Nat /\ Capacity(a) \in Nat /\ Scale \in Nat /\ MaxWord \in Nat
    BY Zenon, CapacityNat, UnitAssumption
  <1>2. st \in State /\ st.last <= now /\ st.credit <= Capacity(a) /\ st.requests <= MaxWord
        /\ st.bytes <= MaxWord
    BY Zenon DEF StateOK
  <1>3. st.credit \in Nat /\ st.last \in Nat /\ st.requests \in Nat /\ st.bytes \in Nat
    BY Zenon, <1>2 DEF State
  <1> DEFINE c == IF Rate(a) = 0 THEN st.credit ELSE st.credit - Scale
  <1>4. TakeRequest(a, st) = [credit |-> c, last |-> st.last, requests |-> st.requests + 1,
                              bytes |-> st.bytes]
    <2>1. TakeRequest(a, st) = [st EXCEPT !.credit = c, !.requests = st.requests + 1]
      BY Zenon DEF TakeRequest
    <2> HIDE DEF c
    <2> QED  BY <2>1, <1>2, Zenon DEF State
  <1>5. c \in Nat /\ c <= Capacity(a)
    BY <1>1, <1>2, <1>3 DEF AdmitsRequest
  <1>6. st.requests + 1 <= MaxWord
    BY <1>1, <1>2, <1>3 DEF AdmitsRequest
  <1>7. StateOK(a, TakeRequest(a, st))
    <2> HIDE DEF c
    <2> QED  BY <1>2, <1>3, <1>4, <1>5, <1>6 DEF StateOK, State
  <1>8. ASSUME Rate(a) # 0  PROVE Potential(a, TakeRequest(a, st)) + Scale = Potential(a, st)
    <2>1. (now - now) * Rate(a) = 0 /\ st.last = now
      BY <1>1, <1>8
    <2>2. Potential(a, st) = st.credit
      BY <2>1, <1>1, <1>2, <1>3 DEF Potential
    <2>3. c = st.credit - Scale
      BY Zenon, <1>8
    <2>4. Potential(a, TakeRequest(a, st)) = c
      <3> HIDE DEF c
      <3> QED  BY <2>1, <1>1, <1>4, <1>5 DEF Potential
    <2> QED  BY <2>2, <2>3, <2>4, <1>1, <1>3
  <1> QED  BY <1>4, <1>7, <1>8

-----------------------------------------------------------------------------
(* Actions *)

\* sweepLocked and statesLocked keep the states in agreement with the histories:
\* what they drop has expired, and what they create has been charged nothing.
LEMMA StatesLockedFacts ==
    ASSUME IInv, NEW s \in Scope
    PROVE  LET known == statesLocked(s)
           IN  /\ Counted(known, granted, carried)
               /\ WindowOK(known, granted, window)
               /\ ChainLive(s) => Chain[s] \subseteq DOMAIN known
               /\ \A a \in DOMAIN known \cap DOMAIN states : known[a] = states[a]
  <1> DEFINE swept == sweepLocked
             reached == {a \in Chain[s] : \A b \in Chain[a] : ~Expired(b)}
             known == statesLocked(s)
  <1>1. /\ DOMAIN swept \subseteq DOMAIN states
        /\ \A a \in DOMAIN swept : swept[a] = states[a]
        /\ \A a \in DOMAIN states : a \notin DOMAIN swept => Expired(a)
    BY Zenon DEF sweepLocked
  <1>2. Chain[s] \subseteq Scope /\ reached \subseteq Scope
    BY Zenon, ScopeAssumption
  <1>3. \A a \in reached : ~Expired(a)
    BY Zenon, <1>2, ScopeAssumption
  <1>4. DOMAIN known = DOMAIN swept \cup reached
    BY Zenon DEF statesLocked
  <1>5. /\ \A a \in DOMAIN swept : known[a] = swept[a]
        /\ \A a \in reached : a \notin DOMAIN swept => known[a] = Fresh(a)
    BY Zenon DEF statesLocked
  <1>6. Counted(states, granted, carried) /\ now \in Nat
    BY DEF IInv
  <1>7. ASSUME NEW a \in Scope  PROVE StateOK(a, Fresh(a)) /\ Potential(a, Fresh(a)) = Capacity(a)
    <2>1. Capacity(a) \in Nat /\ Rate(a) \in Nat /\ MaxWord \in Nat
      BY Zenon, CapacityNat, UnitAssumption
    <2>2. (now - now) * Rate(a) = 0
      BY <2>1, <1>6
    <2> QED  BY <2>1, <2>2, <1>6 DEF Fresh, StateOK, State, Potential
  <1> HIDE DEF swept, reached, known
  <1>8. ASSUME NEW a \in reached, a \notin DOMAIN swept
        PROVE  a \notin DOMAIN states /\ granted[a] = 0 /\ carried[a] = 0
    BY Zenon, <1>1, <1>2, <1>3, <1>6, <1>8 DEF Counted
  <1>9. Counted(known, granted, carried)
    <2>1. DOMAIN known \subseteq Scope
      BY Zenon, <1>1, <1>2, <1>4, <1>6 DEF Counted
    <2>2. ASSUME NEW a \in DOMAIN known
          PROVE  StateOK(a, known[a]) /\ known[a].requests = granted[a] /\ known[a].bytes = carried[a]
      <3>1. CASE a \in DOMAIN swept
        BY Zenon, <3>1, <1>1, <1>5, <1>6 DEF Counted
      <3>2. CASE a \notin DOMAIN swept
        <4>1. a \in reached /\ known[a] = Fresh(a)
          BY Zenon, <3>2, <1>4, <1>5
        <4>2. Fresh(a).requests = 0 /\ Fresh(a).bytes = 0
          BY Zenon DEF Fresh
        <4> QED  BY Zenon, <4>1, <4>2, <3>2, <1>2, <1>7, <1>8
      <3> QED  BY Zenon, <3>1, <3>2
    <2>3. \A a \in Scope : a \notin DOMAIN known => Expired(a) \/ (granted[a] = 0 /\ carried[a] = 0)
      BY Zenon, <1>1, <1>4, <1>6 DEF Counted
    <2> QED  BY Zenon, <2>1, <2>2, <2>3 DEF Counted
  <1>10. WindowOK(known, granted, window)
    <2> DEFINE w == window.scope
    <2>1. WindowOK(states, granted, window) /\ granted \in [Scope -> Nat]
      BY Zenon DEF IInv
    <2>2. w \in Scope /\ window.count \in Nat /\ window.start \in Nat /\ window.start <= now
          /\ window.count <= granted[w]
      BY Zenon, <2>1 DEF WindowOK
    <2>3. Rate(w) \in Nat /\ Capacity(w) \in Nat /\ Scale \in Nat
      BY Zenon, <2>2, CapacityNat, UnitAssumption
    <2>4. (now - window.start) * Rate(w) \in Nat /\ window.count * Scale \in Nat
      BY <2>2, <2>3, <1>6, ProductNat
    <2>5. CASE w \in DOMAIN swept
      BY <2>1, <2>5, <1>1, <1>4, <1>5 DEF WindowOK
    <2>6. CASE w \notin DOMAIN swept /\ w \in reached
      <3>1. known[w] = Fresh(w) /\ granted[w] = 0
        BY Zenon, <2>6, <1>5, <1>8
      <3>2. window.count = 0
        BY <3>1, <2>2
      <3>3. window.count * Scale = 0
        BY <3>2, <2>3
      <3>4. Potential(w, known[w]) = Capacity(w)
        BY Zenon, <3>1, <2>2, <1>7
      <3> QED  BY <3>3, <3>4, <2>1, <2>3, <2>4, <2>6, <1>4 DEF WindowOK
    <2>7. CASE w \notin DOMAIN swept /\ w \notin reached
      <3>1. ASSUME w \in DOMAIN states
            PROVE  Potential(w, states[w]) \in Nat
        <4>1. StateOK(w, states[w])
          BY Zenon, <3>1, <1>6 DEF Counted
        <4>2. states[w].credit \in Nat /\ states[w].last \in Nat /\ states[w].last <= now
          BY Zenon, <4>1 DEF StateOK, State
        <4>3. (now - states[w].last) * Rate(w) \in Nat
          BY <4>2, <2>3, <1>6, ProductNat
        <4> QED  BY <4>2, <4>3, <2>3 DEF Potential
      <3>2. Rate(w) # 0 => window.count * Scale <= Capacity(w) + (now - window.start) * Rate(w)
        BY <3>1, <2>1, <2>3, <2>4 DEF WindowOK
      <3> QED  BY Zenon, <3>2, <2>1, <2>7, <1>4 DEF WindowOK
    <2> QED  BY Zenon, <2>5, <2>6, <2>7
  <1>11. ChainLive(s) => Chain[s] \subseteq DOMAIN known
    <2> SUFFICES ASSUME ChainLive(s), NEW a \in Chain[s]  PROVE a \in DOMAIN known
      BY Zenon
    <2>1. Chain[a] \subseteq Chain[s]
      BY Zenon, ScopeAssumption
    <2> QED  BY Zenon, <2>1, <1>4 DEF ChainLive, reached
  <1>12. \A a \in DOMAIN known \cap DOMAIN states : known[a] = states[a]
    <2> SUFFICES ASSUME NEW a \in DOMAIN known, a \in DOMAIN states  PROVE known[a] = states[a]
      BY Zenon
    <2> QED  BY Zenon, <1>1, <1>4, <1>5, <1>8
  <1> QED  BY Zenon, <1>9, <1>10, <1>11, <1>12 DEF known

\* Admissions respect the budgets as soon as the admitted scopes did.
BoundsOK(g, c) ==
    \A s \in Scope :
        /\ ScopeLimits[s].requestBudget # 0 => g[s] <= ScopeLimits[s].requestBudget
        /\ ScopeLimits[s].byteBudget # 0 => c[s] <= ScopeLimits[s].byteBudget

\* The invariant after a call that does not advance the clock.
LEMMA CallInv ==
    ASSUME IInv, now' = now, nextSweep' \in Nat,
           granted' \in [Scope -> Nat], carried' \in [Scope -> Nat],
           Counted(states', granted', carried'),
           WindowOK(states', granted', window'),
           BoundsOK(granted', carried')
    PROVE  IInv'
  <1>1. Counted(states, granted, carried)'
    BY Zenon DEF Counted, StateOK, Expired
  <1>2. WindowOK(states, granted, window)'
    BY Zenon DEF WindowOK, Potential
  <1>3. AncestorBoundsDescendants'
    BY Zenon DEF BoundsOK, AncestorBoundsDescendants
  <1> QED  BY Zenon, <1>1, <1>2, <1>3 DEF IInv

\* The step a call may make on the credit of a bucket that it found.
CreditStep ==
    \A s \in DOMAIN states \cap DOMAIN states' :
        states'[s].credit < states[s].credit => granted'[s] = granted[s] + 1

\* allowRequest preserves the invariant and takes credit only for admissions.
LEMMA AllowRequestInv ==
    ASSUME IInv, NEW s \in Scope, allowRequest(s)
    PROVE  IInv' /\ CreditStep
  <1> DEFINE known == statesLocked(s)
             ok == ChainLive(s) /\ \A a \in Chain[s] : AdmitsRequest(a, refill(a, known[a]))
  <1>1. /\ Counted(known, granted, carried) /\ WindowOK(known, granted, window)
        /\ ChainLive(s) => Chain[s] \subseteq DOMAIN known
        /\ \A a \in DOMAIN known \cap DOMAIN states : known[a] = states[a]
    BY Zenon, StatesLockedFacts
  <1>2. /\ now' = now /\ carried' = carried
        /\ nextSweep' \in Nat
        /\ granted \in [Scope -> Nat] /\ carried \in [Scope -> Nat] /\ now \in Nat
        /\ BoundsOK(granted, carried)
    BY UnitAssumption
       DEF IInv, allowRequest, nextSweepAfter, AncestorBoundsDescendants, BoundsOK
  <1>3. granted' = [a \in Scope |-> IF ok /\ a \in Chain[s] THEN granted[a] + 1 ELSE granted[a]]
    BY Zenon DEF allowRequest
  <1>4. window' = IF ok /\ window.scope \in Chain[s]
                  THEN [window EXCEPT !.count = window.count + 1] ELSE window
    BY Zenon DEF allowRequest
  <1>5. granted' \in [Scope -> Nat]
    <2> HIDE DEF ok
    <2> QED  BY <1>2, <1>3
  <1>6. Chain[s] \subseteq Scope /\ s \in Chain[s]
    BY Zenon, ScopeAssumption
  <1>7. \A a \in DOMAIN known :
          /\ a \in Scope /\ StateOK(a, known[a]) /\ known[a].requests = granted[a]
          /\ known[a].bytes = carried[a]
    BY <1>1, Zenon DEF Counted
  <1>8. \A a \in Scope : a \notin DOMAIN known => Expired(a) \/ (granted[a] = 0 /\ carried[a] = 0)
    BY Zenon, <1>1 DEF Counted
  <1>9. ASSUME NEW a \in DOMAIN known
        PROVE  /\ StateOK(a, refill(a, known[a]))
               /\ refill(a, known[a]).requests = granted[a] /\ refill(a, known[a]).bytes = carried[a]
               /\ refill(a, known[a]).credit >= known[a].credit
               /\ Potential(a, refill(a, known[a])) = Potential(a, known[a])
               /\ Rate(a) # 0 => refill(a, known[a]).last = now
    BY <1>2, <1>7, RefillFacts
  <1>10. \A a \in DOMAIN known : known[a].credit \in Nat
    BY Zenon, <1>7 DEF StateOK, State
  <1>11. window \in [scope: Scope, start: Nat, count: Nat] /\ window.start <= now
         /\ window.count <= granted[window.scope]
    BY Zenon, <1>1 DEF WindowOK
  <1>12. CASE ok
    <2>1. Chain[s] \subseteq DOMAIN known /\ \A a \in Chain[s] : AdmitsRequest(a, refill(a, known[a]))
      BY Zenon, <1>1, <1>12
    <2>2. states' = [a \in DOMAIN known |->
                        IF a \in Chain[s] THEN TakeRequest(a, refill(a, known[a])) ELSE known[a]]
      BY Zenon, <1>12 DEF allowRequest
    <2>3. \A a \in Scope : granted'[a] = IF a \in Chain[s] THEN granted[a] + 1 ELSE granted[a]
      BY Zenon, <1>3, <1>12
    <2> HIDE DEF known, ok
    <2>4. ASSUME NEW a \in Chain[s]
          PROVE  /\ StateOK(a, states'[a]) /\ states'[a].requests = granted'[a]
                 /\ states'[a].bytes = carried'[a]
                 /\ Rate(a) # 0 => Potential(a, states'[a]) + Scale = Potential(a, known[a])
      <3>1. a \in DOMAIN known /\ a \in Scope /\ AdmitsRequest(a, refill(a, known[a]))
        BY Zenon, <2>1, <1>7
      <3>2. states'[a] = TakeRequest(a, refill(a, known[a]))
        BY Zenon, <3>1, <2>2
      <3>3. granted'[a] = granted[a] + 1
        BY Zenon, <3>1, <2>3
      <3> DEFINE st == refill(a, known[a])
      <3>4. StateOK(a, st) /\ AdmitsRequest(a, st) /\ (Rate(a) # 0 => st.last = now)
        BY Zenon, <3>1, <1>9
      <3>5. /\ StateOK(a, TakeRequest(a, st)) /\ TakeRequest(a, st).requests = st.requests + 1
            /\ TakeRequest(a, st).bytes = st.bytes
            /\ Rate(a) # 0 => Potential(a, TakeRequest(a, st)) + Scale = Potential(a, st)
        <4> HIDE DEF st
        <4> QED  BY Zenon, <3>1, <3>4, <1>2, TakeFacts
      <3> QED  BY Zenon, <3>1, <3>2, <3>3, <3>5, <1>2, <1>9
    <2>5. ASSUME NEW a \in DOMAIN known, a \notin Chain[s]
          PROVE  states'[a] = known[a] /\ granted'[a] = granted[a]
      BY Zenon, <2>2, <2>3, <2>5, <1>7
    <2>6. Counted(states', granted', carried')
      <3>1. DOMAIN states' = DOMAIN known
        BY Zenon, <2>2
      <3>2. \A a \in DOMAIN known :
              /\ StateOK(a, states'[a]) /\ states'[a].requests = granted'[a]
              /\ states'[a].bytes = carried'[a]
        BY Zenon, <2>4, <2>5, <1>2, <1>7
      <3>3. \A a \in Scope : a \notin DOMAIN known =>
              Expired(a) \/ (granted'[a] = 0 /\ carried'[a] = 0)
        BY Zenon, <2>1, <2>3, <1>2, <1>8
      <3> QED  BY Zenon, <3>1, <3>2, <3>3, <1>7 DEF Counted
    <2>7. WindowOK(states', granted', window')
      <3> DEFINE w == window.scope
      <3>1. w \in Scope /\ Rate(w) \in Nat /\ Capacity(w) \in Nat /\ Scale \in Nat
            /\ window.count \in Nat /\ window.start \in Nat
        BY Zenon, <1>11, CapacityNat, UnitAssumption
      <3>2. CASE w \in Chain[s]
        <4>1. window' = [scope |-> w, start |-> window.start, count |-> window.count + 1]
          BY Zenon, <3>2, <1>4, <1>11, <1>12
        <4>2. granted'[w] = granted[w] + 1 /\ granted[w] \in Nat /\ w \in DOMAIN known
              /\ w \in DOMAIN states'
          BY Zenon, <3>1, <3>2, <1>2, <2>1, <2>2, <2>3
        <4>3. ASSUME Rate(w) # 0
              PROVE  (window.count + 1) * Scale + Potential(w, states'[w])
                       <= Capacity(w) + (now - window.start) * Rate(w)
          <5>1. Potential(w, states'[w]) + Scale = Potential(w, known[w])
            BY Zenon, <4>3, <3>2, <2>4
          <5>2. window.count * Scale + Potential(w, known[w])
                  <= Capacity(w) + (now - window.start) * Rate(w)
            BY Zenon, <4>2, <4>3, <1>1 DEF WindowOK
          <5>3. (window.count + 1) * Scale = window.count * Scale + Scale
            BY <3>1
          <5>4. Potential(w, states'[w]) \in Int
            <6>1. StateOK(w, states'[w])
              BY Zenon, <3>2, <2>4
            <6>2. states'[w].credit \in Nat /\ states'[w].last \in Nat
              BY Zenon, <6>1 DEF StateOK, State
            <6> QED  BY <6>2, <3>1, <1>2 DEF Potential
          <5>5. window.count * Scale \in Int /\ (now - window.start) * Rate(w) \in Int
            BY <3>1, <1>2
          <5> QED  BY <5>1, <5>2, <5>3, <5>4, <5>5, <3>1
        <4> QED  BY <4>1, <4>2, <4>3, <3>1, <1>2, <1>11 DEF WindowOK
      <3>3. CASE w \notin Chain[s]
        <4>1. window' = window /\ granted'[w] = granted[w] /\ DOMAIN states' = DOMAIN known
          BY Zenon, <3>1, <3>3, <1>4, <2>2, <2>3
        <4>2. w \in DOMAIN known => states'[w] = known[w]
          BY Zenon, <3>3, <2>5
        <4> QED  BY Zenon, <4>1, <4>2, <1>1 DEF WindowOK
      <3> QED  BY Zenon, <3>2, <3>3
    <2>8. BoundsOK(granted', carried')
      <3> SUFFICES ASSUME NEW a \in Scope, ScopeLimits[a].requestBudget # 0
                   PROVE  granted'[a] <= ScopeLimits[a].requestBudget
        BY Zenon, <1>2 DEF BoundsOK
      <3>1. CASE a \in Chain[s]
        <4>1. AdmitsRequest(a, refill(a, known[a])) /\ refill(a, known[a]).requests = granted[a]
          BY Zenon, <3>1, <2>1, <1>9
        <4>2. granted[a] < ScopeLimits[a].requestBudget
          BY Zenon, <4>1 DEF AdmitsRequest
        <4>3. granted[a] \in Nat /\ ScopeLimits[a].requestBudget \in Nat
          BY Zenon, <1>2, CapacityNat
        <4> QED  BY <4>2, <4>3, <3>1, <2>3
      <3>2. CASE a \notin Chain[s]
        BY Zenon, <3>2, <2>3, <1>2 DEF BoundsOK
      <3> QED  BY Zenon, <3>1, <3>2
    <2>9. CreditStep
      <3> SUFFICES ASSUME NEW a \in DOMAIN states, a \in DOMAIN states',
                          states'[a].credit < states[a].credit
                   PROVE  granted'[a] = granted[a] + 1
        BY Zenon DEF CreditStep
      <3>1. a \in DOMAIN known /\ known[a] = states[a]
        BY Zenon, <2>2, <1>1
      <3>2. a \in Chain[s]
        BY <3>1, <2>5, <1>10
      <3> QED  BY Zenon, <3>2, <1>6, <2>3
    <2> QED  BY Zenon, <1>2, <1>5, <2>6, <2>7, <2>8, <2>9, CallInv
  <1>13. CASE ~ok
    <2>1. granted' = granted /\ window' = window
      <3>1. granted' = [a \in Scope |-> granted[a]]
        BY Zenon, <1>3, <1>13
      <3> QED  BY Zenon, <3>1, <1>2, <1>4, <1>13
    <2>2. states' = Refused(s)
      BY Zenon, <1>13 DEF allowRequest
    <2>3. /\ DOMAIN states' = DOMAIN known
          /\ \A a \in DOMAIN known : states'[a] = known[a] \/ states'[a] = refill(a, known[a])
      BY Zenon, <2>2 DEF Refused, Checked
    <2> HIDE DEF known, ok
    <2>4. \A a \in DOMAIN known :
            /\ StateOK(a, states'[a]) /\ states'[a].requests = granted[a]
            /\ states'[a].bytes = carried[a] /\ states'[a].credit >= known[a].credit
            /\ Potential(a, states'[a]) = Potential(a, known[a])
      BY <2>3, <1>7, <1>9, <1>10
    <2>5. Counted(states', granted', carried')
      BY Zenon, <2>1, <2>3, <2>4, <1>2, <1>7, <1>8 DEF Counted
    <2>6. WindowOK(states', granted', window')
      BY Zenon, <2>1, <2>3, <2>4, <1>1 DEF WindowOK
    <2>7. CreditStep
      <3> SUFFICES ASSUME NEW a \in DOMAIN states, a \in DOMAIN states',
                          states'[a].credit < states[a].credit
                   PROVE  FALSE
        BY Zenon DEF CreditStep
      <3>1. a \in DOMAIN known /\ known[a] = states[a]
        BY Zenon, <2>3, <1>1
      <3>2. states'[a].credit \in Nat /\ states[a].credit \in Nat
        BY Zenon, <3>1, <2>4, <1>10 DEF StateOK, State
      <3> QED  BY <3>1, <3>2, <2>4
    <2> QED  BY Zenon, <1>2, <1>5, <2>1, <2>5, <2>6, <2>7, CallInv
  <1> QED  BY Zenon, <1>12, <1>13

\* allowBytes preserves the invariant and takes no credit.
LEMMA AllowBytesInv ==
    ASSUME IInv, NEW s \in Scope, NEW n \in Size, allowBytes(s, n)
    PROVE  IInv' /\ CreditStep
  <1> DEFINE known == statesLocked(s)
             ok == ChainLive(s) /\ \A a \in Chain[s] : AdmitsBytes(a, known[a], n)
             add(a) == ok /\ a \in Chain[s]
  <1>1. /\ Counted(known, granted, carried) /\ WindowOK(known, granted, window)
        /\ ChainLive(s) => Chain[s] \subseteq DOMAIN known
        /\ \A a \in DOMAIN known \cap DOMAIN states : known[a] = states[a]
    BY Zenon, StatesLockedFacts
  <1>2. /\ now' = now /\ granted' = granted /\ window' = window
        /\ nextSweep' \in Nat
        /\ granted \in [Scope -> Nat] /\ carried \in [Scope -> Nat] /\ now \in Nat
        /\ BoundsOK(granted, carried) /\ n \in Nat
    BY UnitAssumption
       DEF IInv, allowBytes, nextSweepAfter, AncestorBoundsDescendants, BoundsOK
  <1>3. carried' = [a \in Scope |-> IF ok /\ a \in Chain[s] THEN carried[a] + n ELSE carried[a]]
    BY Zenon DEF allowBytes
  <1>4. /\ DOMAIN states' = DOMAIN known
        /\ \A a \in DOMAIN known :
             states'[a] = IF add(a) THEN [known[a] EXCEPT !.bytes = known[a].bytes + n] ELSE known[a]
    BY Zenon DEF allowBytes
  <1>5. \A a \in Scope : carried'[a] = IF add(a) THEN carried[a] + n ELSE carried[a]
    BY Zenon, <1>3
  <1>6. \A a \in Scope : add(a) => a \in DOMAIN known /\ AdmitsBytes(a, known[a], n)
    BY Zenon, <1>1
  <1>7. \A a \in DOMAIN known :
          /\ a \in Scope /\ StateOK(a, known[a]) /\ known[a].requests = granted[a]
          /\ known[a].bytes = carried[a]
    BY <1>1, Zenon DEF Counted
  <1>8. \A a \in Scope : a \notin DOMAIN known => Expired(a) \/ (granted[a] = 0 /\ carried[a] = 0)
    BY Zenon, <1>1 DEF Counted
  <1>9. carried' \in [Scope -> Nat]
    <2> HIDE DEF ok
    <2> QED  BY <1>2, <1>3
  <1> HIDE DEF known, add
  <1>10. ASSUME NEW a \in DOMAIN known
         PROVE  /\ StateOK(a, states'[a]) /\ states'[a].requests = granted'[a]
                /\ states'[a].bytes = carried'[a] /\ states'[a].credit = known[a].credit
                /\ states'[a].last = known[a].last
    <2>1. CASE add(a)
      <3>1. known[a] \in State /\ known[a].last <= now /\ known[a].credit <= Capacity(a)
            /\ known[a].requests <= MaxWord /\ known[a].bytes = carried[a] /\ a \in Scope
        BY Zenon, <1>7 DEF StateOK
      <3>2. states'[a] = [credit |-> known[a].credit, last |-> known[a].last,
                          requests |-> known[a].requests, bytes |-> known[a].bytes + n]
        BY Zenon, <2>1, <3>1, <1>4 DEF State
      <3>3. known[a].bytes + n <= MaxWord /\ known[a].bytes \in Nat /\ known[a].credit \in Nat
            /\ known[a].last \in Nat /\ known[a].requests \in Nat
        BY <2>1, <3>1, <1>2, <1>6, UnitAssumption DEF AdmitsBytes, State
      <3> QED  BY <2>1, <3>1, <3>2, <3>3, <1>2, <1>5, <1>7 DEF StateOK, State
    <2>2. CASE ~add(a)
      BY Zenon, <2>2, <1>2, <1>4, <1>5, <1>7
    <2> QED  BY Zenon, <2>1, <2>2
  <1>11. Counted(states', granted', carried')
    BY <1>2, <1>4, <1>5, <1>6, <1>7, <1>8, <1>10 DEF Counted
  <1>12. WindowOK(states', granted', window')
    <2>1. \A a \in DOMAIN known : Potential(a, states'[a]) = Potential(a, known[a])
      BY Zenon, <1>10 DEF Potential
    <2> QED  BY Zenon, <2>1, <1>1, <1>2, <1>4 DEF WindowOK
  <1>13. BoundsOK(granted', carried')
    <2> SUFFICES ASSUME NEW a \in Scope, ScopeLimits[a].byteBudget # 0
                 PROVE  carried'[a] <= ScopeLimits[a].byteBudget
      BY Zenon, <1>2 DEF BoundsOK
    <2>1. CASE add(a)
      <3>1. n <= ScopeLimits[a].byteBudget - carried[a]
        BY Zenon, <2>1, <1>6, <1>7 DEF AdmitsBytes
      <3>2. carried[a] \in Nat /\ ScopeLimits[a].byteBudget \in Nat
        BY Zenon, <1>2, CapacityNat
      <3> QED  BY <2>1, <3>1, <3>2, <1>2, <1>5
    <2>2. CASE ~add(a)
      BY Zenon, <2>2, <1>2, <1>5 DEF BoundsOK
    <2> QED  BY Zenon, <2>1, <2>2
  <1>14. CreditStep
    <2>1. \A a \in DOMAIN states \cap DOMAIN states' : states'[a].credit = states[a].credit
      BY Zenon, <1>1, <1>4, <1>10
    <2>2. \A a \in DOMAIN states : states[a].credit \in Nat
      BY Zenon DEF IInv, Counted, StateOK, State
    <2> QED  BY <2>1, <2>2 DEF CreditStep
  <1> QED  BY Zenon, <1>2, <1>9, <1>11, <1>12, <1>13, <1>14, CallInv

\* An observer that starts anew counts nothing yet.
LEMMA WatchInv ==
    ASSUME IInv, NEW s \in Watched, Watch(s)
    PROVE  IInv' /\ CreditStep
  <1>1. /\ now' = now /\ states' = states /\ nextSweep' = nextSweep
        /\ granted' = granted /\ carried' = carried
        /\ window' = [scope |-> s, start |-> now, count |-> 0] /\ s \in Scope
    BY Zenon, UnitAssumption DEF Watch
  <1>2. now \in Nat /\ granted[s] \in Nat /\ Rate(s) \in Nat /\ Capacity(s) \in Nat /\ Scale \in Nat
    BY <1>1, CapacityNat, UnitAssumption DEF IInv
  <1>3. (now - now) * Rate(s) = 0 /\ 0 * Scale = 0
    BY <1>2
  <1>4. ASSUME s \in DOMAIN states  PROVE Potential(s, states[s]) \in Int
                                          /\ Potential(s, states[s]) <= Capacity(s)
    <2>1. states[s].credit \in Nat /\ states[s].last \in Nat
      BY Zenon, <1>4 DEF IInv, Counted, StateOK, State
    <2> QED  BY <2>1, <1>2 DEF Potential
  <1>5. WindowOK(states', granted', window')
    <2>1. /\ window' \in [scope: Scope, start: Nat, count: Nat]
          /\ window'.scope = s /\ window'.start = now /\ window'.count = 0
      BY Zenon, <1>1, <1>2
    <2>2. window'.count * Scale = 0 /\ (now - window'.start) * Rate(window'.scope) = 0
      BY Zenon, <1>3, <2>1
    <2>3. s \in DOMAIN states =>
            window'.count * Scale + Potential(s, states[s])
              <= Capacity(s) + (now - window'.start) * Rate(s)
      BY <1>2, <1>4, <2>1, <2>2
    <2>4. window'.count * Scale <= Capacity(s) + (now - window'.start) * Rate(s)
      BY <1>2, <2>1, <2>2
    <2>5. window'.start <= now /\ window'.count <= granted'[window'.scope]
      BY <1>1, <1>2, <2>1
    <2> QED  BY Zenon, <1>1, <2>1, <2>3, <2>4, <2>5 DEF WindowOK
  <1>6. Counted(states', granted', carried') /\ BoundsOK(granted', carried')
    BY Zenon, <1>1 DEF IInv, BoundsOK, AncestorBoundsDescendants
  <1>7. CreditStep
    <2>1. \A a \in DOMAIN states : states[a].credit \in Nat
      BY Zenon DEF IInv, Counted, StateOK, State
    <2> QED  BY <1>1, <2>1 DEF CreditStep
  <1>8. nextSweep' \in Nat /\ granted' \in [Scope -> Nat] /\ carried' \in [Scope -> Nat]
    BY Zenon, <1>1 DEF IInv
  <1> QED  BY Zenon, <1>1, <1>5, <1>6, <1>7, <1>8, CallInv

\* The passing of time refills at most at the rate.
LEMMA TickInv ==
    ASSUME IInv, Tick
    PROVE  IInv' /\ CreditStep
  <1>1. /\ now' = now + 1 /\ now' \in 0..MaxTime /\ now \in Nat
        /\ states' = states /\ nextSweep' = nextSweep
        /\ granted' = granted /\ carried' = carried /\ window' = window
    BY UnitAssumption DEF Tick, IInv
  <1>2. Counted(states, granted, carried)'
    <2>1. \A a \in Scope : Expired(a) => Expired(a)'
      BY <1>1, CapacityNat DEF Expired
    <2>2. \A a \in DOMAIN states : StateOK(a, states[a])'
      <3> SUFFICES ASSUME NEW a \in DOMAIN states PROVE StateOK(a, states[a])'
        BY Zenon
      <3>1. StateOK(a, states[a]) /\ states[a].last \in Nat
        BY Zenon DEF IInv, Counted, StateOK, State
      <3> QED  BY <1>1, <3>1 DEF StateOK, Capacity, effectiveBurst, Rate
    <2> QED  BY Zenon, <1>1, <2>1, <2>2 DEF IInv, Counted
  <1>3. WindowOK(states, granted, window)'
    <2> DEFINE w == window.scope
    <2>1. WindowOK(states, granted, window)
      BY Zenon DEF IInv
    <2>2. w \in Scope /\ window.count \in Nat /\ window.start \in Nat /\ window.start <= now
      BY Zenon, <2>1 DEF WindowOK
    <2>3. Rate(w) \in Nat /\ Capacity(w) \in Nat /\ Scale \in Nat
      BY Zenon, <2>2, CapacityNat, UnitAssumption
    <2>4. (now + 1 - window.start) * Rate(w) = (now - window.start) * Rate(w) + Rate(w)
          /\ (now - window.start) * Rate(w) \in Int /\ window.count * Scale \in Int
      BY <1>1, <2>2, <2>3
    <2>5. ASSUME w \in DOMAIN states
          PROVE  /\ Potential(w, states[w])' \in Int /\ Potential(w, states[w]) \in Int
                 /\ Potential(w, states[w])' <= Potential(w, states[w]) + Rate(w)
      <3>1. states[w].credit \in Nat /\ states[w].last \in Nat
        BY Zenon, <2>5 DEF IInv, Counted, StateOK, State
      <3>2. (now + 1 - states[w].last) * Rate(w) = (now - states[w].last) * Rate(w) + Rate(w)
            /\ (now - states[w].last) * Rate(w) \in Int
        BY <1>1, <2>3, <3>1
      <3> DEFINE g == (now - states[w].last) * Rate(w)
      <3>3. /\ Potential(w, states[w]) = IF states[w].credit + g > Capacity(w)
                                         THEN Capacity(w) ELSE states[w].credit + g
            /\ Potential(w, states[w])' = IF states[w].credit + (g + Rate(w)) > Capacity(w)
                                          THEN Capacity(w) ELSE states[w].credit + (g + Rate(w))
        <4>1. w' = w /\ states' = states /\ now' = now + 1
          BY Zenon, <1>1
        <4>2. now' - states[w].last = now + 1 - states[w].last
          BY <4>1, <1>1, <3>1
        <4>3. (now' - states[w].last) * Rate(w) = g + Rate(w)
          BY Zenon, <4>2, <3>2
        <4> HIDE DEF w
        <4> QED  BY Zenon, <4>1, <4>3 DEF Potential
      <3>4. g \in Int
        BY Zenon, <3>2
      <3> HIDE DEF g, w
      <3> QED  BY <3>1, <3>3, <3>4, <2>3
    <2>6. ASSUME Rate(w) # 0, w \in DOMAIN states
          PROVE  window.count * Scale + Potential(w, states[w])'
                   <= Capacity(w) + (now + 1 - window.start) * Rate(w)
      <3>1. window.count * Scale + Potential(w, states[w])
              <= Capacity(w) + (now - window.start) * Rate(w)
        BY Zenon, <2>1, <2>6 DEF WindowOK
      <3> DEFINE x == window.count * Scale
                 y == (now - window.start) * Rate(w)
                 p == Potential(w, states[w])
                 q == Potential(w, states[w])'
      <3>2. x \in Int /\ y \in Int /\ p \in Int /\ q \in Int /\ q <= p + Rate(w)
            /\ x + p <= Capacity(w) + y
        BY Zenon, <2>4, <2>5, <2>6, <3>1
      <3> HIDE DEF x, y, p, q
      <3>3. x + q <= Capacity(w) + (y + Rate(w))
        BY <3>2, <2>3
      <3> QED  BY Zenon, <3>3, <2>4 DEF x, y, q
    <2>7. ASSUME Rate(w) # 0, w \notin DOMAIN states
          PROVE  window.count * Scale <= Capacity(w) + (now + 1 - window.start) * Rate(w)
      <3>1. window.count * Scale <= Capacity(w) + (now - window.start) * Rate(w)
        BY Zenon, <2>1, <2>7 DEF WindowOK
      <3> QED  BY <3>1, <2>3, <2>4
    <2>8. Rate(w)' = Rate(w) /\ Capacity(w)' = Capacity(w) /\ w' = w /\ (now + 1)  = now'
      BY Zenon, <1>1 DEF Rate, Capacity, effectiveBurst
    <2> QED  BY <1>1, <2>1, <2>2, <2>6, <2>7, <2>8 DEF WindowOK, Rate, Capacity, effectiveBurst
  <1>4. AncestorBoundsDescendants'
    BY Zenon, <1>1 DEF IInv, AncestorBoundsDescendants
  <1>5. CreditStep
    <2>1. \A a \in DOMAIN states : states[a].credit \in Nat
      BY Zenon DEF IInv, Counted, StateOK, State
    <2> QED  BY <1>1, <2>1 DEF CreditStep
  <1>6. (now \in 0..MaxTime /\ nextSweep \in Nat
         /\ granted \in [Scope -> Nat] /\ carried \in [Scope -> Nat])'
    BY Zenon, <1>1 DEF IInv
  <1> QED  BY Zenon, <1>2, <1>3, <1>4, <1>5, <1>6 DEF IInv

\* The invariant holds initially.
LEMMA InitInv == ASSUME Init PROVE IInv
  <1>1. /\ now = 0 /\ nextSweep = 0 /\ DOMAIN states = {}
        /\ granted = [s \in Scope |-> 0] /\ carried = [s \in Scope |-> 0]
        /\ window \in [scope: Scope, start: Nat, count: Nat] /\ window.start = 0 /\ window.count = 0
    BY UnitAssumption DEF Init
  <1>2. window.scope \in Scope
    BY Zenon, <1>1
  <1>3. Rate(window.scope) \in Nat /\ Capacity(window.scope) \in Nat /\ Scale \in Nat
    BY Zenon, <1>2, CapacityNat, UnitAssumption
  <1>4. (now - window.start) * Rate(window.scope) = 0 /\ window.count * Scale = 0
    BY <1>1, <1>3
  <1>5. WindowOK(states, granted, window)
    BY <1>1, <1>2, <1>3, <1>4 DEF WindowOK
  <1>6. Counted(states, granted, carried)
    BY Zenon, <1>1 DEF Counted
  <1>7. AncestorBoundsDescendants
    <2>1. \A s \in Scope : granted[s] = 0 /\ carried[s] = 0
      BY <1>1, Zenon
    <2>2. ASSUME NEW s \in Scope
          PROVE  ScopeLimits[s].requestBudget >= 0 /\ ScopeLimits[s].byteBudget >= 0
      <3>1. ScopeLimits[s].requestBudget \in Nat /\ ScopeLimits[s].byteBudget \in Nat
        BY Zenon, CapacityNat
      <3> QED  BY <3>1
    <2> QED  BY <2>1, <2>2, Zenon DEF AncestorBoundsDescendants
  <1> QED  BY <1>1, <1>5, <1>6, <1>7, UnitAssumption DEF IInv

\* Every step preserves the invariant and takes credit only for admissions.
LEMMA NextInv == ASSUME IInv, [Next]_vars PROVE IInv' /\ (CreditStep \/ UNCHANGED vars)
  <1>1. ASSUME NEW s \in Scope, allowRequest(s)  PROVE IInv' /\ CreditStep
    BY Zenon, <1>1, AllowRequestInv
  <1>2. ASSUME NEW s \in Scope, NEW n \in Size, allowBytes(s, n)  PROVE IInv' /\ CreditStep
    BY Zenon, <1>2, AllowBytesInv
  <1>3. ASSUME NEW s \in Watched, Watch(s)  PROVE IInv' /\ CreditStep
    BY Zenon, <1>3, WatchInv
  <1>4. CASE Tick
    BY Zenon, <1>4, TickInv
  <1>5. CASE UNCHANGED vars
    BY Zenon, <1>5 DEF vars, IInv, Counted, StateOK, Expired, WindowOK, Potential,
                AncestorBoundsDescendants
  <1> QED  BY Zenon, <1>1, <1>2, <1>3, <1>4, <1>5 DEF Next

-----------------------------------------------------------------------------
(* Theorems *)

\* The inductive invariant holds throughout every behaviour.
THEOREM Invariance == Spec => []IInv
  <1>1. Init => IInv
    BY Zenon, InitInv
  <1>2. IInv /\ [Next]_vars => IInv'
    BY Zenon, NextInv
  <1> QED  BY <1>1, <1>2, PTL DEF Spec

\* Buckets stay within the burst and counters within a uint64 (limit.go refill,
\* allowBytes).
THEOREM TypeCorrect == Spec => []TypeOK
  <1>1. IInv => TypeOK
    <2> SUFFICES ASSUME IInv PROVE TypeOK
      BY Zenon
    <2>1. ASSUME NEW a \in DOMAIN states
          PROVE  /\ states[a].credit \in 0..Capacity(a) /\ states[a].last \in 0..now
                 /\ states[a].requests \in 0..MaxWord /\ states[a].bytes \in 0..MaxWord
      <3>1. a \in Scope /\ StateOK(a, states[a])
        BY Zenon DEF IInv, Counted
      <3>2. Capacity(a) \in Nat /\ MaxWord \in Nat /\ now \in Nat
        BY <3>1, CapacityNat, UnitAssumption DEF IInv
      <3> QED  BY <3>1, <3>2 DEF StateOK, State
    <2>2. window.scope \in Scope /\ window.start \in 0..now /\ window.count \in Nat
      BY DEF IInv, WindowOK
    <2> QED  BY Zenon, <2>1, <2>2 DEF IInv, TypeOK, Counted
  <1> QED  BY <1>1, Invariance, PTL

\* A state has counted exactly what was admitted at and below its scope
\* (limit.go allowRequest, allowBytes, sweepLocked).
THEOREM UseIsExact == Spec => []ExactUse
  <1>1. IInv => ExactUse
    BY Zenon DEF IInv, ExactUse, Counted
  <1> QED  BY <1>1, Invariance, PTL

\* Budgets bound whole subtrees, for any forest of delegations (limit.go
\* limitScope).
THEOREM AncestorsBound == Spec => []AncestorBoundsDescendants
  <1>1. IInv => AncestorBoundsDescendants
    BY Zenon DEF IInv
  <1> QED  BY <1>1, Invariance, PTL

\* The token bucket bounds the admissions of every interval (limit.go refill).
THEOREM RateBound == Spec => []RateHolds
  <1>1. IInv => RateHolds
    <2> SUFFICES ASSUME IInv, Rate(window.scope) # 0
                 PROVE  window.count * Scale
                          <= Capacity(window.scope) + (now - window.start) * Rate(window.scope)
      BY Zenon DEF RateHolds
    <2> DEFINE w == window.scope
    <2>1. w \in Scope /\ window.count \in Nat /\ window.start \in Nat /\ now \in Nat
      BY DEF IInv, WindowOK
    <2>2. Rate(w) \in Nat /\ Capacity(w) \in Nat /\ Scale \in Nat
      BY Zenon, <2>1, CapacityNat, UnitAssumption
    <2>3. window.count * Scale \in Int /\ (now - window.start) * Rate(w) \in Int
      BY <2>1, <2>2
    <2>4. CASE w \in DOMAIN states
      <3>1. StateOK(w, states[w])
        BY Zenon, <2>4 DEF IInv, Counted
      <3>2. states[w].credit \in Nat /\ states[w].last \in Nat /\ now - states[w].last \in Nat
        BY <2>1, <3>1 DEF StateOK, State
      <3>3. (now - states[w].last) * Rate(w) \in Nat
        BY Zenon, <3>2, <2>2, ProductNat
      <3>4. Potential(w, states[w]) \in Nat
        BY <3>2, <3>3, <2>2 DEF Potential
      <3>5. window.count * Scale + Potential(w, states[w])
              <= Capacity(w) + (now - window.start) * Rate(w)
        BY Zenon, <2>4 DEF IInv, WindowOK
      <3> QED  BY <3>4, <3>5, <2>2, <2>3
    <2>5. CASE w \notin DOMAIN states
      BY Zenon, <2>5 DEF IInv, WindowOK
    <2> QED  BY Zenon, <2>4, <2>5
  <1> QED  BY <1>1, Invariance, PTL

\* No call takes credit from a bucket without admitting a request charged to it
\* (limit.go allowRequest).
THEOREM RefusalsAreFree == Spec => OnlyAdmissionsTakeCredit
  <1>1. IInv /\ [Next]_vars => [CreditStep]_vars
    BY Zenon, NextInv
  <1> QED  BY <1>1, Invariance, PTL DEF Spec, OnlyAdmissionsTakeCredit, CreditStep
=============================================================================
