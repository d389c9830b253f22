---------------------------- MODULE RequestLimits ----------------------------
(***************************************************************************)
(* The gateway's in-memory rate and budget accounting                      *)
(* (internal/gateway/limit.go).  A scope is one token of a delegation      *)
(* chain together with a grant; every request is charged to its scope and  *)
(* to the scopes of all ancestors, each call under limitManager.mu.        *)
(*                                                                         *)
(* Time is counted in units of 1/Scale seconds and bucket contents in      *)
(* units of 1/Scale requests, so a refill is exact where the code rounds a *)
(* float64.                                                                *)
(***************************************************************************)
EXTENDS Integers

CONSTANTS
    Scope,           \* limitScope.key
    Chain,           \* the scopes claimLimitScopes returns for a token's grant
    ScopeLimits,     \* limitScope.limits
    ExpiresAt,       \* limitScope.expiresAt
    Size,            \* request body sizes
    Watched,         \* the scopes whose admissions an observer may count
    Scale,           \* clock units per second
    SweepInterval,   \* one minute
    MaxWord,         \* the largest uint64
    MaxTime          \* bound on the clock

\* Claims are immutable, so limits and expiry are functions of the key, and a
\* chain leads from the root to the token without repeating a key.
ASSUME ScopeAssumption ==
    /\ Chain \in [Scope -> SUBSET Scope]
    /\ \A s \in Scope : s \in Chain[s] /\ \A a \in Chain[s] : Chain[a] \subseteq Chain[s]
    /\ DOMAIN ScopeLimits = Scope
    /\ \A s \in Scope :
        /\ DOMAIN ScopeLimits[s] = {"requestsPerSecond", "burst", "requestBudget", "byteBudget"}
        /\ ScopeLimits[s].requestsPerSecond \in Nat /\ ScopeLimits[s].burst \in Nat
        /\ ScopeLimits[s].requestBudget \in Nat /\ ScopeLimits[s].byteBudget \in Nat
    /\ DOMAIN ExpiresAt = Scope /\ \A s \in Scope : ExpiresAt[s] \in Nat

ASSUME UnitAssumption ==
    /\ Watched \subseteq Scope
    /\ Size \subseteq Nat /\ Scale \in Nat \ {0} /\ SweepInterval \in Nat
    /\ MaxWord \in Nat /\ MaxTime \in Nat
    /\ \A n \in Size : n <= MaxWord

VARIABLES
    now,         \* limitManager.now
    states,      \* limitManager.states
    nextSweep,   \* limitManager.nextSweep
    granted,     \* requests admitted in the subtree of each scope (history)
    carried,     \* bytes admitted in the subtree of each scope (history)
    window       \* admissions charged to one scope since some moment (history)

vars == <<now, states, nextSweep, granted, carried, window>>

-----------------------------------------------------------------------------

Rate(s) == ScopeLimits[s].requestsPerSecond

effectiveBurst(s) ==
    IF Rate(s) = 0 THEN 0
    ELSE IF ScopeLimits[s].burst = 0 THEN 1 ELSE ScopeLimits[s].burst

Capacity(s) == effectiveBurst(s) * Scale

Expired(s) == now >= ExpiresAt[s]

\* Variant: the first request after a quiet minute drops every state.
sweepEverything ==
    IF now < nextSweep THEN states ELSE [s \in {} |-> states[s]]

sweepLocked ==
    IF now < nextSweep THEN states
    ELSE [s \in {x \in DOMAIN states : ~Expired(x)} |-> states[s]]

nextSweepAfter == IF now < nextSweep THEN nextSweep ELSE now + SweepInterval

\* The scopes before a in its chain, which the loops over scopes visit first.
Before(a) == Chain[a] \ {a}

\* statesLocked creates the missing states of a chain up to the first expired
\* scope and fails there.
Fresh(s) == [credit |-> Capacity(s), last |-> now, requests |-> 0, bytes |-> 0]

statesLocked(s) ==
    LET swept   == sweepLocked
        reached == {a \in Chain[s] : \A b \in Chain[a] : ~Expired(b)}
    IN  [a \in DOMAIN swept \cup reached |-> IF a \in DOMAIN swept THEN swept[a] ELSE Fresh(a)]

ChainLive(s) == \A a \in Chain[s] : ~Expired(a)

\* Variant: a refill that forgets when it happened.
refillAgain(a, st) ==
    LET credit == st.credit + (now - st.last) * Rate(a)
    IN  IF Rate(a) = 0 \/ now <= st.last THEN st
        ELSE [st EXCEPT !.credit = IF credit > Capacity(a) THEN Capacity(a) ELSE credit]

refill(a, st) ==
    LET credit == st.credit + (now - st.last) * Rate(a)
    IN  IF Rate(a) = 0 \/ now <= st.last THEN st
        ELSE [st EXCEPT !.credit = IF credit > Capacity(a) THEN Capacity(a) ELSE credit,
                        !.last = now]

\* Variant: one request too many.
AdmitsRequestOffByOne(a, st) ==
    /\ st.requests # MaxWord
    /\ ScopeLimits[a].requestBudget = 0 \/ st.requests <= ScopeLimits[a].requestBudget
    /\ Rate(a) = 0 \/ st.credit >= Scale

AdmitsRequest(a, st) ==
    /\ st.requests # MaxWord
    /\ ScopeLimits[a].requestBudget = 0 \/ st.requests < ScopeLimits[a].requestBudget
    /\ Rate(a) = 0 \/ st.credit >= Scale

TakeRequest(a, st) ==
    [st EXCEPT !.credit = IF Rate(a) = 0 THEN st.credit ELSE st.credit - Scale,
               !.requests = st.requests + 1]

AdmitsBytes(a, st, n) ==
    /\ n <= MaxWord - st.bytes
    /\ ScopeLimits[a].byteBudget = 0 \/ n <= ScopeLimits[a].byteBudget - st.bytes

-----------------------------------------------------------------------------

Init ==
    /\ now = 0 /\ nextSweep = 0
    /\ states = [s \in {} |-> Fresh(s)]
    /\ granted = [s \in Scope |-> 0] /\ carried = [s \in Scope |-> 0]
    /\ window \in [scope: Watched, start: {0}, count: {0}]

\* Variant: a refused request empties the buckets before it.
CheckedAndDrained(known, s, a) ==
    LET st == refill(a, known[a])
    IN  IF a \in Chain[s] /\ \A b \in Before(a) : AdmitsRequest(b, refill(b, known[b]))
        THEN IF Rate(a) # 0 /\ AdmitsRequest(a, st)
             THEN [st EXCEPT !.credit = st.credit - Scale] ELSE st
        ELSE known[a]

\* The states a call for scope s leaves when it returns in its checking loop:
\* the loop refills a bucket before it looks at it and stops at a refusal.
Checked(known, s, a) ==
    IF a \in Chain[s] /\ \A b \in Before(a) : AdmitsRequest(b, refill(b, known[b]))
    THEN refill(a, known[a])
    ELSE known[a]

\* The outcome of a call that refuses, here or in the checks of statesLocked.
Refused(s) ==
    LET known == statesLocked(s)
    IN  IF ChainLive(s) THEN [a \in DOMAIN known |-> Checked(known, s, a)] ELSE known

allowRequest(s) ==
    LET known == statesLocked(s)
        ok == ChainLive(s) /\ \A a \in Chain[s] : AdmitsRequest(a, refill(a, known[a]))
    IN  /\ nextSweep' = nextSweepAfter
        /\ states' = IF ok THEN [a \in DOMAIN known |->
                                    IF a \in Chain[s] THEN TakeRequest(a, refill(a, known[a]))
                                                      ELSE known[a]]
                     ELSE Refused(s)
        /\ granted' = [a \in Scope |-> IF ok /\ a \in Chain[s] THEN granted[a] + 1 ELSE granted[a]]
        /\ window' = IF ok /\ window.scope \in Chain[s]
                     THEN [window EXCEPT !.count = window.count + 1] ELSE window
        /\ UNCHANGED <<now, carried>>

allowBytes(s, n) ==
    LET known == statesLocked(s)
        ok == ChainLive(s) /\ \A a \in Chain[s] : AdmitsBytes(a, known[a], n)
    IN  /\ nextSweep' = nextSweepAfter
        /\ states' = IF ok THEN [a \in DOMAIN known |->
                                    IF a \in Chain[s]
                                    THEN [known[a] EXCEPT !.bytes = known[a].bytes + n]
                                    ELSE known[a]]
                     ELSE known
        /\ carried' = [a \in Scope |-> IF ok /\ a \in Chain[s] THEN carried[a] + n ELSE carried[a]]
        /\ UNCHANGED <<now, granted, window>>

Tick ==
    /\ now < MaxTime
    /\ now' = now + 1
    /\ UNCHANGED <<states, nextSweep, granted, carried, window>>

\* An observer starts to count the admissions charged to scope s.
Watch(s) ==
    /\ window' = [scope |-> s, start |-> now, count |-> 0]
    /\ UNCHANGED <<now, states, nextSweep, granted, carried>>

Next ==
    \/ \E s \in Scope : allowRequest(s)
    \/ \E s \in Scope, n \in Size : allowBytes(s, n)
    \/ \E s \in Watched : Watch(s)
    \/ Tick

Spec == Init /\ [][Next]_vars

-----------------------------------------------------------------------------
(* Properties *)

\* Buckets never hold more than the burst, nor a negative amount, and counters
\* stay within a uint64 (limit.go limitState, refill).
TypeOK ==
    /\ now \in 0..MaxTime /\ nextSweep \in Nat
    /\ DOMAIN states \subseteq Scope
    /\ \A s \in DOMAIN states :
        /\ states[s].credit \in 0..Capacity(s) /\ states[s].last \in 0..now
        /\ states[s].requests \in 0..MaxWord /\ states[s].bytes \in 0..MaxWord
    /\ granted \in [Scope -> Nat] /\ carried \in [Scope -> Nat]
    /\ window.scope \in Scope /\ window.start \in 0..now /\ window.count \in Nat

\* What a state has counted is exactly what was admitted for its scope and all
\* scopes below it: refusals are not charged to anybody, no admission is
\* charged to part of a chain only, and a sweep forgets nothing that can still
\* matter ("charged atomically against the corresponding concrete grant at each
\* token in its root-to-leaf delegation chain"; limit.go allowRequest,
\* allowBytes, sweepLocked).
ExactUse ==
    \A s \in Scope :
        IF s \in DOMAIN states
        THEN states[s].requests = granted[s] /\ states[s].bytes = carried[s]
        ELSE Expired(s) \/ (granted[s] = 0 /\ carried[s] = 0)

\* An ancestor's budgets bound what all of its descendants together are
\* admitted, over any interleaving of their calls (limit.go limitScope).
AncestorBoundsDescendants ==
    \A s \in Scope :
        /\ ScopeLimits[s].requestBudget # 0 => granted[s] <= ScopeLimits[s].requestBudget
        /\ ScopeLimits[s].byteBudget # 0 => carried[s] <= ScopeLimits[s].byteBudget

\* Over any interval, the admissions charged to a rate-limited scope are at
\* most its burst plus what its rate supplies in that time (limit.go refill).
RateHolds ==
    LET s == window.scope
    IN  Rate(s) # 0 =>
            window.count * Scale <= Capacity(s) + (now - window.start) * Rate(s)

\* "A narrower child cannot throttle a parent or sibling": a call takes credit
\* from a bucket only by admitting a request charged to it (limit.go
\* allowRequest).
OnlyAdmissionsTakeCredit ==
    [][\A s \in DOMAIN states \cap DOMAIN states' :
        states'[s].credit < states[s].credit => granted'[s] = granted[s] + 1]_vars
=============================================================================
