----------------------------- MODULE TokenLimits -----------------------------
(***************************************************************************)
(* The limits of a grant and the narrowing order that delegation respects  *)
(* (internal/tokens/store.go).  Zero means unlimited in every field, and a *)
(* burst of zero under a rate means one.                                   *)
(***************************************************************************)
EXTENDS Integers

CONSTANTS
    GrantId,   \* the identity of a concrete grant: service, credential, revisions
    Amount     \* the values the limit fields take

ASSUME AmountAssumption == Amount \subseteq Nat

Limits == [requestsPerSecond: Amount, burst: Amount, requestBudget: Amount,
           byteBudget: Amount, maxRequestBytes: Amount]

\* A token's grants have distinct identities, so they form a map.
IsGrantSet(gs) == DOMAIN gs \subseteq GrantId /\ gs \in [DOMAIN gs -> Limits]

ValidLimits(l) == l.requestsPerSecond = 0 => l.burst = 0

\* Variant: a child that leaves a limited field at zero is taken for narrower.
limitNoBroaderIgnoringZero(child, parent) == parent = 0 \/ child <= parent

limitNoBroader(child, parent) == parent = 0 \/ (child # 0 /\ child <= parent)

EffectiveBurst(l) == IF l.burst = 0 THEN 1 ELSE l.burst

burstNoBroader(child, parent) ==
    parent.requestsPerSecond = 0 \/ EffectiveBurst(child) <= EffectiveBurst(parent)

limitsNoBroader(child, parent) ==
    /\ limitNoBroader(child.requestsPerSecond, parent.requestsPerSecond)
    /\ burstNoBroader(child, parent)
    /\ limitNoBroader(child.requestBudget, parent.requestBudget)
    /\ limitNoBroader(child.byteBudget, parent.byteBudget)
    /\ limitNoBroader(child.maxRequestBytes, parent.maxRequestBytes)

grantsAreSubset(child, parent) ==
    \A g \in DOMAIN child : g \in DOMAIN parent /\ limitsNoBroader(child[g], parent[g])

\* What a limit admits, stated apart from the order above: a request of size n,
\* the n-th request, or n requests at once under a rate.
Admits(l, field, n) == l[field] = 0 \/ n <= l[field]

AdmitsBurst(l, n) == l.requestsPerSecond = 0 \/ n <= EffectiveBurst(l)

\* Each limit is exceeded for the first time by its value plus one.
Demand == {x + 1 : x \in Amount}

AdmitsNoMore(child, parent) ==
    \A n \in Demand :
        /\ AdmitsBurst(child, n) => AdmitsBurst(parent, n)
        /\ \A field \in {"requestsPerSecond", "requestBudget", "byteBudget", "maxRequestBytes"} :
            Admits(child, field, n) => Admits(parent, field, n)
=============================================================================
