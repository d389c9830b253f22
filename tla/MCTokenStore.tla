---------------------------- MODULE MCTokenStore ----------------------------
(***************************************************************************)
(* Two instances of TokenStore: one in which every kind of failure and     *)
(* restart happens to a few plain tokens, one in which requests ask for    *)
(* wider and narrower grants and nothing fails.                            *)
(***************************************************************************)
EXTENDS TokenStore, TLC

CONSTANTS g1, g2

Unlimited == [requestsPerSecond |-> 0, burst |-> 0, requestBudget |-> 0,
              byteBudget |-> 0, maxRequestBytes |-> 0]

PlainGrants == {[g \in {g1} |-> Unlimited]}

\* Grants that differ in their scope, in the rate, and in a burst that is
\* spelled out or left to its default of one.
Rate(n, b) == [Unlimited EXCEPT !.requestsPerSecond = n, !.burst = b]

VariedGrants == {[g \in {g1} |-> Unlimited],
                 [g \in {g1} |-> Rate(1, 0)], [g \in {g1} |-> Rate(1, 2)],
                 [g \in {g1, g2} |-> Unlimited]}

Symmetry == Permutations(Hash) \cup Permutations(Process)
HashSymmetry == Permutations(Hash)
=============================================================================
