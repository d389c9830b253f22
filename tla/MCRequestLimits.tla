--------------------------- MODULE MCRequestLimits ---------------------------
(* A root with two children, one of which has delegated again. *)
EXTENDS RequestLimits

CONSTANTS root, narrow, wide, leaf

Scopes == {root, narrow, wide, leaf}

ChainOf == [s \in Scopes |->
    CASE s = root -> {root}
      [] s = narrow -> {root, narrow}
      [] s = wide -> {root, wide}
      [] s = leaf -> {root, narrow, leaf}]

Lim(rate, burst, requests, bytes) ==
    [requestsPerSecond |-> rate, burst |-> burst, requestBudget |-> requests, byteBudget |-> bytes]

\* A delegation only narrows: wide leaves its burst to the default of one, narrow
\* adds budgets, leaf narrows them.  The root and wide have no budgets: the root's
\* rate and the width of the counters bound them.
Limited == [s \in Scopes |->
    CASE s = root -> Lim(1, 2, 0, 0)
      [] s = narrow -> Lim(1, 2, 3, 2)
      [] s = wide -> Lim(1, 0, 0, 0)
      [] s = leaf -> Lim(1, 2, 1, 1)]

Expiries == [s \in Scopes |->
    CASE s = root -> 4 [] s = narrow -> 3 [] s = wide -> 4 [] s = leaf -> 2]
=============================================================================
