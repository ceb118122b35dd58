---------------------------- MODULE MCLogStorage ----------------------------
EXTENDS LogViews, TLC

CONSTANTS c1, c2, c3, f1, f2, u1, u2, k1, k2

Canisters == {c1, c2, c3}

\* Logs with one key or with two, a trade's, so that every place has both keys and gaps of both.
Keys == [id \in LogId |-> IF id % 3 = 0 THEN <<k1, k2>> ELSE IF id % 3 = 1 THEN <<k2>> ELSE <<k1>>]

Symmetry == Permutations(Canisters) \cup Permutations({f1, f2})
=============================================================================
