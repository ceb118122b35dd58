----------------------------- MODULE MCPayouts -----------------------------
EXTENDS Payouts, TLC

CONSTANTS r1, r2, p1, p2

Runs == {r1, r2}
Procs == {p1, p2}

(* Debts worth 10, less a cts fee of 1 on each leg of a trade.             *)
MountOf == [i \in Item |-> 10]
CtsFeeOf == [i \in Item |-> IF i \in Leg THEN 1 ELSE 0]

Symmetry == Permutations(Runs) \cup Permutations(Procs)
=============================================================================
