------------------------------ MODULE MCCMMain ------------------------------
(***************************************************************************)
(* cm_main with two ledgers, two modules and two upgrade calls at a time,  *)
(* over canisters for two trade contracts and one log storage canister.    *)
(***************************************************************************)
EXTENDS CMMain, TLC

(* bound: the second trade contract is created, or the second upgrade call *)
(* is made; nothing goes on from where both are.                           *)
Bound == Cardinality(Created) < 2 \/ \E u \in Upgrade : upgrade[u].pc = "none"

Symmetry ==
    Permutations(Ledger) \cup Permutations(Code) \cup Permutations(Upgrade) \cup Permutations(Call)
        \cup Permutations(Canister \ StorageCanister)
=============================================================================
