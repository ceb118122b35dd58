---------------------------- MODULE MCMintCycles ----------------------------
(***************************************************************************)
(* An instance of MintCycles for TLC.                                      *)
(***************************************************************************)
EXTENDS MintCycles, TLC

Symmetry == Permutations(User)
=============================================================================
