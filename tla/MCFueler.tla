------------------------------ MODULE MCFueler ------------------------------
(***************************************************************************)
(* An instance of Fueler for TLC.                                          *)
(***************************************************************************)
EXTENDS Fueler

CONSTANTS ledger, tc   \* model values

MCSns == {ledger}
MCTopLevel == {Bank}
MCTcs == {tc}
=============================================================================
