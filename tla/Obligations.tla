---------------------------- MODULE Obligations ----------------------------
(***************************************************************************)
(* What the payouts engine of a trade contract promises, without its       *)
(* runs, locks, calls and retries: a debt is incurred once, it is then     *)
(* either paid, exactly once, or written off as dust, and it leaves the    *)
(* books only after that.  Only a debt that a ledger fee can eat up may be *)
(* written off.                                                            *)
(***************************************************************************)
CONSTANTS
    Debt,      \* the debts a contract may incur
    Dustable   \* those that a ledger fee can eat up

VARIABLES
    status,    \* where each debt is
    closed     \* the debts that have left the books

vars == <<status, closed>>

Settled == {"paid", "dust"}

Init ==
    /\ status = [d \in Debt |-> "none"]
    /\ closed = {}

(* A match or a void position incurs debts.                                *)
Incur(D) ==
    /\ \A d \in D : status[d] = "none"
    /\ status' = [d \in Debt |-> IF d \in D THEN "owed" ELSE status[d]]
    /\ UNCHANGED closed

(* A ledger pays a debt.                                                   *)
Pay(d) ==
    /\ status[d] = "owed"
    /\ status' = [status EXCEPT ![d] = "paid"]
    /\ UNCHANGED closed

(* Dust is written off, and settled debts leave the books.                 *)
Settle(D, C) ==
    /\ \A d \in D : status[d] = "owed" /\ d \in Dustable
    /\ status' = [d \in Debt |-> IF d \in D THEN "dust" ELSE status[d]]
    /\ \A d \in C : status'[d] \in Settled
    /\ closed' = closed \cup C

Next ==
    \/ \E D \in SUBSET Debt : Incur(D)
    \/ \E d \in Debt : Pay(d)
    \/ \E D \in SUBSET Debt, C \in SUBSET Debt : Settle(D, C)

Spec == Init /\ [][Next]_vars

(* Every debt that is incurred is settled and leaves the books.            *)
EveryDebtCloses == \A d \in Debt : status[d] = "owed" ~> d \in closed

=============================================================================
