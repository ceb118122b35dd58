----------------------------- MODULE RecordLog -----------------------------
(***************************************************************************)
(* What the log storage of a trade contract promises: a log of records     *)
(* that only grows, where a record is found at its id for ever, and        *)
(* changes only when it becomes final.                                     *)
(***************************************************************************)
EXTENDS Naturals

VARIABLES
    size,     \* the number of records
    record    \* the records: a function on the ids

vars == <<size, record>>

Record(id) == [id : {id}, final : BOOLEAN]

Init ==
    /\ size = 0
    /\ record = [id \in {} |-> 0]

Append ==
    /\ size' = size + 1
    /\ record' = [id \in 0 .. size |->
                     IF id = size THEN [id |-> id, final |-> FALSE] ELSE record[id]]

Finalise(ids) ==
    /\ ids \subseteq 0 .. size - 1
    /\ record' = [id \in 0 .. size - 1 |->
                     IF id \in ids THEN [id |-> id, final |-> TRUE] ELSE record[id]]
    /\ UNCHANGED size

Next == Append \/ \E ids \in SUBSET (0 .. size - 1) : Finalise(ids)

Spec == Init /\ [][Next]_vars

=============================================================================
