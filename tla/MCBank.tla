------------------------------- MODULE MCBank -------------------------------
(***************************************************************************)
(* An instance of BankViews for TLC, and of the values that the bank       *)
(* hashes, over small sets of quests and blocks.                           *)
(***************************************************************************)
EXTENDS BankViews

INSTANCE IcrcValues

(* Ranges that begin at a block or after the last, that end before, at and *)
(* after it, and that are longer than a page, or than a u64.               *)
BlocksRange == [start : {0, 1, 3}, length : {0, 1, 4, 9}]
MCBlocksQuest ==
    {<<>>} \cup {<<r>> : r \in BlocksRange}
    \cup {<<r, [start |-> 1, length |-> 4]>> : r \in BlocksRange}

Symmetry == Permutations(Account)

-----------------------------------------------------------------------------

Bytes1 == <<Byte(1)>>
Principals == {Bytes1, <<Byte(1), Byte(0)>>}
Subaccounts == {None, DEFAULT_SUBACCOUNT, [DEFAULT_SUBACCOUNT EXCEPT ![1] = Byte(1)]}
IcrcIds == [owner : Principals, subaccount : Subaccounts]
Memos == {None, <<>>, Bytes1}

Quests == [to : IcrcIds, fee : {None, 1}, memo : Memos, from_subaccount : Subaccounts,
           created_at_time : {None, 0, 128}, amount : {0, 1, 128}]

Ops == [op : {"xfer"}, from : IcrcIds, to : IcrcIds]
       \cup [op : {"burn"}, from : IcrcIds, for_canister : Principals]
       \cup [op : {"mint"}, to : IcrcIds,
             kind : [kind : {"CyclesIn"}, from_canister : Principals]
                    \cup [kind : {"CMC"}, caller : Principals, icp_block_height : {0, 1}]]
Blocks == [phash : {None, Bytes1}, ts : {0, 1}, fee : {None, 1},
           tx : [op : Ops, fee : {None, 1}, amt : {0, 1}, memo : Memos, ts : {None, 0}]]

(* An enum with each kind of variant, and what cannot be hashed.           *)
Variants ==
    {UnitVariant("A"), UnitVariant("B")}
    \cup {NewtypeVariant("B", Nat_(n)) : n \in {0, 127, 128, 16384}}
    \cup {TupleVariant("C", <<Int_(i), Int_(j)>>) : i, j \in {-65, -64, -1, 63, 64}}
    \cup {StructVariant("D", << <<"x", v>>, <<"y", w>> >>) :
             v, w \in {NoneValue, SomeValue(Nat_(0)), Int_(1)}}
NotHashed ==
    {NoneValue, SomeValue(Unit), Seq_(<<Nat_(0), Unit>>), TupleVariant("C", <<Unit>>),
     Map(<< <<Nat_(0), Unit>> >>), Map(<< <<NoneValue, Nat_(0)>> >>)}

QuestHashes == {structural_hash(TransferQuestValue(q)) : q \in Quests}
VariantHashes == {structural_hash(v) : v \in Variants}
BlockHashes == {structural_hash(icrc3_value_of_a_block_log(b)) : b \in Blocks}

(* The blocks, with ids of one account made one.                           *)
Normal(id) == from_bytes(to_bytes(id))
NormalOp(op) ==
    CASE op.op = "xfer" -> [op EXCEPT !.from = Normal(@), !.to = Normal(@)]
      [] op.op = "burn" -> [op EXCEPT !.from = Normal(@)]
      [] op.op = "mint" -> [op EXCEPT !.to = Normal(@)]
NormalBlocks == {[b EXCEPT !.tx.op = NormalOp(@)] : b \in Blocks}

HashesDiffer ==
    /\ Unsupported \notin QuestHashes \cup VariantHashes \cup BlockHashes
    /\ \A v \in NotHashed : structural_hash(v) = Unsupported
    /\ Cardinality(VariantHashes) = Cardinality(Variants)
    /\ Cardinality(QuestHashes) = Cardinality(Quests)
    /\ Cardinality(BlockHashes) = Cardinality(NormalBlocks)

KeysDiffer ==
    \A a, b \in IcrcIds : /\ SameIcrcId(a, b) <=> to_bytes(a) = to_bytes(b)
                         /\ SameIcrcId(a, Normal(a))

(* A transfer is refused as the duplicate of a block only if it is: a      *)
(* quest that differs anywhere, in an option that is not given or in a     *)
(* subaccount spelled out, has another hash, and what is remembered under  *)
(* a hash is the block of its quest.  So do the hashes of the blocks, which*)
(* are chained and certified, differ where the blocks do, and the keys of  *)
(* the balances where the accounts do.                                     *)
DuplicateIsTheQuest ==
    /\ HashesDiffer /\ KeysDiffer
    /\ \A d \in dedup_map :
          logs[d.block] = [op |-> "xfer", from |-> d.quest.from, to |-> d.quest.to,
                           amt |-> d.quest.amount, ts |-> d.quest.created_at_time]
=============================================================================
