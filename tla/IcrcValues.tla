----------------------------- MODULE IcrcValues -----------------------------
(***************************************************************************)
(* The bank's data as bytes and values: the key of an account in the map   *)
(* of balances, the value of a transfer's quest, whose hash tells a        *)
(* duplicate, and the ICRC-3 value of a block, whose hash is certified.    *)
(* A principal is one to 29 bytes, a subaccount 32.                        *)
(***************************************************************************)
EXTENDS StructuralHash

principal_as_thirty_bytes_unsized(p) == \* mutant: without the length
    [i \in 1 .. 30 |-> IF i > 1 /\ i <= Len(p) + 1 THEN p[i - 1] ELSE Byte(0)]
principal_as_thirty_bytes(p) ==
    [i \in 1 .. 30 |-> IF i = 1 THEN Byte(Len(p))
                       ELSE IF i <= Len(p) + 1 THEN p[i - 1] ELSE Byte(0)]
thirty_bytes_as_principal(bytes) == SubSeq(bytes, 2, 1 + bytes[1].byte)

DEFAULT_SUBACCOUNT == [i \in 1 .. 32 |-> Byte(0)]

effective_subaccount(id) == IF id.subaccount = None THEN DEFAULT_SUBACCOUNT ELSE id.subaccount

(* Two ids of one account are equal, whether or not they spell the default *)
(* subaccount out.                                                         *)
SameIcrcId(a, b) == a.owner = b.owner /\ effective_subaccount(a) = effective_subaccount(b)

(* StorableIcrcId: the key of the account's balance.                       *)
to_bytes(id) == principal_as_thirty_bytes(id.owner) \o effective_subaccount(id)
from_bytes(bytes) ==
    LET subaccount == SubSeq(bytes, 31, 62)
    IN  [owner |-> thirty_bytes_as_principal(SubSeq(bytes, 1, 30)),
         subaccount |-> IF subaccount = DEFAULT_SUBACCOUNT THEN None ELSE subaccount]

-----------------------------------------------------------------------------
(* Icrc1TransferQuest, as it is serialized.                                *)

OptionValue(option, Value(_)) == IF option = None THEN NoneValue ELSE SomeValue(Value(option))

IcrcIdValue(id) == Struct(<< <<"owner", Bytes(id.owner)>>,
                             <<"subaccount", OptionValue(id.subaccount, Bytes)>> >>)

TransferQuestValue(q) ==
    Struct(<< <<"to", IcrcIdValue(q.to)>>,
              <<"fee", OptionValue(q.fee, Nat_)>>,
              <<"memo", OptionValue(q.memo, Bytes)>>,
              <<"from_subaccount", OptionValue(q.from_subaccount, Bytes)>>,
              <<"created_at_time", OptionValue(q.created_at_time, Nat_)>>,
              <<"amount", Nat_(q.amount)>> >>)

-----------------------------------------------------------------------------
(* icrc3_value_of_a_block_log.  An ICRC-3 value has the structural hash.   *)

Optional(key, option, Value(_)) == IF option = None THEN <<>> ELSE << <<key, Value(option)>> >>

icrc3_value_of_an_icrc_id(id) ==
    Seq_(IF id.subaccount \in {None, DEFAULT_SUBACCOUNT} THEN <<Bytes(id.owner)>>
         ELSE <<Bytes(id.owner), Bytes(id.subaccount)>>)

icrc3_btype(op) == [mint |-> "1mint", burn |-> "1burn", xfer |-> "1xfer"][op.op]

MintKindFields(kind) ==
    IF kind.kind = "CyclesIn"
    THEN << <<"kind", Utf8("cycin")>>, <<"can", Bytes(kind.from_canister)>> >>
    ELSE << <<"kind", Utf8("cmc")>>, <<"callr", Bytes(kind.caller)>>,
            <<"icpb", Nat_(kind.icp_block_height)>> >>

OperationFields(op) ==
    CASE op.op = "mint" ->
            << <<"to", icrc3_value_of_an_icrc_id(op.to)>> >> \o MintKindFields(op.kind)
      [] op.op = "burn" ->
            << <<"from", icrc3_value_of_an_icrc_id(op.from)>>, <<"can", Bytes(op.for_canister)>> >>
      [] op.op = "xfer" ->
            << <<"from", icrc3_value_of_an_icrc_id(op.from)>>,
               <<"to", icrc3_value_of_an_icrc_id(op.to)>> >>

TxValue(tx) ==
    Struct(<< <<"amt", Nat_(tx.amt)>> >>
           \o Optional("fee", tx.fee, Nat_) \o Optional("memo", tx.memo, Bytes)
           \o Optional("ts", tx.ts, Nat_) \o OperationFields(tx.op))

icrc3_value_of_a_block_log(log) ==
    Struct(<< <<"btype", Utf8(icrc3_btype(log.tx.op))>>, <<"ts", Nat_(log.ts)>>,
              <<"tx", TxValue(log.tx)>> >>
           \o Optional("phash", log.phash, Bytes) \o Optional("fee", log.fee, Nat_))
=============================================================================
