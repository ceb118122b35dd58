----------------------------- MODULE BankViews ------------------------------
(***************************************************************************)
(* What the bank shows of its blocks: icrc3_get_blocks, of which a client  *)
(* follows the archived_blocks back to the bank itself, and the blocks of  *)
(* an account, backwards.  The tip and the archives are in Bank.           *)
(***************************************************************************)
EXTENDS Bank

CONSTANTS
    ICRC3_GET_BLOCKS_CHUNK_SIZE,
    LOGS_CHUNK_SIZE,
    U64,         \* a u64 is less than this
    BlocksQuest  \* bound: the arguments of icrc3_get_blocks

ASSUME ViewsAssumption ==
    /\ ICRC3_GET_BLOCKS_CHUNK_SIZE \in Nat \ {0} /\ LOGS_CHUNK_SIZE \in Nat \ {0}
    /\ U64 > MaxBlocks + ICRC3_GET_BLOCKS_CHUNK_SIZE

AsU64(n) == n % U64
Lesser(m, n) == IF m < n THEN m ELSE n

(* Some of the first range, and in archived_blocks the quest for the rest. *)
ArchivedOnce(first, end) == FALSE \* mutant: forgets the rest of the first range
RestIsArchived(first, end) == end < AsU64(first.start + first.length) /\ end < Len(logs)

icrc3_get_blocks(q) ==
    IF q = <<>> \/ q[1].start >= Len(logs) THEN [blocks |-> <<>>, archived_blocks |-> <<>>]
    ELSE
    LET first == q[1]
        end == Lesser(first.start + Lesser(AsU64(first.length), ICRC3_GET_BLOCKS_CHUNK_SIZE),
                      Len(logs))
        rest == [start |-> end, length |-> first.start + first.length - end]
    IN  [blocks |-> [i \in 1 .. end - first.start |-> first.start + i - 1],
         archived_blocks |-> IF RestIsArchived(first, end) THEN <<rest>> \o Tail(q) ELSE Tail(q)]

RECURSIVE Followed(_)
Followed(q) ==
    LET result == icrc3_get_blocks(q)
    IN  IF result.archived_blocks = <<>> THEN result.blocks
        ELSE result.blocks \o Followed(result.archived_blocks)

-----------------------------------------------------------------------------
(* get_logs_backwards: the numbers of a page, and whether it is the last.  *)

StartOfPage(end_i) == IF end_i < LOGS_CHUNK_SIZE THEN 0 ELSE end_i - LOGS_CHUNK_SIZE

get_logs_backwards(a, opt_start_before_block) ==
    LET list == user_logs_pointers[a]
        end_i == IF opt_start_before_block = None THEN Len(list)
                 ELSE Cardinality({i \in DOMAIN list : list[i] < opt_start_before_block})
        start_i == StartOfPage(end_i)
    IN  [logs |-> SubSeq(list, start_i + 1, end_i), is_last_chunk |-> start_i = 0]

RECURSIVE PagesBefore(_, _)
PagesBefore(a, opt_start_before_block) ==
    LET page == get_logs_backwards(a, opt_start_before_block)
    IN  IF page.is_last_chunk THEN page.logs
        ELSE PagesBefore(a, page.logs[1]) \o page.logs

-----------------------------------------------------------------------------
(* Properties.                                                             *)

RangeIds(range) == {id \in 0 .. Len(logs) - 1 : id >= range.start /\ id < range.start + range.length}
IdsOf(range) == [i \in 1 .. Cardinality(RangeIds(range)) |-> range.start + i - 1]
RECURSIVE IdsOfQuest(_)
IdsOfQuest(q) == IF q = <<>> THEN <<>> ELSE IdsOf(Head(q)) \o IdsOfQuest(Tail(q))

(* Ranges that begin at a block and end at a u64.                          *)
Answerable(q) ==
    \A i \in DOMAIN q : q[i].start < Len(logs) /\ q[i].start + q[i].length < U64

(* A client that follows archived_blocks, page after page, has each block  *)
(* that it asked for and that there is, once and in order.                 *)
BlocksAreFollowed == \A q \in BlocksQuest : Answerable(q) => Followed(q) = IdsOfQuest(q)

(* Going back page by page from the last one gives an account all of its   *)
(* blocks, each once and in order, up to the last one or to where the      *)
(* controller cleared the index of all the accounts.                       *)
AccountBlocksAreListed ==
    \E cleared \in 0 .. Len(logs) : \A a \in Account :
        /\ PagesBefore(a, None) =
              SelectSeq([i \in 1 .. Len(logs) |-> i - 1],
                        LAMBDA id : id >= cleared /\ a \in PartiesOf(logs[id + 1]))

(* A client that asks page after page misses no block and has none twice.  *)
PagesComplete == BlocksAreFollowed /\ AccountBlocksAreListed
=============================================================================
