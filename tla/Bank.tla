-------------------------------- MODULE Bank --------------------------------
(***************************************************************************)
(* The bank, a ledger of cycles: transfers with deduplication, cycles that *)
(* come in with a call, and cycles_out, which debits the account, awaits   *)
(* the deposit of the cycles, and refunds the account if that fails.       *)
(* MintCycles adds the minting of cycles from ICP.                         *)
(*                                                                         *)
(* The cycles that the canister pays for its own execution are left out.   *)
(***************************************************************************)
EXTENDS Integers, Sequences, FiniteSets, FiniteSetsExt

CONSTANTS
    Account,
    None,
    BANK_TRANSFER_FEE,
    TX_WINDOW, PERMITTED_DRIFT,
    MAX_LEN_OF_THE_DEDUP_MAP,
    Cycles,     \* bound: the amounts
    OutCall,    \* bound: calls of cycles_out under way at once
    MaxBlocks,  \* bound: the number of blocks
    MaxTime     \* bound: time starts late enough to look back, and ends here

ASSUME BankAssumption ==
    /\ BANK_TRANSFER_FEE \in Nat /\ TX_WINDOW \in Nat /\ PERMITTED_DRIFT \in Nat
    /\ MAX_LEN_OF_THE_DEDUP_MAP \in Nat /\ MaxBlocks \in Nat /\ MaxTime \in Nat
    /\ Cycles \subseteq Nat
    /\ IsFiniteSet(Account) /\ IsFiniteSet(OutCall)

VARIABLES
    balances,
    total_supply,
    logs,        \* the blocks
    certified_data,     \* what the canister certifies: the tip of the blocks
    user_logs_pointers, \* the numbers of the blocks of each account
    dedup_map,   \* the transfers remembered, each with its block
    time,
    cycles_out,  \* each call's quest and state
    canister_cycles, \* external: the cycles of the canister
    deposited        \* external: the cycles that reached other canisters

log_vars == <<logs, certified_data, user_logs_pointers>>
ledger == <<balances, total_supply, log_vars>>
bank_vars == <<ledger, dedup_map, time, cycles_out, canister_cycles, deposited>>

(* A quest with a created_at_time is deduplicated.  Its identity stands for*)
(* that of the caller and the structural hash of the quest.                *)
TransferQuest == [from : Account, to : Account, amount : Cycles,
                  created_at_time : Nat \cup {None}]

(* The block of a transfer has the created_at_time of its quest, that of a *)
(* mint the ICP block that was burnt for it, if one was.                   *)
Block == [op : {"xfer"}, from : Account, to : Account, amt : Nat, ts : Nat \cup {None}]
         \cup [op : {"mint"}, to : Account, amt : Nat, icp : Nat \cup {None}]
         \cup [op : {"burn"}, from : Account, amt : Nat]

(* The deposit is on its way, or its answer is.                            *)
OutState == [from : Account, cycles : Cycles, at : {"sent", "deposited", "failed"}]

ASSUME NoneAssumption == None \notin OutState

BankInit ==
    /\ balances = [a \in Account |-> 0]
    /\ total_supply = 0
    /\ logs = <<>>
    /\ certified_data = None
    /\ user_logs_pointers = [a \in Account |-> <<>>]
    /\ dedup_map = {}
    /\ time = TX_WINDOW + PERMITTED_DRIFT
    /\ cycles_out = [k \in OutCall |-> None]
    /\ canister_cycles = 0
    /\ deposited = 0

-----------------------------------------------------------------------------
(* The blocks are numbered from zero.  A block has the hash of the one     *)
(* before it, which it is appended to: the order of logs stands for it.    *)

CertifiedOneBehind(blocks) == \* mutant: certifies before the push
    IF Len(blocks) < 2 THEN None
    ELSE [last_block_index |-> Len(blocks) - 2, last_block |-> blocks[Len(blocks) - 1]]
Certified(blocks) ==
    IF blocks = <<>> THEN None
    ELSE [last_block_index |-> Len(blocks) - 1, last_block |-> blocks[Len(blocks)]]

PartiesOf(block) ==
    CASE block.op = "xfer" -> {block.from, block.to}
      [] block.op = "mint" -> {block.to}
      [] block.op = "burn" -> {block.from}

(* Each account of the block is pushed the number once.                    *)
PointersToTransfers(block) == \* mutant: the sender's only
    [a \in Account |-> IF block.op = "xfer" /\ a # block.from THEN user_logs_pointers[a]
                       ELSE IF a \in PartiesOf(block) THEN Append(user_logs_pointers[a], Len(logs))
                       ELSE user_logs_pointers[a]]
PointersTo(block) ==
    [a \in Account |-> IF a \in PartiesOf(block) THEN Append(user_logs_pointers[a], Len(logs))
                       ELSE user_logs_pointers[a]]

PushLog(block) ==
    /\ logs' = Append(logs, block)
    /\ user_logs_pointers' = PointersTo(block)

(* set_root_hash: each method that writes a block calls it by itself.      *)
SetRootHash == certified_data' = Certified(logs')

-----------------------------------------------------------------------------
(* check_for_dup                                                           *)

OldestTime == time - TX_WINDOW - PERMITTED_DRIFT

RememberedAfter(created) == created > OldestTime \* mutant: forgets one too early
Remembered(created) == created >= OldestTime
PrunedMap == {d \in dedup_map : Remembered(d.quest.created_at_time)}

IsDuplicate(q) == \E d \in PrunedMap : d.quest = q

MayTransferOnce(q) ==
    /\ q.created_at_time >= OldestTime
    /\ q.created_at_time <= time + PERMITTED_DRIFT
    /\ ~IsDuplicate(q)
    /\ Cardinality(PrunedMap) < MAX_LEN_OF_THE_DEDUP_MAP

(* icrc1_transfer.  The bound MaxBlocks counts the burns under way too.    *)
OutUnderWay == {k \in OutCall : cycles_out[k] # None}
RoomForBlock == Len(logs) + Cardinality(OutUnderWay) < MaxBlocks

MovedToSelf(from, to, amount) == \* mutant: the two writes are not in sequence
    [balances EXCEPT ![from] = @ - (amount + BANK_TRANSFER_FEE), ![to] = balances[to] + amount]
Moved(from, to, amount) ==
    LET debited == [balances EXCEPT ![from] = @ - (amount + BANK_TRANSFER_FEE)]
    IN  [debited EXCEPT ![to] = @ + amount]

Transfer(q) ==
    /\ RoomForBlock
    /\ q.created_at_time # None => MayTransferOnce(q)
    /\ balances[q.from] >= q.amount + BANK_TRANSFER_FEE
    /\ balances' = Moved(q.from, q.to, q.amount)
    /\ total_supply' = total_supply - BANK_TRANSFER_FEE
    /\ PushLog([op |-> "xfer", from |-> q.from, to |-> q.to, amt |-> q.amount,
                ts |-> q.created_at_time])
    /\ SetRootHash
    /\ dedup_map' = IF q.created_at_time = None THEN dedup_map
                    ELSE PrunedMap \cup {[quest |-> q, block |-> Len(logs) + 1]}
    /\ UNCHANGED <<time, cycles_out, canister_cycles, deposited>>

(* A transfer that is refused may still have pruned the map.               *)
TransferRefused ==
    /\ dedup_map # PrunedMap
    /\ dedup_map' = PrunedMap
    /\ UNCHANGED <<ledger, time, cycles_out, canister_cycles, deposited>>

Credit(to, amount) ==
    /\ balances' = [balances EXCEPT ![to] = @ + amount]
    /\ total_supply' = total_supply + amount

(* cycles_in: the call has the cycles and the fee with it.                 *)
CyclesIn(to, cycles) ==
    /\ RoomForBlock
    /\ Credit(to, cycles)
    /\ canister_cycles' = canister_cycles + cycles + BANK_TRANSFER_FEE
    /\ PushLog([op |-> "mint", to |-> to, amt |-> cycles, icp |-> None])
    /\ SetRootHash
    /\ UNCHANGED <<dedup_map, time, cycles_out, deposited>>

-----------------------------------------------------------------------------
(* cycles_out                                                              *)

CyclesOut(k, from, cycles) ==
    /\ cycles_out[k] = None /\ RoomForBlock
    /\ balances[from] >= cycles + BANK_TRANSFER_FEE
    /\ balances' = [balances EXCEPT ![from] = @ - (cycles + BANK_TRANSFER_FEE)]
    /\ total_supply' = total_supply - (cycles + BANK_TRANSFER_FEE)
    /\ canister_cycles' = canister_cycles - cycles
    /\ cycles_out' = [cycles_out EXCEPT ![k] = [from |-> from, cycles |-> cycles, at |-> "sent"]]
    /\ UNCHANGED <<log_vars, dedup_map, time, deposited>>

(* deposit_cycles of the management canister.  A call that fails brings    *)
(* its cycles back.                                                        *)
DepositCycles(k) ==
    /\ cycles_out[k] # None /\ cycles_out[k].at = "sent"
    /\ \/ /\ cycles_out' = [cycles_out EXCEPT ![k].at = "deposited"]
          /\ deposited' = deposited + cycles_out[k].cycles
          /\ UNCHANGED canister_cycles
       \/ /\ cycles_out' = [cycles_out EXCEPT ![k].at = "failed"]
          /\ canister_cycles' = canister_cycles + cycles_out[k].cycles
          /\ UNCHANGED deposited
    /\ UNCHANGED <<ledger, dedup_map, time>>

(* The amounts of the burn block and of the refund.                        *)
BurntWithoutFee(cycles) == cycles \* mutant
Burnt(cycles) == cycles + BANK_TRANSFER_FEE
RefundWithFees(cycles) == cycles + 2 * BANK_TRANSFER_FEE \* mutant
Refund(cycles) == cycles + BANK_TRANSFER_FEE

(* The block of the burn is written after the await.                       *)
WriteBurnUncertified(from, cycles) == \* mutant: what is certified stays
    /\ PushLog([op |-> "burn", from |-> from, amt |-> Burnt(cycles)])
    /\ UNCHANGED certified_data
WriteBurn(from, cycles) ==
    /\ PushLog([op |-> "burn", from |-> from, amt |-> Burnt(cycles)])
    /\ SetRootHash

CyclesOutReply(k) ==
    /\ cycles_out[k] # None
    /\ LET from == cycles_out[k].from
           cycles == cycles_out[k].cycles
       IN  \/ /\ cycles_out[k].at = "deposited"
              /\ WriteBurn(from, cycles)
              /\ UNCHANGED <<balances, total_supply>>
           \/ /\ cycles_out[k].at = "failed"
              /\ Credit(from, Refund(cycles))
              /\ UNCHANGED log_vars
    /\ cycles_out' = [cycles_out EXCEPT ![k] = None]
    /\ UNCHANGED <<dedup_map, time, canister_cycles, deposited>>

Tick ==
    /\ time < MaxTime
    /\ time' = time + 1
    /\ UNCHANGED <<ledger, dedup_map, cycles_out, canister_cycles, deposited>>

(* controller_clear_user_logs_pointers_cache                               *)
ClearPointers ==
    /\ user_logs_pointers' = [a \in Account |-> <<>>]
    /\ UNCHANGED <<balances, total_supply, logs, certified_data,
                   dedup_map, time, cycles_out, canister_cycles, deposited>>

(* An upgrade loses what is certified, and post_upgrade certifies it again.*)
(* It waits for the calls that are under way.                              *)
UpgradeBank ==
    /\ OutUnderWay = {}
    /\ UNCHANGED <<balances, total_supply, logs, user_logs_pointers,
                   dedup_map, time, cycles_out, canister_cycles, deposited>>
    /\ SetRootHash

-----------------------------------------------------------------------------

BankNext ==
    \/ \E from, to \in Account, amount \in Cycles,
          created_at_time \in (0 .. MaxTime + PERMITTED_DRIFT) \cup {None} :
         Transfer([from |-> from, to |-> to, amount |-> amount,
                   created_at_time |-> created_at_time])
    \/ TransferRefused
    \/ \E a \in Account, cycles \in Cycles :
         \/ CyclesIn(a, cycles)
         \/ \E k \in OutCall : CyclesOut(k, a, cycles)
    \/ \E k \in OutCall : DepositCycles(k) \/ CyclesOutReply(k)
    \/ Tick

(* What the controllers of the bank may do at any time.                    *)
ControllerNext == ClearPointers \/ UpgradeBank

BankSpec == BankInit /\ [][BankNext \/ ControllerNext]_bank_vars

-----------------------------------------------------------------------------
(* What the bank says of its tip.                                          *)

(* icrc3_get_archives, which is called for any log that is not empty.      *)
ArchiveData == [start |-> 0, end |-> Len(logs) - 1]

(* icrc3_get_tip_certificate: the hash tree is that of the tip, and is     *)
(* good for a client if its root is certified.                             *)
TipHashTree ==
    IF logs = <<>> THEN None
    ELSE [last_block_index |-> Len(logs) - 1, last_block |-> logs[Len(logs)]]

-----------------------------------------------------------------------------
(* Properties.                                                             *)

BankTypeOK ==
    /\ balances \in [Account -> Nat]
    /\ total_supply \in Nat
    /\ logs \in Seq(Block)
    /\ user_logs_pointers \in [Account -> Seq(0 .. Len(logs) - 1)]
    /\ \A d \in dedup_map : d.quest \in TransferQuest /\ d.block \in 1 .. Len(logs)
    /\ Cardinality(dedup_map) <= MAX_LEN_OF_THE_DEDUP_MAP
    /\ time \in Nat
    /\ cycles_out \in [OutCall -> OutState \cup {None}]
    /\ canister_cycles \in Nat /\ deposited \in Nat

(* The bank holds at least the cycles it owes, also those that it may have *)
(* to refund, at every moment of every cycles_out.                         *)
canister_cycles_balance_minus_total_supply == canister_cycles - total_supply
Backed == canister_cycles_balance_minus_total_supply >= 0

(* What the blocks say of an account.                                      *)
EffectOf(block, a) ==
    (IF block.op # "burn" /\ block.to = a THEN block.amt ELSE 0)
    - (IF block.op = "burn" /\ block.from = a THEN block.amt ELSE 0)
    - (IF block.op = "xfer" /\ block.from = a THEN block.amt + BANK_TRANSFER_FEE ELSE 0)
Replayed(blocks, a, n) ==
    LET sum[k \in 0 .. n] == IF k = 0 THEN 0 ELSE sum[k - 1] + EffectOf(blocks[k], a)
    IN  sum[n]

(* What an account has in cycles_out calls that have no block yet.         *)
UnderWay(a) == {k \in OutUnderWay : cycles_out[k].from = a}
OutOf(a) ==
    SumFunction([k \in OutCall |-> IF k \in UnderWay(a)
                                   THEN cycles_out[k].cycles + BANK_TRANSFER_FEE ELSE 0])

(* The blocks are the ledger: replaying them gives every balance, besides  *)
(* what is on its way out, whose block comes when it is out; no prefix of  *)
(* them overdraws an account; and the total supply is the sum of the       *)
(* balances.                                                               *)
BlocksReplayToBalances ==
    /\ BankTypeOK
    /\ total_supply = SumFunction(balances)
    /\ \A a \in Account :
          /\ Replayed(logs, a, Len(logs)) = balances[a] + OutOf(a)
          /\ \A n \in 0 .. Len(logs) : Replayed(logs, a, n) >= 0

(* A transfer with a created_at_time is executed once, whenever and however*)
(* often it is asked for: no two blocks are of the same quest.             *)
NoDuplicateTransfer ==
    \A i, j \in 1 .. Len(logs) :
        i < j /\ logs[i].op = "xfer" /\ logs[i].ts # None => logs[i] # logs[j]

(* What is certified is the last block, at any time: also after a block    *)
(* that was written when a call to another canister came back, and after   *)
(* an upgrade.  The archive that a client is told of ends at that block.   *)
TipIsCertified ==
    /\ certified_data = TipHashTree
    /\ logs # <<>> => ArchiveData.end = TipHashTree.last_block_index
=============================================================================
