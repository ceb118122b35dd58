----------------------------- MODULE BankProofs -----------------------------
(***************************************************************************)
(* The bank executes no transfer twice, for every number of accounts and   *)
(* blocks, every window and drift, and every size of the map.  Minting     *)
(* holds its lock exactly while it runs, loses no ICP and credits each ICP *)
(* block once, and what the CMC has minted pays for what is credited: for  *)
(* every number of users, calls and ICP blocks.                            *)
(***************************************************************************)
EXTENDS MintCycles, Sums, SequenceTheorems

(* The quest that a transfer's block was written for.                      *)
QuestOf(block) == [from |-> block.from, to |-> block.to, amount |-> block.amt,
                   created_at_time |-> block.ts]

DedupBlock(i) == logs[i].op = "xfer" /\ logs[i].ts # None

(* The map remembers every transfer that a quest may still repeat.         *)
StillRemembered ==
    \A i \in 1 .. Len(logs) :
        DedupBlock(i) /\ logs[i].ts >= OldestTime => \E d \in dedup_map : d.quest = QuestOf(logs[i])

IInv ==
    /\ logs \in Seq(Block)
    /\ time \in Nat
    /\ cycles_out \in [OutCall -> OutState \cup {None}]
    /\ StillRemembered
    /\ NoDuplicateTransfer

-----------------------------------------------------------------------------

LEMMA BlockFacts ==
    /\ \A from, to \in Account, amt \in Nat, ts \in Nat \cup {None} :
          [op |-> "xfer", from |-> from, to |-> to, amt |-> amt, ts |-> ts] \in Block
    /\ \A to \in Account, amt \in Nat :
          [op |-> "mint", to |-> to, amt |-> amt, icp |-> None] \in Block
    /\ \A from \in Account, amt \in Nat : [op |-> "burn", from |-> from, amt |-> amt] \in Block
  BY DEF Block

(* The created_at_time of a transfer's block is a time.                    *)
LEMMA TimeOfBlock ==
    ASSUME logs \in Seq(Block), NEW i \in 1 .. Len(logs), DedupBlock(i)
    PROVE  logs[i].ts \in Nat
  <1>1. logs[i] \in Block
    BY ElementOfSeq
  <1>2. QED BY <1>1 DEF Block, DedupBlock

LEMMA OldestTimeType == ASSUME time \in Nat PROVE OldestTime \in Int
  BY BankAssumption DEF OldestTime

LEMMA DifferenceGrows ==
    ASSUME NEW t \in Nat, NEW u \in Nat, u >= t, NEW w \in Nat, NEW d \in Nat
    PROVE  u - w - d >= t - w - d
  OBVIOUS

LEMMA OldestTimeGrows ==
    ASSUME time \in Nat, time' \in Nat, time' >= time
    PROVE  OldestTime' \in Int /\ OldestTime \in Int /\ OldestTime' >= OldestTime
  <1>1. OldestTime' \in Int /\ OldestTime \in Int
    BY BankAssumption DEF OldestTime
  <1>2. OldestTime' >= OldestTime
    BY DifferenceGrows, BankAssumption DEF OldestTime
  <1>3. QED BY <1>1, <1>2

(* What a transfer forgets is not still remembered, nor may it be repeated.*)
LEMMA PrunedKeeps ==
    ASSUME IInv, NEW i \in 1 .. Len(logs), DedupBlock(i), logs[i].ts >= OldestTime
    PROVE  \E d \in PrunedMap : d.quest = QuestOf(logs[i])
  <1>1. PICK d \in dedup_map : d.quest = QuestOf(logs[i])
    BY DEF IInv, StillRemembered
  <1>2. Remembered(d.quest.created_at_time)
    BY <1>1 DEF QuestOf, Remembered
  <1>3. QED BY <1>1, <1>2 DEF PrunedMap

(* A step that writes no block preserves the invariant if it forgets no    *)
(* more than a transfer does.                                              *)
LEMMA NoBlockStep ==
    ASSUME IInv, UNCHANGED logs, time' \in Nat, time' >= time,
           cycles_out' \in [OutCall -> OutState \cup {None}],
           PrunedMap \subseteq dedup_map'
    PROVE  IInv'
  <1>1. OldestTime' \in Int /\ OldestTime \in Int /\ OldestTime' >= OldestTime
    BY OldestTimeGrows DEF IInv
  <1>2. StillRemembered'
    <2> SUFFICES ASSUME NEW i \in 1 .. Len(logs), DedupBlock(i), logs[i].ts >= OldestTime'
                 PROVE  \E d \in dedup_map' : d.quest = QuestOf(logs[i])
      BY DEF StillRemembered, DedupBlock, QuestOf
    <2>1. logs[i].ts >= OldestTime
      BY <1>1, TimeOfBlock DEF IInv
    <2>2. QED BY <2>1, PrunedKeeps
  <1>3. QED BY <1>2 DEF IInv, NoDuplicateTransfer

(* A step that writes the block of a mint or a burn.                       *)
LEMMA OtherBlockStep ==
    ASSUME IInv, UNCHANGED <<dedup_map, time>>,
           cycles_out' \in [OutCall -> OutState \cup {None}],
           NEW block \in Block, block.op # "xfer", logs' = Append(logs, block)
    PROVE  IInv'
  <1>1. /\ logs' \in Seq(Block) /\ Len(logs') = Len(logs) + 1
        /\ \A i \in 1 .. Len(logs) : logs'[i] = logs[i]
        /\ logs'[Len(logs) + 1] = block
    BY DEF IInv
  <1>2. Len(logs) \in Nat
    BY DEF IInv
  <1>3. \A i \in 1 .. Len(logs') : logs'[i].op = "xfer" => i \in 1 .. Len(logs) /\ logs'[i] = logs[i]
    BY <1>1, <1>2
  <1>4. OldestTime' = OldestTime
    BY DEF OldestTime
  <1>5. StillRemembered'
    BY <1>3, <1>4 DEF IInv, StillRemembered, DedupBlock, QuestOf
  <1>6. NoDuplicateTransfer'
    <2> SUFFICES ASSUME NEW i \in 1 .. Len(logs'), NEW j \in 1 .. Len(logs'), i < j,
                        logs'[i].op = "xfer", logs'[i].ts # None, logs'[i] = logs'[j]
                 PROVE  FALSE
      BY DEF NoDuplicateTransfer
    <2>1. i \in 1 .. Len(logs) /\ j \in 1 .. Len(logs) /\ logs'[i] = logs[i] /\ logs'[j] = logs[j]
      BY <1>3
    <2>2. QED BY <2>1 DEF IInv, NoDuplicateTransfer
  <1>7. QED BY <1>1, <1>5, <1>6 DEF IInv

LEMMA TransferStep ==
    ASSUME IInv, NEW q \in TransferQuest, Transfer(q)
    PROVE  IInv'
  <1> DEFINE block == [op |-> "xfer", from |-> q.from, to |-> q.to, amt |-> q.amount,
                       ts |-> q.created_at_time]
             entry == [quest |-> q, block |-> Len(logs) + 1]
  <1>1. block \in Block
    BY BlockFacts, BankAssumption DEF TransferQuest
  <1>2. /\ logs' = Append(logs, block) /\ UNCHANGED <<time, cycles_out>>
        /\ dedup_map' = IF q.created_at_time = None THEN dedup_map ELSE PrunedMap \cup {entry}
    BY DEF Transfer, PushLog
  <1>3. /\ logs' \in Seq(Block) /\ Len(logs') = Len(logs) + 1 /\ Len(logs) \in Nat
        /\ \A i \in 1 .. Len(logs) : logs'[i] = logs[i]
        /\ logs'[Len(logs) + 1] = block
    BY <1>1, <1>2 DEF IInv
  <1>4. OldestTime' = OldestTime
    BY <1>2 DEF OldestTime
  <1>5. QuestOf(block) = q
    BY DEF QuestOf, TransferQuest
  <1>6. StillRemembered'
    <2> SUFFICES ASSUME NEW i \in 1 .. Len(logs'), DedupBlock(i)', logs'[i].ts >= OldestTime
                 PROVE  \E d \in dedup_map' : d.quest = QuestOf(logs'[i])
      BY <1>4 DEF StillRemembered, QuestOf
    <2>1. CASE i = Len(logs) + 1
      <3>1. q.created_at_time # None
        BY <2>1, <1>3 DEF DedupBlock
      <3>2. entry \in dedup_map' /\ entry.quest = QuestOf(logs'[i])
        BY <3>1, <2>1, <1>2, <1>3, <1>5
      <3>3. QED BY <3>2
    <2>2. CASE i \in 1 .. Len(logs)
      <3>1. logs'[i] = logs[i] /\ DedupBlock(i) /\ logs[i].ts >= OldestTime
        BY <2>2, <1>3 DEF DedupBlock
      <3>2. \E d \in PrunedMap : d.quest = QuestOf(logs'[i])
        BY <3>1, <2>2, PrunedKeeps
      <3>3. PrunedMap \subseteq dedup_map'
        BY <1>2 DEF PrunedMap
      <3>4. QED BY <3>2, <3>3
    <2>3. QED BY <2>1, <2>2, <1>3
  <1>7. NoDuplicateTransfer'
    <2> SUFFICES ASSUME NEW i \in 1 .. Len(logs'), NEW j \in 1 .. Len(logs'), i < j,
                        logs'[i].op = "xfer", logs'[i].ts # None, logs'[i] = logs'[j]
                 PROVE  FALSE
      BY DEF NoDuplicateTransfer
    <2>1. i \in 1 .. Len(logs) /\ logs'[i] = logs[i]
      BY <1>3
    <2>2. CASE j \in 1 .. Len(logs)
      BY <2>1, <2>2, <1>3 DEF IInv, NoDuplicateTransfer
    <2>3. CASE j = Len(logs) + 1
      <3>1. logs[i] = block /\ DedupBlock(i)
        BY <2>1, <2>3, <1>3 DEF DedupBlock
      <3>2. MayTransferOnce(q) /\ logs[i].ts = q.created_at_time
        BY <3>1 DEF Transfer, DedupBlock
      <3>3. PICK d \in PrunedMap : d.quest = QuestOf(logs[i])
        BY <2>1, <3>1, <3>2, PrunedKeeps DEF MayTransferOnce
      <3>4. QED BY <3>1, <3>2, <3>3, <1>5 DEF MayTransferOnce, IsDuplicate
    <2>4. QED BY <2>2, <2>3, <1>3
  <1>8. QED BY <1>2, <1>3, <1>6, <1>7 DEF IInv

LEMMA CyclesOutReplyStep ==
    ASSUME IInv, NEW k \in OutCall, CyclesOutReply(k)
    PROVE  IInv'
  <1>1. cycles_out' \in [OutCall -> OutState \cup {None}]
    BY DEF CyclesOutReply, IInv
  <1>2. cycles_out[k] \in OutState
    BY DEF CyclesOutReply, IInv
  <1>3. CASE UNCHANGED logs
    <2>1. PrunedMap \subseteq dedup_map' /\ time' \in Nat /\ time' >= time
      BY DEF CyclesOutReply, PrunedMap, IInv
    <2>2. QED BY <1>1, <1>3, <2>1, NoBlockStep
  <1>4. CASE ~ UNCHANGED logs
    <2> DEFINE block == [op |-> "burn", from |-> cycles_out[k].from,
                         amt |-> Burnt(cycles_out[k].cycles)]
    <2>1. logs' = Append(logs, block) /\ UNCHANGED <<dedup_map, time>>
      BY <1>4 DEF CyclesOutReply, WriteBurn, PushLog, log_vars
    <2>2. block \in Block /\ block.op # "xfer"
      <3>1. cycles_out[k].from \in Account /\ Burnt(cycles_out[k].cycles) \in Nat
        <4>1. cycles_out[k].from \in Account /\ cycles_out[k].cycles \in Cycles
          BY <1>2 DEF OutState
        <4>2. cycles_out[k].cycles \in Nat /\ BANK_TRANSFER_FEE \in Nat
          BY <4>1, BankAssumption
        <4>3. QED BY <4>1, <4>2 DEF Burnt
      <3>2. QED BY <3>1, BlockFacts
    <2>3. QED BY <1>1, <2>1, <2>2, OtherBlockStep
  <1>5. QED BY <1>3, <1>4

-----------------------------------------------------------------------------

(* The invariant of the deduplication: what the map may have forgotten is  *)
(* too old to be repeated.                                                 *)
THEOREM BankInvariant == BankSpec => []IInv
  <1>1. BankInit => IInv
    <2> SUFFICES ASSUME BankInit PROVE IInv
      OBVIOUS
    <2>1. logs \in Seq(Block) /\ Len(logs) = 0
      BY DEF BankInit
    <2>2. time \in Nat /\ cycles_out \in [OutCall -> OutState \cup {None}]
      BY BankAssumption DEF BankInit
    <2>3. QED BY <2>1, <2>2 DEF IInv, StillRemembered, NoDuplicateTransfer
  <1>2. IInv /\ [BankNext \/ ControllerNext]_bank_vars => IInv'
    <2> SUFFICES ASSUME IInv, [BankNext \/ ControllerNext]_bank_vars PROVE IInv'
      OBVIOUS
    <2>1. PrunedMap \subseteq dedup_map
      BY DEF PrunedMap
    <2>2. ASSUME NEW from \in Account, NEW to \in Account, NEW amount \in Cycles,
                 NEW created \in (0 .. MaxTime + PERMITTED_DRIFT) \cup {None},
                 Transfer([from |-> from, to |-> to, amount |-> amount,
                           created_at_time |-> created])
          PROVE  IInv'
      <3>1. created \in Nat \cup {None}
        BY BankAssumption
      <3>2. [from |-> from, to |-> to, amount |-> amount, created_at_time |-> created]
                \in TransferQuest
        BY <3>1 DEF TransferQuest
      <3>3. QED BY <2>2, <3>2, TransferStep
    <2>3. CASE TransferRefused
      BY <2>3, NoBlockStep DEF TransferRefused, IInv, ledger, log_vars
    <2>4. ASSUME NEW a \in Account, NEW cycles \in Cycles, CyclesIn(a, cycles)
          PROVE  IInv'
      <3>1. [op |-> "mint", to |-> a, amt |-> cycles, icp |-> None] \in Block
        BY BlockFacts, BankAssumption
      <3>2. QED BY <2>4, <3>1, OtherBlockStep DEF CyclesIn, PushLog, IInv
    <2>5. ASSUME NEW a \in Account, NEW cycles \in Cycles, NEW k \in OutCall, CyclesOut(k, a, cycles)
          PROVE  IInv'
      <3>1. cycles_out' \in [OutCall -> OutState \cup {None}]
        BY <2>5 DEF CyclesOut, OutState, IInv
      <3>2. QED BY <2>1, <2>5, <3>1, NoBlockStep DEF CyclesOut, IInv, log_vars
    <2>6. ASSUME NEW k \in OutCall, DepositCycles(k)
          PROVE  IInv'
      <3>1. cycles_out' \in [OutCall -> OutState \cup {None}]
        <4>1. cycles_out[k] \in OutState
          BY <2>6 DEF DepositCycles, IInv
        <4>2. \A at \in {"deposited", "failed"} : [cycles_out[k] EXCEPT !.at = at] \in OutState
          BY <4>1 DEF OutState
        <4>3. QED BY <2>6, <4>2 DEF DepositCycles, IInv
      <3>2. QED BY <2>1, <2>6, <3>1, NoBlockStep DEF DepositCycles, IInv, ledger, log_vars
    <2>7. ASSUME NEW k \in OutCall, CyclesOutReply(k)
          PROVE  IInv'
      BY <2>7, CyclesOutReplyStep
    <2>8. CASE Tick
      BY <2>1, <2>8, NoBlockStep DEF Tick, IInv, ledger, log_vars
    <2>9. CASE ControllerNext
      BY <2>1, <2>9, NoBlockStep DEF ControllerNext, ClearPointers, UpgradeBank, IInv
    <2>10. CASE UNCHANGED bank_vars
      BY <2>1, <2>10, NoBlockStep DEF bank_vars, ledger, log_vars, IInv
    <2>11. QED BY <2>2, <2>3, <2>4, <2>5, <2>6, <2>7, <2>8, <2>9, <2>10 DEF BankNext
  <1>3. QED BY <1>1, <1>2, PTL DEF BankSpec

(* No quest with a created_at_time is executed twice.                      *)
THEOREM TransferOnce == BankSpec => []NoDuplicateTransfer
  BY BankInvariant, PTL DEF IInv
-----------------------------------------------------------------------------
(* Replaying blocks.                                                       *)

Step(g, blocks, a, k) == IF k = 0 THEN 0 ELSE g[k - 1] + EffectOf(blocks[k], a)
Replay(blocks, a, n) == CHOOSE g : g = [k \in 0 .. n |-> Step(g, blocks, a, k)]

LEMMA ReplayedIsReplay ==
    ASSUME NEW blocks, NEW a, NEW n
    PROVE  Replayed(blocks, a, n) = Replay(blocks, a, n)[n]
  BY DEF Replayed, Replay, Step

LEMMA ReplayRecursion ==
    ASSUME NEW blocks, NEW a, NEW n \in Nat
    PROVE  \A k \in 0 .. n : Replay(blocks, a, n)[k] = Step(Replay(blocks, a, n), blocks, a, k)
  <1> DEFINE Defined(g, m) == g = [k \in 0 .. m |-> Step(g, blocks, a, k)]
             T == {m \in Nat : \E g : Defined(g, m)}
  <1>1. 0 \in T
    <2> DEFINE g == [k \in 0 .. 0 |-> 0]
    <2>1. Defined(g, 0)
      BY DEF Step
    <2>2. QED BY <2>1
  <1>2. ASSUME NEW m \in Nat, m \in T PROVE m + 1 \in T
    <2>1. PICK g : Defined(g, m)
      BY <1>2
    <2> DEFINE h == [k \in 0 .. m + 1 |-> Step(g, blocks, a, k)]
    <2>2. ASSUME NEW k \in 0 .. m + 1 PROVE Step(h, blocks, a, k) = Step(g, blocks, a, k)
      <3>1. CASE k = 0
        BY <3>1 DEF Step
      <3>2. CASE k # 0
        <4>1. k - 1 \in 0 .. m /\ k - 1 \in 0 .. m + 1
          BY <3>2
        <4>2. h[k - 1] = Step(g, blocks, a, k - 1)
          BY <4>1
        <4>3. g[k - 1] = Step(g, blocks, a, k - 1)
          BY <2>1, <4>1
        <4> HIDE DEF h
        <4>4. QED BY <3>2, <4>2, <4>3 DEF Step
      <3>3. QED BY <3>1, <3>2
    <2>3. Defined(h, m + 1)
      BY <2>2
    <2>4. \E g2 : Defined(g2, m + 1)
      BY <2>3
    <2>5. QED BY <2>4
  <1> HIDE DEF T
  <1>3. n \in T
    BY <1>1, <1>2, InductiveSet
  <1>4. PICK g : Defined(g, n)
    BY <1>3 DEF T
  <1>5. Replay(blocks, a, n) = [k \in 0 .. n |-> Step(Replay(blocks, a, n), blocks, a, k)]
    BY <1>4 DEF Replay
  <1>6. QED BY ONLY <1>5

(* How far it is replayed does not change what was replayed before.        *)
LEMMA ReplayAgrees ==
    ASSUME NEW blocks, NEW a, NEW n \in Nat
    PROVE  \A k \in 0 .. n : Replay(blocks, a, n + 1)[k] = Replay(blocks, a, n)[k]
  <1> DEFINE T == {k \in Nat : k <= n => Replay(blocks, a, n + 1)[k] = Replay(blocks, a, n)[k]}
  <1>1. 0 \in T
    BY ReplayRecursion DEF Step
  <1>2. ASSUME NEW k \in Nat, k \in T PROVE k + 1 \in T
    <2>1. SUFFICES ASSUME k + 1 <= n
                   PROVE  Replay(blocks, a, n + 1)[k + 1] = Replay(blocks, a, n)[k + 1]
      OBVIOUS
    <2>2. k + 1 \in 0 .. n /\ k + 1 \in 0 .. n + 1 /\ k + 1 # 0 /\ (k + 1) - 1 = k
      BY <2>1
    <2>3. Replay(blocks, a, n)[k] = Replay(blocks, a, n + 1)[k]
      BY <1>2, <2>1
    <2>4. /\ Replay(blocks, a, n)[k + 1] = Step(Replay(blocks, a, n), blocks, a, k + 1)
          /\ Replay(blocks, a, n + 1)[k + 1] = Step(Replay(blocks, a, n + 1), blocks, a, k + 1)
      BY <2>2, ReplayRecursion
    <2>5. QED BY <2>2, <2>3, <2>4 DEF Step
  <1> HIDE DEF T
  <1>3. \A k \in 0 .. n : k \in T
    BY <1>1, <1>2, InductiveSet
  <1>4. QED BY <1>3 DEF T

LEMMA ReplayedNone == ASSUME NEW blocks, NEW a PROVE Replayed(blocks, a, 0) = 0
  BY ReplayedIsReplay, ReplayRecursion DEF Step

LEMMA ReplayedNext ==
    ASSUME NEW blocks, NEW a, NEW n \in Nat
    PROVE  Replayed(blocks, a, n + 1) = Replayed(blocks, a, n) + EffectOf(blocks[n + 1], a)
  <1>1. n + 1 \in 0 .. n + 1 /\ n \in 0 .. n /\ n + 1 # 0 /\ (n + 1) - 1 = n
    OBVIOUS
  <1>2. Replay(blocks, a, n + 1)[n + 1] = Step(Replay(blocks, a, n + 1), blocks, a, n + 1)
    BY <1>1, ReplayRecursion
  <1>3. Replay(blocks, a, n + 1)[n] = Replay(blocks, a, n)[n]
    BY <1>1, ReplayAgrees
  <1>4. QED BY <1>1, <1>2, <1>3, ReplayedIsReplay DEF Step

(* What is appended later does not change it either.                       *)
LEMMA ReplayedSame ==
    ASSUME NEW blocks, NEW longer, NEW a, NEW n \in Nat, \A k \in 1 .. n : longer[k] = blocks[k]
    PROVE  Replayed(longer, a, n) = Replayed(blocks, a, n)
  <1> DEFINE T == {k \in Nat : k <= n => Replayed(longer, a, k) = Replayed(blocks, a, k)}
  <1>1. 0 \in T
    BY ReplayedNone
  <1>2. ASSUME NEW k \in Nat, k \in T PROVE k + 1 \in T
    <2>1. SUFFICES ASSUME k + 1 <= n
                   PROVE  Replayed(longer, a, k + 1) = Replayed(blocks, a, k + 1)
      OBVIOUS
    <2>2. longer[k + 1] = blocks[k + 1] /\ Replayed(longer, a, k) = Replayed(blocks, a, k)
      BY <1>2, <2>1
    <2>3. QED BY <2>2, ReplayedNext
  <1> HIDE DEF T
  <1>3. n \in T
    BY <1>1, <1>2, InductiveSet
  <1>4. QED BY <1>3 DEF T
-----------------------------------------------------------------------------
(* The ledger: its types, the supply, the replay of the blocks and the tip.*)

LedgerTypes ==
    /\ balances \in [Account -> Nat]
    /\ logs \in Seq(Block)
    /\ user_logs_pointers \in [Account -> Seq(0 .. Len(logs) - 1)]
    /\ IsFiniteSet(dedup_map) /\ Cardinality(dedup_map) <= MAX_LEN_OF_THE_DEDUP_MAP
    /\ \A d \in dedup_map : d.quest \in TransferQuest /\ d.block \in 1 .. Len(logs)
    /\ time \in Nat
    /\ cycles_out \in [OutCall -> OutState \cup {None}]
    /\ canister_cycles \in Int /\ deposited \in Nat

SupplyIsTheSum == total_supply = SumFunction(balances)

Replays ==
    \A a \in Account :
        /\ Replayed(logs, a, Len(logs)) = balances[a] + OutOf(a)
        /\ \A n \in 0 .. Len(logs) : Replayed(logs, a, n) >= 0

Tip == certified_data = Certified(logs)

LedgerInv == LedgerTypes /\ SupplyIsTheSum /\ Replays /\ Tip

(* What the bank must have besides the total supply, for each cycles_out:  *)
(* the cycles that came back and their fee, or the fee of a deposit that   *)
(* may still fail.                                                         *)
Reserve(out) ==
    IF out = None \/ out.at = "deposited" THEN 0
    ELSE IF out.at = "sent" THEN BANK_TRANSFER_FEE
    ELSE out.cycles + BANK_TRANSFER_FEE
Reserves(outs) == [k \in OutCall |-> Reserve(outs[k])]

Surplus == canister_cycles - total_supply - SumFunction(Reserves(cycles_out))
Solvent == Surplus >= 0

OutFunction(outs, a) ==
    [k \in OutCall |-> IF outs[k] # None /\ outs[k].from = a
                       THEN outs[k].cycles + BANK_TRANSFER_FEE ELSE 0]

-----------------------------------------------------------------------------
(* What the sums over the calls of cycles_out do.                          *)

LEMMA OutStateFacts ==
    /\ BANK_TRANSFER_FEE \in Nat
    /\ \A out \in OutState : /\ out # None /\ out.cycles \in Nat /\ out.from \in Account
                             /\ out.at \in {"sent", "deposited", "failed"}
    /\ \A c \in Cycles : c \in Nat
  BY BankAssumption, NoneAssumption DEF OutState

LEMMA OutOfIsASum ==
    ASSUME NEW a
    PROVE  /\ OutOf(a) = SumFunction(OutFunction(cycles_out, a))
           /\ OutOf(a)' = SumFunction(OutFunction(cycles_out', a))
  <1>1. ASSUME NEW k \in OutCall
        PROVE  k \in UnderWay(a) <=> cycles_out[k] # None /\ cycles_out[k].from = a
    BY DEF UnderWay, OutUnderWay
  <1>2. ASSUME NEW k \in OutCall
        PROVE  k \in UnderWay(a)' <=> cycles_out'[k] # None /\ cycles_out'[k].from = a
    BY DEF UnderWay, OutUnderWay
  <1>3. [k \in OutCall |-> IF k \in UnderWay(a) THEN cycles_out[k].cycles + BANK_TRANSFER_FEE ELSE 0]
        = OutFunction(cycles_out, a)
    BY <1>1 DEF OutFunction
  <1>4. [k \in OutCall |-> IF k \in UnderWay(a)' THEN cycles_out'[k].cycles + BANK_TRANSFER_FEE ELSE 0]
        = OutFunction(cycles_out', a)
    BY <1>2 DEF OutFunction
  <1>5. QED BY <1>3, <1>4 DEF OutOf

LEMMA OutFunctionType ==
    ASSUME NEW outs \in [OutCall -> OutState \cup {None}], NEW a
    PROVE  /\ OutFunction(outs, a) \in [OutCall -> Nat]
           /\ Reserves(outs) \in [OutCall -> Nat]
  <1>1. ASSUME NEW k \in OutCall
        PROVE  /\ (IF outs[k] # None /\ outs[k].from = a
                   THEN outs[k].cycles + BANK_TRANSFER_FEE ELSE 0) \in Nat
               /\ Reserve(outs[k]) \in Nat
    <2>1. outs[k] \in OutState \/ outs[k] = None
      OBVIOUS
    <2>2. QED BY <2>1, OutStateFacts DEF Reserve
  <1>2. QED BY <1>1 DEF OutFunction, Reserves

(* When one call begins, ends or changes its state, the sums change by it. *)
LEMMA SumsOfOuts ==
    ASSUME NEW outs \in [OutCall -> OutState \cup {None}],
           NEW news \in [OutCall -> OutState \cup {None}],
           NEW k \in OutCall, \A j \in OutCall \ {k} : news[j] = outs[j], NEW a
    PROVE  /\ SumFunction(OutFunction(outs, a)) \in Nat
           /\ SumFunction(OutFunction(news, a)) \in Nat
           /\ SumFunction(OutFunction(news, a))
              = SumFunction(OutFunction(outs, a)) - OutFunction(outs, a)[k] + OutFunction(news, a)[k]
           /\ SumFunction(Reserves(outs)) \in Nat
           /\ SumFunction(Reserves(news)) \in Nat
           /\ SumFunction(Reserves(news))
              = SumFunction(Reserves(outs)) - Reserve(outs[k]) + Reserve(news[k])
  <1>1. IsFiniteSet(OutCall)
    BY BankAssumption
  <1>2. /\ OutFunction(outs, a) \in [OutCall -> Nat] /\ OutFunction(news, a) \in [OutCall -> Nat]
        /\ Reserves(outs) \in [OutCall -> Nat] /\ Reserves(news) \in [OutCall -> Nat]
    BY OutFunctionType
  <1>3. \A j \in OutCall \ {k} : /\ OutFunction(news, a)[j] = OutFunction(outs, a)[j]
                                 /\ Reserves(news)[j] = Reserves(outs)[j]
    BY DEF OutFunction, Reserves
  <1>4. Reserves(outs)[k] = Reserve(outs[k]) /\ Reserves(news)[k] = Reserve(news[k])
    BY DEF Reserves
  <1>5. QED BY <1>1, <1>2, <1>3, <1>4, SumWithAnother

LEMMA OutOfType ==
    ASSUME cycles_out \in [OutCall -> OutState \cup {None}], NEW a
    PROVE  OutOf(a) \in Nat
  BY BankAssumption, OutFunctionType, OutOfIsASum, SumFunctionType

LEMMA SumOfBalances ==
    ASSUME NEW bals \in [Account -> Nat], NEW a \in Account, NEW amount \in Nat
    PROVE  /\ SumFunction(bals) \in Nat /\ bals[a] \in Nat /\ bals[a] <= SumFunction(bals)
           /\ SumFunction([bals EXCEPT ![a] = amount]) = SumFunction(bals) - bals[a] + amount
  <1> DEFINE news == [bals EXCEPT ![a] = amount]
  <1>1. news \in [Account -> Nat] /\ news[a] = amount /\ \A b \in Account \ {a} : news[b] = bals[b]
    OBVIOUS
  <1> HIDE DEF news
  <1>2. IsFiniteSet(Account)
    BY BankAssumption
  <1>3. /\ SumFunction(bals) \in Nat
        /\ SumFunction(news) = SumFunction(bals) - bals[a] + news[a]
        /\ bals[a] <= SumFunction(bals)
    BY <1>1, <1>2, SumWithAnother
  <1>4. QED BY <1>1, <1>3 DEF news

(* What the bank has to spare is a number.                                 *)
LEMMA SurplusType ==
    ASSUME LedgerInv
    PROVE  /\ Surplus \in Int /\ total_supply \in Nat /\ canister_cycles \in Int
           /\ SumFunction(Reserves(cycles_out)) \in Nat
  <1>1. SumFunction(balances) \in Nat /\ SumFunction(Reserves(cycles_out)) \in Nat
    BY BankAssumption, SumFunctionType, OutFunctionType DEF LedgerInv, LedgerTypes
  <1>2. QED BY <1>1 DEF Surplus, LedgerInv, LedgerTypes, SupplyIsTheSum

LEMMA NextSurplusType == ASSUME LedgerInv' PROVE Surplus' \in Int
  <1>1. SumFunction(balances') \in Nat /\ SumFunction(Reserves(cycles_out')) \in Nat
    BY BankAssumption, SumFunctionType, OutFunctionType DEF LedgerInv, LedgerTypes
  <1>2. QED BY <1>1 DEF Surplus, LedgerInv, LedgerTypes, SupplyIsTheSum

-----------------------------------------------------------------------------
(* What writing a block does.                                              *)

LEMMA PushedBlock ==
    ASSUME LedgerTypes, NEW block \in Block, PushLog(block)
    PROVE  /\ logs' \in Seq(Block) /\ Len(logs') = Len(logs) + 1 /\ Len(logs) \in Nat
           /\ \A i \in 1 .. Len(logs) : logs'[i] = logs[i]
           /\ logs'[Len(logs) + 1] = block
           /\ user_logs_pointers' \in [Account -> Seq(0 .. Len(logs') - 1)]
  <1>1. /\ logs' \in Seq(Block) /\ Len(logs') = Len(logs) + 1 /\ Len(logs) \in Nat
        /\ \A i \in 1 .. Len(logs) : logs'[i] = logs[i]
        /\ logs'[Len(logs) + 1] = block
    BY DEF LedgerTypes, PushLog
  <1>2. ASSUME NEW a \in Account
        PROVE  PointersTo(block)[a] \in Seq(0 .. Len(logs') - 1)
    <2> DEFINE old == user_logs_pointers[a]
    <2>1. 0 .. Len(logs) - 1 \subseteq 0 .. Len(logs') - 1 /\ Len(logs) \in 0 .. Len(logs') - 1
      BY <1>1
    <2>2. old \in Seq(0 .. Len(logs) - 1)
      BY DEF LedgerTypes
    <2> HIDE DEF old
    <2>3. old \in Seq(0 .. Len(logs') - 1)
      BY <2>1, <2>2, SeqMonotonic
    <2>4. Append(old, Len(logs)) \in Seq(0 .. Len(logs') - 1)
      BY <2>1, <2>3, AppendProperties
    <2>5. PointersTo(block)[a] \in {old, Append(old, Len(logs))}
      BY DEF PointersTo, old
    <2>6. QED BY <2>3, <2>4, <2>5
  <1>3. user_logs_pointers' = PointersTo(block)
    BY DEF PushLog
  <1>4. user_logs_pointers' \in [Account -> Seq(0 .. Len(logs') - 1)]
    BY <1>2, <1>3 DEF PointersTo
  <1>5. QED BY <1>1, <1>3, <1>4

LEMMA BlockReplays ==
    ASSUME LedgerTypes, Replays, NEW block \in Block, PushLog(block),
           balances' \in [Account -> Nat], cycles_out' \in [OutCall -> OutState \cup {None}],
           \A a \in Account : balances'[a] + OutOf(a)' = balances[a] + OutOf(a) + EffectOf(block, a)
    PROVE  Replays'
  <1> SUFFICES ASSUME NEW a \in Account
               PROVE  /\ Replayed(logs', a, Len(logs')) = balances'[a] + OutOf(a)'
                      /\ \A n \in 0 .. Len(logs') : Replayed(logs', a, n) >= 0
    BY DEF Replays
  <1>1. /\ Len(logs') = Len(logs) + 1 /\ Len(logs) \in Nat
        /\ \A i \in 1 .. Len(logs) : logs'[i] = logs[i]
        /\ logs'[Len(logs) + 1] = block
    BY PushedBlock
  <1>2. \A n \in 0 .. Len(logs) : Replayed(logs', a, n) = Replayed(logs, a, n)
    BY <1>1, ReplayedSame
  <1>3. Replayed(logs', a, Len(logs')) = Replayed(logs, a, Len(logs)) + EffectOf(block, a)
    <2> DEFINE len == Len(logs)
    <2> HIDE DEF len
    <2>1. Replayed(logs', a, len + 1) = Replayed(logs', a, len) + EffectOf(logs'[len + 1], a)
      BY <1>1, ReplayedNext DEF len
    <2>2. Replayed(logs', a, len) = Replayed(logs, a, len)
      BY <1>1, <1>2 DEF len
    <2>3. logs'[len + 1] = block /\ Len(logs') = len + 1
      BY <1>1 DEF len
    <2>4. QED BY ONLY <2>1, <2>2, <2>3 DEF len
  <1>4. Replayed(logs', a, Len(logs')) = balances'[a] + OutOf(a)'
    BY <1>3 DEF Replays
  <1>5. balances'[a] \in Nat /\ OutOf(a)' \in Nat
    <2>1. OutFunction(cycles_out', a) \in [OutCall -> Nat]
      BY OutFunctionType
    <2>2. SumFunction(OutFunction(cycles_out', a)) \in Nat
      BY <2>1, BankAssumption, SumFunctionType
    <2>3. QED BY <2>2, OutOfIsASum
  <1>6. ASSUME NEW n \in 0 .. Len(logs') PROVE Replayed(logs', a, n) >= 0
    <2>1. CASE n \in 0 .. Len(logs)
      BY <1>2, <2>1 DEF Replays
    <2>2. CASE n = Len(logs')
      BY <1>4, <1>5, <2>2
    <2>3. QED BY <1>1, <2>1, <2>2
  <1>7. QED BY <1>4, <1>6

LEMMA NoBlockReplays ==
    ASSUME Replays, UNCHANGED logs,
           \A a \in Account : balances'[a] + OutOf(a)' = balances[a] + OutOf(a)
    PROVE  Replays'
  BY DEF Replays

LEMMA EffectOfMint ==
    ASSUME NEW a, NEW to, NEW amt \in Nat, NEW icp
    PROVE  EffectOf([op |-> "mint", to |-> to, amt |-> amt, icp |-> icp], a)
           = IF to = a THEN amt ELSE 0
  BY DEF EffectOf

LEMMA EffectOfBurn ==
    ASSUME NEW a, NEW from, NEW amt \in Nat
    PROVE  EffectOf([op |-> "burn", from |-> from, amt |-> amt], a)
           = IF from = a THEN 0 - amt ELSE 0
  BY DEF EffectOf

LEMMA EffectOfTransfer ==
    ASSUME NEW a, NEW from, NEW to, NEW amt \in Nat, NEW ts
    PROVE  EffectOf([op |-> "xfer", from |-> from, to |-> to, amt |-> amt, ts |-> ts], a)
           = (IF to = a THEN amt ELSE 0) - (IF from = a THEN amt + BANK_TRANSFER_FEE ELSE 0)
  BY OutStateFacts DEF EffectOf

(* What is on its way out of the accounts, when nothing begins or ends.    *)
LEMMA SameOuts ==
    ASSUME UNCHANGED cycles_out
    PROVE  \A a : OutOf(a)' = OutOf(a)
  BY OutOfIsASum

-----------------------------------------------------------------------------
(* The steps of the bank.                                                  *)

(* A step that changes no balance, block or call of cycles_out.            *)
LEMMA QuietStep ==
    ASSUME LedgerInv, UNCHANGED <<balances, total_supply, logs, cycles_out>>, Tip',
           user_logs_pointers' \in [Account -> Seq(0 .. Len(logs) - 1)],
           dedup_map' \subseteq dedup_map, time' \in Nat,
           canister_cycles' \in Int, canister_cycles' >= canister_cycles, deposited' \in Nat
    PROVE  LedgerInv' /\ Surplus' >= Surplus
  <1>1. IsFiniteSet(dedup_map') /\ Cardinality(dedup_map') <= MAX_LEN_OF_THE_DEDUP_MAP
    <2>1. IsFiniteSet(dedup_map) /\ Cardinality(dedup_map) <= MAX_LEN_OF_THE_DEDUP_MAP
      BY DEF LedgerInv, LedgerTypes
    <2>2. /\ IsFiniteSet(dedup_map') /\ Cardinality(dedup_map') <= Cardinality(dedup_map)
          /\ Cardinality(dedup_map') \in Nat /\ Cardinality(dedup_map) \in Nat
      BY <2>1, FS_Subset, FS_CardinalityType
    <2>3. MAX_LEN_OF_THE_DEDUP_MAP \in Nat
      BY BankAssumption
    <2>4. QED BY <2>1, <2>2, <2>3
  <1>2. LedgerTypes'
    BY <1>1 DEF LedgerInv, LedgerTypes
  <1>3. Replays'
    BY NoBlockReplays, SameOuts DEF LedgerInv
  <1>4. SumFunction(balances) \in Nat /\ SumFunction(Reserves(cycles_out)) \in Nat
    BY BankAssumption, SumFunctionType, OutFunctionType DEF LedgerInv, LedgerTypes
  <1>5. Surplus' >= Surplus
    BY <1>4 DEF Surplus, LedgerInv, LedgerTypes, SupplyIsTheSum
  <1>6. QED BY <1>2, <1>3, <1>5 DEF LedgerInv, SupplyIsTheSum

(* A step that writes a block and certifies it, and changes at most one    *)
(* call of cycles_out and the balances and the supply with it.             *)
LEMMA BlockStep ==
    ASSUME LedgerInv, NEW block \in Block, PushLog(block), SetRootHash,
           balances' \in [Account -> Nat], total_supply' = SumFunction(balances'),
           IsFiniteSet(dedup_map') /\ Cardinality(dedup_map') <= MAX_LEN_OF_THE_DEDUP_MAP,
           \A d \in dedup_map' : \/ d \in dedup_map
                                 \/ d.quest \in TransferQuest /\ d.block = Len(logs) + 1,
           cycles_out' \in [OutCall -> OutState \cup {None}],
           canister_cycles' \in Int, UNCHANGED <<time, deposited>>,
           \A a \in Account : balances'[a] + OutOf(a)' = balances[a] + OutOf(a) + EffectOf(block, a)
    PROVE  LedgerInv'
  <1>1. /\ logs' \in Seq(Block) /\ Len(logs') = Len(logs) + 1 /\ Len(logs) \in Nat
        /\ user_logs_pointers' \in [Account -> Seq(0 .. Len(logs') - 1)]
        /\ Tip'
    BY PushedBlock DEF LedgerInv, SetRootHash, Tip
  <1>2. \A d \in dedup_map' : d.quest \in TransferQuest /\ d.block \in 1 .. Len(logs')
    BY <1>1 DEF LedgerInv, LedgerTypes
  <1>3. LedgerTypes'
    BY <1>1, <1>2 DEF LedgerInv, LedgerTypes
  <1>4. Replays'
    BY BlockReplays DEF LedgerInv
  <1>5. QED BY <1>1, <1>3, <1>4 DEF LedgerInv, SupplyIsTheSum

(* An account is credited and the block of a mint is written.              *)
LEMMA CreditStep ==
    ASSUME LedgerInv, NEW to \in Account, NEW amount \in Nat, NEW icp \in Nat \cup {None},
           Credit(to, amount),
           PushLog([op |-> "mint", to |-> to, amt |-> amount, icp |-> icp]), SetRootHash,
           canister_cycles' \in Int, UNCHANGED <<dedup_map, time, cycles_out, deposited>>
    PROVE  /\ LedgerInv'
           /\ Surplus' = Surplus + (canister_cycles' - canister_cycles) - amount
  <1> DEFINE block == [op |-> "mint", to |-> to, amt |-> amount, icp |-> icp]
  <1>1. block \in Block
    BY DEF Block
  <1>2. /\ balances \in [Account -> Nat] /\ total_supply = SumFunction(balances)
        /\ cycles_out \in [OutCall -> OutState \cup {None}] /\ canister_cycles \in Int
        /\ IsFiniteSet(dedup_map) /\ Cardinality(dedup_map) <= MAX_LEN_OF_THE_DEDUP_MAP
    BY DEF LedgerInv, LedgerTypes, SupplyIsTheSum
  <1>3. /\ balances[to] \in Nat /\ balances[to] + amount \in Nat
        /\ balances' = [balances EXCEPT ![to] = balances[to] + amount]
        /\ total_supply' = total_supply + amount
    BY <1>2 DEF Credit
  <1>4. balances' \in [Account -> Nat]
    BY <1>2, <1>3
  <1>5. /\ SumFunction(balances) \in Nat
        /\ SumFunction(balances') = SumFunction(balances) - balances[to] + (balances[to] + amount)
    BY <1>2, <1>3, SumOfBalances
  <1>6. total_supply' = SumFunction(balances')
    BY <1>2, <1>3, <1>5
  <1>7. ASSUME NEW a \in Account
        PROVE  balances'[a] + OutOf(a)' = balances[a] + OutOf(a) + EffectOf(block, a)
    <2>1. OutOf(a)' = OutOf(a) /\ OutOf(a) \in Nat
      BY <1>2, SameOuts, OutOfType
    <2>2. EffectOf(block, a) = IF to = a THEN amount ELSE 0
      BY EffectOfMint
    <2>3. balances'[a] = balances[a] + (IF to = a THEN amount ELSE 0) /\ balances[a] \in Nat
      BY <1>2, <1>3
    <2> HIDE DEF block
    <2>4. QED BY <2>1, <2>2, <2>3
  <1>8. LedgerInv'
    <2> HIDE DEF block
    <2>1. PushLog(block)
      BY DEF block
    <2>2. /\ IsFiniteSet(dedup_map') /\ Cardinality(dedup_map') <= MAX_LEN_OF_THE_DEDUP_MAP
          /\ \A d \in dedup_map' : d \in dedup_map
          /\ cycles_out' \in [OutCall -> OutState \cup {None}]
      BY <1>2
    <2>3. QED BY <1>1, <1>4, <1>6, <1>7, <2>1, <2>2, BlockStep
  <1>9. SumFunction(Reserves(cycles_out)) \in Nat
    BY <1>2, BankAssumption, SumFunctionType, OutFunctionType
  <1>10. Surplus' = Surplus + (canister_cycles' - canister_cycles) - amount
    BY <1>2, <1>3, <1>5, <1>9 DEF Surplus
  <1>11. QED BY <1>8, <1>10

(* A transfer debits one account and then credits one, which may be the    *)
(* same.                                                                   *)
LEMMA MovedFacts ==
    ASSUME balances \in [Account -> Nat], NEW from \in Account, NEW to \in Account,
           NEW amount \in Nat, balances[from] >= amount + BANK_TRANSFER_FEE
    PROVE  /\ Moved(from, to, amount) \in [Account -> Nat]
           /\ SumFunction(balances) \in Nat
           /\ SumFunction(Moved(from, to, amount)) = SumFunction(balances) - BANK_TRANSFER_FEE
           /\ \A a \in Account :
                 Moved(from, to, amount)[a]
                 = balances[a] + (IF to = a THEN amount ELSE 0)
                               - (IF from = a THEN amount + BANK_TRANSFER_FEE ELSE 0)
  <1> DEFINE rest == balances[from] - (amount + BANK_TRANSFER_FEE)
             debited == [balances EXCEPT ![from] = rest]
             sum == debited[to] + amount
  <1>1. balances[from] \in Nat /\ BANK_TRANSFER_FEE \in Nat /\ rest \in Nat
    BY OutStateFacts
  <1>2. debited \in [Account -> Nat]
    BY <1>1
  <1>3. /\ SumFunction(balances) \in Nat
        /\ SumFunction(debited) = SumFunction(balances) - balances[from] + rest
    BY <1>1, SumOfBalances
  <1>4. Moved(from, to, amount) = [debited EXCEPT ![to] = sum]
    BY DEF Moved
  <1>5. debited[from] = rest /\ \A a \in Account \ {from} : debited[a] = balances[a]
    BY DEF debited
  <1> HIDE DEF debited
  <1>6. sum \in Nat /\ debited[to] \in Nat
    BY <1>2
  <1> HIDE DEF sum
  <1>7. /\ SumFunction([debited EXCEPT ![to] = sum]) = SumFunction(debited) - debited[to] + sum
        /\ SumFunction(debited) \in Nat
    BY <1>2, <1>6, SumOfBalances
  <1>8. SumFunction(Moved(from, to, amount)) = SumFunction(balances) - BANK_TRANSFER_FEE
    BY <1>1, <1>3, <1>4, <1>6, <1>7 DEF sum
  <1>9. Moved(from, to, amount) \in [Account -> Nat]
    BY <1>2, <1>4, <1>6
  <1>10. ASSUME NEW a \in Account
         PROVE  Moved(from, to, amount)[a]
                = balances[a] + (IF to = a THEN amount ELSE 0)
                              - (IF from = a THEN amount + BANK_TRANSFER_FEE ELSE 0)
    <2>1. Moved(from, to, amount)[a] = IF to = a THEN sum ELSE debited[a]
      BY <1>2, <1>4
    <2>2. balances[a] \in Nat /\ debited[a] \in Nat
      BY <1>2
    <2>3. CASE to = a
      BY <1>1, <1>5, <2>1, <2>2, <2>3 DEF sum
    <2>4. CASE to # a
      BY <1>1, <1>5, <2>1, <2>2, <2>4
    <2>5. QED BY <2>3, <2>4
  <1>11. QED BY <1>3, <1>8, <1>9, <1>10

LEMMA TransferLedger ==
    ASSUME LedgerInv, NEW q \in TransferQuest, Transfer(q)
    PROVE  LedgerInv' /\ Surplus' >= Surplus
  <1> DEFINE block == [op |-> "xfer", from |-> q.from, to |-> q.to, amt |-> q.amount,
                       ts |-> q.created_at_time]
             entry == [quest |-> q, block |-> Len(logs) + 1]
  <1>1. /\ q.from \in Account /\ q.to \in Account /\ q.amount \in Nat
        /\ q.created_at_time \in Nat \cup {None}
    BY BankAssumption DEF TransferQuest
  <1>2. block \in Block /\ PushLog(block) /\ SetRootHash
    BY <1>1, BlockFacts DEF Transfer
  <1>3. /\ balances \in [Account -> Nat] /\ total_supply = SumFunction(balances)
        /\ cycles_out \in [OutCall -> OutState \cup {None}] /\ canister_cycles \in Int
        /\ IsFiniteSet(dedup_map) /\ Cardinality(dedup_map) <= MAX_LEN_OF_THE_DEDUP_MAP
    BY DEF LedgerInv, LedgerTypes, SupplyIsTheSum
  <1>4. /\ balances' = Moved(q.from, q.to, q.amount)
        /\ total_supply' = total_supply - BANK_TRANSFER_FEE
        /\ balances[q.from] >= q.amount + BANK_TRANSFER_FEE
        /\ UNCHANGED <<time, cycles_out, canister_cycles, deposited>>
    BY DEF Transfer
  <1>5. /\ balances' \in [Account -> Nat]
        /\ total_supply' = SumFunction(balances')
        /\ SumFunction(balances) \in Nat
        /\ \A a \in Account : balances'[a] = balances[a] + (IF q.to = a THEN q.amount ELSE 0)
                                - (IF q.from = a THEN q.amount + BANK_TRANSFER_FEE ELSE 0)
    BY <1>1, <1>3, <1>4, MovedFacts
  <1>6. ASSUME NEW a \in Account
        PROVE  balances'[a] + OutOf(a)' = balances[a] + OutOf(a) + EffectOf(block, a)
    <2>1. OutOf(a)' = OutOf(a) /\ OutOf(a) \in Nat
      BY <1>3, <1>4, SameOuts, OutOfType
    <2>2. EffectOf(block, a) = (IF q.to = a THEN q.amount ELSE 0)
                               - (IF q.from = a THEN q.amount + BANK_TRANSFER_FEE ELSE 0)
      BY <1>1, OutStateFacts DEF EffectOf
    <2> HIDE DEF block
    <2>3. balances[a] \in Nat /\ BANK_TRANSFER_FEE \in Nat
      BY <1>3, OutStateFacts
    <2>4. QED BY <1>1, <1>5, <2>1, <2>2, <2>3
  <1>7. /\ IsFiniteSet(dedup_map') /\ Cardinality(dedup_map') <= MAX_LEN_OF_THE_DEDUP_MAP
        /\ \A d \in dedup_map' : \/ d \in dedup_map
                                 \/ d.quest \in TransferQuest /\ d.block = Len(logs) + 1
    <2>1. CASE q.created_at_time = None
      BY <1>3, <2>1 DEF Transfer
    <2>2. CASE q.created_at_time # None
      <3>1. dedup_map' = PrunedMap \cup {entry} /\ Cardinality(PrunedMap) < MAX_LEN_OF_THE_DEDUP_MAP
        BY <2>2 DEF Transfer, MayTransferOnce
      <3>2. PrunedMap \subseteq dedup_map
        BY DEF PrunedMap
      <3>3. IsFiniteSet(PrunedMap) /\ Cardinality(PrunedMap) \in Nat
        BY <1>3, <3>2, FS_Subset, FS_CardinalityType
      <3>4. /\ IsFiniteSet(PrunedMap \cup {entry})
            /\ Cardinality(PrunedMap \cup {entry}) <= Cardinality(PrunedMap) + 1
        BY <3>3, FS_AddElement
      <3>5. /\ MAX_LEN_OF_THE_DEDUP_MAP \in Nat /\ Cardinality(PrunedMap \cup {entry}) \in Nat
        BY <3>4, BankAssumption, FS_CardinalityType
      <3>6. Cardinality(PrunedMap \cup {entry}) <= MAX_LEN_OF_THE_DEDUP_MAP
        BY <3>1, <3>3, <3>4, <3>5
      <3>7. entry.quest \in TransferQuest /\ entry.block = Len(logs) + 1
        OBVIOUS
      <3>8. QED BY <3>1, <3>2, <3>4, <3>6, <3>7
    <2>3. QED BY <2>1, <2>2
  <1>8. LedgerInv'
    <2> HIDE DEF block, entry
    <2>1. cycles_out' \in [OutCall -> OutState \cup {None}] /\ canister_cycles' \in Int
      BY <1>3, <1>4
    <2>2. QED BY <1>2, <1>4, <1>5, <1>6, <1>7, <2>1, BlockStep
  <1>9. SumFunction(Reserves(cycles_out)) \in Nat
    BY <1>3, BankAssumption, SumFunctionType, OutFunctionType
  <1>10. Surplus' >= Surplus
    BY <1>3, <1>4, <1>5, <1>9, OutStateFacts DEF Surplus
  <1>11. QED BY <1>8, <1>10

(* A step of cycles_out that writes no block: it begins, its cycles reach  *)
(* the other canister or come back, or it is refunded.                     *)
LEMMA OutStep ==
    ASSUME LedgerInv, UNCHANGED <<log_vars, dedup_map, time>>,
           balances' \in [Account -> Nat], total_supply' = SumFunction(balances'),
           cycles_out' \in [OutCall -> OutState \cup {None}],
           canister_cycles' \in Int, deposited' \in Nat,
           \A a \in Account : balances'[a] + OutOf(a)' = balances[a] + OutOf(a)
    PROVE  LedgerInv'
  <1>1. LedgerTypes'
    BY DEF LedgerInv, LedgerTypes, log_vars
  <1>2. Replays' /\ Tip'
    BY NoBlockReplays DEF LedgerInv, Tip, log_vars
  <1>3. QED BY <1>1, <1>2 DEF LedgerInv, SupplyIsTheSum

(* What SumsOfOuts says of a step that changes one call.                   *)
LEMMA OutChange ==
    ASSUME LedgerInv, NEW k \in OutCall, cycles_out' \in [OutCall -> OutState \cup {None}],
           \A j \in OutCall \ {k} : cycles_out'[j] = cycles_out[j]
    PROVE  /\ \A a : OutOf(a) \in Nat
                     /\ OutOf(a)' = OutOf(a) - OutFunction(cycles_out, a)[k]
                                             + OutFunction(cycles_out', a)[k]
           /\ SumFunction(Reserves(cycles_out)) \in Nat
           /\ SumFunction(Reserves(cycles_out'))
              = SumFunction(Reserves(cycles_out)) - Reserve(cycles_out[k]) + Reserve(cycles_out'[k])
  <1>1. cycles_out \in [OutCall -> OutState \cup {None}]
    BY DEF LedgerInv, LedgerTypes
  <1>2. /\ SumFunction(Reserves(cycles_out)) \in Nat
        /\ SumFunction(Reserves(cycles_out'))
           = SumFunction(Reserves(cycles_out)) - Reserve(cycles_out[k]) + Reserve(cycles_out'[k])
    BY <1>1, SumsOfOuts
  <1>3. ASSUME NEW a
        PROVE  /\ OutOf(a) \in Nat
               /\ OutOf(a)' = OutOf(a) - OutFunction(cycles_out, a)[k]
                                       + OutFunction(cycles_out', a)[k]
    <2>1. /\ SumFunction(OutFunction(cycles_out, a)) \in Nat
          /\ SumFunction(OutFunction(cycles_out', a))
             = SumFunction(OutFunction(cycles_out, a)) - OutFunction(cycles_out, a)[k]
                                                       + OutFunction(cycles_out', a)[k]
      BY <1>1, SumsOfOuts
    <2>2. QED BY <2>1, OutOfIsASum
  <1>4. QED BY <1>2, <1>3

LEMMA CyclesOutLedger ==
    ASSUME LedgerInv, NEW k \in OutCall, NEW from \in Account, NEW cycles \in Cycles,
           CyclesOut(k, from, cycles)
    PROVE  LedgerInv' /\ Surplus' >= Surplus
  <1> DEFINE debit == cycles + BANK_TRANSFER_FEE
             rest == balances[from] - debit
             out == [from |-> from, cycles |-> cycles, at |-> "sent"]
  <1>1. /\ balances \in [Account -> Nat] /\ total_supply = SumFunction(balances)
        /\ cycles_out \in [OutCall -> OutState \cup {None}] /\ canister_cycles \in Int
        /\ deposited \in Nat
    BY DEF LedgerInv, LedgerTypes, SupplyIsTheSum
  <1>2. /\ cycles_out[k] = None /\ cycles_out' = [cycles_out EXCEPT ![k] = out]
        /\ balances[from] >= debit /\ balances' = [balances EXCEPT ![from] = rest]
        /\ total_supply' = total_supply - debit
        /\ canister_cycles' = canister_cycles - cycles
        /\ UNCHANGED <<log_vars, dedup_map, time, deposited>>
    BY <1>1 DEF CyclesOut
  <1>3. cycles \in Nat /\ BANK_TRANSFER_FEE \in Nat /\ debit \in Nat
    BY OutStateFacts
  <1>4. balances[from] \in Nat /\ rest \in Nat
    BY <1>1, <1>2, <1>3
  <1>5. out \in OutState /\ out # None
    BY NoneAssumption DEF OutState
  <1>6. cycles_out' \in [OutCall -> OutState \cup {None}] /\ cycles_out'[k] = out
    BY <1>1, <1>2, <1>5
  <1>7. \A j \in OutCall \ {k} : cycles_out'[j] = cycles_out[j]
    BY <1>1, <1>2
  <1>8. balances' \in [Account -> Nat]
    BY <1>1, <1>2, <1>4
  <1>9. /\ SumFunction(balances) \in Nat
        /\ SumFunction(balances') = SumFunction(balances) - balances[from] + rest
    BY <1>1, <1>2, <1>4, SumOfBalances
  <1>10. total_supply' = SumFunction(balances')
    BY <1>1, <1>2, <1>3, <1>4, <1>9
  <1>11. out.from = from /\ out.cycles = cycles /\ out.at = "sent"
    OBVIOUS
  <1> HIDE DEF out
  <1>12. ASSUME NEW a \in Account PROVE balances'[a] + OutOf(a)' = balances[a] + OutOf(a)
    <2>1. OutFunction(cycles_out, a)[k] = 0
      BY <1>2 DEF OutFunction
    <2>2. OutFunction(cycles_out', a)[k] = IF from = a THEN debit ELSE 0
      BY <1>5, <1>6, <1>11 DEF OutFunction
    <2> HIDE DEF debit
    <2>3. OutOf(a) \in Nat /\ OutOf(a)' = OutOf(a) - 0 + (IF from = a THEN debit ELSE 0)
      BY <1>6, <1>7, <2>1, <2>2, OutChange
    <2>4. balances[a] \in Nat /\ balances'[a] = IF from = a THEN rest ELSE balances[a]
      BY <1>1, <1>2
    <2>5. QED BY <1>3, <1>4, <2>3, <2>4
  <1>13. LedgerInv'
    <2>1. canister_cycles' \in Int /\ deposited' \in Nat
      BY <1>1, <1>2, <1>3
    <2>2. QED BY <1>2, <1>6, <1>8, <1>10, <1>12, <2>1, OutStep
  <1>14. Surplus' >= Surplus
    <2>1. Reserve(cycles_out[k]) = 0 /\ Reserve(cycles_out'[k]) = BANK_TRANSFER_FEE
      BY <1>2, <1>5, <1>6, <1>11 DEF Reserve
    <2>2. /\ SumFunction(Reserves(cycles_out)) \in Nat
          /\ SumFunction(Reserves(cycles_out'))
             = SumFunction(Reserves(cycles_out)) - 0 + BANK_TRANSFER_FEE
      BY <1>6, <1>7, <2>1, OutChange
    <2>3. QED BY <1>1, <1>2, <1>3, <1>9, <2>2 DEF Surplus
  <1>15. QED BY <1>13, <1>14

LEMMA DepositCyclesLedger ==
    ASSUME LedgerInv, NEW k \in OutCall, DepositCycles(k)
    PROVE  LedgerInv' /\ Surplus' >= Surplus
  <1> DEFINE cycles == cycles_out[k].cycles
             out(at) == [cycles_out[k] EXCEPT !.at = at]
  <1>1. /\ balances \in [Account -> Nat] /\ total_supply = SumFunction(balances)
        /\ cycles_out \in [OutCall -> OutState \cup {None}] /\ canister_cycles \in Int
        /\ deposited \in Nat
    BY DEF LedgerInv, LedgerTypes, SupplyIsTheSum
  <1>2. /\ cycles_out[k] \in OutState /\ cycles_out[k] # None /\ cycles_out[k].at = "sent"
        /\ cycles \in Nat /\ BANK_TRANSFER_FEE \in Nat
    BY <1>1, OutStateFacts DEF DepositCycles
  <1>3. PICK at \in {"deposited", "failed"} :
           /\ cycles_out' = [cycles_out EXCEPT ![k] = out(at)]
           /\ at = "deposited" => canister_cycles' = canister_cycles /\ deposited' = deposited + cycles
           /\ at = "failed" => canister_cycles' = canister_cycles + cycles /\ deposited' = deposited
    BY DEF DepositCycles
  <1>4. UNCHANGED <<ledger, dedup_map, time>>
    BY DEF DepositCycles
  <1>5. /\ out(at) \in OutState /\ out(at) # None /\ out(at).at = at
        /\ out(at).from = cycles_out[k].from /\ out(at).cycles = cycles
    <2>1. out(at) \in OutState
      BY <1>2 DEF OutState
    <2>2. QED BY <1>2, <2>1, OutStateFacts DEF OutState
  <1> HIDE DEF out
  <1>6. cycles_out' \in [OutCall -> OutState \cup {None}] /\ cycles_out'[k] = out(at)
    BY <1>1, <1>3, <1>5
  <1>7. \A j \in OutCall \ {k} : cycles_out'[j] = cycles_out[j]
    BY <1>1, <1>3
  <1>8. SumFunction(balances) \in Nat
    BY <1>1, BankAssumption, SumFunctionType
  <1>9. ASSUME NEW a \in Account PROVE balances'[a] + OutOf(a)' = balances[a] + OutOf(a)
    <2>1. OutFunction(cycles_out', a)[k] = OutFunction(cycles_out, a)[k]
      BY <1>2, <1>5, <1>6 DEF OutFunction
    <2>2. OutFunction(cycles_out, a)[k] \in Nat
      BY <1>1, OutFunctionType
    <2>3. OutOf(a) \in Nat /\ OutOf(a)' = OutOf(a)
      BY <1>6, <1>7, <2>1, <2>2, OutChange
    <2>4. QED BY <1>4, <2>3 DEF ledger
  <1>10. canister_cycles' \in Int /\ deposited' \in Nat
    BY <1>1, <1>2, <1>3
  <1>11. LedgerInv'
    <2>1. /\ UNCHANGED <<log_vars, dedup_map, time>>
          /\ balances' \in [Account -> Nat] /\ total_supply' = SumFunction(balances')
      BY <1>1, <1>4 DEF ledger
    <2>2. QED BY <1>6, <1>9, <1>10, <2>1, OutStep
  <1>12. Surplus' >= Surplus
    <2>1. /\ Reserve(cycles_out[k]) = BANK_TRANSFER_FEE
          /\ at = "deposited" => Reserve(cycles_out'[k]) = 0
          /\ at = "failed" => Reserve(cycles_out'[k]) = cycles + BANK_TRANSFER_FEE
      BY <1>2, <1>5, <1>6 DEF Reserve
    <2>2. /\ SumFunction(Reserves(cycles_out)) \in Nat
          /\ SumFunction(Reserves(cycles_out')) = SumFunction(Reserves(cycles_out))
                - Reserve(cycles_out[k]) + Reserve(cycles_out'[k])
      BY <1>6, <1>7, OutChange
    <2>3. total_supply' = total_supply /\ total_supply \in Nat
      BY <1>1, <1>4, <1>8 DEF ledger
    <2>4. at = "deposited" \/ at = "failed"
      OBVIOUS
    <2>5. QED BY <1>1, <1>2, <1>3, <2>1, <2>2, <2>3, <2>4 DEF Surplus
  <1>13. QED BY <1>11, <1>12

(* The burn block takes the place of what was on its way out, and a refund *)
(* gives it back.                                                          *)
LEMMA CyclesOutReplyLedger ==
    ASSUME LedgerInv, NEW k \in OutCall, CyclesOutReply(k)
    PROVE  LedgerInv' /\ Surplus' >= Surplus
  <1> DEFINE from == cycles_out[k].from
             cycles == cycles_out[k].cycles
             total == cycles + BANK_TRANSFER_FEE
  <1>1. /\ balances \in [Account -> Nat] /\ total_supply = SumFunction(balances)
        /\ cycles_out \in [OutCall -> OutState \cup {None}] /\ canister_cycles \in Int
        /\ deposited \in Nat
        /\ IsFiniteSet(dedup_map) /\ Cardinality(dedup_map) <= MAX_LEN_OF_THE_DEDUP_MAP
    BY DEF LedgerInv, LedgerTypes, SupplyIsTheSum
  <1>2. /\ cycles_out[k] \in OutState /\ cycles_out[k] # None
        /\ from \in Account /\ cycles \in Nat /\ BANK_TRANSFER_FEE \in Nat /\ total \in Nat
    BY <1>1, OutStateFacts DEF CyclesOutReply
  <1>3. /\ cycles_out' = [cycles_out EXCEPT ![k] = None]
        /\ UNCHANGED <<dedup_map, time, canister_cycles, deposited>>
    BY DEF CyclesOutReply
  <1>4. cycles_out' \in [OutCall -> OutState \cup {None}] /\ cycles_out'[k] = None
    BY <1>1, <1>3
  <1>5. \A j \in OutCall \ {k} : cycles_out'[j] = cycles_out[j]
    BY <1>1, <1>3
  <1>6. SumFunction(balances) \in Nat
    BY <1>1, BankAssumption, SumFunctionType
  <1>7. ASSUME NEW a \in Account
        PROVE  /\ OutOf(a) \in Nat
               /\ OutOf(a)' = OutOf(a) - (IF from = a THEN total ELSE 0)
    <2>1. OutFunction(cycles_out, a)[k] = IF from = a THEN total ELSE 0
      BY <1>2 DEF OutFunction
    <2>2. OutFunction(cycles_out', a)[k] = 0
      BY <1>4 DEF OutFunction
    <2> HIDE DEF total, from
    <2>3. OutOf(a) \in Nat /\ OutOf(a)' = OutOf(a) - (IF from = a THEN total ELSE 0) + 0
      BY <1>4, <1>5, <2>1, <2>2, OutChange
    <2>4. QED BY <1>2, <2>3
  <1>8. /\ SumFunction(Reserves(cycles_out)) \in Nat
        /\ SumFunction(Reserves(cycles_out'))
           = SumFunction(Reserves(cycles_out)) - Reserve(cycles_out[k]) + 0
    <2>1. Reserve(cycles_out'[k]) = 0
      BY <1>4 DEF Reserve
    <2>2. QED BY <1>4, <1>5, <2>1, OutChange
  <1>9. CASE cycles_out[k].at = "deposited"
    <2> DEFINE block == [op |-> "burn", from |-> from, amt |-> total]
    <2>1. PushLog(block) /\ SetRootHash /\ UNCHANGED <<balances, total_supply>>
      BY <1>9 DEF CyclesOutReply, WriteBurn, Burnt
    <2>2. block \in Block
      BY <1>2, BlockFacts
    <2>3. ASSUME NEW a \in Account
          PROVE  balances'[a] + OutOf(a)' = balances[a] + OutOf(a) + EffectOf(block, a)
      <3>1. EffectOf(block, a) = IF from = a THEN 0 - total ELSE 0
        BY <1>2, EffectOfBurn
      <3> HIDE DEF block, total, from
      <3>2. balances'[a] = balances[a] /\ balances[a] \in Nat
        BY <1>1, <2>1
      <3>3. QED BY <1>2, <1>7, <3>1, <3>2
    <2>4. LedgerInv'
      <3> HIDE DEF block
      <3>1. /\ balances' \in [Account -> Nat] /\ total_supply' = SumFunction(balances')
            /\ IsFiniteSet(dedup_map') /\ Cardinality(dedup_map') <= MAX_LEN_OF_THE_DEDUP_MAP
            /\ \A d \in dedup_map' : d \in dedup_map
            /\ canister_cycles' \in Int /\ UNCHANGED <<time, deposited>>
        BY <1>1, <1>3, <2>1
      <3>2. QED BY <1>4, <2>1, <2>2, <2>3, <3>1, BlockStep
    <2>5. Reserve(cycles_out[k]) = 0
      BY <1>9 DEF Reserve
    <2>6. QED BY <1>1, <1>3, <1>6, <1>8, <2>1, <2>4, <2>5 DEF Surplus
  <1>10. CASE cycles_out[k].at = "failed"
    <2> DEFINE sum == balances[from] + total
    <2>1. /\ balances' = [balances EXCEPT ![from] = sum] /\ total_supply' = total_supply + total
          /\ UNCHANGED log_vars
      BY <1>1, <1>2, <1>10 DEF CyclesOutReply, Credit, Refund
    <2>2. balances[from] \in Nat /\ sum \in Nat
      BY <1>1, <1>2
    <2>3. balances' \in [Account -> Nat]
      BY <1>1, <2>1, <2>2
    <2>4. SumFunction(balances') = SumFunction(balances) - balances[from] + sum
      BY <1>1, <1>2, <2>1, <2>2, SumOfBalances
    <2>5. total_supply' = SumFunction(balances')
      BY <1>1, <1>2, <1>6, <2>1, <2>2, <2>4
    <2>6. ASSUME NEW a \in Account PROVE balances'[a] + OutOf(a)' = balances[a] + OutOf(a)
      <3>1. balances[a] \in Nat /\ balances'[a] = IF from = a THEN balances[a] + total ELSE balances[a]
        BY <1>1, <1>2, <2>1
      <3> HIDE DEF total, from
      <3>2. QED BY <1>2, <1>7, <3>1
    <2>7. LedgerInv'
      <3>1. UNCHANGED <<log_vars, dedup_map, time>> /\ canister_cycles' \in Int /\ deposited' \in Nat
        BY <1>1, <1>3, <2>1
      <3>2. QED BY <1>4, <2>3, <2>5, <2>6, <3>1, OutStep
    <2>8. Reserve(cycles_out[k]) = total
      BY <1>2, <1>10 DEF Reserve
    <2>9. QED BY <1>1, <1>2, <1>3, <1>6, <1>8, <2>1, <2>7, <2>8 DEF Surplus
  <1>11. QED BY <1>9, <1>10 DEF CyclesOutReply

(* Every step of the bank, and of its controllers.                         *)
LEMMA BankStep ==
    ASSUME LedgerInv, [BankNext \/ ControllerNext]_bank_vars
    PROVE  LedgerInv' /\ Surplus' >= Surplus
  <1>1. /\ user_logs_pointers \in [Account -> Seq(0 .. Len(logs) - 1)]
        /\ time \in Nat /\ canister_cycles \in Int /\ deposited \in Nat
        /\ certified_data = Certified(logs) /\ logs \in Seq(Block)
    BY DEF LedgerInv, LedgerTypes, Tip
  <1>2. canister_cycles >= canister_cycles /\ time + 1 \in Nat
    BY <1>1
  <1>3. PrunedMap \subseteq dedup_map
    BY DEF PrunedMap
  <1>4. ASSUME NEW from \in Account, NEW to \in Account, NEW amount \in Cycles,
               NEW created \in (0 .. MaxTime + PERMITTED_DRIFT) \cup {None},
               Transfer([from |-> from, to |-> to, amount |-> amount,
                         created_at_time |-> created])
        PROVE  LedgerInv' /\ Surplus' >= Surplus
    <2>1. created \in Nat \cup {None}
      BY BankAssumption
    <2>2. [from |-> from, to |-> to, amount |-> amount, created_at_time |-> created]
              \in TransferQuest
      BY <2>1 DEF TransferQuest
    <2>3. QED BY <1>4, <2>2, TransferLedger
  <1>5. CASE TransferRefused
    BY <1>1, <1>2, <1>3, <1>5, QuietStep DEF TransferRefused, Tip, ledger, log_vars
  <1>6. ASSUME NEW a \in Account, NEW cycles \in Cycles, CyclesIn(a, cycles)
        PROVE  LedgerInv' /\ Surplus' >= Surplus
    <2>1. cycles \in Nat /\ BANK_TRANSFER_FEE \in Nat
      BY OutStateFacts
    <2>2. canister_cycles' = canister_cycles + cycles + BANK_TRANSFER_FEE
      BY <1>6 DEF CyclesIn
    <2>3. /\ Credit(a, cycles)
          /\ PushLog([op |-> "mint", to |-> a, amt |-> cycles, icp |-> None])
          /\ SetRootHash
          /\ UNCHANGED <<dedup_map, time, cycles_out, deposited>>
      BY <1>6 DEF CyclesIn
    <2>5. canister_cycles' \in Int /\ None \in Nat \cup {None}
      BY <1>1, <2>1, <2>2
    <2>6. /\ LedgerInv'
          /\ Surplus' = Surplus + (canister_cycles' - canister_cycles) - cycles
      BY <2>1, <2>3, <2>5, CreditStep
    <2>4. Surplus \in Int
      BY <1>1, SurplusType
    <2>7. QED BY <1>1, <2>1, <2>2, <2>4, <2>6
  <1>7. ASSUME NEW a \in Account, NEW cycles \in Cycles, NEW k \in OutCall, CyclesOut(k, a, cycles)
        PROVE  LedgerInv' /\ Surplus' >= Surplus
    BY <1>7, CyclesOutLedger
  <1>8. ASSUME NEW k \in OutCall, DepositCycles(k)
        PROVE  LedgerInv' /\ Surplus' >= Surplus
    BY <1>8, DepositCyclesLedger
  <1>9. ASSUME NEW k \in OutCall, CyclesOutReply(k)
        PROVE  LedgerInv' /\ Surplus' >= Surplus
    BY <1>9, CyclesOutReplyLedger
  <1>10. CASE Tick
    BY <1>1, <1>2, <1>10, QuietStep DEF Tick, Tip, ledger, log_vars
  <1>11. CASE ClearPointers
    <2>1. user_logs_pointers' \in [Account -> Seq(0 .. Len(logs) - 1)]
      BY <1>11 DEF ClearPointers
    <2>2. QED BY <1>1, <1>2, <1>11, <2>1, QuietStep DEF ClearPointers, Tip
  <1>12. CASE UpgradeBank
    BY <1>1, <1>2, <1>12, QuietStep DEF UpgradeBank, SetRootHash, Tip
  <1>13. CASE UNCHANGED bank_vars
    BY <1>1, <1>2, <1>13, QuietStep DEF bank_vars, ledger, log_vars, Tip
  <1>14. QED BY <1>4, <1>5, <1>6, <1>7, <1>8, <1>9, <1>10, <1>11, <1>12, <1>13
            DEF BankNext, ControllerNext

LEMMA BankBegins == BankInit => LedgerInv /\ Solvent
  <1> SUFFICES ASSUME BankInit PROVE LedgerInv /\ Solvent
    OBVIOUS
  <1>1. /\ balances = [a \in Account |-> 0] /\ cycles_out = [k \in OutCall |-> None]
        /\ logs = <<>> /\ dedup_map = {} /\ canister_cycles = 0 /\ total_supply = 0
        /\ deposited = 0 /\ certified_data = None /\ time = TX_WINDOW + PERMITTED_DRIFT
        /\ user_logs_pointers = [a \in Account |-> <<>>]
    BY DEF BankInit
  <1>2. IsFiniteSet({}) /\ Cardinality({}) = 0
    BY FS_EmptySet
  <1>3. LedgerTypes
    <2>1. Len(logs) = 0 /\ logs \in Seq(Block)
      BY <1>1
    <2>2. IsFiniteSet(dedup_map) /\ Cardinality(dedup_map) <= MAX_LEN_OF_THE_DEDUP_MAP
      BY <1>1, <1>2, BankAssumption
    <2>3. time \in Nat
      BY <1>1, BankAssumption
    <2>4. user_logs_pointers \in [Account -> Seq(0 .. Len(logs) - 1)]
      BY <1>1
    <2>5. QED BY <1>1, <2>1, <2>2, <2>3, <2>4 DEF LedgerTypes
  <1>4. SumFunction(balances) = 0
    <2>1. IsFiniteSet(Account) /\ DOMAIN balances = Account /\ \A a \in Account : balances[a] = 0
      BY <1>1, BankAssumption
    <2>2. QED BY <2>1, SumOfZeros DEF SumFunction
  <1>5. ASSUME NEW a PROVE OutOf(a) = 0 /\ SumFunction(Reserves(cycles_out)) = 0
    <2>1. /\ IsFiniteSet(OutCall) /\ DOMAIN OutFunction(cycles_out, a) = OutCall
          /\ DOMAIN Reserves(cycles_out) = OutCall
          /\ \A k \in OutCall : OutFunction(cycles_out, a)[k] = 0 /\ Reserves(cycles_out)[k] = 0
      BY <1>1, BankAssumption DEF OutFunction, Reserves, Reserve
    <2>2. /\ SumFunction(OutFunction(cycles_out, a)) = 0
          /\ SumFunction(Reserves(cycles_out)) = 0
      BY <2>1, SumOfZeros DEF SumFunction
    <2>3. QED BY <2>2, OutOfIsASum
  <1>6. Replays
    <2> SUFFICES ASSUME NEW a \in Account
                 PROVE  /\ Replayed(logs, a, Len(logs)) = balances[a] + OutOf(a)
                        /\ \A n \in 0 .. Len(logs) : Replayed(logs, a, n) >= 0
      BY DEF Replays
    <2>1. Len(logs) = 0 /\ Replayed(logs, a, 0) = 0 /\ balances[a] = 0
      BY <1>1, ReplayedNone
    <2>2. QED BY <1>5, <2>1
  <1>7. Tip
    BY <1>1 DEF Tip, Certified
  <1>8. Solvent
    BY <1>1, <1>5 DEF Solvent, Surplus
  <1>9. QED BY <1>1, <1>3, <1>4, <1>6, <1>7, <1>8 DEF LedgerInv, SupplyIsTheSum

(* What the bank owes is never more than what it has, whatever is on its   *)
(* way out, and its ledger is that of its blocks.                          *)
THEOREM BankLedger == BankSpec => [](LedgerInv /\ Solvent)
  <1>1. BankInit => LedgerInv /\ Solvent
    BY BankBegins
  <1>2. LedgerInv /\ Solvent /\ [BankNext \/ ControllerNext]_bank_vars => LedgerInv' /\ Solvent'
    <2> SUFFICES ASSUME LedgerInv, Solvent, [BankNext \/ ControllerNext]_bank_vars
                 PROVE  LedgerInv' /\ Solvent'
      OBVIOUS
    <2>1. LedgerInv' /\ Surplus' >= Surplus
      BY BankStep
    <2>2. Surplus \in Int /\ Surplus' \in Int
      BY <2>1, SurplusType, NextSurplusType
    <2>3. QED BY <2>1, <2>2 DEF Solvent
  <1>3. QED BY <1>1, <1>2, PTL DEF BankSpec

LEMMA LedgerIsTyped ==
    ASSUME LedgerInv, canister_cycles >= 0
    PROVE  BankTypeOK
  <1>1. SumFunction(balances) \in Nat
    BY BankAssumption, SumFunctionType DEF LedgerInv, LedgerTypes
  <1>2. QED BY <1>1 DEF LedgerInv, LedgerTypes, SupplyIsTheSum, BankTypeOK

(* The bank holds at least the cycles it owes, also those that it may have *)
(* to refund, at every moment of every cycles_out.                         *)
THEOREM BankBacked == BankSpec => []Backed
  <1>1. LedgerInv /\ Solvent => Backed
    BY SurplusType DEF Solvent, Surplus, Backed, canister_cycles_balance_minus_total_supply
  <1>2. QED BY <1>1, BankLedger, PTL

(* Replaying the blocks gives every balance, besides what is on its way    *)
(* out; no prefix of them overdraws an account; and the total supply is    *)
(* the sum of the balances.                                                *)
THEOREM LedgerReplays == BankSpec => []BlocksReplayToBalances
  <1>1. LedgerInv /\ Solvent => BlocksReplayToBalances
    <2> SUFFICES ASSUME LedgerInv, Solvent PROVE BlocksReplayToBalances
      OBVIOUS
    <2>1. canister_cycles >= 0
      BY SurplusType DEF Solvent, Surplus
    <2>2. QED BY <2>1, LedgerIsTyped DEF LedgerInv, SupplyIsTheSum, Replays, BlocksReplayToBalances
  <1>2. QED BY <1>1, BankLedger, PTL

(* What is certified is the last block at any time, and the archive that a *)
(* client is told of ends at it.                                           *)
THEOREM TipCertified == BankSpec => []TipIsCertified
  <1>1. LedgerInv => TipIsCertified
    BY DEF LedgerInv, Tip, TipIsCertified, TipHashTree, Certified, ArchiveData
  <1>2. QED BY <1>1, BankLedger, PTL

-----------------------------------------------------------------------------
(* The bank with the minting of cycles.                                    *)

Running(u, c) == mint_calls[u][c] # None
Waiting(u) == users_mint_cycles[u] # None /\ ~users_mint_cycles[u].lock

MintTypes ==
    /\ users_mint_cycles \in [User -> MidCallData \cup {None}]
    /\ mint_calls \in [User -> [Copy -> MintCall \cup {None}]]
    /\ timers \subseteq User
    /\ upgrade_timer \in BOOLEAN
    /\ icp_blocks \in Seq(IcpBlock)

Counts ==
    /\ IsFiniteSet(MidCallUsers) /\ Cardinality(MidCallUsers) <= MAX_USERS_MINT_CYCLES
    /\ IsFiniteSet(Transferring)
    /\ Len(icp_blocks) + Cardinality(Transferring) <= MaxIcpBlocks

(* A call has the height of its ICP block once there is one, and the CMC's *)
(* answer is what the CMC decided.                                         *)
CallOK(call) ==
    /\ call.at \in {"transfer", "not_transferred"} <=> call.height = None
    /\ call.height # None => call.height \in 1 .. Len(icp_blocks)
    /\ call.at \in {"minted", "refunded"} => icp_blocks[call.height].state = call.at

(* A user has one call and its lock, or what is saved of one and a timer,  *)
(* or neither.                                                             *)
UserOK(u) ==
    /\ \A c, d \in Copy : Running(u, c) /\ Running(u, d) => c = d
    /\ (\E c \in Copy : Running(u, c)) <=> users_mint_cycles[u] # None /\ users_mint_cycles[u].lock
    /\ \A c \in Copy : Running(u, c) => CallOK(mint_calls[u][c])
    /\ Waiting(u) => /\ users_mint_cycles[u].height \in 1 .. Len(icp_blocks)
                     /\ u \in timers \/ upgrade_timer

(* The ICP blocks that a user's call, or what is saved of it, knows of.    *)
HeldBy(u) ==
    {h \in 1 .. MaxIcpBlocks : \/ Waiting(u) /\ users_mint_cycles[u].height = h
                               \/ \E c \in Copy : Running(u, c) /\ mint_calls[u][c].height = h}

(* The blocks of the ledger that credit an ICP block, which are those that *)
(* no other step of the bank writes.                                       *)
Credits == {i \in 1 .. Len(logs) : logs[i].op = "mint" /\ logs[i].icp # None}
CreditedBy(h) == \E i \in Credits : logs[i].icp = h

EachCreditedOnce ==
    /\ \A i, j \in Credits : logs[i].icp = logs[j].icp => i = j
    /\ \A i \in Credits :
          /\ logs[i].icp \in 1 .. Len(icp_blocks)
          /\ icp_blocks[logs[i].icp].state = "minted"
          /\ logs[i].amt = Minted(icp_blocks[logs[i].icp].cycles)

EachHeldOnce ==
    /\ \A u, v \in User : \A h \in HeldBy(u) : h \in HeldBy(v) => u = v
    /\ \A u \in User : \A h \in HeldBy(u) : ~CreditedBy(h)

EachAccounted ==
    \A h \in 1 .. Len(icp_blocks) :
        icp_blocks[h].state = "refunded" \/ CreditedBy(h) \/ \E u \in User : h \in HeldBy(u)

(* What the CMC has minted and is not yet credited.                        *)
Uncredited ==
    [h \in 1 .. MaxIcpBlocks |->
        IF h \in 1 .. Len(icp_blocks) /\ icp_blocks[h].state = "minted" /\ ~CreditedBy(h)
        THEN icp_blocks[h].cycles ELSE 0]

CreditsAreBacked == Surplus >= SumFunction(Uncredited)

MintInv ==
    /\ LedgerInv
    /\ MintTypes
    /\ Counts
    /\ \A u \in User : UserOK(u)
    /\ EachCreditedOnce
    /\ EachHeldOnce
    /\ EachAccounted
    /\ CreditsAreBacked

-----------------------------------------------------------------------------
(* What a step leaves as it was.                                           *)

(* The ICP blocks that the CMC has decided on stay as they are.            *)
BlocksKept ==
    /\ Len(icp_blocks) \in Nat /\ Len(icp_blocks') \in Nat /\ Len(icp_blocks) <= Len(icp_blocks')
    /\ \A h \in 1 .. Len(icp_blocks) :
          icp_blocks[h].state # "new" => icp_blocks'[h] = icp_blocks[h]

CreditsKept == Credits' = Credits /\ \A i \in Credits : logs'[i] = logs[i]

LEMMA MintDataFacts ==
    /\ \A d \in MidCallData : /\ d # None /\ d.lock \in BOOLEAN /\ d.to \in Account
                              /\ d.height \in 1 .. MaxIcpBlocks \cup {None}
    /\ \A m \in MintCall : /\ m # None /\ m.to \in Account
                           /\ m.height \in 1 .. MaxIcpBlocks \cup {None}
                           /\ m.at \in {"transfer", "transferred", "not_transferred",
                                        "notify", "minted", "refunded", "notify_error"}
    /\ \A b \in IcpBlock : b.cycles \in Nat /\ b.state \in {"new", "refunded", "minted"}
    /\ MaxIcpBlocks \in Nat /\ MAX_USERS_MINT_CYCLES \in Nat
    /\ \A h \in 1 .. MaxIcpBlocks : h # None
  <1>1. ASSUME NEW d \in MidCallData
        PROVE  /\ d # None /\ d.lock \in BOOLEAN /\ d.to \in Account
               /\ d.height \in 1 .. MaxIcpBlocks \cup {None}
    BY MintNoneAssumption DEF MidCallData
  <1>2. ASSUME NEW m \in MintCall
        PROVE  /\ m # None /\ m.to \in Account
               /\ m.height \in 1 .. MaxIcpBlocks \cup {None}
               /\ m.at \in {"transfer", "transferred", "not_transferred",
                            "notify", "minted", "refunded", "notify_error"}
    BY MintNoneAssumption DEF MintCall
  <1>3. ASSUME NEW b \in IcpBlock
        PROVE  b.cycles \in Nat /\ b.state \in {"new", "refunded", "minted"}
    <2>1. b.cycles \in MintAmount \cup {0} /\ b.state \in {"new", "refunded", "minted"}
      BY DEF IcpBlock
    <2>2. \A n \in MintAmount \cup {0} : n \in Nat
      BY MintAssumption
    <2>3. QED BY <2>1, <2>2
  <1>4. \A h \in 1 .. MaxIcpBlocks : h # None
    BY MintAssumption
  <1>5. QED BY <1>1, <1>2, <1>3, <1>4, MintAssumption

LEMMA BlockCountType ==
    ASSUME MintTypes, Counts
    PROVE  /\ Len(icp_blocks) \in Nat /\ Cardinality(Transferring) \in Nat
           /\ Len(icp_blocks) <= MaxIcpBlocks
           /\ \A h \in 1 .. Len(icp_blocks) : icp_blocks[h] \in IcpBlock
  <1>1. Len(icp_blocks) \in Nat /\ \A h \in 1 .. Len(icp_blocks) : icp_blocks[h] \in IcpBlock
    BY ElementOfSeq DEF MintTypes
  <1>2. Cardinality(Transferring) \in Nat
    BY FS_CardinalityType DEF Counts
  <1>3. Len(icp_blocks) <= MaxIcpBlocks
    BY <1>1, <1>2, MintDataFacts DEF Counts
  <1>4. QED BY <1>1, <1>2, <1>3

LEMMA SameBlocks ==
    ASSUME MintTypes, Counts, UNCHANGED icp_blocks
    PROVE  BlocksKept /\ Len(icp_blocks') = Len(icp_blocks)
  BY BlockCountType DEF BlocksKept

(* A user whose data and calls stay as they are, and who keeps a timer.    *)
LEMMA UserKept ==
    ASSUME NEW u \in User, UserOK(u), BlocksKept, MintTypes, Counts,
           users_mint_cycles'[u] = users_mint_cycles[u], mint_calls'[u] = mint_calls[u],
           Waiting(u) /\ (u \in timers \/ upgrade_timer) => u \in timers' \/ upgrade_timer'
    PROVE  UserOK(u)' /\ HeldBy(u)' = HeldBy(u)
  <1>1. /\ Waiting(u)' = Waiting(u)
        /\ \A c \in Copy : Running(u, c)' = Running(u, c)
        /\ \A c \in Copy : Running(u, c) => mint_calls[u][c] \in MintCall
    BY DEF Waiting, Running, MintTypes
  <1>2. HeldBy(u)' = HeldBy(u)
    BY <1>1 DEF HeldBy
  <1>3. ASSUME NEW c \in Copy, Running(u, c)
        PROVE  CallOK(mint_calls[u][c])'
    <2>1. CallOK(mint_calls[u][c])
      BY <1>3 DEF UserOK
    <2>2. mint_calls'[u][c] = mint_calls[u][c]
      OBVIOUS
    <2>3. mint_calls[u][c].at \in {"minted", "refunded"} =>
             icp_blocks'[mint_calls[u][c].height].state = mint_calls[u][c].at
      BY <2>1 DEF CallOK, BlocksKept
    <2>4. mint_calls[u][c].height # None => mint_calls[u][c].height \in 1 .. Len(icp_blocks')
      BY <2>1 DEF CallOK, BlocksKept
    <2>5. QED BY <2>1, <2>2, <2>3, <2>4 DEF CallOK
  <1>4. Waiting(u) => users_mint_cycles[u].height \in 1 .. Len(icp_blocks')
    BY DEF UserOK, BlocksKept
  <1>5. UserOK(u)'
    BY <1>1, <1>3, <1>4 DEF UserOK
  <1>6. QED BY <1>2, <1>5

LEMMA CreditedKept ==
    ASSUME CreditsKept
    PROVE  \A h : CreditedBy(h)' = CreditedBy(h)
  BY DEF CreditsKept, CreditedBy

LEMMA SameCredits == ASSUME UNCHANGED logs PROVE CreditsKept
  BY DEF CreditsKept, Credits

LEMMA CreditedOnceKept ==
    ASSUME EachCreditedOnce, BlocksKept, CreditsKept
    PROVE  EachCreditedOnce'
  BY DEF EachCreditedOnce, BlocksKept, CreditsKept

(* No ICP block is gained or lost, held by another or credited.            *)
LEMMA HoldersKept ==
    ASSUME MintInv, BlocksKept, CreditsKept, Len(icp_blocks') = Len(icp_blocks),
           \A u \in User : HeldBy(u)' = HeldBy(u)
    PROVE  EachCreditedOnce' /\ EachHeldOnce' /\ EachAccounted'
  <1>1. EachCreditedOnce'
    BY CreditedOnceKept DEF MintInv
  <1>2. EachHeldOnce'
    BY CreditedKept DEF MintInv, EachHeldOnce
  <1>3. EachAccounted'
    <2> SUFFICES ASSUME NEW h \in 1 .. Len(icp_blocks)
                 PROVE  \/ icp_blocks'[h].state = "refunded" \/ CreditedBy(h)'
                        \/ \E u \in User : h \in HeldBy(u)'
      BY DEF EachAccounted
    <2>1. icp_blocks[h].state = "refunded" => icp_blocks'[h].state = "refunded"
      BY DEF BlocksKept
    <2>2. QED BY <2>1, CreditedKept DEF MintInv, EachAccounted
  <1>4. QED BY <1>1, <1>2, <1>3

LEMMA UncreditedType ==
    ASSUME MintTypes, Counts
    PROVE  Uncredited \in [1 .. MaxIcpBlocks -> Nat] /\ SumFunction(Uncredited) \in Nat
  <1>1. Uncredited \in [1 .. MaxIcpBlocks -> Nat]
    BY BlockCountType, MintDataFacts DEF Uncredited
  <1>2. IsFiniteSet(1 .. MaxIcpBlocks)
    BY MintDataFacts, FS_Interval
  <1>3. QED BY <1>1, <1>2, SumFunctionType

(* What is owed for the ICP is the same, and the bank has no less.         *)
LEMMA BackedKept ==
    ASSUME MintInv, LedgerInv', Uncredited' = Uncredited, Surplus' >= Surplus
    PROVE  CreditsAreBacked'
  <1>1. Surplus \in Int /\ Surplus' \in Int /\ SumFunction(Uncredited) \in Nat
    BY SurplusType, NextSurplusType, UncreditedType DEF MintInv
  <1>2. Surplus >= SumFunction(Uncredited)
    BY DEF MintInv, CreditsAreBacked
  <1>3. Surplus' >= SumFunction(Uncredited)
    BY <1>1, <1>2
  <1>4. QED BY <1>3 DEF CreditsAreBacked

LEMMA UncreditedKept ==
    ASSUME CreditsKept, UNCHANGED icp_blocks
    PROVE  Uncredited' = Uncredited
  BY CreditedKept DEF Uncredited

LEMMA SameBank ==
    ASSUME LedgerInv, UNCHANGED bank_vars
    PROVE  LedgerInv' /\ Surplus' >= Surplus /\ CreditsKept
  BY BankStep, SameCredits DEF bank_vars, ledger, log_vars

LEMMA CountsKept ==
    ASSUME Counts, MidCallUsers' \subseteq MidCallUsers, Transferring' \subseteq Transferring,
           Len(icp_blocks) \in Nat, Len(icp_blocks') = Len(icp_blocks)
    PROVE  Counts'
  <1>1. /\ IsFiniteSet(MidCallUsers') /\ Cardinality(MidCallUsers') <= Cardinality(MidCallUsers)
        /\ IsFiniteSet(Transferring') /\ Cardinality(Transferring') <= Cardinality(Transferring)
    BY FS_Subset DEF Counts
  <1>2. /\ Cardinality(MidCallUsers') \in Nat /\ Cardinality(MidCallUsers) \in Nat
        /\ Cardinality(Transferring') \in Nat /\ Cardinality(Transferring) \in Nat
    BY <1>1, FS_CardinalityType DEF Counts
  <1>3. /\ Cardinality(MidCallUsers) <= MAX_USERS_MINT_CYCLES
        /\ Len(icp_blocks) + Cardinality(Transferring) <= MaxIcpBlocks
    BY DEF Counts
  <1>4. Cardinality(MidCallUsers') <= MAX_USERS_MINT_CYCLES
    BY <1>1, <1>2, <1>3, MintDataFacts
  <1>5. Len(icp_blocks') + Cardinality(Transferring') <= MaxIcpBlocks
    BY <1>1, <1>2, <1>3, MintDataFacts
  <1>6. QED BY <1>1, <1>4, <1>5 DEF Counts

-----------------------------------------------------------------------------
(* The steps of one user.                                                  *)

(* Only this call of this user changes.                                    *)
CallBecomes(u, c, new) ==
    /\ mint_calls' \in [User -> [Copy -> MintCall \cup {None}]]
    /\ mint_calls'[u][c] = new
    /\ \A d \in Copy \ {c} : mint_calls'[u][d] = mint_calls[u][d]
    /\ \A v \in User \ {u} : mint_calls'[v] = mint_calls[v]

OthersKept(u) ==
    /\ \A v \in User \ {u} : users_mint_cycles'[v] = users_mint_cycles[v]
    /\ \A v \in User \ {u} : v \in timers => v \in timers'
    /\ upgrade_timer' = upgrade_timer

LEMMA CallBecomesIt ==
    ASSUME MintTypes, NEW u \in User, NEW c \in Copy, NEW new \in MintCall \cup {None},
           mint_calls' = [mint_calls EXCEPT ![u][c] = new]
    PROVE  CallBecomes(u, c, new)
  <1>1. mint_calls \in [User -> [Copy -> MintCall \cup {None}]]
    BY DEF MintTypes
  <1> DEFINE mine == [mint_calls[u] EXCEPT ![c] = new]
  <1>2. mint_calls' = [mint_calls EXCEPT ![u] = mine]
    OBVIOUS
  <1>3. mine \in [Copy -> MintCall \cup {None}]
    BY <1>1
  <1>4. mine[c] = new /\ \A d \in Copy \ {c} : mine[d] = mint_calls[u][d]
    BY <1>1
  <1> HIDE DEF mine
  <1>5. mint_calls'[u] = mine /\ \A v \in User \ {u} : mint_calls'[v] = mint_calls[v]
    BY <1>1, <1>2
  <1>6. mint_calls' \in [User -> [Copy -> MintCall \cup {None}]]
    BY <1>1, <1>2, <1>3
  <1>7. QED BY <1>4, <1>5, <1>6 DEF CallBecomes

LEMMA OthersTransfer ==
    ASSUME NEW u \in User, NEW c \in Copy, NEW new, CallBecomes(u, c, new),
           new = None \/ new.at # "transfer"
    PROVE  Transferring' \subseteq Transferring /\ <<u, c>> \notin Transferring'
  <1>1. ASSUME NEW x \in Transferring' PROVE x \in Transferring /\ x # <<u, c>>
    <2>1. /\ x \in User \X Copy /\ mint_calls'[x[1]][x[2]] # None
          /\ mint_calls'[x[1]][x[2]].at = "transfer"
      BY DEF Transferring
    <2>2. x[1] \in User /\ x[2] \in Copy
      BY <2>1
    <2>3. ~(x[1] = u /\ x[2] = c)
      BY <2>1 DEF CallBecomes
    <2>4. mint_calls'[x[1]][x[2]] = mint_calls[x[1]][x[2]]
      BY <2>2, <2>3 DEF CallBecomes
    <2>5. QED BY <2>1, <2>3, <2>4 DEF Transferring
  <1>2. QED BY <1>1

(* While a user's call runs it is the only one, and holds what is held.    *)
LEMMA RunningFacts ==
    ASSUME MintTypes, NEW u \in User, NEW c \in Copy, UserOK(u), Running(u, c)
    PROVE  /\ mint_calls[u][c] \in MintCall /\ CallOK(mint_calls[u][c])
           /\ \A d \in Copy : Running(u, d) => d = c
           /\ users_mint_cycles[u] \in MidCallData /\ users_mint_cycles[u].lock /\ ~Waiting(u)
           /\ \A h : h \in HeldBy(u) <=> h \in 1 .. MaxIcpBlocks /\ h = mint_calls[u][c].height
  <1>1. mint_calls[u][c] \in MintCall /\ users_mint_cycles[u] \in MidCallData \cup {None}
    BY DEF Running, MintTypes
  <1>2. CallOK(mint_calls[u][c]) /\ \A d \in Copy : Running(u, d) => d = c
    BY DEF UserOK
  <1>3. users_mint_cycles[u] # None /\ users_mint_cycles[u].lock
    BY DEF UserOK
  <1>4. users_mint_cycles[u] \in MidCallData /\ ~Waiting(u)
    BY <1>1, <1>3 DEF Waiting
  <1>5. \A h : h \in HeldBy(u) <=> h \in 1 .. MaxIcpBlocks /\ h = mint_calls[u][c].height
    BY <1>2, <1>4 DEF HeldBy
  <1>6. QED BY <1>1, <1>2, <1>3, <1>4, <1>5

(* The other users, in a step of one.                                      *)
LEMMA OthersAreKept ==
    ASSUME MintInv, BlocksKept, NEW u \in User, NEW c \in Copy, NEW new,
           CallBecomes(u, c, new), OthersKept(u)
    PROVE  \A v \in User \ {u} : UserOK(v)' /\ HeldBy(v)' = HeldBy(v)
  BY UserKept DEF CallBecomes, OthersKept, MintInv

(* A call whose ICP block stays the same gets an answer, or calls.         *)
LEMMA CallMoves ==
    ASSUME MintInv, NEW u \in User, NEW c \in Copy, Running(u, c),
           NEW new \in MintCall, new.height = mint_calls[u][c].height, CallOK(new),
           new.at # "transfer", CallBecomes(u, c, new),
           UNCHANGED <<bank_vars, users_mint_cycles, timers, upgrade_timer, icp_blocks>>
    PROVE  MintInv'
  <1>1. MintTypes /\ Counts /\ UserOK(u)
    BY DEF MintInv
  <1>2. BlocksKept /\ Len(icp_blocks') = Len(icp_blocks) /\ Len(icp_blocks) \in Nat
    BY <1>1, SameBlocks, BlockCountType
  <1>3. LedgerInv' /\ Surplus' >= Surplus /\ CreditsKept
    BY SameBank DEF MintInv
  <1>4. OthersKept(u)
    BY DEF OthersKept
  <1>5. \A v \in User \ {u} : UserOK(v)' /\ HeldBy(v)' = HeldBy(v)
    BY <1>2, <1>4, OthersAreKept
  <1>6. /\ \A d \in Copy : Running(u, d) => d = c
        /\ users_mint_cycles[u] \in MidCallData /\ users_mint_cycles[u].lock
        /\ \A h : h \in HeldBy(u) <=> h \in 1 .. MaxIcpBlocks /\ h = mint_calls[u][c].height
    BY <1>1, RunningFacts
  <1>7. new # None /\ users_mint_cycles[u] # None
    BY <1>6, MintDataFacts
  <1>8. Running(u, c)' /\ ~Waiting(u)' /\ \A d \in Copy : Running(u, d)' => d = c
    BY <1>6, <1>7 DEF CallBecomes, Running, Waiting
  <1>9. UserOK(u)'
    <2>1. CallOK(mint_calls[u][c])'
      BY DEF CallBecomes, CallOK
    <2>2. QED BY <1>6, <1>7, <1>8, <2>1 DEF UserOK
  <1>10. HeldBy(u)' = HeldBy(u)
    <2>1. \A h : h \in HeldBy(u)' <=> h \in 1 .. MaxIcpBlocks /\ h = new.height
      BY <1>8 DEF HeldBy, CallBecomes
    <2>2. QED BY <1>6, <2>1
  <1>11. MintTypes'
    BY <1>1 DEF MintTypes, CallBecomes
  <1>12. Counts'
    <2>1. MidCallUsers' \subseteq MidCallUsers
      BY DEF MidCallUsers
    <2>2. Transferring' \subseteq Transferring
      BY OthersTransfer
    <2>3. QED BY <1>1, <1>2, <2>1, <2>2, CountsKept
  <1>13. EachCreditedOnce' /\ EachHeldOnce' /\ EachAccounted'
    BY <1>2, <1>3, <1>5, <1>10, HoldersKept
  <1>14. CreditsAreBacked'
    BY <1>3, UncreditedKept, BackedKept
  <1>15. QED BY <1>3, <1>5, <1>9, <1>11, <1>12, <1>13, <1>14 DEF MintInv

(* A call ends, and its ICP block, if it has one, was refunded or is       *)
(* credited now.                                                           *)
LEMMA CallEnds ==
    ASSUME MintInv, NEW u \in User, NEW c \in Copy, Running(u, c),
           CallBecomes(u, c, None), users_mint_cycles' = Ended(u),
           UNCHANGED <<timers, upgrade_timer, icp_blocks>>,
           LedgerInv', EachCreditedOnce', CreditsAreBacked',
           \A h \in 1 .. MaxIcpBlocks : CreditedBy(h) => CreditedBy(h)',
           \A h \in 1 .. MaxIcpBlocks :
              CreditedBy(h)' => CreditedBy(h) \/ h = mint_calls[u][c].height,
           \A h \in 1 .. MaxIcpBlocks :
              h = mint_calls[u][c].height => icp_blocks[h].state = "refunded" \/ CreditedBy(h)'
    PROVE  MintInv'
  <1> DEFINE height == mint_calls[u][c].height
  <1>1. MintTypes /\ Counts /\ UserOK(u)
    BY DEF MintInv
  <1>2. /\ BlocksKept /\ Len(icp_blocks') = Len(icp_blocks) /\ Len(icp_blocks) \in Nat
        /\ Len(icp_blocks) <= MaxIcpBlocks
    BY <1>1, SameBlocks, BlockCountType
  <1>3. /\ users_mint_cycles'[u] = None
        /\ \A v \in User \ {u} : users_mint_cycles'[v] = users_mint_cycles[v]
        /\ users_mint_cycles' \in [User -> MidCallData \cup {None}]
    BY <1>1 DEF MintTypes, Ended
  <1>4. OthersKept(u)
    BY <1>3 DEF OthersKept
  <1>5. \A v \in User \ {u} : UserOK(v)' /\ HeldBy(v)' = HeldBy(v)
    BY <1>2, <1>4, OthersAreKept
  <1>6. /\ \A d \in Copy : Running(u, d) => d = c
        /\ \A h : h \in HeldBy(u) <=> h \in 1 .. MaxIcpBlocks /\ h = height
    BY <1>1, RunningFacts
  <1>7. ~Waiting(u)' /\ \A d \in Copy : ~Running(u, d)'
    BY <1>3, <1>6 DEF Waiting, Running, CallBecomes
  <1>8. UserOK(u)' /\ HeldBy(u)' = {}
    BY <1>3, <1>7 DEF UserOK, HeldBy
  <1>9. MintTypes'
    BY <1>1, <1>3 DEF MintTypes, CallBecomes
  <1>10. Counts'
    <2>1. MidCallUsers' \subseteq MidCallUsers
      BY <1>3 DEF MidCallUsers
    <2>2. Transferring' \subseteq Transferring
      BY OthersTransfer
    <2>3. QED BY <1>1, <1>2, <2>1, <2>2, CountsKept
  <1>11. \A v \in User : v = u \/ HeldBy(v)' = HeldBy(v)
    BY <1>5
  <1>12. EachHeldOnce'
    <2>1. ASSUME NEW v \in User, NEW h \in HeldBy(v)'
          PROVE  v # u /\ h \in HeldBy(v) /\ h \in 1 .. MaxIcpBlocks
      <3>1. v # u
        BY <1>8, <2>1
      <3>2. HeldBy(v)' = HeldBy(v)
        BY <1>11, <3>1
      <3>3. QED BY <2>1, <3>1, <3>2 DEF HeldBy
    <2>2. ASSUME NEW v \in User, NEW h \in HeldBy(v)' PROVE ~CreditedBy(h)'
      <3>1. v # u /\ h \in HeldBy(v) /\ h \in 1 .. MaxIcpBlocks /\ ~CreditedBy(h)
        BY <2>1, <2>2 DEF MintInv, EachHeldOnce
      <3>2. h \notin HeldBy(u)
        BY <3>1 DEF MintInv, EachHeldOnce
      <3>3. QED BY <1>6, <3>1, <3>2
    <2>3. ASSUME NEW v \in User, NEW w \in User, NEW h \in HeldBy(v)', h \in HeldBy(w)'
          PROVE  v = w
      <3>1. h \in HeldBy(v) /\ h \in HeldBy(w)
        BY <2>1, <2>3
      <3>2. QED BY <3>1 DEF MintInv, EachHeldOnce
    <2>4. QED BY <2>2, <2>3 DEF EachHeldOnce
  <1>13. EachAccounted'
    <2> SUFFICES ASSUME NEW h \in 1 .. Len(icp_blocks)
                 PROVE  \/ icp_blocks[h].state = "refunded" \/ CreditedBy(h)'
                        \/ \E v \in User : h \in HeldBy(v)'
      BY DEF EachAccounted
    <2>1. h \in 1 .. MaxIcpBlocks
      BY <1>2, MintDataFacts
    <2>2. \/ icp_blocks[h].state = "refunded" \/ CreditedBy(h)
          \/ \E v \in User : h \in HeldBy(v)
      BY DEF MintInv, EachAccounted
    <2>3. CASE h \in HeldBy(u)
      <3>1. h = height
        BY <1>6, <2>3
      <3>2. QED BY <2>1, <3>1
    <2>4. CASE h \notin HeldBy(u)
      BY <1>11, <2>1, <2>2, <2>4
    <2>5. QED BY <2>3, <2>4
  <1>14. \A v \in User : UserOK(v)'
    BY <1>5, <1>8
  <1>15. QED BY <1>9, <1>10, <1>12, <1>13, <1>14 DEF MintInv

(* A call gives up for now: what is saved holds what the call held.        *)
LEMMA CallGivesUp ==
    ASSUME MintInv, NEW u \in User, NEW c \in Copy, Running(u, c),
           mint_calls[u][c].at \in {"transferred", "notify_error"}, GivesUp(u, c)
    PROVE  MintInv'
  <1> DEFINE call == mint_calls[u][c]
             saved == Saved(call)
  <1>1. MintTypes /\ Counts /\ UserOK(u)
    BY DEF MintInv
  <1>2. /\ BlocksKept /\ Len(icp_blocks') = Len(icp_blocks) /\ Len(icp_blocks) \in Nat
        /\ Len(icp_blocks) <= MaxIcpBlocks
    BY <1>1, SameBlocks, BlockCountType DEF GivesUp
  <1>3. /\ \A d \in Copy : Running(u, d) => d = c
        /\ \A h : h \in HeldBy(u) <=> h \in 1 .. MaxIcpBlocks /\ h = call.height
        /\ call \in MintCall /\ CallOK(call)
        /\ users_mint_cycles[u] \in MidCallData
    BY <1>1, RunningFacts
  <1>4. call.height \in 1 .. Len(icp_blocks)
    BY <1>3, MintDataFacts DEF CallOK
  <1>5. saved \in MidCallData /\ ~saved.lock /\ saved.height = call.height
    BY <1>3 DEF Saved, MidCallData, MintCall
  <1>6. /\ users_mint_cycles' = [users_mint_cycles EXCEPT ![u] = saved]
        /\ timers' = timers \cup {u}
        /\ UNCHANGED <<bank_vars, upgrade_timer, icp_blocks>>
    BY DEF GivesUp, Armed
  <1>7. CallBecomes(u, c, None)
    BY <1>1, CallBecomesIt DEF GivesUp
  <1> HIDE DEF saved
  <1>8. /\ users_mint_cycles'[u] = saved
        /\ \A v \in User \ {u} : users_mint_cycles'[v] = users_mint_cycles[v]
        /\ users_mint_cycles' \in [User -> MidCallData \cup {None}]
    BY <1>1, <1>5, <1>6 DEF MintTypes
  <1>9. OthersKept(u)
    BY <1>6, <1>8 DEF OthersKept
  <1>10. \A v \in User \ {u} : UserOK(v)' /\ HeldBy(v)' = HeldBy(v)
    BY <1>2, <1>7, <1>9, OthersAreKept
  <1>11. Waiting(u)' /\ \A d \in Copy : ~Running(u, d)'
    BY <1>3, <1>5, <1>7, <1>8, MintDataFacts DEF Waiting, Running, CallBecomes
  <1>12. UserOK(u)'
    BY <1>2, <1>4, <1>5, <1>6, <1>8, <1>11 DEF UserOK
  <1>13. HeldBy(u)' = HeldBy(u)
    <2>1. \A h : h \in HeldBy(u)' <=> h \in 1 .. MaxIcpBlocks /\ h = call.height
      BY <1>5, <1>8, <1>11 DEF HeldBy
    <2>2. QED BY <1>3, <2>1
  <1>14. LedgerInv' /\ Surplus' >= Surplus /\ CreditsKept
    BY <1>6, SameBank DEF MintInv
  <1>15. MintTypes'
    BY <1>1, <1>6, <1>7, <1>8 DEF MintTypes, CallBecomes
  <1>16. Counts'
    <2>1. MidCallUsers' \subseteq MidCallUsers
      BY <1>3, <1>8, MintDataFacts DEF MidCallUsers
    <2>2. Transferring' \subseteq Transferring
      BY <1>7, OthersTransfer
    <2>3. QED BY <1>1, <1>2, <2>1, <2>2, CountsKept
  <1>17. EachCreditedOnce' /\ EachHeldOnce' /\ EachAccounted'
    BY <1>2, <1>10, <1>13, <1>14, HoldersKept
  <1>18. CreditsAreBacked'
    BY <1>6, <1>14, UncreditedKept, BackedKept
  <1>19. QED BY <1>10, <1>12, <1>14, <1>15, <1>16, <1>17, <1>18 DEF MintInv

LEMMA FreeCopyIsFree ==
    ASSUME NEW u \in User, HasRoom(u)
    PROVE  FreeCopy(u) \in Copy /\ ~Running(u, FreeCopy(u))
  BY DEF HasRoom, FreeCopy, Running

LEMMA StartMintStep ==
    ASSUME MintInv, NEW u \in User, NEW to \in Account, StartMint(u, to)
    PROVE  MintInv'
  <1>4. PICK c \in Copy : c = FreeCopy(u)
    BY FreeCopyIsFree DEF StartMint
  <1> DEFINE data == [lock |-> TRUE, to |-> to, height |-> None]
             call == [to |-> to, height |-> None, at |-> "transfer"]
  <1>1. MintTypes /\ Counts /\ UserOK(u)
    BY DEF MintInv
  <1>2. /\ BlocksKept /\ Len(icp_blocks') = Len(icp_blocks) /\ Len(icp_blocks) \in Nat
        /\ Cardinality(Transferring) \in Nat
    BY <1>1, SameBlocks, BlockCountType DEF StartMint
  <1>3. /\ users_mint_cycles[u] = None
        /\ Cardinality(MidCallUsers) < MAX_USERS_MINT_CYCLES
        /\ Len(icp_blocks) + Cardinality(Transferring) < MaxIcpBlocks
        /\ users_mint_cycles' = [users_mint_cycles EXCEPT ![u] = data]
        /\ mint_calls' = [mint_calls EXCEPT ![u][c] = call]
        /\ UNCHANGED <<bank_vars, timers, upgrade_timer, icp_blocks>>
    BY <1>4 DEF StartMint, MayMint
  <1>5. /\ data \in MidCallData /\ data # None /\ data.lock
        /\ call \in MintCall /\ call # None /\ call.at = "transfer" /\ call.height = None
    <2>1. data \in MidCallData /\ call \in MintCall
      BY DEF MidCallData, MintCall
    <2>2. QED BY <2>1, MintDataFacts
  <1> HIDE DEF data, call
  <1>6. CallBecomes(u, c, call)
    BY <1>1, <1>3, <1>4, <1>5, CallBecomesIt
  <1>7. /\ users_mint_cycles'[u] = data
        /\ \A v \in User \ {u} : users_mint_cycles'[v] = users_mint_cycles[v]
        /\ users_mint_cycles' \in [User -> MidCallData \cup {None}]
    BY <1>1, <1>3, <1>5 DEF MintTypes
  <1>8. OthersKept(u)
    BY <1>3, <1>7 DEF OthersKept
  <1>9. \A v \in User \ {u} : UserOK(v)' /\ HeldBy(v)' = HeldBy(v)
    BY <1>2, <1>4, <1>6, <1>8, OthersAreKept
  <1>10. ~Waiting(u) /\ \A d \in Copy : ~Running(u, d)
    BY <1>1, <1>3 DEF Waiting, UserOK
  <1>11. /\ ~Waiting(u)' /\ Running(u, c)' /\ \A d \in Copy : Running(u, d)' => d = c
    BY <1>5, <1>6, <1>7, <1>10 DEF Waiting, Running, CallBecomes
  <1>12. UserOK(u)'
    <2>1. CallOK(call)'
      BY <1>5 DEF CallOK
    <2>2. QED BY <1>4, <1>5, <1>6, <1>7, <1>11, <2>1 DEF UserOK, CallBecomes
  <1>13. HeldBy(u)' = HeldBy(u)
    <2>1. HeldBy(u)' = {}
      BY <1>5, <1>6, <1>11, MintDataFacts DEF HeldBy, CallBecomes
    <2>2. HeldBy(u) = {}
      BY <1>10 DEF HeldBy
    <2>3. QED BY <2>1, <2>2
  <1>14. LedgerInv' /\ Surplus' >= Surplus /\ CreditsKept
    BY <1>3, SameBank DEF MintInv
  <1>15. MintTypes'
    BY <1>1, <1>3, <1>6, <1>7 DEF MintTypes, CallBecomes
  <1>16. Counts'
    <2>1. IsFiniteSet(MidCallUsers) /\ IsFiniteSet(Transferring)
      BY <1>1 DEF Counts
    <2>2. MidCallUsers' = MidCallUsers \cup {u} /\ u \notin MidCallUsers
      BY <1>3, <1>5, <1>7 DEF MidCallUsers
    <2>3. /\ IsFiniteSet(MidCallUsers') /\ Cardinality(MidCallUsers) \in Nat
          /\ Cardinality(MidCallUsers') = Cardinality(MidCallUsers) + 1
      BY <2>1, <2>2, FS_AddElement, FS_CardinalityType
    <2>4. Transferring' \subseteq Transferring \cup {<<u, c>>}
      <3>1. ASSUME NEW x \in Transferring' PROVE x \in Transferring \cup {<<u, c>>}
        <4>1. /\ x \in User \X Copy /\ mint_calls'[x[1]][x[2]] # None
              /\ mint_calls'[x[1]][x[2]].at = "transfer"
          BY DEF Transferring
        <4>2. x[1] \in User /\ x[2] \in Copy /\ x = <<x[1], x[2]>>
          BY <4>1
        <4>3. CASE x[1] = u /\ x[2] = c
          BY <4>2, <4>3
        <4>4. CASE ~(x[1] = u /\ x[2] = c)
          BY <4>1, <4>2, <4>4, <1>6 DEF CallBecomes, Transferring
        <4>5. QED BY <4>3, <4>4
      <3>2. QED BY <3>1
    <2> DEFINE x == <<u, c>>
    <2> HIDE DEF x
    <2>5. /\ IsFiniteSet(Transferring \cup {x})
          /\ Cardinality(Transferring \cup {x}) <= Cardinality(Transferring) + 1
      BY <2>1, OneMore
    <2>6. /\ IsFiniteSet(Transferring')
          /\ Cardinality(Transferring') <= Cardinality(Transferring \cup {x})
      BY <2>4, <2>5, FS_Subset DEF x
    <2>7. Cardinality(Transferring') \in Nat /\ Cardinality(Transferring \cup {x}) \in Nat
      BY <2>5, <2>6, FS_CardinalityType
    <2>8. Len(icp_blocks') + Cardinality(Transferring') <= MaxIcpBlocks
      BY <1>2, <1>3, <2>5, <2>6, <2>7, MintDataFacts
    <2>9. Cardinality(MidCallUsers') <= MAX_USERS_MINT_CYCLES
      BY <1>3, <2>3, MintDataFacts
    <2>10. QED BY <2>3, <2>6, <2>8, <2>9 DEF Counts
  <1>17. EachCreditedOnce' /\ EachHeldOnce' /\ EachAccounted'
    BY <1>2, <1>9, <1>13, <1>14, HoldersKept
  <1>18. CreditsAreBacked'
    BY <1>3, <1>14, UncreditedKept, BackedKept
  <1>19. QED BY <1>9, <1>12, <1>14, <1>15, <1>16, <1>17, <1>18 DEF MintInv

(* The ICP ledger has made the transfer: a new block, which the call holds.*)
LEMMA IcpTransferredStep ==
    ASSUME MintInv, NEW u \in User, NEW c \in Copy, Running(u, c),
           mint_calls[u][c].at = "transfer",
           icp_blocks' = Append(icp_blocks, [user |-> u, state |-> "new", cycles |-> 0]),
           NEW call \in MintCall, call.at = "transferred", call.height = Len(icp_blocks) + 1,
           CallBecomes(u, c, call),
           UNCHANGED <<bank_vars, users_mint_cycles, timers, upgrade_timer>>
    PROVE  MintInv'
  <1> DEFINE n == Len(icp_blocks) + 1
             block == [user |-> u, state |-> "new", cycles |-> 0]
  <1>1. MintTypes /\ Counts /\ UserOK(u)
    BY DEF MintInv
  <1>2. Len(icp_blocks) \in Nat /\ Cardinality(Transferring) \in Nat
    BY <1>1, BlockCountType
  <1>3. block \in IcpBlock
    BY DEF IcpBlock
  <1>4. block.state = "new" /\ block.cycles = 0
    OBVIOUS
  <1> HIDE DEF block
  <1>5. /\ icp_blocks' \in Seq(IcpBlock) /\ Len(icp_blocks') = n /\ icp_blocks'[n] = block
        /\ \A h \in 1 .. Len(icp_blocks) : icp_blocks'[h] = icp_blocks[h]
    BY <1>1, <1>2, <1>3 DEF MintTypes, block
  <1>6. BlocksKept
    BY <1>2, <1>5 DEF BlocksKept
  <1>7. OthersKept(u)
    BY DEF OthersKept
  <1>8. \A v \in User \ {u} : UserOK(v)' /\ HeldBy(v)' = HeldBy(v)
    BY <1>6, <1>7, OthersAreKept
  <1>9. /\ \A d \in Copy : Running(u, d) => d = c
        /\ users_mint_cycles[u] \in MidCallData /\ users_mint_cycles[u].lock
        /\ \A h : h \in HeldBy(u) <=> h \in 1 .. MaxIcpBlocks /\ h = mint_calls[u][c].height
        /\ CallOK(mint_calls[u][c])
    BY <1>1, RunningFacts
  <1>10. call # None /\ users_mint_cycles[u] # None
    BY <1>9, MintDataFacts
  <1>11. Running(u, c)' /\ ~Waiting(u)' /\ \A d \in Copy : Running(u, d)' => d = c
    BY <1>9, <1>10 DEF CallBecomes, Running, Waiting
  <1>12. n \in 1 .. MaxIcpBlocks /\ Counts'
    <2>1. <<u, c>> \in Transferring
      BY DEF Transferring, Running
    <2>2. Transferring' \subseteq Transferring \ {<<u, c>>}
      BY OthersTransfer
    <2>3. /\ IsFiniteSet(Transferring \ {<<u, c>>})
          /\ Cardinality(Transferring \ {<<u, c>>}) = Cardinality(Transferring) - 1
      BY <1>1, <2>1, FS_RemoveElement DEF Counts
    <2>4. /\ IsFiniteSet(Transferring')
          /\ Cardinality(Transferring') <= Cardinality(Transferring \ {<<u, c>>})
      BY <2>2, <2>3, FS_Subset
    <2>5. Cardinality(Transferring') \in Nat
      BY <2>4, FS_CardinalityType
    <2>6. Len(icp_blocks) + Cardinality(Transferring) <= MaxIcpBlocks
      BY <1>1 DEF Counts
    <2>7. Len(icp_blocks') + Cardinality(Transferring') <= MaxIcpBlocks
      BY <1>2, <1>5, <2>3, <2>4, <2>5, <2>6, MintDataFacts
    <2>8. n \in 1 .. MaxIcpBlocks
      BY <1>2, <1>5, <2>5, <2>7, MintDataFacts
    <2>9. MidCallUsers' = MidCallUsers
      BY DEF MidCallUsers
    <2>10. QED BY <1>1, <2>4, <2>7, <2>8, <2>9 DEF Counts
  <1>13. UserOK(u)'
    <2>1. CallOK(mint_calls[u][c])'
      <3>1. mint_calls'[u][c] = call
        BY DEF CallBecomes
      <3>2. n \in 1 .. Len(icp_blocks') /\ n # None
        BY <1>2, <1>5, <1>12, MintDataFacts
      <3>3. QED BY <3>1, <3>2 DEF CallOK
    <2>2. QED BY <1>9, <1>10, <1>11, <2>1 DEF UserOK
  <1>14. HeldBy(u) = {} /\ HeldBy(u)' = {n}
    <2>1. mint_calls[u][c].height = None
      BY <1>9 DEF CallOK
    <2>2. HeldBy(u) = {}
      BY <1>9, <2>1, MintDataFacts
    <2>3. \A h : h \in HeldBy(u)' <=> h \in 1 .. MaxIcpBlocks /\ h = n
      BY <1>11 DEF HeldBy, CallBecomes
    <2>4. QED BY <1>12, <2>2, <2>3
  <1>15. LedgerInv' /\ Surplus' >= Surplus /\ CreditsKept
    BY SameBank DEF MintInv
  <1>16. MintTypes'
    BY <1>1, <1>5 DEF MintTypes, CallBecomes
  <1>17. EachCreditedOnce'
    BY <1>6, <1>15, CreditedOnceKept DEF MintInv
  <1>18. \A h : CreditedBy(h)' = CreditedBy(h)
    BY <1>15, CreditedKept
  <1>19. ~CreditedBy(n)
    <2>1. n \notin 1 .. Len(icp_blocks)
      BY <1>2
    <2>2. QED BY <2>1 DEF CreditedBy, MintInv, EachCreditedOnce
  <1>20. EachHeldOnce'
    <2>1. ASSUME NEW v \in User, v # u, NEW h \in HeldBy(v) PROVE h \in 1 .. Len(icp_blocks)
      <3>1. UserOK(v)
        BY DEF MintInv
      <3>2. /\ h \in 1 .. MaxIcpBlocks
            /\ \/ Waiting(v) /\ users_mint_cycles[v].height = h
               \/ \E d \in Copy : Running(v, d) /\ mint_calls[v][d].height = h
        BY <2>1 DEF HeldBy
      <3>3. h # None
        BY <3>2, MintDataFacts
      <3>4. QED BY <3>1, <3>2, <3>3 DEF UserOK, CallOK
    <2>2. n \notin 1 .. Len(icp_blocks)
      BY <1>2
    <2>3. \A v \in User \ {u} : HeldBy(v)' = HeldBy(v) /\ n \notin HeldBy(v)
      BY <1>8, <2>1, <2>2
    <2>4. ASSUME NEW v \in User, NEW w \in User, NEW h \in HeldBy(v)', h \in HeldBy(w)'
          PROVE  v = w
      BY <1>14, <2>3, <2>4 DEF MintInv, EachHeldOnce
    <2>5. ASSUME NEW v \in User, NEW h \in HeldBy(v)' PROVE ~CreditedBy(h)'
      BY <1>14, <1>18, <1>19, <2>3, <2>5 DEF MintInv, EachHeldOnce
    <2>6. QED BY <2>4, <2>5 DEF EachHeldOnce
  <1>21. EachAccounted'
    <2> SUFFICES ASSUME NEW h \in 1 .. n
                 PROVE  \/ icp_blocks'[h].state = "refunded" \/ CreditedBy(h)'
                        \/ \E v \in User : h \in HeldBy(v)'
      BY <1>5 DEF EachAccounted
    <2>1. CASE h = n
      BY <1>14, <2>1
    <2>2. CASE h \in 1 .. Len(icp_blocks)
      <3>1. \/ icp_blocks[h].state = "refunded" \/ CreditedBy(h)
            \/ \E v \in User : h \in HeldBy(v)
        BY <2>2 DEF MintInv, EachAccounted
      <3>2. QED BY <1>5, <1>8, <1>14, <1>18, <2>2, <3>1
    <2>3. QED BY <1>2, <2>1, <2>2
  <1>22. CreditsAreBacked'
    <2>1. ASSUME NEW h \in 1 .. MaxIcpBlocks
          PROVE  (h \in 1 .. Len(icp_blocks') /\ icp_blocks'[h].state = "minted")
                 <=> (h \in 1 .. Len(icp_blocks) /\ icp_blocks[h].state = "minted")
      BY <1>2, <1>4, <1>5
    <2>2. Uncredited' = Uncredited
      BY <1>5, <1>18, <2>1 DEF Uncredited
    <2>3. QED BY <1>15, <2>2, BackedKept
  <1>23. \A v \in User : UserOK(v)'
    BY <1>8, <1>13
  <1>24. QED BY <1>12, <1>15, <1>16, <1>17, <1>20, <1>21, <1>22, <1>23 DEF MintInv

(* The account is credited: the block of the ledger takes the place of the *)
(* call, and the cycles that the CMC minted pay for it.                    *)
LEMMA MintCreditedStep ==
    ASSUME MintInv, NEW u \in User, NEW c \in Copy, MintCredited(u, c)
    PROVE  MintInv'
  <1> DEFINE call == mint_calls[u][c]
             height == call.height
             amount == Minted(icp_blocks[height].cycles)
             block == [op |-> "mint", to |-> call.to, amt |-> amount, icp |-> height]
             len == Len(logs)
  <1>1. MintTypes /\ Counts /\ UserOK(u) /\ LedgerInv
    BY DEF MintInv
  <1>2. Running(u, c) /\ call.at = "minted"
    BY DEF MintCredited, Running
  <1>3. /\ call \in MintCall /\ CallOK(call)
        /\ \A h : h \in HeldBy(u) <=> h \in 1 .. MaxIcpBlocks /\ h = height
    BY <1>1, <1>2, RunningFacts
  <1>4. /\ height \in 1 .. Len(icp_blocks) /\ icp_blocks[height].state = "minted"
        /\ call.to \in Account
    BY <1>2, <1>3, MintDataFacts DEF CallOK
  <1>5. /\ Len(icp_blocks) \in Nat /\ Len(icp_blocks) <= MaxIcpBlocks
        /\ icp_blocks[height] \in IcpBlock
    BY <1>1, <1>4, BlockCountType
  <1>6. height \in 1 .. MaxIcpBlocks /\ height \in Nat /\ height # None
    BY <1>4, <1>5, MintDataFacts
  <1>7. icp_blocks[height].cycles \in Nat /\ amount \in Nat /\ amount <= icp_blocks[height].cycles
    <2>1. icp_blocks[height].cycles \in Nat
      BY <1>5, MintDataFacts
    <2>2. QED BY <2>1, OutStateFacts DEF Minted
  <1>8. /\ Credit(call.to, amount) /\ PushLog(block) /\ SetRootHash
        /\ users_mint_cycles' = Ended(u)
        /\ mint_calls' = [mint_calls EXCEPT ![u][c] = None]
        /\ UNCHANGED <<dedup_map, time, cycles_out, canister_cycles, deposited,
                       timers, upgrade_timer, icp_blocks>>
    BY DEF MintCredited
  <1>9. CallBecomes(u, c, None)
    BY <1>1, <1>8, CallBecomesIt
  <1>10. LedgerInv' /\ Surplus' = Surplus - amount
    <2>1. canister_cycles \in Int /\ canister_cycles' = canister_cycles /\ Surplus \in Int
      BY <1>1, <1>8, SurplusType
    <2> HIDE DEF call, height, amount, block
    <2>2. PushLog([op |-> "mint", to |-> call.to, amt |-> amount, icp |-> height])
      BY <1>8 DEF block
    <2>3. UNCHANGED <<dedup_map, time, cycles_out, deposited>> /\ canister_cycles' \in Int
      BY <1>8, <2>1
    <2>4. /\ LedgerInv'
          /\ Surplus' = Surplus + (canister_cycles' - canister_cycles) - amount
      BY <1>1, <1>4, <1>6, <1>7, <1>8, <2>2, <2>3, CreditStep
    <2>5. QED BY <1>7, <2>1, <2>4
  <1>11. /\ len \in Nat /\ Len(logs') = len + 1 /\ logs'[len + 1] = block
         /\ \A i \in 1 .. len : logs'[i] = logs[i]
    <2>1. logs' = Append(logs, block) /\ logs \in Seq(Block)
      BY <1>1, <1>8 DEF PushLog, LedgerInv, LedgerTypes
    <2> HIDE DEF block
    <2>2. QED BY <2>1
  <1>12. block.op = "mint" /\ block.icp = height /\ block.amt = amount
    OBVIOUS
  <1> HIDE DEF block, len, call, height, amount
  <1>13. \A i : i \in Credits' <=> i \in Credits \/ i = len + 1
    BY <1>6, <1>11, <1>12 DEF Credits, len
  <1>14. \A i \in Credits : i \in 1 .. len
    BY DEF Credits, len
  <1>15. \A h : CreditedBy(h)' <=> CreditedBy(h) \/ h = height
    BY <1>11, <1>12, <1>13, <1>14 DEF CreditedBy
  <1>16. height \in HeldBy(u) /\ ~CreditedBy(height)
    BY <1>1, <1>3, <1>6 DEF MintInv, EachHeldOnce
  <1>17. EachCreditedOnce'
    <2>1. ASSUME NEW i \in Credits', NEW j \in Credits', logs'[i].icp = logs'[j].icp
          PROVE  i = j
      <3>1. CASE i \in Credits /\ j \in Credits
        BY <2>1, <3>1, <1>11, <1>14 DEF MintInv, EachCreditedOnce
      <3>2. CASE i \in Credits /\ j = len + 1
        BY <2>1, <3>2, <1>11, <1>12, <1>14, <1>16 DEF CreditedBy
      <3>3. CASE j \in Credits /\ i = len + 1
        BY <2>1, <3>3, <1>11, <1>12, <1>14, <1>16 DEF CreditedBy
      <3>4. QED BY <1>13, <3>1, <3>2, <3>3
    <2>2. ASSUME NEW i \in Credits'
          PROVE  /\ logs'[i].icp \in 1 .. Len(icp_blocks')
                 /\ icp_blocks'[logs'[i].icp].state = "minted"
                 /\ logs'[i].amt = Minted(icp_blocks'[logs'[i].icp].cycles)
      <3>1. icp_blocks' = icp_blocks
        BY <1>8
      <3>2. CASE i \in Credits
        BY <3>1, <3>2, <1>11, <1>14 DEF MintInv, EachCreditedOnce
      <3>3. CASE i = len + 1
        BY <3>1, <3>3, <1>4, <1>11, <1>12 DEF amount
      <3>4. QED BY <1>13, <3>2, <3>3
    <2>3. QED BY <2>1, <2>2 DEF EachCreditedOnce, Minted
  <1>18. CreditsAreBacked'
    <2>1. /\ Uncredited \in [1 .. MaxIcpBlocks -> Nat] /\ SumFunction(Uncredited) \in Nat
      BY <1>1, UncreditedType
    <2>2. Uncredited' = [h \in 1 .. MaxIcpBlocks |-> IF h = height THEN 0 ELSE Uncredited[h]]
      <3>1. icp_blocks' = icp_blocks
        BY <1>8
      <3>2. ASSUME NEW h \in 1 .. MaxIcpBlocks
            PROVE  Uncredited'[h] = IF h = height THEN 0 ELSE Uncredited[h]
        BY <1>15, <3>1 DEF Uncredited
      <3>3. Uncredited' = [h \in 1 .. MaxIcpBlocks |-> Uncredited'[h]]
        BY DEF Uncredited
      <3>4. QED BY <3>2, <3>3
    <2>3. Uncredited[height] = icp_blocks[height].cycles
      BY <1>4, <1>6, <1>16 DEF Uncredited
    <2>4. /\ Uncredited' \in [1 .. MaxIcpBlocks -> Nat] /\ Uncredited'[height] = 0
          /\ \A h \in (1 .. MaxIcpBlocks) \ {height} : Uncredited'[h] = Uncredited[h]
      BY <1>6, <2>1, <2>2
    <2>5. IsFiniteSet(1 .. MaxIcpBlocks)
      BY MintDataFacts, FS_Interval
    <2>6. SumFunction(Uncredited') = SumFunction(Uncredited) - Uncredited[height] + Uncredited'[height]
      BY ZenonT(30), <1>6, <2>1, <2>4, <2>5, SumWithAnother
    <2>7. Surplus >= SumFunction(Uncredited) /\ Surplus \in Int
      BY <1>1, SurplusType DEF MintInv, CreditsAreBacked
    <2>8. SumFunction(Uncredited)' = SumFunction(Uncredited') /\ SumFunction(Uncredited') \in Nat
      BY <2>4, <2>5, SumFunctionType
    <2>9. Surplus' >= SumFunction(Uncredited')
      BY <1>7, <1>10, <2>1, <2>3, <2>4, <2>6, <2>7, <2>8
    <2>10. QED BY <2>8, <2>9 DEF CreditsAreBacked
  <1>19. /\ \A h \in 1 .. MaxIcpBlocks : CreditedBy(h) => CreditedBy(h)'
         /\ \A h \in 1 .. MaxIcpBlocks :
               CreditedBy(h)' => CreditedBy(h) \/ h = mint_calls[u][c].height
         /\ \A h \in 1 .. MaxIcpBlocks :
               h = mint_calls[u][c].height => icp_blocks[h].state = "refunded" \/ CreditedBy(h)'
    BY <1>15 DEF height, call
  <1>20. QED BY <1>2, <1>8, <1>9, <1>10, <1>17, <1>18, <1>19, CallEnds

-----------------------------------------------------------------------------
(* The CMC, the timers and the bank.                                       *)

(* The users' data and calls stay as they are, and each user keeps a timer.*)
LEMMA QuietMintStep ==
    ASSUME MintInv, BlocksKept, Len(icp_blocks') = Len(icp_blocks),
           icp_blocks' \in Seq(IcpBlock),
           UNCHANGED <<users_mint_cycles, mint_calls>>,
           timers' \subseteq User, upgrade_timer' \in BOOLEAN,
           \A u \in User : Waiting(u) /\ (u \in timers \/ upgrade_timer)
                           => u \in timers' \/ upgrade_timer',
           LedgerInv', CreditsKept, CreditsAreBacked'
    PROVE  MintInv'
  <1>1. MintTypes /\ Counts
    BY DEF MintInv
  <1>2. \A u \in User : UserOK(u)' /\ HeldBy(u)' = HeldBy(u)
    BY <1>1, UserKept DEF MintInv
  <1>3. EachCreditedOnce' /\ EachHeldOnce' /\ EachAccounted'
    BY <1>2, HoldersKept
  <1>4. MintTypes'
    BY <1>1 DEF MintTypes
  <1>5. Counts'
    BY <1>1, BlockCountType, CountsKept DEF MidCallUsers, Transferring
  <1>6. QED BY <1>2, <1>3, <1>4, <1>5 DEF MintInv

LEMMA TimersStep ==
    ASSUME MintInv, UNCHANGED <<bank_vars, users_mint_cycles, mint_calls, icp_blocks>>,
           timers' \subseteq User, upgrade_timer' \in BOOLEAN,
           \A u \in User : Waiting(u) /\ (u \in timers \/ upgrade_timer)
                           => u \in timers' \/ upgrade_timer'
    PROVE  MintInv'
  <1>1. LedgerInv' /\ Surplus' >= Surplus /\ CreditsKept
    BY SameBank DEF MintInv
  <1>2. BlocksKept /\ Len(icp_blocks') = Len(icp_blocks)
    BY SameBlocks DEF MintInv
  <1>3. CreditsAreBacked'
    BY <1>1, UncreditedKept, BackedKept
  <1>4. icp_blocks' \in Seq(IcpBlock)
    BY DEF MintInv, MintTypes
  <1>5. QED BY <1>1, <1>2, <1>3, <1>4, QuietMintStep

LEMMA CmcDecidesStep ==
    ASSUME MintInv, NEW h \in 1 .. Len(icp_blocks), CmcDecides(h)
    PROVE  MintInv'
  <1>1. MintTypes /\ Counts /\ LedgerInv
    BY DEF MintInv
  <1>2. /\ Len(icp_blocks) \in Nat /\ icp_blocks[h] \in IcpBlock /\ h \in 1 .. MaxIcpBlocks
        /\ icp_blocks \in Seq(IcpBlock)
    BY <1>1, BlockCountType, MintDataFacts DEF MintTypes
  <1>3. /\ icp_blocks[h].state = "new"
        /\ UNCHANGED <<ledger, dedup_map, time, cycles_out, deposited,
                       users_mint_cycles, mint_calls, timers, upgrade_timer>>
    BY DEF CmcDecides
  <1>4. PICK new \in IcpBlock :
           /\ icp_blocks' = [icp_blocks EXCEPT ![h] = new]
           /\ \/ new.state = "minted" /\ canister_cycles' = canister_cycles + new.cycles
              \/ new.state = "refunded" /\ canister_cycles' = canister_cycles
    <2>1. CASE \E cycles \in MintAmount :
                  /\ icp_blocks' = [icp_blocks EXCEPT ![h] =
                                       [@ EXCEPT !.state = "minted", !.cycles = cycles]]
                  /\ canister_cycles' = canister_cycles + cycles
      <3>1. PICK cycles \in MintAmount :
                  /\ icp_blocks' = [icp_blocks EXCEPT ![h] =
                                       [@ EXCEPT !.state = "minted", !.cycles = cycles]]
                  /\ canister_cycles' = canister_cycles + cycles
        BY <2>1
      <3> DEFINE new == [icp_blocks[h] EXCEPT !.state = "minted", !.cycles = cycles]
      <3>2. new \in IcpBlock /\ new.state = "minted" /\ new.cycles = cycles
        BY <1>2 DEF IcpBlock
      <3>3. icp_blocks' = [icp_blocks EXCEPT ![h] = new]
        BY <3>1
      <3>4. QED BY <3>1, <3>2, <3>3
    <2>2. CASE /\ icp_blocks' = [icp_blocks EXCEPT ![h].state = "refunded"]
               /\ UNCHANGED canister_cycles
      <3> DEFINE new == [icp_blocks[h] EXCEPT !.state = "refunded"]
      <3>1. new \in IcpBlock /\ new.state = "refunded"
        BY <1>2 DEF IcpBlock
      <3>2. icp_blocks' = [icp_blocks EXCEPT ![h] = new]
        BY <2>2
      <3>3. QED BY <2>2, <3>1, <3>2
    <2>3. QED BY <2>1, <2>2 DEF CmcDecides
  <1>5. /\ icp_blocks' \in Seq(IcpBlock) /\ Len(icp_blocks') = Len(icp_blocks)
        /\ icp_blocks'[h] = new
        /\ \A g \in 1 .. Len(icp_blocks) : g # h => icp_blocks'[g] = icp_blocks[g]
    BY <1>2, <1>4
  <1>6. BlocksKept
    BY <1>2, <1>3, <1>5 DEF BlocksKept
  <1>7. CreditsKept
    BY <1>3, SameCredits DEF ledger, log_vars
  <1>8. new.cycles \in Nat /\ canister_cycles \in Int
    BY <1>1, MintDataFacts, SurplusType
  <1>9. LedgerInv' /\ Surplus' = Surplus + (canister_cycles' - canister_cycles)
    <2>1. /\ canister_cycles' \in Int /\ canister_cycles' >= canister_cycles
      BY <1>4, <1>8
    <2>2. /\ UNCHANGED <<balances, total_supply, logs, cycles_out, certified_data,
                         user_logs_pointers, dedup_map, time, deposited>>
      BY <1>3 DEF ledger, log_vars
    <2>3. /\ Tip' /\ time' \in Nat /\ deposited' \in Nat /\ dedup_map' \subseteq dedup_map
          /\ user_logs_pointers' \in [Account -> Seq(0 .. Len(logs) - 1)]
      BY <1>1, <2>2 DEF LedgerInv, LedgerTypes, Tip
    <2>4. LedgerInv'
      BY <1>1, <2>1, <2>2, <2>3, QuietStep
    <2>5. total_supply \in Int /\ SumFunction(Reserves(cycles_out)) \in Int
      BY <1>1, SurplusType
    <2>6. Surplus' = Surplus + (canister_cycles' - canister_cycles)
      BY <1>8, <2>1, <2>2, <2>5 DEF Surplus
    <2>7. QED BY <2>4, <2>6
  <1>10. CreditsAreBacked'
    <2>1. Uncredited \in [1 .. MaxIcpBlocks -> Nat] /\ SumFunction(Uncredited) \in Nat
      BY <1>1, UncreditedType
    <2>2. Uncredited[h] = 0
      BY <1>2, <1>3 DEF Uncredited
    <2>3. \A g : CreditedBy(g)' = CreditedBy(g)
      BY <1>7, CreditedKept
    <2>4. ~CreditedBy(h)
      BY <1>3 DEF MintInv, EachCreditedOnce, CreditedBy
    <2>5. Uncredited'[h] = IF new.state = "minted" THEN new.cycles ELSE 0
      BY <1>2, <1>5, <2>3, <2>4 DEF Uncredited
    <2>6. \A g \in (1 .. MaxIcpBlocks) \ {h} : Uncredited'[g] = Uncredited[g]
      BY <1>5, <2>3 DEF Uncredited
    <2>7. Uncredited' \in [1 .. MaxIcpBlocks -> Nat]
      <3>1. ASSUME NEW g \in 1 .. MaxIcpBlocks PROVE Uncredited'[g] \in Nat
        BY <1>8, <2>1, <2>5, <2>6
      <3>2. Uncredited' = [g \in 1 .. MaxIcpBlocks |-> Uncredited'[g]]
        BY DEF Uncredited
      <3>3. QED BY <3>1, <3>2
    <2>8. IsFiniteSet(1 .. MaxIcpBlocks)
      BY MintDataFacts, FS_Interval
    <2>9. SumFunction(Uncredited') = SumFunction(Uncredited) - Uncredited[h] + Uncredited'[h]
      BY <1>2, <2>1, <2>6, <2>7, <2>8, SumWithAnother
    <2>10. Surplus >= SumFunction(Uncredited) /\ Surplus \in Int
      BY <1>1, SurplusType DEF MintInv, CreditsAreBacked
    <2>11. Surplus' >= SumFunction(Uncredited')
      BY <1>4, <1>8, <1>9, <2>1, <2>2, <2>5, <2>9, <2>10
    <2>12. SumFunction(Uncredited)' = SumFunction(Uncredited')
      OBVIOUS
    <2>13. QED BY <2>11, <2>12 DEF CreditsAreBacked
  <1>11. /\ timers' \subseteq User /\ upgrade_timer' \in BOOLEAN
         /\ \A u \in User : Waiting(u) /\ (u \in timers \/ upgrade_timer)
                            => u \in timers' \/ upgrade_timer'
    BY <1>1, <1>3 DEF MintTypes
  <1>12. QED BY <1>3, <1>5, <1>6, <1>7, <1>9, <1>10, <1>11, QuietMintStep

(* Saved mints are resumed: each user's call takes the lock, and holds what*)
(* was saved.                                                              *)
LEMMA CompleteStep ==
    ASSUME MintInv, NEW U \in SUBSET User, \A u \in U : MayComplete(u), Complete(U),
           UNCHANGED <<bank_vars, icp_blocks>>,
           timers' \subseteq User, upgrade_timer' \in BOOLEAN,
           \A u \in User \ U : Waiting(u) /\ (u \in timers \/ upgrade_timer)
                               => u \in timers' \/ upgrade_timer'
    PROVE  MintInv'
  <1>1. MintTypes /\ Counts
    BY DEF MintInv
  <1>2. /\ BlocksKept /\ Len(icp_blocks') = Len(icp_blocks) /\ Len(icp_blocks) \in Nat
        /\ Len(icp_blocks) <= MaxIcpBlocks
    BY <1>1, SameBlocks, BlockCountType
  <1>3. LedgerInv' /\ Surplus' >= Surplus /\ CreditsKept
    BY SameBank DEF MintInv
  <1>4. ASSUME NEW u \in User \ U
        PROVE  /\ users_mint_cycles'[u] = users_mint_cycles[u] /\ mint_calls'[u] = mint_calls[u]
               /\ UserOK(u)' /\ HeldBy(u)' = HeldBy(u)
    <2>1. users_mint_cycles'[u] = users_mint_cycles[u] /\ mint_calls'[u] = mint_calls[u]
      BY DEF Complete
    <2>2. QED BY <1>1, <1>2, <1>4, <2>1, UserKept DEF MintInv
  <1>5. ASSUME NEW u \in U
        PROVE  /\ users_mint_cycles[u] # None
               /\ users_mint_cycles'[u] \in MidCallData
               /\ mint_calls'[u] \in [Copy -> MintCall \cup {None}]
               /\ \A c \in Copy : mint_calls'[u][c] # None => mint_calls'[u][c].at # "transfer"
               /\ UserOK(u)' /\ HeldBy(u)' = HeldBy(u)
    <2>1. u \in User /\ Waiting(u) /\ UserOK(u) /\ users_mint_cycles[u] \in MidCallData
      BY <1>1 DEF MayComplete, MidCallUsers, Waiting, MintInv, MintTypes
    <2>2. users_mint_cycles[u].height \in 1 .. Len(icp_blocks)
      BY <2>1 DEF UserOK
    <2>3. users_mint_cycles[u].height \in 1 .. MaxIcpBlocks
      BY <1>2, <2>2, MintDataFacts
    <2>4. PICK c \in Copy : c = FreeCopy(u)
      BY <2>1, FreeCopyIsFree DEF Complete
    <2> DEFINE data == [users_mint_cycles[u] EXCEPT !.lock = TRUE]
               call == ResumedCall(u)
    <2>5. /\ data \in MidCallData /\ data.lock /\ data.height = users_mint_cycles[u].height
      BY <2>1 DEF MidCallData
    <2>6. /\ call \in MintCall /\ call.at = "notify" /\ call.height = users_mint_cycles[u].height
      <3>1. users_mint_cycles[u].height # None
        BY <2>3, MintDataFacts
      <3>2. QED BY <2>1, <3>1 DEF ResumedCall, MintCall, MidCallData
    <2> HIDE DEF data, call
    <2>7. users_mint_cycles'[u] = data
      BY <2>1 DEF Complete, data
    <2>8. mint_calls'[u] = [mint_calls[u] EXCEPT ![c] = call]
      BY <2>1, <2>4 DEF Complete, call
    <2>9. /\ mint_calls'[u] \in [Copy -> MintCall \cup {None}]
          /\ mint_calls'[u][c] = call
          /\ \A d \in Copy \ {c} : mint_calls'[u][d] = mint_calls[u][d]
      BY <1>1, <2>1, <2>6, <2>8 DEF MintTypes
    <2>10. \A d \in Copy : ~Running(u, d)
      BY <2>1 DEF UserOK, Waiting
    <2>11. /\ ~Waiting(u)' /\ Running(u, c)' /\ \A d \in Copy : Running(u, d)' => d = c
      BY <2>5, <2>6, <2>7, <2>9, <2>10, MintDataFacts DEF Waiting, Running
    <2>12. CallOK(mint_calls[u][c])'
      <3>1. call.height \in 1 .. Len(icp_blocks') /\ call.height # None
        BY <1>2, <2>2, <2>3, <2>6, MintDataFacts
      <3>2. QED BY <2>6, <2>9, <3>1 DEF CallOK
    <2>13. UserOK(u)'
      BY <2>5, <2>7, <2>11, <2>12, MintDataFacts DEF UserOK
    <2>14. HeldBy(u)' = HeldBy(u)
      <3>1. \A h : h \in HeldBy(u)' <=> h \in 1 .. MaxIcpBlocks /\ h = users_mint_cycles[u].height
        BY <2>6, <2>9, <2>11 DEF HeldBy
      <3>2. \A h : h \in HeldBy(u) <=> h \in 1 .. MaxIcpBlocks /\ h = users_mint_cycles[u].height
        BY <2>1, <2>10 DEF HeldBy
      <3>3. QED BY <3>1, <3>2
    <2>15. \A d \in Copy : mint_calls'[u][d] # None => mint_calls'[u][d].at # "transfer"
      BY <2>6, <2>9, <2>11 DEF Running
    <2>16. QED BY <2>1, <2>5, <2>7, <2>9, <2>13, <2>14, <2>15, MintDataFacts
  <1>6. \A u \in User : UserOK(u)' /\ HeldBy(u)' = HeldBy(u)
    BY <1>4, <1>5
  <1>7. MintTypes'
    <2>1. users_mint_cycles' \in [User -> MidCallData \cup {None}]
      <3>1. \A u \in User : users_mint_cycles'[u] \in MidCallData \cup {None}
        BY <1>1, <1>4, <1>5 DEF MintTypes
      <3>2. users_mint_cycles' = [u \in User |-> users_mint_cycles'[u]]
        BY DEF Complete
      <3>3. QED BY <3>1, <3>2
    <2>2. mint_calls' \in [User -> [Copy -> MintCall \cup {None}]]
      <3>1. \A u \in User : mint_calls'[u] \in [Copy -> MintCall \cup {None}]
        BY <1>1, <1>4, <1>5 DEF MintTypes
      <3>2. mint_calls' = [u \in User |-> mint_calls'[u]]
        BY DEF Complete
      <3>3. QED BY <3>1, <3>2
    <2>3. QED BY <1>1, <2>1, <2>2 DEF MintTypes
  <1>8. Counts'
    <2>1. MidCallUsers' \subseteq MidCallUsers
      BY <1>4, <1>5 DEF MidCallUsers
    <2>2. ASSUME NEW x \in Transferring' PROVE x \in Transferring
      <3>1. /\ x \in User \X Copy /\ mint_calls'[x[1]][x[2]] # None
            /\ mint_calls'[x[1]][x[2]].at = "transfer"
        BY <2>2 DEF Transferring
      <3>2. x[1] \in User \ U /\ x[2] \in Copy
        BY <1>5, <3>1
      <3>3. QED BY <1>4, <3>1, <3>2 DEF Transferring
    <2>3. QED BY <1>1, <1>2, <2>1, <2>2, CountsKept
  <1>9. EachCreditedOnce' /\ EachHeldOnce' /\ EachAccounted'
    BY <1>2, <1>3, <1>6, HoldersKept
  <1>10. CreditsAreBacked'
    BY <1>3, UncreditedKept, BackedKept
  <1>11. QED BY <1>3, <1>6, <1>7, <1>8, <1>9, <1>10 DEF MintInv

(* The other steps of the bank write no block of the CMC.                  *)
LEMMA BankWritesNoCredit ==
    ASSUME LedgerInv, BankNext
    PROVE  CreditsKept
  <1>1. logs \in Seq(Block) /\ cycles_out \in [OutCall -> OutState \cup {None}]
    BY DEF LedgerInv, LedgerTypes
  <1>2. ASSUME NEW block, logs' = Append(logs, block), block.op # "mint" \/ block.icp = None
        PROVE  CreditsKept
    <2>1. /\ Len(logs) \in Nat /\ Len(logs') = Len(logs) + 1 /\ logs'[Len(logs) + 1] = block
          /\ \A i \in 1 .. Len(logs) : logs'[i] = logs[i]
      BY <1>1, <1>2, AppendProperties
    <2>2. \A i : i \in Credits' <=> i \in Credits
      BY <1>2, <2>1 DEF Credits
    <2>3. QED BY <2>1, <2>2 DEF CreditsKept, Credits
  <1>3. CASE UNCHANGED logs
    BY <1>3, SameCredits
  <1>4. ASSUME NEW q, Transfer(q) PROVE CreditsKept
    <2> DEFINE block == [op |-> "xfer", from |-> q.from, to |-> q.to, amt |-> q.amount,
                         ts |-> q.created_at_time]
    <2>1. logs' = Append(logs, block) /\ block.op # "mint"
      BY <1>4 DEF Transfer, PushLog
    <2> HIDE DEF block
    <2>2. QED BY <1>2, <2>1
  <1>5. ASSUME NEW a, NEW cycles, CyclesIn(a, cycles) PROVE CreditsKept
    <2> DEFINE block == [op |-> "mint", to |-> a, amt |-> cycles, icp |-> None]
    <2>1. logs' = Append(logs, block) /\ block.icp = None
      BY <1>5 DEF CyclesIn, PushLog
    <2> HIDE DEF block
    <2>2. QED BY <1>2, <2>1
  <1>6. ASSUME NEW k, CyclesOutReply(k) PROVE CreditsKept
    <2> DEFINE block == [op |-> "burn", from |-> cycles_out[k].from,
                         amt |-> Burnt(cycles_out[k].cycles)]
    <2>1. block.op # "mint" /\ (logs' = Append(logs, block) \/ UNCHANGED logs)
      BY <1>6 DEF CyclesOutReply, WriteBurn, PushLog, log_vars
    <2> HIDE DEF block
    <2>2. QED BY <1>2, <1>3, <2>1
  <1>7. CASE TransferRefused \/ Tick
    BY <1>3, <1>7 DEF TransferRefused, Tick, ledger, log_vars
  <1>8. ASSUME NEW k, NEW a, NEW cycles, CyclesOut(k, a, cycles) PROVE CreditsKept
    BY <1>3, <1>8 DEF CyclesOut, log_vars
  <1>9. ASSUME NEW k, DepositCycles(k) PROVE CreditsKept
    BY <1>3, <1>9 DEF DepositCycles, ledger, log_vars
  <1>10. QED BY <1>4, <1>5, <1>6, <1>7, <1>8, <1>9 DEF BankNext

LEMMA BankStepOfMint ==
    ASSUME MintInv, BankNext \/ UpgradeBank, UNCHANGED <<users_mint_cycles, mint_calls, icp_blocks>>,
           timers' \subseteq User, upgrade_timer' \in BOOLEAN,
           \A u \in User : Waiting(u) /\ (u \in timers \/ upgrade_timer)
                           => u \in timers' \/ upgrade_timer'
    PROVE  MintInv'
  <1>1. LedgerInv' /\ Surplus' >= Surplus
    BY BankStep DEF MintInv, ControllerNext
  <1>2. CreditsKept
    BY BankWritesNoCredit, SameCredits DEF MintInv, UpgradeBank
  <1>3. BlocksKept /\ Len(icp_blocks') = Len(icp_blocks)
    BY SameBlocks DEF MintInv
  <1>4. CreditsAreBacked'
    BY <1>1, <1>2, UncreditedKept, BackedKept
  <1>5. icp_blocks' \in Seq(IcpBlock)
    BY DEF MintInv, MintTypes
  <1>6. QED BY <1>1, <1>2, <1>3, <1>4, <1>5, QuietMintStep

(* The next await of a call, or an answer to it.                           *)
LEMMA CallGoesOn ==
    ASSUME MintInv, NEW u \in User, NEW c \in Copy, Running(u, c),
           NEW at \in {"not_transferred", "notify", "minted", "refunded", "notify_error"},
           mint_calls' = [mint_calls EXCEPT ![u][c].at = at],
           at = "not_transferred" <=> mint_calls[u][c].height = None,
           at \in {"minted", "refunded"} => icp_blocks[mint_calls[u][c].height].state = at,
           UNCHANGED <<bank_vars, users_mint_cycles, timers, upgrade_timer, icp_blocks>>
    PROVE  MintInv'
  <1> DEFINE call == mint_calls[u][c]
             new == [call EXCEPT !.at = at]
  <1>1. MintTypes /\ UserOK(u)
    BY DEF MintInv
  <1>2. call \in MintCall /\ CallOK(call)
    BY <1>1, RunningFacts
  <1>3. new \in MintCall /\ new.at = at /\ new.height = call.height
    BY <1>2 DEF MintCall
  <1>4. mint_calls' = [mint_calls EXCEPT ![u][c] = new]
    OBVIOUS
  <1> HIDE DEF new
  <1>5. CallBecomes(u, c, new)
    BY <1>1, <1>3, <1>4, CallBecomesIt
  <1>6. CallOK(new)
    BY <1>2, <1>3 DEF CallOK
  <1>7. new.at # "transfer"
    BY <1>3
  <1>8. QED BY <1>3, <1>5, <1>6, <1>7, CallMoves

(* A call that ends without a block of the ledger.                         *)
LEMMA CallEndsWithout ==
    ASSUME MintInv, NEW u \in User, NEW c \in Copy, MintRefused(u, c) \/ MintRefunded(u, c)
    PROVE  MintInv'
  <1>1. /\ Running(u, c) /\ users_mint_cycles' = Ended(u)
        /\ mint_calls' = [mint_calls EXCEPT ![u][c] = None]
        /\ UNCHANGED <<bank_vars, timers, upgrade_timer, icp_blocks>>
        /\ mint_calls[u][c].at \in {"not_transferred", "refunded"}
    BY DEF MintRefused, MintRefunded, Running
  <1>2. MintTypes /\ Counts /\ UserOK(u)
    BY DEF MintInv
  <1>3. CallBecomes(u, c, None)
    BY <1>1, <1>2, CallBecomesIt
  <1>4. CallOK(mint_calls[u][c])
    BY <1>1, <1>2, RunningFacts
  <1>5. LedgerInv' /\ Surplus' >= Surplus /\ CreditsKept
    BY <1>1, SameBank DEF MintInv
  <1>6. EachCreditedOnce' /\ CreditsAreBacked' /\ \A h : CreditedBy(h)' = CreditedBy(h)
    <2>1. BlocksKept
      BY <1>1, <1>2, SameBlocks
    <2>2. EachCreditedOnce'
      BY <1>5, <2>1, CreditedOnceKept DEF MintInv
    <2>3. QED BY <1>1, <1>5, <2>2, UncreditedKept, BackedKept, CreditedKept
  <1>7. \A h \in 1 .. MaxIcpBlocks : h = mint_calls[u][c].height => icp_blocks[h].state = "refunded"
    BY <1>1, <1>4, MintDataFacts DEF CallOK
  <1>8. QED BY <1>1, <1>3, <1>5, <1>6, <1>7, CallEnds

LEMMA IcpTransferStep ==
    ASSUME MintInv, NEW u \in User, NEW c \in Copy, IcpTransfer(u, c)
    PROVE  MintInv'
  <1> DEFINE call == mint_calls[u][c]
             new == [call EXCEPT !.at = "transferred", !.height = Len(icp_blocks) + 1]
  <1>1. /\ Running(u, c) /\ call.at = "transfer"
        /\ UNCHANGED <<bank_vars, users_mint_cycles, timers, upgrade_timer>>
    BY DEF IcpTransfer, Running
  <1>2. MintTypes /\ Counts /\ UserOK(u)
    BY DEF MintInv
  <1>3. call \in MintCall /\ CallOK(call)
    BY <1>1, <1>2, RunningFacts
  <1>4. call.height = None
    BY <1>1, <1>3 DEF CallOK
  <1>5. CASE /\ icp_blocks' = Append(icp_blocks, [user |-> u, state |-> "new", cycles |-> 0])
             /\ mint_calls' = [mint_calls EXCEPT ![u][c] =
                               [@ EXCEPT !.at = "transferred", !.height = Len(icp_blocks) + 1]]
    <2>1. Len(icp_blocks) + 1 \in 1 .. MaxIcpBlocks
      <3>1. <<u, c>> \in Transferring /\ IsFiniteSet(Transferring)
        BY <1>1, <1>2 DEF Transferring, Running, Counts
      <3>2. /\ Cardinality(Transferring) \in Nat /\ Len(icp_blocks) \in Nat
            /\ Len(icp_blocks) + Cardinality(Transferring) <= MaxIcpBlocks
        BY <1>2, BlockCountType DEF Counts
      <3>3. Cardinality(Transferring) # 0
        BY <3>1, FS_EmptySet
      <3>4. QED BY <3>2, <3>3, MintDataFacts
    <2>2. new \in MintCall /\ new.at = "transferred" /\ new.height = Len(icp_blocks) + 1
      BY <1>3, <2>1 DEF MintCall
    <2>3. mint_calls' = [mint_calls EXCEPT ![u][c] = new]
      BY <1>5
    <2> DEFINE n == Len(icp_blocks) + 1
    <2>4. PICK new2 : new2 = new
      OBVIOUS
    <2> HIDE DEF new
    <2>5. CallBecomes(u, c, new2)
      BY <1>2, <2>2, <2>3, <2>4, CallBecomesIt
    <2>6. new2 \in MintCall /\ new2.at = "transferred" /\ new2.height = Len(icp_blocks) + 1
      BY <2>2, <2>4
    <2>7. QED BY <1>1, <1>5, <2>5, <2>6, IcpTransferredStep
  <1>6. CASE /\ mint_calls' = [mint_calls EXCEPT ![u][c].at = "not_transferred"]
             /\ UNCHANGED icp_blocks
    BY <1>1, <1>4, <1>6, CallGoesOn
  <1>7. QED BY <1>5, <1>6 DEF IcpTransfer

LEMMA MintReplyStep ==
    ASSUME MintInv, NEW u \in User, NEW c \in Copy, MintReply(u, c)
    PROVE  MintInv'
  <1>1. CASE MintRefused(u, c) \/ MintRefunded(u, c)
    BY <1>1, CallEndsWithout
  <1>2. CASE MintCredited(u, c)
    BY <1>2, MintCreditedStep
  <1>3. CASE LowOnCycles(u, c) \/ NotifyFails(u, c)
    BY <1>3, CallGivesUp DEF LowOnCycles, NotifyFails, Running
  <1>4. CASE CallsCmc(u, c)
    <2>1. Running(u, c) /\ mint_calls[u][c].at = "transferred"
      BY <1>4 DEF CallsCmc, Running
    <2>2. CallOK(mint_calls[u][c])
      BY <2>1, RunningFacts DEF MintInv
    <2>3. mint_calls[u][c].height # None
      BY <2>1, <2>2 DEF CallOK
    <2>4. QED BY <1>4, <2>1, <2>3, CallGoesOn DEF CallsCmc
  <1>5. QED BY <1>1, <1>2, <1>3, <1>4 DEF MintReply

LEMMA CmcRepliesStep ==
    ASSUME MintInv, NEW u \in User, NEW c \in Copy, CmcAnswers(u, c) \/ CmcFails(u, c)
    PROVE  MintInv'
  <1>1. Running(u, c) /\ mint_calls[u][c].at = "notify"
    BY DEF CmcAnswers, CmcFails, Running
  <1>2. CallOK(mint_calls[u][c])
    BY <1>1, RunningFacts DEF MintInv
  <1>3. /\ mint_calls[u][c].height # None
        /\ mint_calls[u][c].height \in 1 .. Len(icp_blocks)
    BY <1>1, <1>2 DEF CallOK
  <1>4. CASE CmcAnswers(u, c)
    <2> DEFINE state == icp_blocks[mint_calls[u][c].height].state
    <2>1. state \in {"minted", "refunded"}
      <3>1. icp_blocks[mint_calls[u][c].height] \in IcpBlock
        BY <1>3, BlockCountType DEF MintInv
      <3>2. QED BY <1>4, <3>1, MintDataFacts DEF CmcAnswers
    <2>2. /\ mint_calls' = [mint_calls EXCEPT ![u][c].at = state]
          /\ UNCHANGED <<bank_vars, users_mint_cycles, timers, upgrade_timer, icp_blocks>>
      BY <1>4 DEF CmcAnswers
    <2>3. PICK at : at = state
      OBVIOUS
    <2>4. mint_calls' = [mint_calls EXCEPT ![u][c].at = at]
      BY <2>2, <2>3
    <2>5. /\ at \in {"not_transferred", "notify", "minted", "refunded", "notify_error"}
          /\ at = "not_transferred" <=> mint_calls[u][c].height = None
          /\ icp_blocks[mint_calls[u][c].height].state = at
      BY <1>3, <2>1, <2>3
    <2> HIDE DEF state
    <2>6. QED BY ZenonT(60), <1>1, <2>2, <2>4, <2>5, CallGoesOn
  <1>5. CASE CmcFails(u, c)
    BY <1>1, <1>3, <1>5, CallGoesOn DEF CmcFails
  <1>6. QED BY <1>4, <1>5

LEMMA MintTimersStep ==
    ASSUME MintInv,
           \/ \E u \in User : UserCompletes(u) \/ TimerNotifies(u) \/ TimerIsLate(u)
           \/ Upgrade \/ UpgradeTimerNotifies \/ UpgradeTimerIsLow
    PROVE  MintInv'
  <1>1. timers \subseteq User /\ upgrade_timer \in BOOLEAN
    BY DEF MintInv, MintTypes
  <1>2. \A u \in User : MayComplete(u) <=> Waiting(u)
    BY DEF MayComplete, MidCallUsers, Waiting
  <1>3. ASSUME NEW u \in User, UserCompletes(u) PROVE MintInv'
    <2>1. CASE Complete({u}) /\ UNCHANGED timers
      BY <1>1, <1>3, <2>1, CompleteStep DEF UserCompletes
    <2>2. CASE UNCHANGED <<users_mint_cycles, mint_calls>> /\ timers' = Armed(u)
      BY <1>1, <1>3, <2>2, TimersStep DEF UserCompletes, Armed
    <2>3. QED BY <1>3, <2>1, <2>2 DEF UserCompletes
  <1>4. ASSUME NEW u \in User, TimerNotifies(u) PROVE MintInv'
    BY <1>1, <1>4, CompleteStep DEF TimerNotifies
  <1>5. ASSUME NEW u \in User, TimerIsLate(u) PROVE MintInv'
    BY <1>1, <1>2, <1>5, TimersStep DEF TimerIsLate
  <1>6. CASE Upgrade
    BY <1>6, BankStepOfMint DEF Upgrade, ArmedByUpgrade
  <1>7. CASE UpgradeTimerNotifies
    <2> DEFINE U == {u \in User : MayComplete(u)}
    <2>1. Complete(U) /\ UNCHANGED <<bank_vars, timers, icp_blocks>> /\ upgrade_timer' = FALSE
      BY <1>7 DEF UpgradeTimerNotifies
    <2>2. \A u \in User \ U : ~Waiting(u)
      BY <1>2
    <2>3. U \in SUBSET User /\ \A u \in U : MayComplete(u)
      OBVIOUS
    <2> HIDE DEF U
    <2>4. QED BY <1>1, <2>1, <2>2, <2>3, CompleteStep
  <1>8. CASE UpgradeTimerIsLow
    BY <1>1, <1>2, <1>8, TimersStep DEF UpgradeTimerIsLow
  <1>9. QED BY <1>3, <1>4, <1>5, <1>6, <1>7, <1>8

LEMMA MintBegins == MintInit => MintInv
  <1> SUFFICES ASSUME MintInit PROVE MintInv
    OBVIOUS
  <1>1. /\ users_mint_cycles = [u \in User |-> None]
        /\ mint_calls = [u \in User |-> [c \in Copy |-> None]]
        /\ timers = {} /\ upgrade_timer = FALSE /\ icp_blocks = <<>>
    BY DEF MintInit
  <1>2. LedgerInv /\ Solvent /\ logs = <<>>
    BY BankBegins DEF MintInit, BankInit
  <1>3. MintTypes
    <2>1. /\ users_mint_cycles \in [User -> MidCallData \cup {None}]
          /\ mint_calls \in [User -> [Copy -> MintCall \cup {None}]]
      BY <1>1
    <2>2. timers \subseteq User /\ icp_blocks \in Seq(IcpBlock)
      BY <1>1
    <2>3. upgrade_timer \in BOOLEAN
      BY <1>1, Zenon
    <2>4. QED BY <2>1, <2>2, <2>3 DEF MintTypes
  <1>4. IsFiniteSet({}) /\ Cardinality({}) = 0 /\ Len(icp_blocks) = 0
    BY <1>1, FS_EmptySet
  <1>5. Counts
    <2>1. MidCallUsers = {}
      BY <1>1 DEF MidCallUsers
    <2>2. Transferring = {}
      <3>1. ASSUME NEW x \in Transferring PROVE FALSE
        <4>1. x \in User \X Copy /\ mint_calls[x[1]][x[2]] # None
          BY DEF Transferring
        <4>2. x[1] \in User /\ x[2] \in Copy
          BY <4>1
        <4>3. QED BY <1>1, <4>1, <4>2
      <3>2. QED BY <3>1
    <2>3. QED BY <1>4, <2>1, <2>2, MintDataFacts DEF Counts
  <1>6. \A u \in User : UserOK(u)
    BY <1>1 DEF UserOK, Running, Waiting
  <1>7. Credits = {}
    BY <1>2 DEF Credits
  <1>8. \A u \in User : HeldBy(u) = {}
    BY <1>1 DEF HeldBy, Running, Waiting
  <1>9. EachCreditedOnce /\ EachHeldOnce /\ EachAccounted
    BY <1>4, <1>7, <1>8 DEF EachCreditedOnce, EachHeldOnce, EachAccounted, CreditedBy
  <1>10. CreditsAreBacked
    <2>1. \A h \in 1 .. MaxIcpBlocks : Uncredited[h] = 0
      BY <1>4 DEF Uncredited
    <2>2. DOMAIN Uncredited = 1 .. MaxIcpBlocks
      BY DEF Uncredited
    <2>3. IsFiniteSet(1 .. MaxIcpBlocks)
      BY MintDataFacts, FS_Interval
    <2>4. SumFunction(Uncredited) = 0
      BY <2>1, <2>2, <2>3, SumOfZeros DEF SumFunction
    <2>5. QED BY <1>2, <2>4 DEF CreditsAreBacked, Solvent
  <1>11. QED BY <1>2, <1>3, <1>5, <1>6, <1>9, <1>10 DEF MintInv

-----------------------------------------------------------------------------

(* The invariant of the mints: who holds each ICP block, and what is owed  *)
(* for it.                                                                 *)
THEOREM MintInvariant == MintSpec => []MintInv
  <1>1. MintInit => MintInv
    BY MintBegins
  <1>2. MintInv /\ [MintNext]_mint_all => MintInv'
    <2> SUFFICES ASSUME MintInv, [MintNext]_mint_all PROVE MintInv'
      OBVIOUS
    <2>1. timers \subseteq User /\ upgrade_timer \in BOOLEAN
      BY DEF MintInv, MintTypes
    <2>2. CASE BankNext /\ UNCHANGED mint_vars
      BY <2>1, <2>2, BankStepOfMint DEF mint_vars
    <2>3. ASSUME NEW u \in User, NEW to \in Account, StartMint(u, to) PROVE MintInv'
      BY <2>3, StartMintStep
    <2>4. ASSUME NEW u \in User, NEW c \in Copy, IcpTransfer(u, c) PROVE MintInv'
      BY <2>4, IcpTransferStep
    <2>5. ASSUME NEW u \in User, NEW c \in Copy, CmcAnswers(u, c) \/ CmcFails(u, c) PROVE MintInv'
      BY <2>5, CmcRepliesStep
    <2>6. ASSUME NEW u \in User, NEW c \in Copy, MintReply(u, c) PROVE MintInv'
      BY <2>6, MintReplyStep
    <2>7. CASE \/ \E u \in User : UserCompletes(u) \/ TimerNotifies(u) \/ TimerIsLate(u)
               \/ Upgrade \/ UpgradeTimerNotifies \/ UpgradeTimerIsLow
      BY <2>7, MintTimersStep
    <2>8. ASSUME NEW h \in DOMAIN icp_blocks, CmcDecides(h) PROVE MintInv'
      <3>1. h \in 1 .. Len(icp_blocks)
        BY DEF MintInv, MintTypes
      <3>2. QED BY <2>8, <3>1, CmcDecidesStep
    <2>9. CASE UNCHANGED mint_all
      BY <2>1, <2>9, TimersStep DEF mint_all, mint_vars
    <2>10. QED BY <2>2, <2>3, <2>4, <2>5, <2>6, <2>7, <2>8, <2>9 DEF MintNext
  <1>3. QED BY <1>1, <1>2, PTL DEF MintSpec

(* A mint that has begun has its lock and one call, or has a timer.        *)
THEOREM MintsInGoodHands == MintSpec => []RetryArmed
  <1>1. MintInv => RetryArmed
    <2> SUFFICES ASSUME MintInv PROVE RetryArmed
      OBVIOUS
    <2>1. canister_cycles >= 0
      <3>1. SumFunction(Uncredited) \in Nat
        BY UncreditedType DEF MintInv
      <3>2. QED BY <3>1, SurplusType DEF MintInv, CreditsAreBacked, Surplus
    <2>2. MintTypeOK
      BY <2>1, LedgerIsTyped DEF MintInv, MintTypes, Counts, MintTypeOK
    <2>3. ASSUME NEW u \in User
          PROVE  /\ Cardinality(Calls(u)) <= 1
                 /\ Calls(u) # {} <=> u \in MidCallUsers /\ users_mint_cycles[u].lock
      <3>1. UserOK(u)
        BY DEF MintInv
      <3>2. Calls(u) = {c \in Copy : Running(u, c)}
        BY DEF Calls, Running
      <3>3. Calls(u) # {} <=> u \in MidCallUsers /\ users_mint_cycles[u].lock
        BY <3>1, <3>2 DEF UserOK, MidCallUsers
      <3>4. Cardinality(Calls(u)) <= 1
        <4>1. CASE Calls(u) = {}
          BY <4>1, FS_EmptySet
        <4>2. CASE Calls(u) # {}
          <5>1. PICK c : Calls(u) = {c}
            BY <3>1, <3>2, <4>2 DEF UserOK
          <5>2. Cardinality({c}) = 1
            BY FS_Singleton
          <5>3. QED BY <5>1, <5>2
        <4>3. QED BY <4>1, <4>2
      <3>5. QED BY <3>3, <3>4
    <2>4. ASSUME NEW u \in Resumable PROVE u \in timers \/ upgrade_timer
      <3>1. u \in User /\ Waiting(u)
        BY DEF Resumable, MidCallUsers, Waiting
      <3>2. QED BY <3>1 DEF MintInv, UserOK
    <2>5. QED BY <2>2, <2>3, <2>4 DEF RetryArmed, LockMeansRunning
  <1>2. QED BY <1>1, MintInvariant, PTL

(* No ICP block is credited twice, and each is credited what the CMC minted*)
(* for it, less the fee.                                                   *)
THEOREM IcpCreditedOnce == MintSpec => []MintedOnce
  <1>1. MintInv => MintedOnce
    <2> SUFFICES ASSUME MintInv PROVE MintedOnce
      OBVIOUS
    <2>1. logs \in Seq(Block) /\ DOMAIN logs = 1 .. Len(logs)
      BY DEF MintInv, LedgerInv, LedgerTypes
    <2>2. \A i \in DOMAIN logs : logs[i].op = "mint" /\ logs[i].icp # None => i \in Credits
      BY <2>1 DEF Credits
    <2>3. ASSUME NEW i \in Credits
          PROVE  LET block == icp_blocks[logs[i].icp]
                 IN  /\ block.state = "minted"
                     /\ logs[i].amt + BANK_TRANSFER_FEE >= block.cycles
                     /\ logs[i].amt > 0 => logs[i].amt + BANK_TRANSFER_FEE = block.cycles
      <3> DEFINE block == icp_blocks[logs[i].icp]
      <3>1. /\ logs[i].icp \in 1 .. Len(icp_blocks) /\ block.state = "minted"
            /\ logs[i].amt = Minted(block.cycles)
        BY DEF MintInv, EachCreditedOnce
      <3>2. block \in IcpBlock
        BY <3>1, BlockCountType DEF MintInv
      <3>3. block.cycles \in Nat /\ BANK_TRANSFER_FEE \in Nat
        BY <3>2, MintDataFacts, OutStateFacts
      <3>4. QED BY <3>1, <3>3 DEF Minted
    <2>4. \A i, j \in DOMAIN logs :
             i < j /\ logs[i].op = "mint" /\ logs[j].op = "mint" /\ logs[i].icp # None
             => logs[i].icp # logs[j].icp
      BY <2>1, <2>2 DEF MintInv, EachCreditedOnce
    <2>5. QED BY <2>2, <2>3, <2>4 DEF MintedOnce
  <1>2. QED BY <1>1, MintInvariant, PTL

(* No ICP is lost: each block at the CMC is refunded, credited or held.    *)
THEOREM NoIcpLost == MintSpec => []IcpAccounted
  <1>1. MintInv => IcpAccounted
    <2> SUFFICES ASSUME MintInv, NEW h \in DOMAIN icp_blocks
                 PROVE  icp_blocks[h].state = "refunded" \/ Credited(h) \/ HeldFor(h)
      BY DEF IcpAccounted
    <2>1. h \in 1 .. Len(icp_blocks)
      BY DEF MintInv, MintTypes
    <2>2. DOMAIN logs = 1 .. Len(logs)
      BY DEF MintInv, LedgerInv, LedgerTypes
    <2>3. CreditedBy(h) => Credited(h)
      BY <2>2 DEF CreditedBy, Credits, Credited
    <2>4. ASSUME NEW u \in User, h \in HeldBy(u) PROVE HeldFor(h)
      BY <2>4 DEF HeldBy, HeldFor, Waiting, Running, Resumable, MidCallUsers, Calls
    <2>5. QED BY <2>1, <2>3, <2>4 DEF MintInv, EachAccounted
  <1>2. QED BY <1>1, MintInvariant, PTL

(* With the mints too, the bank holds at least the cycles it owes.         *)
THEOREM MintBacked == MintSpec => []Backed
  <1>1. MintInv => Backed
    <2> SUFFICES ASSUME MintInv PROVE Backed
      OBVIOUS
    <2>1. SumFunction(Uncredited) \in Nat
      BY UncreditedType DEF MintInv
    <2>2. QED BY <2>1, SurplusType DEF MintInv, CreditsAreBacked, Surplus, Backed,
                 canister_cycles_balance_minus_total_supply
  <1>2. QED BY <1>1, MintInvariant, PTL
=============================================================================
