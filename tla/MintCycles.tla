----------------------------- MODULE MintCycles -----------------------------
(***************************************************************************)
(* The bank with the minting of cycles: a user's ICP are transferred to    *)
(* the cycles minting canister (CMC), which is then notified of the ICP    *)
(* block and deposits cycles into the bank; the bank credits the account.  *)
(* Each await may fail; what is left of the call is saved for the user and *)
(* completed by a timer, by anyone, or by the timer of post_upgrade.  That *)
(* the controllers may clear the index of the blocks is left to Bank.      *)
(***************************************************************************)
EXTENDS Bank

CONSTANTS
    User,
    MAX_USERS_MINT_CYCLES,
    Copy,         \* bound: calls of mint_cycles_ at once for one user
    MintAmount,   \* bound: the cycles that the CMC mints for a block
    MaxIcpBlocks  \* bound: the number of ICP transfers

ASSUME MintAssumption ==
    /\ MAX_USERS_MINT_CYCLES \in Nat /\ MaxIcpBlocks \in Nat
    /\ MintAmount \subseteq Nat /\ None \notin 1 .. MaxIcpBlocks

VARIABLES
    users_mint_cycles, \* MintCyclesMidCallData
    mint_calls,        \* the calls of mint_cycles_, each at its await
    timers,            \* the users whom a timer will complete
    upgrade_timer,     \* whether the timer of post_upgrade is set
    icp_blocks         \* external: the ICP transfers to the CMC

mint_vars == <<users_mint_cycles, mint_calls, timers, upgrade_timer, icp_blocks>>

MidCallData == [lock : BOOLEAN, to : Account, height : 1 .. MaxIcpBlocks \cup {None}]

(* A call awaits the ICP ledger, or the CMC, or has their answer.          *)
MintCall == [to : Account, height : 1 .. MaxIcpBlocks \cup {None},
             at : {"transfer", "transferred", "not_transferred",
                   "notify", "minted", "refunded", "notify_error"}]

ASSUME MintNoneAssumption == None \notin MidCallData /\ None \notin MintCall

IcpBlock == [user : User, state : {"new", "refunded", "minted"}, cycles : MintAmount \cup {0}]

MintInit ==
    /\ BankInit
    /\ users_mint_cycles = [u \in User |-> None]
    /\ mint_calls = [u \in User |-> [c \in Copy |-> None]]
    /\ timers = {}
    /\ upgrade_timer = FALSE
    /\ icp_blocks = <<>>

-----------------------------------------------------------------------------

MidCallUsers == {u \in User : users_mint_cycles[u] # None}
Resumable == {u \in MidCallUsers : ~users_mint_cycles[u].lock}
HasRoom(u) == \E c \in Copy : mint_calls[u][c] = None
FreeCopy(u) == CHOOSE c \in Copy : mint_calls[u][c] = None

Transferring == {x \in User \X Copy : /\ mint_calls[x[1]][x[2]] # None
                                      /\ mint_calls[x[1]][x[2]].at = "transfer"}

(* mint_cycles, until it awaits the ICP ledger.  A user in the middle of a *)
(* mint is refused.                                                        *)
MayMintIfUnlocked(u) == ~\E c \in Copy : mint_calls[u][c] # None \* mutant: ignores what is saved
MayMint(u) == users_mint_cycles[u] = None

StartMint(u, to) ==
    /\ MayMint(u) /\ HasRoom(u)
    /\ Cardinality(MidCallUsers) < MAX_USERS_MINT_CYCLES
    /\ Len(icp_blocks) + Cardinality(Transferring) < MaxIcpBlocks
    /\ users_mint_cycles' = [users_mint_cycles EXCEPT ![u] =
                                [lock |-> TRUE, to |-> to, height |-> None]]
    /\ mint_calls' = [mint_calls EXCEPT ![u][FreeCopy(u)] =
                         [to |-> to, height |-> None, at |-> "transfer"]]
    /\ UNCHANGED <<bank_vars, timers, upgrade_timer, icp_blocks>>

(* The ICP ledger makes the transfer, and answers with its block, or       *)
(* refuses it.                                                             *)
IcpTransfer(u, c) ==
    /\ mint_calls[u][c] # None /\ mint_calls[u][c].at = "transfer"
    /\ \/ /\ icp_blocks' = Append(icp_blocks, [user |-> u, state |-> "new", cycles |-> 0])
          /\ mint_calls' = [mint_calls EXCEPT ![u][c] =
                               [@ EXCEPT !.at = "transferred", !.height = Len(icp_blocks) + 1]]
       \/ /\ mint_calls' = [mint_calls EXCEPT ![u][c].at = "not_transferred"]
          /\ UNCHANGED icp_blocks
    /\ UNCHANGED <<bank_vars, users_mint_cycles, timers, upgrade_timer>>

(* The user's data without the mint that has ended.                        *)
EndedUnlocked(u) == [users_mint_cycles EXCEPT ![u].lock = FALSE] \* mutant
Ended(u) == [users_mint_cycles EXCEPT ![u] = None]

MintRefused(u, c) ==
    /\ mint_calls[u][c] # None /\ mint_calls[u][c].at = "not_transferred"
    /\ users_mint_cycles' = Ended(u)
    /\ mint_calls' = [mint_calls EXCEPT ![u][c] = None]
    /\ UNCHANGED <<bank_vars, timers, upgrade_timer, icp_blocks>>

(* What is saved when a call gives up for now: unlocked, with its height.  *)
SavedLocked(call) == [lock |-> TRUE, to |-> call.to, height |-> call.height] \* mutant
SavedWithoutHeight(call) == [lock |-> FALSE, to |-> call.to, height |-> None] \* mutant
Saved(call) == [lock |-> FALSE, to |-> call.to, height |-> call.height]

(* The notification of the CMC is sent only if the bank has cycles enough  *)
(* to run: what it has for that depends on what it paid for its execution. *)
CallsCmc(u, c) ==
    /\ mint_calls[u][c] # None /\ mint_calls[u][c].at = "transferred"
    /\ mint_calls' = [mint_calls EXCEPT ![u][c].at = "notify"]
    /\ UNCHANGED <<bank_vars, users_mint_cycles, timers, upgrade_timer, icp_blocks>>

(* The timers that a call leaves when it gives up for now.                 *)
NotArmed(u) == timers \* mutant: leaves it to the user
Armed(u) == timers \cup {u}

GivesUp(u, c) ==
    /\ users_mint_cycles' = [users_mint_cycles EXCEPT ![u] = Saved(mint_calls[u][c])]
    /\ mint_calls' = [mint_calls EXCEPT ![u][c] = None]
    /\ timers' = Armed(u)
    /\ UNCHANGED <<bank_vars, upgrade_timer, icp_blocks>>

(* The bank is low on cycles, or the CMC's answer is an error.             *)
LowOnCycles(u, c) ==
    /\ mint_calls[u][c] # None /\ mint_calls[u][c].at = "transferred"
    /\ GivesUp(u, c)

NotifyFails(u, c) ==
    /\ mint_calls[u][c] # None /\ mint_calls[u][c].at = "notify_error"
    /\ GivesUp(u, c)

-----------------------------------------------------------------------------
(* The CMC.  It mints for a block once, however often and by whomever it is*)
(* notified, and then answers each time the same; or it refunds the ICP.   *)

CmcDecides(h) ==
    /\ icp_blocks[h].state = "new"
    /\ \/ \E cycles \in MintAmount :
             /\ icp_blocks' = [icp_blocks EXCEPT ![h] =
                                  [@ EXCEPT !.state = "minted", !.cycles = cycles]]
             /\ canister_cycles' = canister_cycles + cycles
       \/ /\ icp_blocks' = [icp_blocks EXCEPT ![h].state = "refunded"]
          /\ UNCHANGED canister_cycles
    /\ UNCHANGED <<ledger, dedup_map, time, cycles_out, deposited,
                   users_mint_cycles, mint_calls, timers, upgrade_timer>>

CmcAnswers(u, c) ==
    /\ mint_calls[u][c] # None /\ mint_calls[u][c].at = "notify"
    /\ icp_blocks[mint_calls[u][c].height].state # "new"
    /\ mint_calls' = [mint_calls EXCEPT ![u][c].at = icp_blocks[mint_calls[u][c].height].state]
    /\ UNCHANGED <<bank_vars, users_mint_cycles, timers, upgrade_timer, icp_blocks>>

(* The CMC may not be reached, or be busy with the block, or its answer    *)
(* may not come back, before it has decided or after.                      *)
CmcFails(u, c) ==
    /\ mint_calls[u][c] # None /\ mint_calls[u][c].at = "notify"
    /\ mint_calls' = [mint_calls EXCEPT ![u][c].at = "notify_error"]
    /\ UNCHANGED <<bank_vars, users_mint_cycles, timers, upgrade_timer, icp_blocks>>

-----------------------------------------------------------------------------

MintRefunded(u, c) ==
    /\ mint_calls[u][c] # None /\ mint_calls[u][c].at = "refunded"
    /\ users_mint_cycles' = Ended(u)
    /\ mint_calls' = [mint_calls EXCEPT ![u][c] = None]
    /\ UNCHANGED <<bank_vars, timers, upgrade_timer, icp_blocks>>

(* The account is credited with the cycles, less the fee.                  *)
Minted(cycles) == IF cycles < BANK_TRANSFER_FEE THEN 0 ELSE cycles - BANK_TRANSFER_FEE

MintCredited(u, c) ==
    /\ mint_calls[u][c] # None /\ mint_calls[u][c].at = "minted"
    /\ LET call == mint_calls[u][c]
           amount == Minted(icp_blocks[call.height].cycles)
       IN  /\ Credit(call.to, amount)
           /\ PushLog([op |-> "mint", to |-> call.to, amt |-> amount, icp |-> call.height])
           /\ SetRootHash
    /\ users_mint_cycles' = Ended(u)
    /\ mint_calls' = [mint_calls EXCEPT ![u][c] = None]
    /\ UNCHANGED <<dedup_map, time, cycles_out, canister_cycles, deposited,
                   timers, upgrade_timer, icp_blocks>>

-----------------------------------------------------------------------------
(* complete_mint_cycles_, in one message until its await: low on cycles, it*)
(* gives up at once, else it notifies the CMC.                             *)

MayCompleteAnyway(u) == u \in MidCallUsers \* mutant: does not look at the lock
MayComplete(u) == u \in MidCallUsers /\ ~users_mint_cycles[u].lock

(* What is saved always has the height of its ICP transfer.                *)
ResumedCall(u) == [to |-> users_mint_cycles[u].to, height |-> users_mint_cycles[u].height,
                   at |-> IF users_mint_cycles[u].height = None THEN "transfer" ELSE "notify"]

Complete(U) ==
    /\ \A u \in U : HasRoom(u)
    /\ users_mint_cycles' = [u \in User |->
          IF u \in U THEN [users_mint_cycles[u] EXCEPT !.lock = TRUE] ELSE users_mint_cycles[u]]
    /\ mint_calls' = [u \in User |->
          IF u \in U THEN [mint_calls[u] EXCEPT ![FreeCopy(u)] = ResumedCall(u)]
          ELSE mint_calls[u]]

(* By the user, or anyone for the user.                                    *)
UserCompletes(u) ==
    /\ MayComplete(u)
    /\ \/ Complete({u}) /\ UNCHANGED timers
       \/ UNCHANGED <<users_mint_cycles, mint_calls>> /\ timers' = Armed(u)
    /\ UNCHANGED <<bank_vars, upgrade_timer, icp_blocks>>

(* A timer notifies the CMC, or finds the bank low on cycles and is set    *)
(* again, or finds nothing to do.                                          *)
TimerNotifies(u) ==
    /\ u \in timers /\ MayComplete(u)
    /\ Complete({u})
    /\ timers' = timers \ {u}
    /\ UNCHANGED <<bank_vars, upgrade_timer, icp_blocks>>

TimerIsLate(u) ==
    /\ u \in timers /\ ~MayComplete(u)
    /\ timers' = timers \ {u}
    /\ UNCHANGED <<bank_vars, users_mint_cycles, mint_calls, upgrade_timer, icp_blocks>>

(* The upgrade waits for the calls that are under way, and ends the timers.*)
NotArmedByUpgrade == FALSE \* mutant
ArmedByUpgrade == TRUE

Upgrade ==
    /\ \A u \in User, c \in Copy : mint_calls[u][c] = None
    /\ UpgradeBank
    /\ timers' = {}
    /\ upgrade_timer' = ArmedByUpgrade
    /\ UNCHANGED <<users_mint_cycles, mint_calls, icp_blocks>>

(* The timer of post_upgrade completes the mints of all users.             *)
UpgradeTimerNotifies ==
    /\ upgrade_timer
    /\ Complete({u \in User : MayComplete(u)})
    /\ upgrade_timer' = FALSE
    /\ UNCHANGED <<bank_vars, timers, icp_blocks>>

UpgradeTimerIsLow ==
    /\ upgrade_timer
    /\ timers' = timers \cup {u \in User : MayComplete(u)}
    /\ upgrade_timer' = FALSE
    /\ UNCHANGED <<bank_vars, users_mint_cycles, mint_calls, icp_blocks>>

-----------------------------------------------------------------------------

(* What the bank does when an answer comes to a call of mint_cycles_.      *)
MintReply(u, c) ==
    \/ MintRefused(u, c) \/ CallsCmc(u, c) \/ LowOnCycles(u, c)
    \/ NotifyFails(u, c) \/ MintRefunded(u, c) \/ MintCredited(u, c)

MintNext ==
    \/ BankNext /\ UNCHANGED mint_vars
    \/ \E u \in User :
         \/ \E to \in Account : StartMint(u, to)
         \/ \E c \in Copy : IcpTransfer(u, c) \/ CmcAnswers(u, c) \/ CmcFails(u, c)
         \/ \E c \in Copy : MintReply(u, c)
         \/ UserCompletes(u) \/ TimerNotifies(u) \/ TimerIsLate(u)
    \/ \E h \in DOMAIN icp_blocks : CmcDecides(h)
    \/ Upgrade \/ UpgradeTimerNotifies \/ UpgradeTimerIsLow

mint_all == <<bank_vars, mint_vars>>
MintSpec == MintInit /\ [][MintNext]_mint_all

(* Answers come and are handled, and timers fire.  The bank is not low on  *)
(* cycles, and the CMC does not fail, each time that it is tried.          *)
MintFairness ==
    /\ \A u \in User, c \in Copy :
         /\ WF_mint_all(IcpTransfer(u, c)) /\ WF_mint_all(MintReply(u, c))
         /\ SF_mint_all(CmcAnswers(u, c))
    /\ \A u \in User : SF_mint_all(TimerNotifies(u))
    /\ \A h \in 1 .. MaxIcpBlocks : WF_mint_all(h \in DOMAIN icp_blocks /\ CmcDecides(h))
    /\ SF_mint_all(UpgradeTimerNotifies)
MintFairSpec == MintSpec /\ MintFairness

-----------------------------------------------------------------------------
(* Properties.                                                             *)

Calls(u) == {c \in Copy : mint_calls[u][c] # None}

MintTypeOK ==
    /\ BankTypeOK
    /\ users_mint_cycles \in [User -> MidCallData \cup {None}]
    /\ mint_calls \in [User -> [Copy -> MintCall \cup {None}]]
    /\ timers \subseteq User
    /\ upgrade_timer \in BOOLEAN
    /\ icp_blocks \in Seq(IcpBlock)
    /\ Cardinality(MidCallUsers) <= MAX_USERS_MINT_CYCLES

(* A user's lock is held exactly while one call of mint_cycles_ is under   *)
(* way for the user: no await leaves it behind, and no two calls share it. *)
LockMeansRunning ==
    \A u \in User :
        /\ Cardinality(Calls(u)) <= 1
        /\ Calls(u) # {} <=> u \in MidCallUsers /\ users_mint_cycles[u].lock

(* No ICP block is credited twice, through any failures, timers and calls  *)
(* of complete_mint_cycles; and each is credited what the CMC minted for   *)
(* it, less the fee, and nothing if it was refunded.                       *)
MintedOnce ==
    /\ \A i, j \in DOMAIN logs :
          i < j /\ logs[i].op = "mint" /\ logs[j].op = "mint" /\ logs[i].icp # None
          => logs[i].icp # logs[j].icp
    /\ \A i \in DOMAIN logs :
          logs[i].op = "mint" /\ logs[i].icp # None =>
             LET block == icp_blocks[logs[i].icp]
             IN  /\ block.state = "minted"
                 /\ logs[i].amt + BANK_TRANSFER_FEE >= block.cycles
                 /\ logs[i].amt > 0 => logs[i].amt + BANK_TRANSFER_FEE = block.cycles

(* No ICP is lost: each block at the CMC was refunded, or was credited, or *)
(* is known to a call under way or to what is saved of one.                *)
HeldFor(h) ==
    \E u \in User : \/ u \in Resumable /\ users_mint_cycles[u].height = h
                    \/ \E c \in Calls(u) : mint_calls[u][c].height = h
Credited(h) == \E i \in DOMAIN logs : logs[i].op = "mint" /\ logs[i].icp = h
IcpAccounted ==
    \A h \in DOMAIN icp_blocks :
        icp_blocks[h].state = "refunded" \/ Credited(h) \/ HeldFor(h)

(* A mint that has begun is always in good hands: either one call, and not *)
(* two, has its lock, or it has a timer that will complete it, across      *)
(* failures and upgrades.  No call that ends leaves its lock behind.       *)
RetryArmed ==
    /\ MintTypeOK
    /\ LockMeansRunning
    /\ \A u \in Resumable : u \in timers \/ upgrade_timer

(* A mint that has begun ends, and the user may begin another.             *)
MintEnds == \A u \in User : u \in MidCallUsers ~> u \notin MidCallUsers
=============================================================================
