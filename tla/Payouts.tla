------------------------------ MODULE Payouts ------------------------------
(***************************************************************************)
(* The payouts engine of a trade contract (canisters/market/cm_tc).        *)
(*                                                                         *)
(* Every void position owes its remaining quantity back to its positor,    *)
(* and every trade log owes two legs: cycles to the seller of the tokens   *)
(* and tokens to the seller of the cycles.  These debts are settled by     *)
(* runs of do_payouts_public_method.  A run picks a chunk of debts and     *)
(* locks them in one message, calls the ledgers and the storage canisters, *)
(* and applies all the answers in the message that delivers the last of    *)
(* them.  Between the two, other runs start and finish: one from each      *)
(* do_payouts timer, and any number from callers of the public method.     *)
(*                                                                         *)
(* A step of this module is one message of the canister, or one step of a  *)
(* ledger or of a storage canister.                                        *)
(***************************************************************************)
EXTENDS Naturals, Sequences, FiniteSets, Functions

CONSTANTS
    CyclesPositions,  \* ids of the cycles positions that may become void
    TokenPositions,   \* ids of the token positions that may become void
    MaxTrades,        \* bound: the number of trades that are matched
    Run,              \* bound: call contexts of the public method alive at once
    Proc,             \* bound: do_payouts timers and activations alive at once
    Anyone,           \* a caller of the public method that is not the canister
    Nobody,           \* the caller of a call context that is not in use
    None,             \* Option::None
    VoidPayoutsChunk, \* DO_VOID_POSITIONS_PAYOUTS_CHUNK_SIZE
    VoidUpdatesChunk, \* DO_VOID_POSITIONS_UPDATE_STORAGE_POSITION_CHUNK_SIZE
    CyclesLegsChunk,  \* DO_TRADE_LOGS_CYCLES_PAYOUTS_CHUNK_SIZE
    TokenLegsChunk,   \* DO_TRADE_LOGS_TOKEN_PAYOUTS_CHUNK_SIZE
    Fees,             \* the fees a ledger may charge for a transfer
    Mount,            \* trade_mount of each debt
    CtsFee            \* cts_payout_fee of each debt

Trade == 0 .. MaxTrades - 1

(* A debt is a pair of its kind and the id of its position or trade log.   *)
CyclesVoid == {"cyclesVoid"} \X CyclesPositions
TokenVoid  == {"tokenVoid"} \X TokenPositions
CyclesLeg  == {"cyclesLeg"} \X Trade
TokenLeg   == {"tokenLeg"} \X Trade

Void == CyclesVoid \cup TokenVoid
Leg  == CyclesLeg \cup TokenLeg
Item == Void \cup Leg

Ledger == {"cycles", "token"}
LedgerOf(i) == IF i[1] \in {"cyclesVoid", "cyclesLeg"} THEN "cycles" ELSE "token"

VARIABLES
    positions,             \* the open positions, of both books
    void_positions,        \* void_cycles_positions and void_token_positions
    trade_logs,            \* the queue of trade logs, as ids
    trade_logs_id_counter,
    payout_lock,           \* the payout lock of each debt
    payout_data,           \* the payout data of each debt
    update_lock,           \* update_storage_position_data.lock
    update_status,         \* update_storage_position_data.status
    storage_flush_lock,    \* of POSITIONS_STORAGE_DATA
    trades_buffer,         \* trade logs moved to the long-term storage, in order
    transfer_fee,          \* the ledgers' fees as the canister knows them
    call,                  \* the ledger calls of each run
    update,                \* the storage-position updates of each run
    caller,                \* who waits for each run
    proc,                  \* where each do_payouts activation is
    ledger_fee,            \* external: the fee each ledger charges
    debited,               \* external: what the ledgers took from the positions
                           \* subaccount for each debt, fees included
    log_updated            \* external: the stored position log is the final one

canister == <<positions, void_positions, trade_logs, trade_logs_id_counter, payout_lock,
              payout_data, update_lock, update_status, storage_flush_lock, trades_buffer>>
vars == <<canister, transfer_fee, call, update, caller, proc, ledger_fee, debited,
          log_updated>>

PayoutData == [did_transfer : BOOLEAN, ledger_transfer_fee : Fees]

(* The future of a payout: not in the run's chunk (None); waiting for the  *)
(* ledger ("sent") or for the answer of the ledger; or ready.              *)
Waiting == {"sent", "executed", "refused", "badFee"}
Ready == {"transferred", "dust", "failed"}
Call == [st : Waiting \cup Ready, fee : Fees]

(* The future of an update of a stored position log, likewise.             *)
UpdateWaiting == {"sent", "applied", "rejected"}
Update == {"none", "ok", "err"} \cup UpdateWaiting

ASSUME PayoutsAssumption ==
    /\ CyclesPositions \subseteq Nat /\ TokenPositions \subseteq Nat
    /\ CyclesPositions \cap TokenPositions = {}  \* one counter numbers both
    /\ MaxTrades \in Nat
    /\ {VoidPayoutsChunk, VoidUpdatesChunk, CyclesLegsChunk, TokenLegsChunk} \subseteq Nat \ {0}
    /\ Anyone # Nobody /\ Anyone \notin Proc /\ Nobody \notin Proc
    /\ Fees \subseteq Nat /\ None \notin PayoutData \cup Call
    /\ Mount \in [Item -> Nat] /\ CtsFee \in [Item -> Nat]

NoCalls == [i \in Item |-> None]
NoUpdates == [v \in Void |-> "none"]

ProcState == {"none", "armed", "calling", "running", "returned",
              "flushingPositions", "flushingTrades"}

Logged == Range(trade_logs)

(* The debts that are still in a map or in the queue of the canister.      *)
Present(i) == IF i \in Void THEN i \in void_positions ELSE i[2] \in Logged

Net(i) == IF Mount[i] >= CtsFee[i] THEN Mount[i] - CtsFee[i] ELSE 0

-----------------------------------------------------------------------------
(* The trade and void_position methods, as far as the payouts see them.    *)

Init ==
    /\ positions = Void
    /\ void_positions = {}
    /\ trade_logs = <<>>
    /\ trade_logs_id_counter = 0
    /\ payout_lock = [i \in Item |-> FALSE]
    /\ payout_data = [i \in Item |-> None]
    /\ update_lock = [v \in Void |-> FALSE]
    /\ update_status = [v \in Void |-> FALSE]
    /\ storage_flush_lock = FALSE
    /\ trades_buffer = <<>>
    /\ ledger_fee \in [Ledger -> Fees]
    /\ transfer_fee = ledger_fee
    /\ call = [r \in Run |-> NoCalls]
    /\ update = [r \in Run |-> NoUpdates]
    /\ caller = [r \in Run |-> Nobody]
    /\ proc = [p \in Proc |-> "none"]
    /\ debited = [i \in Item |-> 0]
    /\ log_updated = [v \in Void |-> FALSE]

(* set_timer(1ms, do_payouts)                                              *)
ArmTimer(p) ==
    /\ proc[p] = "none"
    /\ proc' = [proc EXCEPT ![p] = "armed"]

(* A positor voids an open position.                                       *)
VoidPosition(v, p) ==
    /\ v \in positions
    /\ positions' = positions \ {v}
    /\ void_positions' = void_positions \cup {v}
    /\ ArmTimer(p)
    /\ UNCHANGED <<trade_logs, trade_logs_id_counter, payout_lock, payout_data, update_lock,
                   update_status, storage_flush_lock, trades_buffer, transfer_fee, call, update,
                   caller, ledger_fee, debited, log_updated>>

(* The ids that new_id gives to the next n trade logs.                     *)
NextIds(n) == [k \in 1 .. n |-> trade_logs_id_counter + k - 1]

(* The end of a trade call: its position matches n others, and the filled  *)
(* positions become void.  A call whose transfer failed has n = 0.         *)
MatchTrades(n, filled, p) ==
    /\ trade_logs_id_counter + n <= MaxTrades
    /\ filled \subseteq positions
    /\ IF n = 0 THEN filled = {} ELSE Cardinality(filled) <= n + 1
    /\ positions' = positions \ filled
    /\ void_positions' = void_positions \cup filled
    /\ trade_logs' = trade_logs \o NextIds(n)
    /\ trade_logs_id_counter' = trade_logs_id_counter + n
    /\ ArmTimer(p)
    /\ UNCHANGED <<payout_lock, payout_data, update_lock, update_status, storage_flush_lock,
                   trades_buffer, transfer_fee, call, update, caller, ledger_fee, debited,
                   log_updated>>

-----------------------------------------------------------------------------
(* A run of _do_payouts.                                                   *)

(* The first n of a set of debts, in the order of their ids.               *)
FirstN(S, n) == {i \in S : Cardinality({j \in S : j[2] < i[2]}) < n}

UnpaidLockIgnored(i) == Present(i) /\ payout_data[i] = None \* mutant: picks locked debts
Unpaid(i) == Present(i) /\ payout_data[i] = None /\ ~payout_lock[i]

PayoutsChunk ==
    FirstN({i \in CyclesVoid : Unpaid(i)}, VoidPayoutsChunk)
    \cup FirstN({i \in TokenVoid : Unpaid(i)}, VoidPayoutsChunk)
    \cup FirstN({i \in CyclesLeg : Unpaid(i)}, CyclesLegsChunk)
    \cup FirstN({i \in TokenLeg : Unpaid(i)}, TokenLegsChunk)

(* The payout is complete before the position log is updated.              *)
NotUpdated(v) ==
    /\ v \in void_positions
    /\ payout_data[v] # None
    /\ ~update_status[v]
    /\ ~update_lock[v]

UpdatesChunkWhileFlushing == \* mutant: ignores the flush lock
    FirstN({v \in CyclesVoid : NotUpdated(v)}, VoidUpdatesChunk)
    \cup FirstN({v \in TokenVoid : NotUpdated(v)}, VoidUpdatesChunk)
UpdatesChunk ==
    IF storage_flush_lock
    THEN {}
    ELSE FirstN({v \in CyclesVoid : NotUpdated(v)}, VoidUpdatesChunk)
         \cup FirstN({v \in TokenVoid : NotUpdated(v)}, VoidUpdatesChunk)

(* _do_payout up to its await: dust is not sent to the ledger.             *)
BeginPayout(i) ==
    LET fee == transfer_fee[LedgerOf(i)]
    IN  [st |-> IF fee >= Net(i) THEN "dust" ELSE "sent", fee |-> fee]

Complete(c, u) ==
    /\ \A i \in Item : c[i] = None \/ c[i].st \in Ready
    /\ \A v \in Void : u[v] \notin UpdateWaiting

(* The payout data that a ready future leaves.                             *)
OutcomeGivesUp(c) == \* mutant: a failed payout is final
    [did_transfer |-> c.st = "transferred", ledger_transfer_fee |-> c.fee]
OutcomeDustAsTransfer(c) == \* mutant: dust is recorded as a transfer
    IF c.st = "failed" THEN None ELSE [did_transfer |-> TRUE, ledger_transfer_fee |-> c.fee]
Outcome(c) ==
    IF c.st = "failed" THEN None
    ELSE [did_transfer |-> c.st = "transferred", ledger_transfer_fee |-> c.fee]

(* The debts of the chunk that are still on the books.                     *)
HandledUnlessFailed(c) == \* mutant: a failed payout keeps its lock
    {i \in Item : c[i] # None /\ c[i].st # "failed" /\ Present(i)}
Handled(c) == {i \in Item : c[i] # None /\ Present(i)}

(* can_remove, of a void position with this payout data and update status. *)
CanRemovePaid(data, status) == data # None \* mutant: does not wait for the log
CanRemove(data, status) == data # None /\ status

(* The end of the run r that w waits for, with the outcomes c and u, and   *)
(* the reply to w.                                                         *)
Finish(r, w, c, u) ==
    LET handled == Handled(c)
        updated == {v \in void_positions : u[v] # "none"}
    IN  /\ payout_lock' = [i \in Item |-> payout_lock[i] /\ i \notin handled]
        /\ payout_data' = [i \in Item |-> IF i \in handled THEN Outcome(c[i]) ELSE payout_data[i]]
        /\ update_lock' = [v \in Void |-> update_lock[v] /\ v \notin updated]
        /\ update_status' = [v \in Void |-> IF v \in updated THEN u[v] = "ok" ELSE update_status[v]]
        /\ void_positions' = {v \in void_positions :
                                 v \in handled \cup updated
                                 => ~CanRemove(payout_data'[v], update_status'[v])}
        /\ storage_flush_lock' = (storage_flush_lock /\ \A v \in Void : u[v] = "none")
        /\ call' = [call EXCEPT ![r] = NoCalls]
        /\ update' = [update EXCEPT ![r] = NoUpdates]
        /\ caller' = [caller EXCEPT ![r] = Nobody]
        /\ proc' = [p \in Proc |-> IF p = w THEN "returned" ELSE proc[p]]

(* The run r goes on waiting, with the futures c and u.                    *)
Wait(r, c, u) ==
    /\ call' = [call EXCEPT ![r] = c]
    /\ update' = [update EXCEPT ![r] = u]

(* The first message of a run.  The log of a position is overwritten at    *)
(* once when it is still in the storage buffer (buffered), and is the      *)
(* subject of a call when it is on a storage canister.                     *)
StartRun(r, w, buffered) ==
    LET payouts == PayoutsChunk
        updates == UpdatesChunk
        c == [i \in Item |-> IF i \in payouts THEN BeginPayout(i) ELSE None]
        u == [v \in Void |-> IF v \notin updates THEN "none"
                             ELSE IF v \in buffered THEN "ok" ELSE "sent"]
    IN  /\ caller[r] = Nobody
        /\ w \in Proc => proc[w] = "calling"
        /\ buffered \subseteq updates
        /\ log_updated' = [v \in Void |-> log_updated[v] \/ v \in buffered]
        /\ IF Complete(c, u)
           THEN Finish(r, w, c, u)
           ELSE /\ payout_lock' = [i \in Item |-> payout_lock[i] \/ i \in payouts]
                /\ update_lock' = [v \in Void |-> update_lock[v] \/ v \in updates]
                /\ storage_flush_lock' = (storage_flush_lock \/ updates # {})
                /\ Wait(r, c, u)
                /\ caller' = [caller EXCEPT ![r] = w]
                /\ proc' = [p \in Proc |-> IF p = w THEN "running" ELSE proc[p]]
                /\ UNCHANGED <<void_positions, payout_data, update_status>>
        /\ UNCHANGED <<positions, trade_logs, trade_logs_id_counter, trades_buffer, transfer_fee,
                       ledger_fee, debited>>

(* An answer to the run r, after which its futures are c and u.            *)
Resume(r, c, u) ==
    IF Complete(c, u)
    THEN Finish(r, caller[r], c, u)
    ELSE /\ Wait(r, c, u)
         /\ UNCHANGED <<void_positions, payout_lock, payout_data, update_lock, update_status,
                        storage_flush_lock, caller, proc>>

(* The fees the canister knows after the answer c to the payout of i:      *)
(* BadFee carries the fee that the ledger expects.                         *)
FeeAfter(c, i) ==
    IF c.st = "badFee" THEN [transfer_fee EXCEPT ![LedgerOf(i)] = c.fee] ELSE transfer_fee

(* The answer of a ledger.                                                 *)
PayoutReply(r, i) ==
    /\ call[r][i] # None
    /\ call[r][i].st \in {"executed", "refused", "badFee"}
    /\ transfer_fee' = FeeAfter(call[r][i], i)
    /\ LET st == IF call[r][i].st = "executed" THEN "transferred" ELSE "failed"
       IN  Resume(r, [call[r] EXCEPT ![i].st = st], update[r])
    /\ UNCHANGED <<positions, trade_logs, trade_logs_id_counter, trades_buffer, ledger_fee,
                   debited, log_updated>>

(* The answer of a storage canister to cm_update_log.                      *)
UpdateReply(r, v) ==
    /\ update[r][v] \in {"applied", "rejected"}
    /\ Resume(r, call[r], [update[r] EXCEPT ![v] = IF @ = "applied" THEN "ok" ELSE "err"])
    /\ UNCHANGED <<positions, trade_logs, trade_logs_id_counter, trades_buffer, transfer_fee,
                   ledger_fee, debited, log_updated>>

-----------------------------------------------------------------------------
(* A do_payouts activation.                                                *)

NoWork == void_positions = {} /\ trade_logs = <<>>

RescheduleForVoids(p) == \* mutant: trade logs alone set no timer
    proc' = [proc EXCEPT ![p] = IF void_positions' = {} THEN "none" ELSE "armed"]
Reschedule(p) == proc' = [proc EXCEPT ![p] = IF NoWork' THEN "none" ELSE "armed"]

TimerFires(p) ==
    /\ proc[p] = "armed"
    /\ proc' = [proc EXCEPT ![p] = IF NoWork THEN "none" ELSE "calling"]
    /\ UNCHANGED <<canister, transfer_fee, call, update, caller, ledger_fee, debited,
                   log_updated>>

(* The call of do_payouts_public_method comes back with an error.          *)
SelfCallFails(p) ==
    /\ proc[p] = "calling"
    /\ UNCHANGED <<canister, transfer_fee, call, update, caller, ledger_fee, debited,
                   log_updated>>
    /\ Reschedule(p)

(* can_move_into_the_stable_memory_for_the_long_term_storage               *)
CanMove(t) ==
    \A kind \in {"cyclesLeg", "tokenLeg"} :
        ~payout_lock[<<kind, t>>] /\ payout_data[<<kind, t>>] # None

(* The first n trade logs of the queue move, and no more.                  *)
MovesCounted(n) == n = Cardinality({k \in DOMAIN trade_logs : CanMove(trade_logs[k])}) \* mutant
Moves(n) ==
    /\ \A k \in 1 .. n : CanMove(trade_logs[k])
    /\ n < Len(trade_logs) => ~CanMove(trade_logs[n + 1])

(* The call of do_payouts_public_method comes back: the finished trade     *)
(* logs at the front of the queue move into the storage buffer, and        *)
(* flush_logs runs for both storages.  Whether a storage has enough logs   *)
(* to flush is left open.                                                  *)
SelfCallReturns(p) ==
    /\ proc[p] = "returned"
    /\ \E n \in 0 .. Len(trade_logs) :
         /\ Moves(n)
         /\ trades_buffer' = trades_buffer \o SubSeq(trade_logs, 1, n)
         /\ trade_logs' = SubSeq(trade_logs, n + 1, Len(trade_logs))
    /\ UNCHANGED <<positions, void_positions, trade_logs_id_counter, payout_lock, payout_data,
                   update_lock, update_status, transfer_fee, call, update, caller, ledger_fee,
                   debited, log_updated>>
    /\ \/ /\ Reschedule(p)
          /\ UNCHANGED storage_flush_lock
       \/ /\ proc' = [proc EXCEPT ![p] = "flushingTrades"]
          /\ UNCHANGED storage_flush_lock
       \/ /\ ~storage_flush_lock
          /\ storage_flush_lock' = TRUE
          /\ proc' = [proc EXCEPT ![p] = "flushingPositions"]

(* The last answer that the flush of the positions storage waits for; the  *)
(* flush of the trades storage may still be waiting.                       *)
PositionsFlushed(p) ==
    /\ proc[p] = "flushingPositions"
    /\ storage_flush_lock' = FALSE
    /\ UNCHANGED <<positions, void_positions, trade_logs, trade_logs_id_counter, payout_lock,
                   payout_data, update_lock, update_status, trades_buffer, transfer_fee, call,
                   update, caller, ledger_fee, debited, log_updated>>
    /\ \/ Reschedule(p)
       \/ proc' = [proc EXCEPT ![p] = "flushingTrades"]

TradesFlushed(p) ==
    /\ proc[p] = "flushingTrades"
    /\ UNCHANGED <<canister, transfer_fee, call, update, caller, ledger_fee, debited,
                   log_updated>>
    /\ Reschedule(p)

(* An upgrade: the canister is stopped first, which waits for every open   *)
(* call; the timers are lost; post_upgrade sets one.                       *)
Upgrade(p) ==
    /\ \A r \in Run : caller[r] = Nobody
    /\ \A q \in Proc : proc[q] \in {"none", "armed"}
    /\ proc' = [q \in Proc |-> IF q = p THEN "armed" ELSE "none"]
    /\ UNCHANGED <<canister, transfer_fee, call, update, caller, ledger_fee, debited,
                   log_updated>>

-----------------------------------------------------------------------------
(* The ledgers and the storage canisters.                                  *)

(* The ledger takes the mount and the fee from the positions subaccount.   *)
LedgerPays(r, i) ==
    /\ call[r][i] # None
    /\ call[r][i].st = "sent"
    /\ call[r][i].fee = ledger_fee[LedgerOf(i)]
    /\ call' = [call EXCEPT ![r][i].st = "executed"]
    /\ debited' = [debited EXCEPT ![i] = @ + (Net(i) - call[r][i].fee) + ledger_fee[LedgerOf(i)]]
    /\ UNCHANGED <<canister, transfer_fee, update, caller, proc, ledger_fee, log_updated>>

(* BadFee, when the fee of the call is not the fee of the ledger; any      *)
(* other error, at any time.                                               *)
LedgerRefuses(r, i) ==
    /\ call[r][i] # None
    /\ call[r][i].st = "sent"
    /\ \/ call' = [call EXCEPT ![r][i].st = "refused"]
       \/ /\ call[r][i].fee # ledger_fee[LedgerOf(i)]
          /\ call' = [call EXCEPT ![r][i] = [st |-> "badFee", fee |-> ledger_fee[LedgerOf(i)]]]
    /\ UNCHANGED <<canister, transfer_fee, update, caller, proc, ledger_fee, debited, log_updated>>

LedgerFeeChanges(l, f) ==
    /\ f # ledger_fee[l]
    /\ ledger_fee' = [ledger_fee EXCEPT ![l] = f]
    /\ UNCHANGED <<canister, transfer_fee, call, update, caller, proc, debited, log_updated>>

StorageUpdates(r, v) ==
    /\ update[r][v] = "sent"
    /\ update' = [update EXCEPT ![r][v] = "applied"]
    /\ log_updated' = [log_updated EXCEPT ![v] = TRUE]
    /\ UNCHANGED <<canister, transfer_fee, call, caller, proc, ledger_fee, debited>>

StorageRejects(r, v) ==
    /\ update[r][v] = "sent"
    /\ update' = [update EXCEPT ![r][v] = "rejected"]
    /\ UNCHANGED <<canister, transfer_fee, call, caller, proc, ledger_fee, debited, log_updated>>

-----------------------------------------------------------------------------

Updating(r) == \E v \in Void : update[r][v] # "none"
Flushing(p) == proc[p] = "flushingPositions"

Next ==
    \/ \E p \in Proc :
         \/ \E v \in Void : VoidPosition(v, p)
         \/ \E n \in 0 .. MaxTrades, filled \in SUBSET Void : MatchTrades(n, filled, p)
         \/ TimerFires(p) \/ SelfCallFails(p) \/ SelfCallReturns(p)
         \/ PositionsFlushed(p) \/ TradesFlushed(p)
         \/ Upgrade(p)
    \/ \E r \in Run :
         \/ \E w \in Proc \cup {Anyone}, buffered \in SUBSET Void : StartRun(r, w, buffered)
         \/ \E i \in Item : LedgerPays(r, i) \/ LedgerRefuses(r, i) \/ PayoutReply(r, i)
         \/ \E v \in Void : StorageUpdates(r, v) \/ StorageRejects(r, v) \/ UpdateReply(r, v)
    \/ \E l \in Ledger, f \in Fees : LedgerFeeChanges(l, f)

Spec == Init /\ [][Next]_vars


(* The fairness.  The Internet Computer executes timers, delivers messages *)
(* and answers every call.  A ledger, a storage canister or the            *)
(* canister's own queue may refuse again and again but not for ever.       *)
Fairness ==
    /\ \A p \in Proc :
         /\ WF_vars(TimerFires(p))
         /\ SF_vars(\E r \in Run, buffered \in SUBSET Void : StartRun(r, p, buffered))
         /\ WF_vars(SelfCallReturns(p))
         /\ WF_vars(PositionsFlushed(p))
         /\ WF_vars(TradesFlushed(p))
    /\ \A r \in Run :
         /\ \A i \in Item :
              /\ WF_vars(LedgerPays(r, i) \/ LedgerRefuses(r, i))
              /\ WF_vars(PayoutReply(r, i))
         /\ \A v \in Void :
              /\ WF_vars(StorageUpdates(r, v) \/ StorageRejects(r, v))
              /\ WF_vars(UpdateReply(r, v))
    /\ \A i \in Item :
         /\ SF_vars(\E r \in Run : LedgerPays(r, i))
         /\ SF_vars(\E r \in Run : LedgerRefuses(r, i) /\ call'[r][i].st = "badFee")
    /\ \A v \in Void : SF_vars(\E r \in Run : StorageUpdates(r, v))

(* Upgrades, changes of a fee, and flushes come to an end: an upgrade      *)
(* every 20 seconds would lose every timer, and a flush at every start of  *)
(* a run would keep the stored logs from being updated.                    *)
Calms == <>[][/\ \A p \in Proc : ~Upgrade(p) /\ ~(~Flushing(p) /\ Flushing(p)')
              /\ UNCHANGED ledger_fee]_vars

FairSpec == Spec /\ Fairness /\ Calms

-----------------------------------------------------------------------------
(* Properties.                                                             *)

TypeOK ==
    /\ positions \subseteq Void
    /\ void_positions \subseteq Void
    /\ trade_logs \in Seq(Trade)
    /\ trade_logs_id_counter \in 0 .. MaxTrades
    /\ payout_lock \in [Item -> BOOLEAN]
    /\ payout_data \in [Item -> PayoutData \cup {None}]
    /\ update_lock \in [Void -> BOOLEAN]
    /\ update_status \in [Void -> BOOLEAN]
    /\ storage_flush_lock \in BOOLEAN
    /\ trades_buffer \in Seq(Trade)
    /\ transfer_fee \in [Ledger -> Fees]
    /\ call \in [Run -> [Item -> Call \cup {None}]]
    /\ update \in [Run -> [Void -> Update]]
    /\ caller \in [Run -> Proc \cup {Anyone, Nobody}]
    /\ proc \in [Proc -> ProcState]
    /\ ledger_fee \in [Ledger -> Fees]
    /\ debited \in [Item -> Nat]
    /\ log_updated \in [Void -> BOOLEAN]

(* However many runs overlap, fail and retry, the ledgers take for each    *)
(* debt either nothing or its exact amount (mount less the cts fee), once. *)
DebitedOnce == \A i \in Item : debited[i] \in {0, Net(i)}

(* What the canister records of a debt is what the ledger did: a transfer  *)
(* when the ledger took the funds, dust when it did not.                   *)
RecordAgreesWithLedger ==
    \A i \in Item : payout_data[i] # None => (payout_data[i].did_transfer <=> debited[i] # 0)

(* A payout lock is set exactly while one run, and only one, holds the     *)
(* debt in its chunk: no lock outlives its run and no two runs share a     *)
(* debt.                                                                   *)
LockHeldByOneRun ==
    \A i \in Item :
        /\ payout_lock[i] <=> \E r \in Run : call[r][i] # None
        /\ \A r, s \in Run : call[r][i] # None /\ call[s][i] # None => r = s

(* The flush lock of the positions storage is set exactly while a flush or *)
(* a run that updates stored position logs is under way, and never for two *)
(* of them: a log cannot move from the buffer to a storage canister while  *)
(* it is being updated.                                                    *)
FlushLockExclusive ==
    /\ storage_flush_lock <=> (\E r \in Run : Updating(r)) \/ (\E p \in Proc : Flushing(p))
    /\ \A r, s \in Run : Updating(r) /\ Updating(s) => r = s
    /\ \A p, q \in Proc : Flushing(p) /\ Flushing(q) => p = q
    /\ \A r \in Run, p \in Proc : ~(Updating(r) /\ Flushing(p))

(* The locks of the canister mean what they say, at every message.         *)
LocksExact == LockHeldByOneRun /\ FlushLockExclusive

(* A void position leaves its map only when its debt is settled and its    *)
(* stored log is final, and the final log is written after the payout,     *)
(* whose fee and outcome it carries.                                       *)
RemovedWhenSettled ==
    \A v \in Void :
        /\ v \notin positions \cup void_positions => payout_data[v] # None /\ log_updated[v]
        /\ log_updated[v] => payout_data[v] # None

(* The trade logs reach the long-term storage in the order of their ids,   *)
(* without a gap, and only when both legs are settled.                     *)
TradesStoredInOrder ==
    /\ trades_buffer \o trade_logs = [k \in 1 .. trade_logs_id_counter |-> k - 1]
    /\ \A k \in DOMAIN trades_buffer : CanMove(trades_buffer[k])

(* Whenever a debt is pending there is a timer or an activation of         *)
(* do_payouts that will look at it, upgrades included.                     *)
NoLostWakeup == ~NoWork => \E p \in Proc : proc[p] # "none"

(* The inductive invariant behind them.                                    *)

InFlight(r, i) == call[r][i] # None

(* A debt that is not incurred yet.                                        *)
Unborn(i) == IF i \in Void THEN i \in positions ELSE i[2] >= trade_logs_id_counter

UnbornInv == \A i \in Item : Unborn(i) => ~Present(i) /\ payout_data[i] = None

(* A call in flight is for a debt that is on the books and not settled,    *)
(* and knows what the ledger did.                                          *)
Executed(c) == c.st \in {"executed", "transferred"}

InFlightInv ==
    \A r \in Run, i \in Item : InFlight(r, i) =>
        /\ Present(i)
        /\ payout_data[i] = None
        /\ call[r][i].st = "sent" => call[r][i].fee < Net(i)
        /\ Executed(call[r][i]) => Net(i) # 0
        /\ debited[i] = IF Executed(call[r][i]) THEN Net(i) ELSE 0

(* A debt that no run holds and that is not settled has cost nothing.      *)
IdleInv ==
    \A i \in Item :
        payout_data[i] = None /\ (\A r \in Run : ~InFlight(r, i)) => debited[i] = 0

(* The lock of an update is set exactly while a run holds it, after the    *)
(* payout and before the final status.                                     *)
UpdateInv ==
    /\ \A v \in Void : update_lock[v] <=> \E r \in Run : update[r][v] # "none"
    /\ \A r \in Run, v \in Void : update[r][v] # "none" =>
         /\ v \in void_positions
         /\ payout_data[v] # None
         /\ update[r][v] \in {"applied", "ok"} => log_updated[v]
    /\ \A v \in Void : update_status[v] => log_updated[v]

(* A call context that is not in use holds nothing, and an activation that *)
(* waits for a run waits for one.                                          *)
CallerInv ==
    /\ \A r \in Run : caller[r] = Nobody => call[r] = NoCalls /\ update[r] = NoUpdates
    /\ \A r \in Run : caller[r] \in Proc => proc[caller[r]] = "running"
    /\ \A r, s \in Run : caller[r] \in Proc /\ caller[r] = caller[s] => r = s

(* A payout that is not sent, and one that is recorded as not transferred, *)
(* names a fee that eats it up.  Only the promise below needs this.        *)
DustInv ==
    /\ \A r \in Run, i \in Item :
         InFlight(r, i) /\ call[r][i].st = "dust" => call[r][i].fee >= Net(i)
    /\ \A i \in Item :
         payout_data[i] # None /\ ~payout_data[i].did_transfer
         => payout_data[i].ledger_transfer_fee >= Net(i)

IInv ==
    /\ TypeOK
    /\ DebitedOnce /\ RecordAgreesWithLedger /\ LockHeldByOneRun /\ FlushLockExclusive
    /\ RemovedWhenSettled /\ TradesStoredInOrder /\ NoLostWakeup
    /\ UnbornInv /\ InFlightInv /\ IdleInv /\ UpdateInv /\ CallerInv

(* The engine implements its promise.                                      *)
Status(i) ==
    IF Unborn(i) THEN "none"
    ELSE IF debited[i] # 0 THEN IF debited[i] = Net(i) THEN "paid" ELSE "overpaid"
    ELSE IF payout_data[i] = None THEN "owed"
    ELSE IF payout_data[i].did_transfer THEN "lost" ELSE "dust"

Closed == {i \in Item : Status(i) # "none" /\ ~Present(i)}

Promise == INSTANCE Obligations WITH
    Debt <- Item,
    Dustable <- {i \in Item : \E f \in Fees : f >= Net(i)},
    status <- [i \in Item |-> Status(i)],
    closed <- Closed

ImplementsPromise == Promise!Spec

(* Every debt is eventually settled and leaves the books, although calls   *)
(* fail, fees change, timers are lost in upgrades and anyone calls the     *)
(* public method.                                                          *)
EveryDebtCloses == Promise!EveryDebtCloses

=============================================================================
