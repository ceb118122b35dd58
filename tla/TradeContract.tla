--------------------------- MODULE TradeContract ---------------------------
(***************************************************************************)
(* The trade contract as its users meet it: the admission of trades and of *)
(* transfers out of the users' balances, the calls to the ledgers under a  *)
(* lock for each user and side, the void_position method, and the timers   *)
(* that do the payouts and flush the positions storage (LogStorage, whose  *)
(* steps this module composes with its own).                               *)
(*                                                                         *)
(* Matching is abstract here: a new position may be matched with any of    *)
(* the open positions of the other side.  So are the payouts: of what is   *)
(* pending, any part is done with when a run returns.  Matching and        *)
(* Payouts have them in full.                                              *)
(***************************************************************************)
EXTENDS Naturals, Sequences, FiniteSets

CONSTANTS
    User,
    MaxPositions,     \* MAX_CYCLES_POSITIONS, MAX_TOKEN_POSITIONS
    MaxVoidPositions, \* MAX_VOID_CYCLES_POSITIONS, MAX_VOID_TOKEN_POSITIONS
    Margin,           \* the 10 that admission keeps free
    MaxTradeLogs,     \* MAX_TRADE_LOGS
    MaxLocks,         \* MAX_MID_CALL_USER_BALANCE_LOCKS
    MaxBuffer,        \* MAX_STORAGE_BUFFER_SIZE
    Proc,             \* bound: do_payouts timers and activations alive at once
    MaxLogs, FlushAt, ChunkSize, Capacity, Canister, None  \* see LogStorage

(* A user is a principal, of at most 29 bytes.  Without a margin the room  *)
(* for void positions would not limit the admission.                       *)
ASSUME TradeContractAssumption ==
    /\ IsFiniteSet(User)
    /\ MaxPositions \in Nat /\ MaxVoidPositions \in Nat /\ Margin \in Nat \ {0}
    /\ MaxTradeLogs \in Nat
    /\ MaxLogs \in Nat /\ FlushAt \in Nat \ {0} /\ ChunkSize \in Nat \ {0} /\ Capacity \in Nat
    /\ None \notin Canister

VARIABLES
    positions,         \* the open positions of each side
    void_positions,    \* the void positions of each side
    trade_logs,        \* the length of the queue
    mid_call_locks,    \* mid_call_user_cycles_balance_locks and .._token_..
    trade_call,        \* the call of trade_* of each user on each side
    transfer_call,     \* and of transfer_*_balance
    proc,              \* where each do_payouts activation is
    posited,           \* external: posit transfers that the ledgers executed
    id_counter, storage_buffer, storage_canisters, storage_flush_lock,
    create_storage_canister_temp_holder, flush, update, holds_lock, created,
    installed, stored, map, first_log_id, controller_mark_full

(* The indexes of the storage canisters are left out.                      *)
Storage == INSTANCE LogStorage WITH
    Flusher <- Proc, Updater <- {}, Key <- {}, IndexKeys <- [id \in 0 .. MaxLogs - 1 |-> <<>>]

market == <<positions, void_positions, trade_logs>>
calls == <<mid_call_locks, trade_call, transfer_call, posited>>
store == <<id_counter, storage_buffer, storage_canisters, storage_flush_lock,
           create_storage_canister_temp_holder, flush, update, holds_lock, created,
           installed, stored, map, first_log_id, controller_mark_full>>
vars == <<market, calls, proc, store>>

Side == {"cycles", "token"}
Other(s) == IF s = "cycles" THEN "token" ELSE "cycles"

(* A call is sent, then executed or refused by the ledger, and then its    *)
(* answer is delivered.                                                    *)
TradeCallState == {"none", "sent", "executed", "refused"}
TransferCallState == {"none", "sent", "answered"}

Init ==
    /\ positions = [s \in Side |-> {}]
    /\ void_positions = [s \in Side |-> {}]
    /\ trade_logs = 0
    /\ mid_call_locks = [s \in Side |-> {}]
    /\ trade_call = [s \in Side |-> [u \in User |-> "none"]]
    /\ transfer_call = [s \in Side |-> [u \in User |-> "none"]]
    /\ proc = [p \in Proc |-> "none"]
    /\ posited = [s \in Side |-> 0]
    /\ Storage!Init

ArmTimer(p) ==
    /\ proc[p] = "none"
    /\ proc' = [proc EXCEPT ![p] = "armed"]

-----------------------------------------------------------------------------
(* trade_cycles and trade_tokens.                                          *)

BufferFull == Len(storage_buffer) >= MaxBuffer

Monus(a, b) == IF a > b THEN a - b ELSE 0

(* The book of a side, and the room for the void positions it may become.  *)
HasCapacityWithoutLocks(s) == \* mutant: does not count the calls under way
    /\ Cardinality(positions[s]) < Monus(MaxPositions, Margin)
    /\ Monus(Monus(MaxVoidPositions, Cardinality(void_positions[s])), Cardinality(positions[s]))
       >= Margin
HasCapacity(s) ==
    /\ Cardinality(positions[s]) + Cardinality(mid_call_locks[s]) < Monus(MaxPositions, Margin)
    /\ Monus(Monus(Monus(MaxVoidPositions, Cardinality(void_positions[s])),
                   Cardinality(positions[s])),
             Cardinality(mid_call_locks[s])) >= Margin

LockWithoutCaller(s, u) == Cardinality(mid_call_locks[s]) < MaxLocks \* mutant: for any caller
MayLock(s, u) == u \notin mid_call_locks[s] /\ Cardinality(mid_call_locks[s]) < MaxLocks

Lock(s, u) == mid_call_locks' = [mid_call_locks EXCEPT ![s] = @ \cup {u}]
Unlock(s, u) == mid_call_locks' = [mid_call_locks EXCEPT ![s] = @ \ {u}]

(* MaxLogs bounds the positions, those on their way included.              *)
PositionsOnTheWay == {x \in Side \X User : trade_call[x[1]][x[2]] \in {"sent", "executed"}}
WithinBound == id_counter + Cardinality(PositionsOnTheWay) < MaxLogs

(* _trade up to the call of the ledger.  A call that is not admitted       *)
(* changes nothing and sets no timer.                                      *)
TradeCall(s, u) ==
    /\ trade_call[s][u] = "none" /\ WithinBound
    /\ ~BufferFull
    /\ HasCapacity(s)
    /\ MayLock(s, u)
    /\ Lock(s, u)
    /\ trade_call' = [trade_call EXCEPT ![s][u] = "sent"]
    /\ UNCHANGED <<market, transfer_call, proc, posited, store>>

QueueHasRoom(n) == trade_logs + n <= MaxTradeLogs

(* The new position is matched with n others, of which matchees are filled *)
(* up, and it may be filled up itself.                                     *)
Match(s, id, n, matchees, filled) ==
    /\ n <= Cardinality(positions[Other(s)])
    /\ QueueHasRoom(n)
    /\ matchees \subseteq positions[Other(s)] /\ Cardinality(matchees) <= n
    /\ filled => n > 0
    /\ trade_logs' = trade_logs + n
    /\ positions' = [positions EXCEPT ![s] = IF filled THEN @ ELSE @ \cup {id},
                                      ![Other(s)] = @ \ matchees]
    /\ void_positions' = [void_positions EXCEPT ![s] = IF filled THEN @ \cup {id} ELSE @,
                                                ![Other(s)] = @ \cup matchees]

CreatedAlways(outcome) == TRUE \* mutant: a transfer that failed makes a position too
PositionCreated(outcome) == outcome = "executed"

(* The rest of _trade.                                                     *)
TradeReply(s, u, p) ==
    /\ trade_call[s][u] \in {"executed", "refused"}
    /\ IF PositionCreated(trade_call[s][u])
       THEN /\ \E n \in 0 .. MaxTradeLogs, matchees \in SUBSET positions[Other(s)],
                  filled \in BOOLEAN : Match(s, id_counter, n, matchees, filled)
            /\ Storage!Extend
       ELSE UNCHANGED <<market, store>>
    /\ Unlock(s, u)
    /\ trade_call' = [trade_call EXCEPT ![s][u] = "none"]
    /\ ArmTimer(p)
    /\ UNCHANGED <<transfer_call, posited>>

-----------------------------------------------------------------------------
(* transfer_cycles_balance and transfer_token_balance.                     *)

TransferCall(s, u) ==
    /\ transfer_call[s][u] = "none"
    /\ MayLock(s, u)
    /\ Lock(s, u)
    /\ transfer_call' = [transfer_call EXCEPT ![s][u] = "sent"]
    /\ UNCHANGED <<market, trade_call, proc, posited, store>>

TransferReply(s, u) ==
    /\ transfer_call[s][u] = "answered"
    /\ Unlock(s, u)
    /\ transfer_call' = [transfer_call EXCEPT ![s][u] = "none"]
    /\ UNCHANGED <<market, trade_call, proc, posited, store>>

(* The ledgers.                                                            *)
LedgerPosits(s, u) ==
    /\ trade_call[s][u] = "sent"
    /\ \/ /\ trade_call' = [trade_call EXCEPT ![s][u] = "executed"]
          /\ posited' = [posited EXCEPT ![s] = @ + 1]
       \/ /\ trade_call' = [trade_call EXCEPT ![s][u] = "refused"]
          /\ UNCHANGED posited
    /\ UNCHANGED <<market, mid_call_locks, transfer_call, proc, store>>

LedgerTransfers(s, u) ==
    /\ transfer_call[s][u] = "sent"
    /\ transfer_call' = [transfer_call EXCEPT ![s][u] = "answered"]
    /\ UNCHANGED <<market, mid_call_locks, trade_call, proc, posited, store>>

-----------------------------------------------------------------------------
(* void_position, which sets a timer whatever it finds.                    *)

VoidPosition(s, id, p) ==
    /\ id \in positions[s]
    /\ positions' = [positions EXCEPT ![s] = @ \ {id}]
    /\ void_positions' = [void_positions EXCEPT ![s] = @ \cup {id}]
    /\ ArmTimer(p)
    /\ UNCHANGED <<trade_logs, calls, store>>

VoidPositionFails(p) ==
    /\ ArmTimer(p)
    /\ UNCHANGED <<market, calls, store>>

-----------------------------------------------------------------------------
(* do_payouts.                                                             *)

NoWork == (\A s \in Side : void_positions[s] = {}) /\ trade_logs = 0

(* What the end of an activation leaves: the next timer, or nothing.       *)
NextTimer == IF NoWork' THEN "none" ELSE "armed"

TimerFires(p) ==
    /\ proc[p] = "armed"
    /\ proc' = [proc EXCEPT ![p] = IF NoWork THEN "none" ELSE "running"]
    /\ UNCHANGED <<market, calls, store>>

(* The call of do_payouts_public_method comes back, and flush_logs runs.   *)
FlushIsDue == Len(storage_buffer) >= FlushAt /\ ~storage_flush_lock

RunReturns(p) ==
    /\ proc[p] = "running"
    /\ \E cyclesLeft \in SUBSET void_positions["cycles"], tokensLeft \in SUBSET void_positions["token"] :
         void_positions' = [s \in Side |-> IF s = "cycles" THEN cyclesLeft ELSE tokensLeft]
    /\ \E left \in 0 .. trade_logs : trade_logs' = left
    /\ IF FlushIsDue THEN Storage!FlushStart(p) ELSE UNCHANGED store
    /\ proc' = [proc EXCEPT ![p] = IF flush'[p] = Storage!Idle THEN NextTimer ELSE "flushing"]
    /\ UNCHANGED <<positions, calls>>

RunFails(p) ==
    /\ proc[p] = "running"
    /\ UNCHANGED <<market, calls, store>>
    /\ proc' = [proc EXCEPT ![p] = NextTimer]

(* An answer to the flush, which may be its last.                          *)
FlushStep(p) ==
    /\ proc[p] = "flushing"
    /\ Storage!FlushStep(p)
    /\ UNCHANGED <<market, calls>>
    /\ proc' = [proc EXCEPT ![p] = IF flush'[p] = Storage!Idle THEN NextTimer ELSE "flushing"]

CalleeStep(p) ==
    /\ Storage!CalleeStep(p)
    /\ UNCHANGED <<market, calls, proc>>

(* An upgrade: every open call is answered first, the timers are lost, and *)
(* post_upgrade sets one.                                                  *)
Upgrade(p) ==
    /\ \A s \in Side, u \in User : trade_call[s][u] = "none" /\ transfer_call[s][u] = "none"
    /\ \A q \in Proc : proc[q] \in {"none", "armed"}
    /\ proc' = [q \in Proc |-> IF q = p THEN "armed" ELSE "none"]
    /\ UNCHANGED <<market, calls, store>>

-----------------------------------------------------------------------------

Next ==
    \/ \E s \in Side, u \in User :
         \/ TradeCall(s, u) \/ LedgerPosits(s, u)
         \/ TransferCall(s, u) \/ LedgerTransfers(s, u) \/ TransferReply(s, u)
         \/ \E p \in Proc : TradeReply(s, u, p)
    \/ \E p \in Proc :
         \/ \E s \in Side : \E id \in positions[s] : VoidPosition(s, id, p)
         \/ VoidPositionFails(p)
         \/ TimerFires(p) \/ RunReturns(p) \/ RunFails(p) \/ FlushStep(p) \/ CalleeStep(p)
         \/ Upgrade(p)

Spec == Init /\ [][Next]_vars

(* Timers fire and calls are answered; the callees do not refuse for ever  *)
(* what they are asked again and again.                                    *)
Fairness ==
    /\ \A s \in Side, u \in User :
         /\ WF_vars(LedgerPosits(s, u)) /\ WF_vars(LedgerTransfers(s, u))
         /\ WF_vars(TransferReply(s, u))
         /\ SF_vars(\E p \in Proc : TradeReply(s, u, p))
    /\ \A p \in Proc :
         /\ WF_vars(TimerFires(p))
         /\ SF_vars(RunReturns(p))
         /\ WF_vars(FlushStep(p))
         /\ WF_vars(CalleeStep(p))
    /\ SF_vars(\E p \in Proc : RunReturns(p) /\ flush'[p] # Storage!Idle)
    /\ SF_vars(\E p \in Proc : CalleeStep(p) /\ flush'[p].at \in {"created", "installDone", "sent"})

FairSpec == Spec /\ Fairness

-----------------------------------------------------------------------------
(* Properties.                                                             *)

TypeOK ==
    /\ \A s \in Side : /\ positions[s] \subseteq 0 .. id_counter - 1
                       /\ void_positions[s] \subseteq 0 .. id_counter - 1
                       /\ mid_call_locks[s] \subseteq User
                       /\ posited[s] \in Nat
    /\ trade_logs \in 0 .. MaxTradeLogs
    /\ trade_call \in [Side -> [User -> TradeCallState]]
    /\ transfer_call \in [Side -> [User -> TransferCallState]]
    /\ proc \in [Proc -> {"none", "armed", "running", "flushing"}]
    /\ Storage!TypeOK

(* A user has at most one call to each ledger under way, be it a trade or  *)
(* a transfer of the balance, and the lock says so exactly: no lock is     *)
(* left behind by a call that failed.                                      *)
LocksAreCalls ==
    \A s \in Side, u \in User :
        /\ trade_call[s][u] = "none" \/ transfer_call[s][u] = "none"
        /\ u \in mid_call_locks[s] <=> trade_call[s][u] # "none" \/ transfer_call[s][u] # "none"

(* Trades pass the admission before the call of the ledger and create      *)
(* their position after it; yet the maps stay within their capacity,       *)
(* because the calls under way are counted.  A position that moves to the  *)
(* void positions has its room there already.                              *)
CapacityRespected ==
    /\ TypeOK
    /\ \A s \in Side :
         /\ Cardinality(positions[s]) <= Monus(MaxPositions, Margin)
         /\ Cardinality(void_positions[s]) + Cardinality(positions[s])
            <= Monus(MaxVoidPositions, Margin) + 1

(* Each posit transfer that a ledger executed has its position, or its     *)
(* answer is on the way; no position is without one.                       *)
EveryPositIsAPosition ==
    posited["cycles"] + posited["token"]
    = id_counter + Cardinality({x \in Side \X User : trade_call[x[1]][x[2]] = "executed"})

(* What ARCHITECTURE.md says: a full buffer is flushed to the storage      *)
(* canisters.  It is not when the flush fails and the last payouts are     *)
(* done meanwhile: do_payouts then returns before it flushes, and a full   *)
(* buffer rejects the trades that would bring it new work.                 *)
FullBufferIsFlushed == BufferFull ~> ~BufferFull

=============================================================================
