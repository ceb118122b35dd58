------------------------ MODULE TradeContractProofs ------------------------
(***************************************************************************)
(* Proofs about TradeContract, for any number of users, calls and          *)
(* positions: the locks are exactly the calls under way, the maps keep to  *)
(* their capacity, each posit transfer has its position, and the positions *)
(* storage of the contract is a LogStorage, with all that LogStorageProofs *)
(* proves of one.                                                          *)
(***************************************************************************)
EXTENDS TradeContract, Sums

StorageProofs == INSTANCE LogStorageProofs WITH
    Flusher <- Proc, Updater <- {}, Key <- {}, IndexKeys <- [id \in 0 .. MaxLogs - 1 |-> <<>>]

TradesUnderWay(s) == {u \in User : trade_call[s][u] # "none"}
Executed == {x \in Side \X User : trade_call[x[1]][x[2]] = "executed"}

MarketOK ==
    /\ positions \in [Side -> SUBSET Nat]
    /\ void_positions \in [Side -> SUBSET Nat]
    /\ mid_call_locks \in [Side -> SUBSET User]
    /\ posited \in [Side -> Nat]

(* A trade under way has the room for its position already.                *)
RoomKept ==
    \A s \in Side :
        /\ Cardinality(positions[s]) + Cardinality(TradesUnderWay(s)) <= Monus(MaxPositions, Margin)
        /\ Cardinality(void_positions[s]) + Cardinality(positions[s])
           + Cardinality(TradesUnderWay(s)) <= Monus(MaxVoidPositions, Margin) + 1

TradeInv == TypeOK /\ MarketOK /\ LocksAreCalls /\ RoomKept /\ EveryPositIsAPosition

-----------------------------------------------------------------------------
(* The positions storage.                                                  *)

LEMMA StorageAssumption == StorageProofs!LogStorageAssumption
  BY TradeContractAssumption DEF StorageProofs!LogStorageAssumption

LEMMA StorageStarts == Init => StorageProofs!Init
  BY DEF Init, Storage!Init, StorageProofs!Init, Storage!Idle, StorageProofs!Idle,
     Storage!NoUpdates, StorageProofs!NoUpdates, Storage!NoUpdate, StorageProofs!NoUpdate,
     Storage!LogId, StorageProofs!LogId

LEMMA StorageVars == UNCHANGED store <=> UNCHANGED StorageProofs!vars
  BY DEF store, StorageProofs!vars, StorageProofs!data, StorageProofs!storage

LEMMA StorageExtends == Storage!Extend => StorageProofs!Extend
  BY DEF Storage!Extend, StorageProofs!Extend, Storage!NewLog, StorageProofs!NewLog,
     Storage!storage, StorageProofs!storage

LEMMA StorageFlushStarts ==
    ASSUME NEW p \in Proc, Storage!FlushStart(p)
    PROVE  StorageProofs!FlushStart(p)
  BY DEF Storage!FlushStart, StorageProofs!FlushStart, Storage!Idle, StorageProofs!Idle,
     Storage!storage, StorageProofs!storage, Storage!HasRoom, StorageProofs!HasRoom,
     Storage!LastOf, StorageProofs!LastOf, Storage!BeginSending, StorageProofs!BeginSending,
     Storage!ChunkSizes, StorageProofs!ChunkSizes, Storage!FlushEnds, StorageProofs!FlushEnds

LEMMA StorageFlushSteps ==
    ASSUME NEW p \in Proc, Storage!FlushStep(p)
    PROVE  StorageProofs!FlushStep(p)
  <1>1. CASE Storage!CreateReply(p)
    BY <1>1 DEF Storage!CreateReply, StorageProofs!CreateReply, StorageProofs!FlushStep,
       Storage!Idle, StorageProofs!Idle,
       Storage!storage, StorageProofs!storage, Storage!FlushEnds, StorageProofs!FlushEnds
  <1>2. CASE Storage!InstallReply(p)
    BY <1>2 DEF Storage!InstallReply, StorageProofs!InstallReply, StorageProofs!FlushStep,
       Storage!storage, StorageProofs!storage, Storage!FlushEnds, StorageProofs!FlushEnds,
       Storage!Idle, StorageProofs!Idle,
       Storage!FirstLogId, StorageProofs!FirstLogId, Storage!Held, StorageProofs!Held,
       Storage!BufferFirstId, StorageProofs!BufferFirstId, Storage!LastOf, StorageProofs!LastOf,
       Storage!BeginSending, StorageProofs!BeginSending,
       Storage!ChunkSizes, StorageProofs!ChunkSizes
  <1>3. CASE Storage!FlushReply(p)
    BY <1>3 DEF Storage!FlushReply, StorageProofs!FlushReply, StorageProofs!FlushStep,
       Storage!storage, StorageProofs!storage, Storage!FlushEnds, StorageProofs!FlushEnds,
       Storage!Idle, StorageProofs!Idle,
       Storage!Counted, StorageProofs!Counted, Storage!Drain, StorageProofs!Drain
  <1> QED
    BY <1>1, <1>2, <1>3 DEF Storage!FlushStep

LEMMA StorageCallees ==
    ASSUME NEW p \in Proc, Storage!CalleeStep(p)
    PROVE  StorageProofs!CalleeStep(p)
  <1>1. CASE Storage!CreateCanister(p)
    BY <1>1 DEF Storage!CreateCanister, StorageProofs!CreateCanister, StorageProofs!CalleeStep,
       Storage!data, StorageProofs!data
  <1>2. CASE Storage!InstallCode(p)
    BY <1>2 DEF Storage!InstallCode, StorageProofs!InstallCode, StorageProofs!CalleeStep,
       Storage!data, StorageProofs!data
  <1>3. CASE Storage!StorageFlush(p)
    BY <1>3 DEF Storage!StorageFlush, StorageProofs!StorageFlush, StorageProofs!CalleeStep,
       Storage!data, StorageProofs!data, Storage!Chunk, StorageProofs!Chunk,
       Storage!Fits, StorageProofs!Fits, Storage!Indexed, StorageProofs!Indexed,
       Storage!KeysOf, StorageProofs!KeysOf, Storage!Range, StorageProofs!Range
  <1> QED
    BY <1>1, <1>2, <1>3 DEF Storage!CalleeStep

(* Every step of the trade contract is a step of its positions storage, or *)
(* leaves the storage alone.                                               *)
LEMMA StorageStep ==
    ASSUME [Next]_vars
    PROVE  [StorageProofs!Next]_StorageProofs!vars
  <1>1. CASE UNCHANGED vars
    BY <1>1, StorageVars DEF vars
  <1>2. ASSUME NEW s \in Side, NEW u \in User, NEW p \in Proc, TradeReply(s, u, p)
        PROVE  [StorageProofs!Next]_StorageProofs!vars
    <2>1. Storage!Extend \/ UNCHANGED store
      BY <1>2 DEF TradeReply
    <2> QED
      BY <2>1, StorageExtends, StorageVars DEF StorageProofs!Next
  <1>3. ASSUME NEW s \in Side, NEW u \in User,
               TradeCall(s, u) \/ LedgerPosits(s, u) \/ TransferCall(s, u)
               \/ LedgerTransfers(s, u) \/ TransferReply(s, u)
        PROVE  UNCHANGED store
    BY <1>3 DEF TradeCall, LedgerPosits, TransferCall, LedgerTransfers, TransferReply
  <1>4. ASSUME NEW p \in Proc,
               (\E s \in Side : \E id \in positions[s] : VoidPosition(s, id, p))
               \/ VoidPositionFails(p) \/ TimerFires(p) \/ RunFails(p) \/ Upgrade(p)
        PROVE  UNCHANGED store
    BY <1>4 DEF VoidPosition, VoidPositionFails, TimerFires, RunFails, Upgrade
  <1>5. ASSUME NEW p \in Proc, RunReturns(p)
        PROVE  [StorageProofs!Next]_StorageProofs!vars
    <2>1. Storage!FlushStart(p) \/ UNCHANGED store
      BY <1>5 DEF RunReturns
    <2> QED
      BY <2>1, StorageFlushStarts, StorageVars DEF StorageProofs!Next
  <1>6. ASSUME NEW p \in Proc, FlushStep(p) \/ CalleeStep(p)
        PROVE  [StorageProofs!Next]_StorageProofs!vars
    <2>1. Storage!FlushStep(p) \/ Storage!CalleeStep(p)
      BY <1>6 DEF FlushStep, CalleeStep
    <2> QED
      BY <2>1, StorageFlushSteps, StorageCallees DEF StorageProofs!Next
  <1> QED
    BY <1>1, <1>2, <1>3, <1>4, <1>5, <1>6, StorageVars DEF Next

(* The positions storage of a trade contract with its users is a           *)
(* LogStorage: whatever LogStorageProofs shows of one holds of it.         *)
THEOREM TradeContractHasAStorage == Spec => StorageProofs!Spec
  <1>1. Init => StorageProofs!Init
    BY StorageStarts
  <1>2. [Next]_vars => [StorageProofs!Next]_StorageProofs!vars
    BY StorageStep
  <1> QED
    BY <1>1, <1>2, PTL DEF Spec, StorageProofs!Spec

(* Whatever the users do meanwhile, the positions storage keeps the        *)
(* inductive invariant of LogStorageProofs.                                *)
THEOREM PositionsAreStored == Spec => []StorageProofs!LogStorageInv
  <1>1. StorageProofs!Spec => []StorageProofs!LogStorageInv
    BY StorageAssumption, StorageProofs!StorageInvariant, PTL
  <1> QED
    BY <1>1, TradeContractHasAStorage, PTL

LEMMA StorageTypes == StorageProofs!LogStorageInv => Storage!TypeOK
  BY DEF StorageProofs!LogStorageInv, StorageProofs!TypeOK, Storage!TypeOK, Storage!Log,
     StorageProofs!Log, Storage!LogId, StorageProofs!LogId, Storage!StorageCanisterData,
     StorageProofs!StorageCanisterData, Storage!Flush, StorageProofs!Flush, Storage!Update,
     StorageProofs!Update, Storage!FlushAtState, StorageProofs!FlushAtState

(* The positions that users have made can be looked up at every moment,    *)
(* while their logs travel to the storage canisters.                       *)
THEOREM PositionsAreRecords == Spec => StorageProofs!ImplementsRecordLog
  <1>1. StorageProofs!Spec => StorageProofs!ImplementsRecordLog
    BY StorageAssumption, StorageProofs!StorageImplementsRecordLog, PTL
  <1> QED
    BY <1>1, TradeContractHasAStorage, PTL

-----------------------------------------------------------------------------
(* Counting.                                                               *)

(* Sets of users, and sets of ids that were given out, are finite.         *)
LEMMA Finite ==
    ASSUME TradeInv
    PROVE  /\ \A S \in SUBSET User : IsFiniteSet(S) /\ Cardinality(S) \in Nat
           /\ \A S \in SUBSET (0 .. id_counter - 1) : IsFiniteSet(S) /\ Cardinality(S) \in Nat
           /\ \A s \in Side : /\ positions[s] \in SUBSET (0 .. id_counter - 1)
                              /\ void_positions[s] \in SUBSET (0 .. id_counter - 1)
                              /\ mid_call_locks[s] \in SUBSET User
                              /\ TradesUnderWay(s) \in SUBSET User
           /\ IsFiniteSet(Executed) /\ Cardinality(Executed) \in Nat
  <1>1. id_counter \in Nat
    BY TradeContractAssumption DEF TradeInv, TypeOK, Storage!TypeOK
  <1>2. IsFiniteSet(0 .. id_counter - 1)
    BY <1>1, FS_Interval
  <1>3. IsFiniteSet(User)
    BY TradeContractAssumption
  <1>4. IsFiniteSet(Side)
    <2>1. Side = {"cycles"} \cup {"token"}
      BY DEF Side
    <2> QED
      BY <2>1, FS_Singleton, FS_AddElement
  <1>5. IsFiniteSet(Side \X User)
    BY <1>3, <1>4, FS_Product
  <1>6. Executed \subseteq Side \X User
    BY DEF Executed
  <1>7. IsFiniteSet(Executed) /\ Cardinality(Executed) \in Nat
    BY <1>5, <1>6, FS_Subset, FS_CardinalityType
  <1>8. \A S \in SUBSET User : IsFiniteSet(S) /\ Cardinality(S) \in Nat
    BY <1>3, FS_Subset, FS_CardinalityType
  <1>9. \A S \in SUBSET (0 .. id_counter - 1) : IsFiniteSet(S) /\ Cardinality(S) \in Nat
    BY <1>2, FS_Subset, FS_CardinalityType
  <1>10. \A s \in Side : /\ positions[s] \in SUBSET (0 .. id_counter - 1)
                         /\ void_positions[s] \in SUBSET (0 .. id_counter - 1)
                         /\ mid_call_locks[s] \in SUBSET User
                         /\ TradesUnderWay(s) \in SUBSET User
    BY DEF TradeInv, TypeOK, TradesUnderWay
  <1> QED
    BY <1>7, <1>8, <1>9, <1>10

(* How a call that moves on changes what is counted.                       *)
LEMMA TradeMoves ==
    ASSUME TradeInv, NEW s \in Side, NEW u \in User, NEW v \in TradeCallState,
           trade_call' = [trade_call EXCEPT ![s][u] = v]
    PROVE  /\ trade_call' \in [Side -> [User -> TradeCallState]]
           /\ \A t \in Side, w \in User :
                trade_call'[t][w] = IF t = s /\ w = u THEN v ELSE trade_call[t][w]
           /\ \A t \in Side \ {s} : TradesUnderWay(t)' = TradesUnderWay(t)
           /\ v # "none" => TradesUnderWay(s)' = TradesUnderWay(s) \cup {u}
           /\ v = "none" => TradesUnderWay(s)' = TradesUnderWay(s) \ {u}
           /\ v = "executed" => Executed' = Executed \cup {<<s, u>>}
           /\ v # "executed" => Executed' = Executed \ {<<s, u>>}
  <1>1. trade_call \in [Side -> [User -> TradeCallState]]
    BY DEF TradeInv, TypeOK
  <1>2. trade_call' \in [Side -> [User -> TradeCallState]]
    BY <1>1
  <1>3. \A t \in Side, w \in User :
           trade_call'[t][w] = IF t = s /\ w = u THEN v ELSE trade_call[t][w]
    BY <1>1
  <1>4. \A t \in Side \ {s} : TradesUnderWay(t)' = TradesUnderWay(t)
    BY <1>3 DEF TradesUnderWay
  <1>5. v # "none" => TradesUnderWay(s)' = TradesUnderWay(s) \cup {u}
    BY <1>3 DEF TradesUnderWay
  <1>6. v = "none" => TradesUnderWay(s)' = TradesUnderWay(s) \ {u}
    BY <1>3 DEF TradesUnderWay
  <1>7. v = "executed" => Executed' = Executed \cup {<<s, u>>}
    BY <1>3 DEF Executed
  <1>8. v # "executed" => Executed' = Executed \ {<<s, u>>}
    BY <1>3 DEF Executed
  <1> QED
    BY <1>2, <1>3, <1>4, <1>5, <1>6, <1>7, <1>8

(* A lock that is taken or given back with a call.                         *)
LEMMA LocksMove ==
    ASSUME TradeInv, NEW s \in Side, NEW u \in User
    PROVE  /\ Lock(s, u) => /\ mid_call_locks' \in [Side -> SUBSET User]
                            /\ mid_call_locks'[s] = mid_call_locks[s] \cup {u}
                            /\ \A t \in Side \ {s} : mid_call_locks'[t] = mid_call_locks[t]
           /\ Unlock(s, u) => /\ mid_call_locks' \in [Side -> SUBSET User]
                              /\ mid_call_locks'[s] = mid_call_locks[s] \ {u}
                              /\ \A t \in Side \ {s} : mid_call_locks'[t] = mid_call_locks[t]
  BY DEF TradeInv, MarketOK, Lock, Unlock

LEMMA MonusFacts ==
    ASSUME NEW a \in Nat, NEW b \in Nat
    PROVE  /\ Monus(a, b) \in Nat
           /\ a > b => Monus(a, b) = a - b
           /\ a <= b => Monus(a, b) = 0
  BY DEF Monus

-----------------------------------------------------------------------------
(* The steps.                                                              *)

(* A step that leaves the market and the calls alone.                      *)
LEMMA MarketSame ==
    ASSUME TradeInv, Storage!TypeOK', UNCHANGED <<market, calls>>, id_counter' = id_counter,
           proc' \in [Proc -> {"none", "armed", "running", "flushing"}]
    PROVE  TradeInv'
  <1>1. /\ positions' = positions /\ void_positions' = void_positions /\ trade_logs' = trade_logs
        /\ mid_call_locks' = mid_call_locks /\ trade_call' = trade_call
        /\ transfer_call' = transfer_call /\ posited' = posited
    BY DEF market, calls
  <1>2. TypeOK'
    BY <1>1 DEF TradeInv, TypeOK
  <1>3. MarketOK' /\ LocksAreCalls' /\ EveryPositIsAPosition'
    BY <1>1 DEF TradeInv, MarketOK, LocksAreCalls, EveryPositIsAPosition
  <1>4. \A s \in Side : TradesUnderWay(s)' = TradesUnderWay(s)
    BY <1>1 DEF TradesUnderWay
  <1>5. RoomKept'
    BY <1>1, <1>4 DEF TradeInv, RoomKept
  <1> QED
    BY <1>2, <1>3, <1>5 DEF TradeInv

LEMMA TradeCallHolds ==
    ASSUME TradeInv, Storage!TypeOK', NEW s \in Side, NEW u \in User, TradeCall(s, u)
    PROVE  TradeInv'
  <1>1. /\ positions' = positions /\ void_positions' = void_positions /\ trade_logs' = trade_logs
        /\ transfer_call' = transfer_call /\ posited' = posited /\ proc' = proc
        /\ id_counter' = id_counter
        /\ trade_call[s][u] = "none" /\ u \notin mid_call_locks[s]
        /\ HasCapacity(s) /\ Lock(s, u)
        /\ trade_call' = [trade_call EXCEPT ![s][u] = "sent"]
    BY DEF TradeCall, MayLock, market, store
  <1>2. /\ trade_call' \in [Side -> [User -> TradeCallState]]
        /\ \A t \in Side, w \in User :
             trade_call'[t][w] = IF t = s /\ w = u THEN "sent" ELSE trade_call[t][w]
        /\ \A t \in Side \ {s} : TradesUnderWay(t)' = TradesUnderWay(t)
        /\ TradesUnderWay(s)' = TradesUnderWay(s) \cup {u}
        /\ Executed' = Executed \ {<<s, u>>}
    <2>1. PICK v \in TradeCallState : v = "sent"
      BY DEF TradeCallState
    <2>2. trade_call' = [trade_call EXCEPT ![s][u] = v] /\ v # "none" /\ v # "executed"
      BY <1>1, <2>1
    <2>3. trade_call' \in [Side -> [User -> TradeCallState]]
      BY <2>1, <2>2, TradeMoves, ZenonT(20)
    <2>4. \A t \in Side \ {s} : TradesUnderWay(t)' = TradesUnderWay(t)
      BY <2>1, <2>2, TradeMoves, ZenonT(20)
    <2>5. TradesUnderWay(s)' = TradesUnderWay(s) \cup {u}
      BY <2>1, <2>2, TradeMoves, ZenonT(20)
    <2>6. Executed' = Executed \ {<<s, u>>}
      BY <2>1, <2>2, TradeMoves, ZenonT(20)
    <2>7. \A t \in Side, w \in User :
             trade_call'[t][w] = IF t = s /\ w = u THEN v ELSE trade_call[t][w]
      BY <2>1, <2>2, TradeMoves, ZenonT(20)
    <2> QED
      BY <2>1, <2>3, <2>4, <2>5, <2>6, <2>7
  <1>3. /\ mid_call_locks' \in [Side -> SUBSET User]
        /\ mid_call_locks'[s] = mid_call_locks[s] \cup {u}
        /\ \A t \in Side \ {s} : mid_call_locks'[t] = mid_call_locks[t]
    BY <1>1, LocksMove
  <1>4. TypeOK'
    BY <1>1, <1>2, <1>3 DEF TradeInv, TypeOK
  <1>5. MarketOK'
    BY <1>1, <1>3 DEF TradeInv, MarketOK
  <1>6. LocksAreCalls'
    BY <1>1, <1>2, <1>3 DEF TradeInv, LocksAreCalls
  <1>7. EveryPositIsAPosition'
    <2>1. Executed' = Executed
      BY <1>1, <1>2 DEF Executed
    <2> QED
      BY <1>1, <2>1 DEF TradeInv, EveryPositIsAPosition, Executed
  <1>8. RoomKept'
    <2>1. TradesUnderWay(s) \subseteq mid_call_locks[s]
      BY DEF TradeInv, LocksAreCalls, TradesUnderWay
    <2>2. Cardinality(TradesUnderWay(s)) <= Cardinality(mid_call_locks[s])
      BY <2>1, Finite, Fewer
    <2>3. Cardinality(TradesUnderWay(s) \cup {u}) <= Cardinality(TradesUnderWay(s)) + 1
      BY Finite, OneMore
    <2> DEFINE pos == Cardinality(positions[s])
               void == Cardinality(void_positions[s])
               locks == Cardinality(mid_call_locks[s])
               trades == Cardinality(TradesUnderWay(s))
               next == Cardinality(TradesUnderWay(s)')
    <2>4. /\ pos \in Nat /\ void \in Nat /\ locks \in Nat /\ trades \in Nat /\ next \in Nat
          /\ trades <= locks /\ next <= trades + 1
      <3>1. TradesUnderWay(s)' \in SUBSET User
        BY DEF TradesUnderWay
      <3> QED
        BY <1>2, <2>2, <2>3, <3>1, Finite
    <2>5. /\ pos + locks < Monus(MaxPositions, Margin)
          /\ Monus(Monus(Monus(MaxVoidPositions, void), pos), locks) >= Margin
      BY <1>1 DEF HasCapacity
    <2> HIDE DEF pos, void, locks, trades, next
    <2>6. pos + next <= Monus(MaxPositions, Margin)
      BY <2>4, <2>5, TradeContractAssumption, MonusFacts
    <2>7. void + pos + next <= Monus(MaxVoidPositions, Margin) + 1
      BY <2>4, <2>5, TradeContractAssumption DEF Monus
    <2> QED
      BY <1>1, <1>2, <2>6, <2>7 DEF TradeInv, RoomKept, pos, void, next
  <1> QED
    BY <1>4, <1>5, <1>6, <1>7, <1>8 DEF TradeInv

LEMMA LedgerPositsHolds ==
    ASSUME TradeInv, Storage!TypeOK', NEW s \in Side, NEW u \in User, LedgerPosits(s, u)
    PROVE  TradeInv'
  <1>1. /\ positions' = positions /\ void_positions' = void_positions /\ trade_logs' = trade_logs
        /\ transfer_call' = transfer_call /\ mid_call_locks' = mid_call_locks /\ proc' = proc
        /\ id_counter' = id_counter
        /\ trade_call[s][u] = "sent"
    BY DEF LedgerPosits, market, store
  <1>2. PICK v \in {"executed", "refused"} :
           /\ trade_call' = [trade_call EXCEPT ![s][u] = v]
           /\ posited' = IF v = "executed" THEN [posited EXCEPT ![s] = @ + 1] ELSE posited
    BY DEF LedgerPosits
  <1>3. v \in TradeCallState /\ v # "none"
    BY DEF TradeCallState
  <1>4. /\ trade_call' \in [Side -> [User -> TradeCallState]]
        /\ \A t \in Side, w \in User :
             trade_call'[t][w] = IF t = s /\ w = u THEN v ELSE trade_call[t][w]
    BY <1>2, <1>3, TradeMoves, ZenonT(20)
  <1>5. \A t \in Side : TradesUnderWay(t)' = TradesUnderWay(t)
    BY <1>1, <1>3, <1>4 DEF TradesUnderWay
  <1>6. posited' \in [Side -> Nat]
    BY <1>2 DEF TradeInv, MarketOK
  <1>7. TypeOK'
    BY <1>1, <1>4, <1>6 DEF TradeInv, TypeOK
  <1>8. MarketOK'
    BY <1>1, <1>6 DEF TradeInv, MarketOK
  <1>9. LocksAreCalls'
    BY <1>1, <1>3, <1>4 DEF TradeInv, LocksAreCalls
  <1>10. EveryPositIsAPosition'
    <2>1. posited["cycles"] + posited["token"] = id_counter + Cardinality(Executed)
      BY DEF TradeInv, EveryPositIsAPosition, Executed
    <2>2. SUFFICES posited'["cycles"] + posited'["token"] = id_counter + Cardinality(Executed')
      BY <1>1 DEF EveryPositIsAPosition, Executed
    <2>3. <<s, u>> \notin Executed
      BY <1>1 DEF Executed
    <2>4. CASE v = "executed"
      <3>1. Executed' = Executed \cup {<<s, u>>}
        BY <1>2, <1>3, <2>4, TradeMoves, ZenonT(20)
      <3>2. Cardinality(Executed') = Cardinality(Executed) + 1 /\ Cardinality(Executed) \in Nat
        BY <2>3, <3>1, Finite, OneMore
      <3>3. posited'["cycles"] + posited'["token"] = posited["cycles"] + posited["token"] + 1
        <4>1. posited' = [posited EXCEPT ![s] = @ + 1] /\ posited \in [Side -> Nat]
          BY <1>2, <2>4 DEF TradeInv, MarketOK
        <4> QED
          BY <4>1 DEF Side
      <3>4. id_counter \in Nat
        BY TradeContractAssumption DEF TradeInv, TypeOK, Storage!TypeOK
      <3> QED
        BY <2>1, <3>2, <3>3, <3>4
    <2>5. CASE v = "refused"
      <3>1. Executed' = Executed
        BY <1>1, <1>4, <2>5 DEF Executed
      <3> QED
        BY <1>2, <2>1, <2>5, <3>1
    <2> QED
      BY <2>4, <2>5
  <1>11. RoomKept'
    BY <1>1, <1>5 DEF TradeInv, RoomKept
  <1> QED
    BY <1>7, <1>8, <1>9, <1>10, <1>11 DEF TradeInv

(* A call of transfer_*_balance: sent, answered or over.                   *)
LEMMA TransferHolds ==
    ASSUME TradeInv, Storage!TypeOK', NEW s \in Side, NEW u \in User,
           TransferCall(s, u) \/ LedgerTransfers(s, u) \/ TransferReply(s, u)
    PROVE  TradeInv'
  <1>1. /\ positions' = positions /\ void_positions' = void_positions /\ trade_logs' = trade_logs
        /\ trade_call' = trade_call /\ posited' = posited /\ proc' = proc
        /\ id_counter' = id_counter
    BY DEF TransferCall, LedgerTransfers, TransferReply, market, store
  <1>2. PICK v \in TransferCallState : transfer_call' = [transfer_call EXCEPT ![s][u] = v]
    BY DEF TransferCall, LedgerTransfers, TransferReply, TransferCallState
  <1>3. /\ mid_call_locks' \in [Side -> SUBSET User]
        /\ \A t \in Side \ {s} : mid_call_locks'[t] = mid_call_locks[t]
    <2>1. mid_call_locks' = mid_call_locks \/ Lock(s, u) \/ Unlock(s, u)
      BY DEF TransferCall, LedgerTransfers, TransferReply
    <2>2. mid_call_locks \in [Side -> SUBSET User]
      BY DEF TradeInv, MarketOK
    <2> QED
      BY <2>1, <2>2, LocksMove
  <1>4. /\ transfer_call' \in [Side -> [User -> TransferCallState]]
        /\ \A t \in Side, w \in User :
             transfer_call'[t][w] = IF t = s /\ w = u THEN v ELSE transfer_call[t][w]
    BY <1>2 DEF TradeInv, TypeOK
  <1>5. TypeOK'
    BY <1>1, <1>3, <1>4 DEF TradeInv, TypeOK
  <1>6. MarketOK'
    BY <1>1, <1>3 DEF TradeInv, MarketOK
  <1>7. LocksAreCalls'
    <2>1. CASE TransferCall(s, u)
      <3>1. transfer_call'[s][u] = "sent" /\ u \notin mid_call_locks[s]
        BY <1>4, <2>1 DEF TransferCall, MayLock, TradeInv, TypeOK
      <3>2. mid_call_locks'[s] = mid_call_locks[s] \cup {u}
        BY <2>1, LocksMove DEF TransferCall
      <3> QED
        BY <1>1, <1>3, <1>4, <3>1, <3>2 DEF TradeInv, LocksAreCalls
    <2>2. CASE LedgerTransfers(s, u)
      <3>1. transfer_call'[s][u] = "answered" /\ transfer_call[s][u] = "sent"
            /\ mid_call_locks' = mid_call_locks
        BY <1>4, <2>2 DEF LedgerTransfers, TradeInv, TypeOK
      <3> QED
        BY <1>1, <1>4, <3>1 DEF TradeInv, LocksAreCalls
    <2>3. CASE TransferReply(s, u)
      <3>1. transfer_call'[s][u] = "none" /\ transfer_call[s][u] = "answered"
        BY <1>4, <2>3 DEF TransferReply, TradeInv, TypeOK
      <3>2. mid_call_locks'[s] = mid_call_locks[s] \ {u}
        BY <2>3, LocksMove DEF TransferReply
      <3> QED
        BY <1>1, <1>3, <1>4, <3>1, <3>2 DEF TradeInv, LocksAreCalls
    <2> QED
      BY <2>1, <2>2, <2>3
  <1>8. EveryPositIsAPosition'
    BY <1>1 DEF TradeInv, EveryPositIsAPosition
  <1>9. \A t \in Side : TradesUnderWay(t)' = TradesUnderWay(t)
    BY <1>1 DEF TradesUnderWay
  <1>10. RoomKept'
    BY <1>1, <1>9 DEF TradeInv, RoomKept
  <1> QED
    BY <1>5, <1>6, <1>7, <1>8, <1>10 DEF TradeInv

(* A new position and its match leave no side with more positions, open    *)
(* and void, than before, but for the new one.                             *)
LEMMA MatchCounts ==
    ASSUME TradeInv, NEW s \in Side, NEW n \in Nat, NEW filled \in BOOLEAN,
           NEW matchees \in SUBSET positions[Other(s)],
           Match(s, id_counter, n, matchees, filled)
    PROVE  /\ positions' \in [Side -> SUBSET (0 .. id_counter)]
           /\ void_positions' \in [Side -> SUBSET (0 .. id_counter)]
           /\ trade_logs' \in 0 .. MaxTradeLogs
           /\ \A t \in Side :
                LET new == IF t = s THEN 1 ELSE 0
                IN  /\ Cardinality(positions'[t]) <= Cardinality(positions[t]) + new
                    /\ Cardinality(void_positions'[t]) + Cardinality(positions'[t])
                       <= Cardinality(void_positions[t]) + Cardinality(positions[t]) + new
                    /\ Cardinality(void_positions'[t]) \in Nat /\ Cardinality(positions'[t]) \in Nat
  <1> DEFINE o == Other(s)
             new == {id_counter}
  <1>1. /\ positions \in [Side -> SUBSET Nat] /\ void_positions \in [Side -> SUBSET Nat]
        /\ s \in Side /\ o \in Side /\ s # o /\ Side = {s, o}
    BY DEF TradeInv, MarketOK, Side, Other
  <1>2. id_counter \in Nat /\ trade_logs \in Nat /\ MaxTradeLogs \in Nat
    BY TradeContractAssumption DEF TradeInv, TypeOK, Storage!TypeOK
  <1>3. /\ positions'[o] = positions[o] \ matchees
        /\ void_positions'[o] = void_positions[o] \cup matchees
        /\ positions'[s] = IF filled THEN positions[s] ELSE positions[s] \cup new
        /\ void_positions'[s] = IF filled THEN void_positions[s] \cup new ELSE void_positions[s]
        /\ positions' \in [Side -> SUBSET Nat] /\ void_positions' \in [Side -> SUBSET Nat]
    <2>1. /\ positions' = [positions EXCEPT ![s] = IF filled THEN @ ELSE @ \cup new, ![o] = @ \ matchees]
          /\ void_positions' = [void_positions EXCEPT ![s] = IF filled THEN @ \cup new ELSE @,
                                                      ![o] = @ \cup matchees]
      BY DEF Match
    <2> HIDE DEF o
    <2>2. positions'[o] = positions[o] \ matchees /\ void_positions'[o] = void_positions[o] \cup matchees
      BY <1>1, <2>1
    <2>3. /\ positions'[s] = IF filled THEN positions[s] ELSE positions[s] \cup new
          /\ void_positions'[s] = IF filled THEN void_positions[s] \cup new ELSE void_positions[s]
      BY <1>1, <2>1
    <2>4. matchees \in SUBSET Nat /\ new \in SUBSET Nat
      BY <1>1, <1>2 DEF o
    <2>5. positions' \in [Side -> SUBSET Nat] /\ void_positions' \in [Side -> SUBSET Nat]
      BY <1>1, <2>1, <2>4
    <2> QED
      BY <2>2, <2>3, <2>5
  <1>4. \A t \in Side : /\ IsFiniteSet(positions[t]) /\ IsFiniteSet(void_positions[t])
                        /\ positions[t] \subseteq 0 .. id_counter - 1
                        /\ void_positions[t] \subseteq 0 .. id_counter - 1
    BY Finite
  <1>5. \A t \in Side : /\ positions'[t] \subseteq 0 .. id_counter
                        /\ void_positions'[t] \subseteq 0 .. id_counter
    <2>1. /\ positions[s] \subseteq 0 .. id_counter /\ void_positions[s] \subseteq 0 .. id_counter
          /\ positions[o] \subseteq 0 .. id_counter /\ void_positions[o] \subseteq 0 .. id_counter
          /\ new \subseteq 0 .. id_counter
      <3>1. 0 .. id_counter - 1 \subseteq 0 .. id_counter /\ new \subseteq 0 .. id_counter
        BY <1>2
      <3> QED
        BY <1>1, <1>4, <3>1
    <2> HIDE DEF o, new
    <2>2. matchees \subseteq positions[o]
      BY DEF o
    <2> QED
      BY <1>1, <1>3, <2>1, <2>2
  <1>6. positions' \in [Side -> SUBSET (0 .. id_counter)]
        /\ void_positions' \in [Side -> SUBSET (0 .. id_counter)]
    BY <1>3, <1>5
  <1>7. trade_logs' \in 0 .. MaxTradeLogs
    BY <1>2 DEF Match, QueueHasRoom
  <1>8. /\ Cardinality(positions'[o]) <= Cardinality(positions[o])
        /\ Cardinality(void_positions'[o]) + Cardinality(positions'[o])
           <= Cardinality(void_positions[o]) + Cardinality(positions[o])
        /\ Cardinality(void_positions'[o]) \in Nat /\ Cardinality(positions'[o]) \in Nat
        /\ Cardinality(void_positions[o]) \in Nat /\ Cardinality(positions[o]) \in Nat
    <2>1. matchees \subseteq positions[o]
      OBVIOUS
    <2> HIDE DEF o
    <2> QED
      BY <1>1, <1>3, <1>4, <2>1, MovedElements
  <1>9. /\ Cardinality(positions'[s]) <= Cardinality(positions[s]) + 1
        /\ Cardinality(void_positions'[s]) + Cardinality(positions'[s])
           <= Cardinality(void_positions[s]) + Cardinality(positions[s]) + 1
        /\ Cardinality(void_positions'[s]) \in Nat /\ Cardinality(positions'[s]) \in Nat
    <2>1. /\ Cardinality(positions[s]) \in Nat /\ Cardinality(void_positions[s]) \in Nat
          /\ Cardinality(positions[s] \cup new) \in Nat
          /\ Cardinality(positions[s] \cup new) <= Cardinality(positions[s]) + 1
          /\ Cardinality(void_positions[s] \cup new) \in Nat
          /\ Cardinality(void_positions[s] \cup new) <= Cardinality(void_positions[s]) + 1
      BY <1>1, <1>4, OneMore
    <2> QED
      BY <1>3, <2>1
  <1>10. ASSUME NEW t \in Side
         PROVE  LET one == IF t = s THEN 1 ELSE 0
                IN  /\ Cardinality(positions'[t]) <= Cardinality(positions[t]) + one
                    /\ Cardinality(void_positions'[t]) + Cardinality(positions'[t])
                       <= Cardinality(void_positions[t]) + Cardinality(positions[t]) + one
                    /\ Cardinality(void_positions'[t]) \in Nat /\ Cardinality(positions'[t]) \in Nat
    <2>1. CASE t = s
      BY <1>9, <2>1
    <2>2. CASE t # s
      <3>1. t = o
        BY <1>1, <2>2
      <3> QED
        BY <1>8, <2>2, <3>1
    <2> QED
      BY <2>1, <2>2
  <1> QED
    BY <1>6, <1>7, <1>10

LEMMA TradeReplyHolds ==
    ASSUME TradeInv, Storage!TypeOK', NEW s \in Side, NEW u \in User, NEW p \in Proc,
           TradeReply(s, u, p)
    PROVE  TradeInv'
  <1>1. /\ transfer_call' = transfer_call /\ posited' = posited
        /\ trade_call[s][u] \in {"executed", "refused"}
        /\ trade_call' = [trade_call EXCEPT ![s][u] = "none"]
        /\ Unlock(s, u) /\ ArmTimer(p)
    BY DEF TradeReply
  <1>2. proc' \in [Proc -> {"none", "armed", "running", "flushing"}]
    BY <1>1 DEF ArmTimer, TradeInv, TypeOK
  <1>3. PICK v \in TradeCallState : v = "none"
    BY DEF TradeCallState
  <1>4. trade_call' = [trade_call EXCEPT ![s][u] = v] /\ v # "executed"
    BY <1>1, <1>3
  <1>5. /\ trade_call' \in [Side -> [User -> TradeCallState]]
        /\ \A t \in Side, w \in User :
             trade_call'[t][w] = IF t = s /\ w = u THEN v ELSE trade_call[t][w]
    <2>1. trade_call' \in [Side -> [User -> TradeCallState]]
      BY <1>4, TradeMoves, ZenonT(20)
    <2>2. \A t \in Side, w \in User :
             trade_call'[t][w] = IF t = s /\ w = u THEN v ELSE trade_call[t][w]
      BY <1>4, TradeMoves, ZenonT(20)
    <2> QED
      BY <2>1, <2>2
  <1>6. \A t \in Side \ {s} : TradesUnderWay(t)' = TradesUnderWay(t)
    BY <1>4, TradeMoves, ZenonT(20)
  <1>7. TradesUnderWay(s)' = TradesUnderWay(s) \ {u}
    BY <1>3, <1>4, TradeMoves, ZenonT(20)
  <1>8. Executed' = Executed \ {<<s, u>>}
    BY <1>4, TradeMoves, ZenonT(20)
  <1>9. /\ mid_call_locks' \in [Side -> SUBSET User]
        /\ mid_call_locks'[s] = mid_call_locks[s] \ {u}
        /\ \A t \in Side \ {s} : mid_call_locks'[t] = mid_call_locks[t]
    BY <1>1, LocksMove
  <1>10. LocksAreCalls'
    BY <1>1, <1>3, <1>5, <1>9 DEF TradeInv, LocksAreCalls
  <1>11. id_counter \in Nat
    BY TradeContractAssumption DEF TradeInv, TypeOK, Storage!TypeOK
  <1>12. \A t \in Side : posited[t] \in Nat
    BY DEF TradeInv, TypeOK
  (* What the answer does to the market.                                   *)
  <1>13. /\ positions' \in [Side -> SUBSET (0 .. id_counter' - 1)]
         /\ void_positions' \in [Side -> SUBSET (0 .. id_counter' - 1)]
         /\ trade_logs' \in 0 .. MaxTradeLogs
         /\ id_counter' \in Nat
         /\ id_counter' = IF trade_call[s][u] = "executed" THEN id_counter + 1 ELSE id_counter
         /\ \A t \in Side :
              LET new == IF t = s THEN 1 ELSE 0
              IN  /\ Cardinality(positions'[t]) <= Cardinality(positions[t]) + new
                  /\ Cardinality(void_positions'[t]) + Cardinality(positions'[t])
                     <= Cardinality(void_positions[t]) + Cardinality(positions[t]) + new
                  /\ Cardinality(void_positions'[t]) \in Nat /\ Cardinality(positions'[t]) \in Nat
    <2>1. CASE trade_call[s][u] = "executed"
      <3>1. PICK n \in 0 .. MaxTradeLogs, matchees \in SUBSET positions[Other(s)],
                 filled \in BOOLEAN : Match(s, id_counter, n, matchees, filled)
        BY <2>1 DEF TradeReply, PositionCreated
      <3>2. Storage!Extend
        BY <2>1 DEF TradeReply, PositionCreated
      <3>3. id_counter' = id_counter + 1
        BY <3>2 DEF Storage!Extend
      <3>4. n \in Nat
        BY <3>1, TradeContractAssumption
      <3>5. /\ positions' \in [Side -> SUBSET (0 .. id_counter)]
            /\ void_positions' \in [Side -> SUBSET (0 .. id_counter)]
            /\ trade_logs' \in 0 .. MaxTradeLogs
            /\ \A t \in Side :
                 LET new == IF t = s THEN 1 ELSE 0
                 IN  /\ Cardinality(positions'[t]) <= Cardinality(positions[t]) + new
                     /\ Cardinality(void_positions'[t]) + Cardinality(positions'[t])
                        <= Cardinality(void_positions[t]) + Cardinality(positions[t]) + new
                     /\ Cardinality(void_positions'[t]) \in Nat /\ Cardinality(positions'[t]) \in Nat
        BY <3>1, <3>4, MatchCounts
      <3>6. id_counter' - 1 = id_counter /\ id_counter' \in Nat
        BY <1>11, <3>3
      <3> QED
        BY <2>1, <3>3, <3>5, <3>6
    <2>2. CASE trade_call[s][u] = "refused"
      <3>1. UNCHANGED <<market, store>>
        BY <2>2 DEF TradeReply, PositionCreated
      <3>2. positions' = positions /\ void_positions' = void_positions /\ trade_logs' = trade_logs
            /\ id_counter' = id_counter
        BY <3>1 DEF market, store
      <3>3. /\ positions \in [Side -> SUBSET Nat] /\ void_positions \in [Side -> SUBSET Nat]
            /\ trade_logs \in 0 .. MaxTradeLogs
            /\ \A t \in Side : /\ positions[t] \subseteq 0 .. id_counter - 1
                               /\ void_positions[t] \subseteq 0 .. id_counter - 1
        BY DEF TradeInv, TypeOK, MarketOK
      <3>4. \A t \in Side : /\ Cardinality(void_positions[t]) \in Nat
                            /\ Cardinality(positions[t]) \in Nat
        BY Finite
      <3>5. /\ positions \in [Side -> SUBSET (0 .. id_counter - 1)]
            /\ void_positions \in [Side -> SUBSET (0 .. id_counter - 1)]
        BY <3>3
      <3> QED
        BY <1>11, <2>2, <3>2, <3>3, <3>4, <3>5
    <2> QED
      BY <1>1, <2>1, <2>2
  <1>14. \A t \in Side : /\ positions'[t] \subseteq 0 .. id_counter' - 1
                         /\ void_positions'[t] \subseteq 0 .. id_counter' - 1
    BY <1>13
  <1>15. TypeOK'
    BY <1>1, <1>2, <1>5, <1>9, <1>12, <1>13, <1>14 DEF TradeInv, TypeOK
  <1>16. MarketOK'
    <2>1. 0 .. id_counter' - 1 \subseteq Nat
      BY <1>13
    <2>2. positions' \in [Side -> SUBSET Nat] /\ void_positions' \in [Side -> SUBSET Nat]
      BY <1>13, <2>1
    <2> QED
      BY <1>1, <1>9, <2>2 DEF TradeInv, MarketOK
  <1>17. EveryPositIsAPosition'
    <2>1. posited["cycles"] + posited["token"] = id_counter + Cardinality(Executed)
      BY DEF TradeInv, EveryPositIsAPosition, Executed
    <2>2. SUFFICES posited["cycles"] + posited["token"] = id_counter' + Cardinality(Executed')
      BY <1>1 DEF EveryPositIsAPosition, Executed
    <2>3. IsFiniteSet(Executed) /\ Cardinality(Executed) \in Nat
      BY Finite
    <2>4. CASE trade_call[s][u] = "executed"
      <3>1. <<s, u>> \in Executed
        BY <2>4 DEF Executed
      <3>2. Cardinality(Executed') = Cardinality(Executed) - 1
        BY <1>8, <2>3, <3>1, FS_RemoveElement
      <3> QED
        BY <1>11, <1>13, <2>1, <2>3, <2>4, <3>2
    <2>5. CASE trade_call[s][u] = "refused"
      <3>1. Executed' = Executed
        BY <1>8, <2>5 DEF Executed
      <3> QED
        BY <1>13, <2>1, <2>5, <3>1
    <2> QED
      BY <1>1, <2>4, <2>5
  <1>18. RoomKept'
    <2> SUFFICES ASSUME NEW t \in Side
                 PROVE  /\ Cardinality(positions'[t]) + Cardinality(TradesUnderWay(t)')
                           <= Monus(MaxPositions, Margin)
                        /\ Cardinality(void_positions'[t]) + Cardinality(positions'[t])
                           + Cardinality(TradesUnderWay(t)') <= Monus(MaxVoidPositions, Margin) + 1
      BY DEF RoomKept
    <2> DEFINE new == IF t = s THEN 1 ELSE 0
               pos == Cardinality(positions[t])
               void == Cardinality(void_positions[t])
               trades == Cardinality(TradesUnderWay(t))
               posNext == Cardinality(positions'[t])
               voidNext == Cardinality(void_positions'[t])
               tradesNext == Cardinality(TradesUnderWay(t)')
    <2>1. pos \in Nat /\ void \in Nat /\ trades \in Nat
      BY Finite
    <2>2. tradesNext = trades - new /\ new \in 0 .. 1
      <3>1. CASE t = s
        <4>1. u \in TradesUnderWay(s)
          BY <1>1 DEF TradesUnderWay
        <4>2. IsFiniteSet(TradesUnderWay(s))
          BY Finite
        <4>3. Cardinality(TradesUnderWay(s) \ {u}) = Cardinality(TradesUnderWay(s)) - 1
          BY <4>1, <4>2, FS_RemoveElement
        <4> QED
          BY <1>7, <3>1, <4>3
      <3>2. CASE t # s
        BY <1>6, <2>1, <3>2
      <3> QED
        BY <3>1, <3>2
    <2>3. /\ posNext <= pos + new /\ voidNext + posNext <= void + pos + new
          /\ posNext \in Nat /\ voidNext \in Nat
      BY <1>13
    <2>4. /\ pos + trades <= Monus(MaxPositions, Margin)
          /\ void + pos + trades <= Monus(MaxVoidPositions, Margin) + 1
      BY DEF TradeInv, RoomKept
    <2>5. Monus(MaxPositions, Margin) \in Nat /\ Monus(MaxVoidPositions, Margin) \in Nat
      BY TradeContractAssumption, MonusFacts
    <2> HIDE DEF new, pos, void, trades, posNext, voidNext, tradesNext
    <2>6. /\ posNext + tradesNext <= Monus(MaxPositions, Margin)
          /\ voidNext + posNext + tradesNext <= Monus(MaxVoidPositions, Margin) + 1
      BY <2>1, <2>2, <2>3, <2>4, <2>5
    <2> QED
      BY <2>6 DEF posNext, voidNext, tradesNext
  <1> QED
    BY <1>10, <1>15, <1>16, <1>17, <1>18 DEF TradeInv

(* Positions become void, or void positions go: no side has more of both.  *)
LEMMA MarketShrinks ==
    ASSUME TradeInv, Storage!TypeOK', UNCHANGED calls, id_counter' = id_counter,
           proc' \in [Proc -> {"none", "armed", "running", "flushing"}],
           trade_logs' \in 0 .. MaxTradeLogs,
           positions' \in [Side -> SUBSET (0 .. id_counter - 1)],
           void_positions' \in [Side -> SUBSET (0 .. id_counter - 1)],
           \A t \in Side :
               /\ Cardinality(positions'[t]) <= Cardinality(positions[t])
               /\ Cardinality(void_positions'[t]) + Cardinality(positions'[t])
                  <= Cardinality(void_positions[t]) + Cardinality(positions[t])
    PROVE  TradeInv'
  <1>1. /\ mid_call_locks' = mid_call_locks /\ trade_call' = trade_call
        /\ transfer_call' = transfer_call /\ posited' = posited
    BY DEF calls
  <1>2. /\ \A t \in Side : /\ positions'[t] \subseteq 0 .. id_counter' - 1
                            /\ void_positions'[t] \subseteq 0 .. id_counter' - 1
        /\ id_counter \in Nat /\ 0 .. id_counter - 1 \subseteq Nat
    BY TradeContractAssumption DEF TradeInv, TypeOK, Storage!TypeOK
  <1>3. TypeOK'
    BY <1>1, <1>2 DEF TradeInv, TypeOK
  <1>4. MarketOK'
    <2>1. positions' \in [Side -> SUBSET Nat] /\ void_positions' \in [Side -> SUBSET Nat]
      BY <1>2
    <2> QED
      BY <1>1, <2>1 DEF TradeInv, MarketOK
  <1>5. LocksAreCalls' /\ EveryPositIsAPosition'
    BY <1>1 DEF TradeInv, LocksAreCalls, EveryPositIsAPosition
  <1>6. \A t \in Side : TradesUnderWay(t)' = TradesUnderWay(t)
    BY <1>1 DEF TradesUnderWay
  <1>7. RoomKept'
    <2> SUFFICES ASSUME NEW t \in Side
                 PROVE  /\ Cardinality(positions'[t]) + Cardinality(TradesUnderWay(t))
                           <= Monus(MaxPositions, Margin)
                        /\ Cardinality(void_positions'[t]) + Cardinality(positions'[t])
                           + Cardinality(TradesUnderWay(t)) <= Monus(MaxVoidPositions, Margin) + 1
      BY <1>6 DEF RoomKept
    <2>1. /\ Cardinality(positions[t]) \in Nat /\ Cardinality(void_positions[t]) \in Nat
          /\ Cardinality(TradesUnderWay(t)) \in Nat
          /\ Cardinality(positions'[t]) \in Nat /\ Cardinality(void_positions'[t]) \in Nat
      BY Finite
    <2>2. /\ Cardinality(positions[t]) + Cardinality(TradesUnderWay(t)) <= Monus(MaxPositions, Margin)
          /\ Cardinality(void_positions[t]) + Cardinality(positions[t])
             + Cardinality(TradesUnderWay(t)) <= Monus(MaxVoidPositions, Margin) + 1
      BY DEF TradeInv, RoomKept
    <2>3. Monus(MaxPositions, Margin) \in Nat /\ Monus(MaxVoidPositions, Margin) \in Nat
      BY TradeContractAssumption, MonusFacts
    <2> QED
      BY <2>1, <2>2, <2>3
  <1> QED
    BY <1>3, <1>4, <1>5, <1>7 DEF TradeInv

LEMMA VoidPositionHolds ==
    ASSUME TradeInv, Storage!TypeOK', NEW s \in Side, NEW p \in Proc, NEW id \in positions[s],
           VoidPosition(s, id, p)
    PROVE  TradeInv'
  <1>1. /\ UNCHANGED calls /\ id_counter' = id_counter /\ trade_logs' = trade_logs
        /\ positions' = [positions EXCEPT ![s] = @ \ {id}]
        /\ void_positions' = [void_positions EXCEPT ![s] = @ \cup {id}]
    BY DEF VoidPosition, store
  <1>2. /\ trade_logs \in 0 .. MaxTradeLogs
        /\ proc' \in [Proc -> {"none", "armed", "running", "flushing"}]
    BY DEF VoidPosition, ArmTimer, TradeInv, TypeOK
  <1>3. /\ positions \in [Side -> SUBSET (0 .. id_counter - 1)]
        /\ void_positions \in [Side -> SUBSET (0 .. id_counter - 1)]
    BY DEF TradeInv, TypeOK, MarketOK
  <1>4. /\ positions' \in [Side -> SUBSET (0 .. id_counter - 1)]
        /\ void_positions' \in [Side -> SUBSET (0 .. id_counter - 1)]
        /\ positions'[s] = positions[s] \ {id} /\ void_positions'[s] = void_positions[s] \cup {id}
        /\ \A t \in Side \ {s} : /\ positions'[t] = positions[t]
                                 /\ void_positions'[t] = void_positions[t]
    BY <1>1, <1>3
  <1>5. /\ Cardinality(positions'[s]) <= Cardinality(positions[s])
        /\ Cardinality(void_positions'[s]) + Cardinality(positions'[s])
           <= Cardinality(void_positions[s]) + Cardinality(positions[s])
    <2>1. /\ IsFiniteSet(positions[s]) /\ IsFiniteSet(void_positions[s])
          /\ {id} \subseteq positions[s]
      BY Finite
    <2> QED
      BY <1>4, <2>1, MovedElements
  <1>6. \A t \in Side \ {s} : /\ Cardinality(positions[t]) \in Nat
                             /\ Cardinality(void_positions[t]) \in Nat
    BY Finite
  <1>7. \A t \in Side :
           /\ Cardinality(positions'[t]) <= Cardinality(positions[t])
           /\ Cardinality(void_positions'[t]) + Cardinality(positions'[t])
              <= Cardinality(void_positions[t]) + Cardinality(positions[t])
    <2> TAKE t \in Side
    <2>1. CASE t = s
      BY <1>5, <2>1
    <2>2. CASE t # s
      BY <1>4, <1>6, <2>2
    <2> QED
      BY <2>1, <2>2
  <1> QED
    BY <1>1, <1>2, <1>4, <1>7, MarketShrinks

LEMMA RunReturnsHolds ==
    ASSUME TradeInv, Storage!TypeOK', NEW p \in Proc, RunReturns(p)
    PROVE  TradeInv'
  <1>1. UNCHANGED calls /\ positions' = positions
    BY DEF RunReturns
  <1>2. id_counter' = id_counter
    BY DEF RunReturns, store, Storage!FlushStart
  <1>3. /\ trade_logs' \in 0 .. MaxTradeLogs
        /\ proc' \in [Proc -> {"none", "armed", "running", "flushing"}]
    <2>1. trade_logs \in 0 .. MaxTradeLogs
          /\ proc \in [Proc -> {"none", "armed", "running", "flushing"}]
      BY DEF TradeInv, TypeOK
    <2>2. PICK left \in 0 .. trade_logs : trade_logs' = left
      BY DEF RunReturns
    <2>3. proc' = [proc EXCEPT ![p] = IF flush'[p] = Storage!Idle THEN NextTimer ELSE "flushing"]
      BY DEF RunReturns
    <2> QED
      BY <2>1, <2>2, <2>3, TradeContractAssumption DEF NextTimer
  <1>4. PICK cyclesLeft \in SUBSET void_positions["cycles"],
             tokensLeft \in SUBSET void_positions["token"] :
           void_positions' = [s \in Side |-> IF s = "cycles" THEN cyclesLeft ELSE tokensLeft]
    BY DEF RunReturns
  <1>5. \A t \in Side : void_positions'[t] \subseteq void_positions[t]
    BY <1>4 DEF Side
  <1>6. \A t \in Side : /\ positions[t] \subseteq 0 .. id_counter - 1
                        /\ void_positions[t] \subseteq 0 .. id_counter - 1
    BY DEF TradeInv, TypeOK
  <1>7. void_positions' \in [Side -> SUBSET (0 .. id_counter - 1)]
    BY <1>4, <1>5, <1>6
  <1>8. positions' \in [Side -> SUBSET (0 .. id_counter - 1)]
    BY <1>1, <1>6 DEF TradeInv, MarketOK
  <1>9. ASSUME NEW t \in Side
        PROVE  /\ Cardinality(positions'[t]) <= Cardinality(positions[t])
               /\ Cardinality(void_positions'[t]) + Cardinality(positions'[t])
                  <= Cardinality(void_positions[t]) + Cardinality(positions[t])
    <2>1. IsFiniteSet(void_positions[t]) /\ Cardinality(positions[t]) \in Nat
      BY Finite
    <2>2. /\ Cardinality(void_positions'[t]) <= Cardinality(void_positions[t])
          /\ Cardinality(void_positions'[t]) \in Nat /\ Cardinality(void_positions[t]) \in Nat
      BY <1>5, <2>1, Fewer
    <2> QED
      BY <1>1, <2>1, <2>2
  <1> QED
    BY <1>1, <1>2, <1>3, <1>7, <1>8, <1>9, MarketShrinks

(* The steps of the timers and of the storage.                             *)
LEMMA OtherStepsHold ==
    ASSUME TradeInv, Storage!TypeOK', NEW p \in Proc,
           \/ VoidPositionFails(p) \/ TimerFires(p) \/ RunFails(p) \/ FlushStep(p)
           \/ CalleeStep(p) \/ Upgrade(p)
    PROVE  TradeInv'
  <1>1. UNCHANGED <<market, calls>>
    BY DEF VoidPositionFails, TimerFires, RunFails, FlushStep, CalleeStep, Upgrade
  <1>2. id_counter' = id_counter
    <2>1. CASE FlushStep(p)
      BY <2>1 DEF FlushStep, Storage!FlushStep, Storage!CreateReply, Storage!InstallReply,
         Storage!FlushReply
    <2>2. CASE CalleeStep(p)
      BY <2>2 DEF CalleeStep, Storage!CalleeStep, Storage!CreateCanister, Storage!InstallCode,
         Storage!StorageFlush, Storage!data
    <2> QED
      BY <2>1, <2>2 DEF VoidPositionFails, TimerFires, RunFails, Upgrade, store
  <1>3. proc' \in [Proc -> {"none", "armed", "running", "flushing"}]
    <2>1. proc \in [Proc -> {"none", "armed", "running", "flushing"}]
      BY DEF TradeInv, TypeOK
    <2>2. CASE FlushStep(p) \/ RunFails(p)
      BY <2>1, <2>2 DEF FlushStep, RunFails, NextTimer
    <2>3. CASE VoidPositionFails(p) \/ TimerFires(p) \/ CalleeStep(p) \/ Upgrade(p)
      BY <2>1, <2>3 DEF VoidPositionFails, ArmTimer, TimerFires, CalleeStep, Upgrade
    <2> QED
      BY <2>2, <2>3
  <1> QED
    BY <1>1, <1>2, <1>3, MarketSame

LEMMA TradeStepHolds ==
    ASSUME TradeInv, Storage!TypeOK', [Next]_vars
    PROVE  TradeInv'
  <1>1. ASSUME NEW s \in Side, NEW u \in User,
               \/ TradeCall(s, u) \/ LedgerPosits(s, u)
               \/ TransferCall(s, u) \/ LedgerTransfers(s, u) \/ TransferReply(s, u)
               \/ \E p \in Proc : TradeReply(s, u, p)
        PROVE  TradeInv'
    BY <1>1, TradeCallHolds, LedgerPositsHolds, TransferHolds, TradeReplyHolds
  <1>2. ASSUME NEW p \in Proc,
               \/ \E s \in Side : \E id \in positions[s] : VoidPosition(s, id, p)
               \/ VoidPositionFails(p)
               \/ TimerFires(p) \/ RunReturns(p) \/ RunFails(p) \/ FlushStep(p) \/ CalleeStep(p)
               \/ Upgrade(p)
        PROVE  TradeInv'
    BY <1>2, VoidPositionHolds, RunReturnsHolds, OtherStepsHold
  <1>3. CASE UNCHANGED vars
    <2>1. UNCHANGED <<market, calls>> /\ id_counter' = id_counter /\ proc' = proc
      BY <1>3 DEF vars, store
    <2> QED
      BY <2>1, MarketSame DEF TradeInv, TypeOK
  <1> QED
    BY <1>1, <1>2, <1>3 DEF Next

LEMMA TradeInvStarts ==
    ASSUME Init, Storage!TypeOK
    PROVE  TradeInv
  <1>1. TypeOK
    BY TradeContractAssumption DEF Init, TypeOK, TradeCallState, TransferCallState
  <1>2. MarketOK
    BY DEF Init, MarketOK
  <1>3. LocksAreCalls
    BY DEF Init, LocksAreCalls
  <1>4. Executed = {} /\ \A s \in Side : TradesUnderWay(s) = {}
    BY DEF Init, Executed, TradesUnderWay
  <1>5. EveryPositIsAPosition
    <2>1. {x \in Side \X User : trade_call[x[1]][x[2]] = "executed"} = {}
      BY <1>4 DEF Executed
    <2>2. posited["cycles"] = 0 /\ posited["token"] = 0 /\ id_counter = 0
      BY DEF Init, Side, Storage!Init
    <2> QED
      BY <2>1, <2>2, FS_EmptySet DEF EveryPositIsAPosition
  <1>6. RoomKept
    <2>1. Monus(MaxPositions, Margin) \in Nat /\ Monus(MaxVoidPositions, Margin) \in Nat
      BY TradeContractAssumption, MonusFacts
    <2>2. \A s \in Side : positions[s] = {} /\ void_positions[s] = {}
      BY DEF Init
    <2>3. Cardinality({}) = 0
      BY FS_EmptySet
    <2>4. \A s \in Side : /\ Cardinality(positions[s]) = 0 /\ Cardinality(void_positions[s]) = 0
                          /\ Cardinality(TradesUnderWay(s)) = 0
      BY <1>4, <2>2, <2>3
    <2> QED
      BY <2>1, <2>4 DEF RoomKept
  <1> QED
    BY <1>1, <1>2, <1>3, <1>5, <1>6 DEF TradeInv

(* The inductive invariant of the trade contract: besides the properties   *)
(* below, that each trade under way has the room for its position.         *)
THEOREM TradeContractInvariant == Spec => []TradeInv
  <1>1. Spec => []Storage!TypeOK
    BY PositionsAreStored, StorageTypes, PTL
  <1>2. Init /\ Storage!TypeOK => TradeInv
    BY TradeInvStarts
  <1>3. TradeInv /\ (Storage!TypeOK)' /\ [Next]_vars => TradeInv'
    BY TradeStepHolds
  <1> QED
    BY <1>1, <1>2, <1>3, PTL DEF Spec

(* A lock of a user is there exactly while a call of the user's to that    *)
(* ledger is, through every answer and failure, and a user has no two such *)
(* calls under way.                                                        *)
THEOREM LocksAreTheCalls == Spec => []LocksAreCalls
  <1>1. TradeInv => LocksAreCalls
    BY DEF TradeInv
  <1> QED
    BY <1>1, TradeContractInvariant, PTL

(* Whatever trades are admitted before the calls of others are answered,   *)
(* the maps of open and of void positions keep to their capacity.          *)
THEOREM CapacityIsRespected == Spec => []CapacityRespected
  <1>1. TradeInv => CapacityRespected
    <2> SUFFICES ASSUME TradeInv, NEW s \in Side
                 PROVE  /\ Cardinality(positions[s]) <= Monus(MaxPositions, Margin)
                        /\ Cardinality(void_positions[s]) + Cardinality(positions[s])
                           <= Monus(MaxVoidPositions, Margin) + 1
      BY DEF CapacityRespected, TradeInv
    <2>1. /\ Cardinality(positions[s]) \in Nat /\ Cardinality(void_positions[s]) \in Nat
          /\ Cardinality(TradesUnderWay(s)) \in Nat
      BY Finite
    <2>2. Monus(MaxPositions, Margin) \in Nat /\ Monus(MaxVoidPositions, Margin) \in Nat
      BY TradeContractAssumption, MonusFacts
    <2> QED
      BY <2>1, <2>2 DEF TradeInv, RoomKept
  <1> QED
    BY <1>1, TradeContractInvariant, PTL

(* No posit transfer that a ledger executed is without its position, once  *)
(* its answer is in, and no position is without its posit transfer.        *)
THEOREM PositsArePositions == Spec => []EveryPositIsAPosition
  <1>1. TradeInv => EveryPositIsAPosition
    BY DEF TradeInv
  <1> QED
    BY <1>1, TradeContractInvariant, PTL

=============================================================================
