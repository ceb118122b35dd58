--------------------------- MODULE PayoutsProofs ---------------------------
(***************************************************************************)
(* The payouts engine is safe for every number of positions, trades, runs  *)
(* and activations, every chunk size, every set of fees and every amount.  *)
(***************************************************************************)
EXTENDS Payouts, SequenceTheorems, TLAPS

-----------------------------------------------------------------------------
(* The data.                                                               *)

LEMMA ItemFacts ==
    /\ Void \subseteq Item
    /\ \A t \in Trade : /\ <<"cyclesLeg", t>> \in Item \ Void
                        /\ <<"tokenLeg", t>> \in Item \ Void
    /\ \A i \in Item \ Void : i[2] \in Trade /\ i \in {<<"cyclesLeg", i[2]>>, <<"tokenLeg", i[2]>>}
  BY DEF Item, Void, Leg, CyclesVoid, TokenVoid, CyclesLeg, TokenLeg

LEMMA LedgerType == ASSUME NEW i \in Item PROVE LedgerOf(i) \in Ledger
  BY DEF LedgerOf, Ledger

LEMMA NetType == ASSUME NEW i \in Item PROVE Net(i) \in Nat
  BY PayoutsAssumption DEF Net

LEMMA CallFacts ==
    /\ None \notin Call /\ None \notin PayoutData
    /\ \A c \in Call : c.st \in Waiting \cup Ready /\ c.fee \in Fees
    /\ \A st \in Waiting \cup Ready, fee \in Fees : [st |-> st, fee |-> fee] \in Call
    /\ \A c \in Call, st \in Waiting \cup Ready : [c EXCEPT !.st = st] \in Call
  BY PayoutsAssumption DEF Call

(* What a run picks is on the books, and neither paid nor locked.          *)
LEMMA PayoutsChunkFacts ==
    PayoutsChunk \subseteq {i \in Item : Unpaid(i)}
  BY DEF PayoutsChunk, FirstN, Item, Void, Leg

LEMMA UpdatesChunkFacts ==
    /\ UpdatesChunk \subseteq {v \in Void : NotUpdated(v)}
    /\ storage_flush_lock => UpdatesChunk = {}
  BY DEF UpdatesChunk, FirstN, Void

LEMMA BeginPayoutFacts ==
    ASSUME NEW i \in Item, transfer_fee \in [Ledger -> Fees]
    PROVE  /\ BeginPayout(i) \in Call
           /\ BeginPayout(i).st \in {"dust", "sent"}
           /\ BeginPayout(i).st = "sent" => BeginPayout(i).fee < Net(i)
  <1>1. transfer_fee[LedgerOf(i)] \in Fees /\ Fees \subseteq Nat
    BY LedgerType, PayoutsAssumption
  <1>2. BeginPayout(i) = [st |-> IF transfer_fee[LedgerOf(i)] >= Net(i) THEN "dust" ELSE "sent",
                          fee |-> transfer_fee[LedgerOf(i)]]
    BY DEF BeginPayout
  <1>3. BeginPayout(i) \in Call
    BY <1>1, <1>2, CallFacts DEF Waiting, Ready
  <1>4. /\ BeginPayout(i).st = IF transfer_fee[LedgerOf(i)] >= Net(i) THEN "dust" ELSE "sent"
        /\ BeginPayout(i).fee = transfer_fee[LedgerOf(i)]
    BY <1>2
  <1>5. ASSUME BeginPayout(i).st = "sent" PROVE BeginPayout(i).fee < Net(i)
    <2>1. ~(transfer_fee[LedgerOf(i)] >= Net(i)) BY <1>4, <1>5
    <2>2. Net(i) \in Nat /\ transfer_fee[LedgerOf(i)] \in Nat BY <1>1, NetType
    <2>3. transfer_fee[LedgerOf(i)] < Net(i) BY <2>1, <2>2
    <2>4. QED BY <1>4, <2>3
  <1>6. QED BY <1>3, <1>4, <1>5

LEMMA OutcomeType ==
    ASSUME NEW c \in Call
    PROVE  Outcome(c) \in PayoutData \cup {None}
  BY CallFacts DEF Outcome, PayoutData


-----------------------------------------------------------------------------
(* Each message preserves the invariant.                                   *)

LEMMA InitIInv == Init => IInv
  <1> SUFFICES ASSUME Init PROVE IInv
    OBVIOUS
  <1> USE DEF Init
  <1>1. TypeOK
    <2>1. ledger_fee \in [Ledger -> Fees] /\ transfer_fee \in [Ledger -> Fees]
      OBVIOUS
    <2>2. trade_logs \in Seq(Trade) /\ trades_buffer \in Seq(Trade) /\ trade_logs_id_counter \in 0 .. MaxTrades
      BY PayoutsAssumption
    <2>3. call \in [Run -> [Item -> Call \cup {None}]] /\ update \in [Run -> [Void -> Update]]
      BY DEF NoCalls, NoUpdates, Update
    <2>4. QED BY <2>1, <2>2, <2>3 DEF TypeOK, ProcState
  <1>2. \A r \in Run, i \in Item : call[r][i] = None
    BY DEF NoCalls
  <1>3. \A r \in Run, v \in Void : update[r][v] = "none"
    BY DEF NoUpdates
  <1>4. \A i \in Item : debited[i] = 0 /\ payout_data[i] = None /\ payout_lock[i] = FALSE
    OBVIOUS
  <1>5. DebitedOnce /\ RecordAgreesWithLedger /\ LockHeldByOneRun /\ IdleInv /\ InFlightInv
    BY <1>2, <1>4 DEF DebitedOnce, RecordAgreesWithLedger, LockHeldByOneRun, IdleInv, InFlightInv, InFlight
  <1>6. FlushLockExclusive /\ UpdateInv
    BY <1>3, <1>4 DEF FlushLockExclusive, UpdateInv, Updating, Flushing
  <1>7. RemovedWhenSettled /\ NoLostWakeup /\ CallerInv
    BY PayoutsAssumption DEF RemovedWhenSettled, NoLostWakeup, NoWork, CallerInv
  <1>8. TradesStoredInOrder
    BY DEF TradesStoredInOrder
  <1>9. UnbornInv
    BY <1>4, ItemFacts DEF UnbornInv, Unborn, Present, Logged, Range
  <1>10. QED BY <1>1, <1>5, <1>6, <1>7, <1>8, <1>9 DEF IInv

(* The activations that wait for a run go on waiting for it.               *)
LEMMA CallerStep ==
    ASSUME IInv, UNCHANGED <<call, update, caller>>,
           \A q \in Proc : proc[q] = "running" => proc'[q] = "running"
    PROVE  CallerInv'
  BY DEF IInv, CallerInv, NoCalls, NoUpdates

(* A step of do_payouts that moves no debt: only the activations change,   *)
(* and there is one left while there is work.                              *)
LEMMA ProcIInv ==
    ASSUME IInv, UNCHANGED <<canister, transfer_fee, call, update, caller, ledger_fee, debited, log_updated>>,
           proc' \in [Proc -> ProcState],
           \A p \in Proc : Flushing(p)' <=> Flushing(p),
           \A p \in Proc : proc[p] = "running" => proc'[p] = "running",
           NoLostWakeup'
    PROVE  IInv'
  <1> USE DEF canister
  <1>1. TypeOK'
    BY DEF IInv, TypeOK
  <1>2. FlushLockExclusive'
    BY DEF IInv, FlushLockExclusive, Updating
  <1>3. DebitedOnce' /\ RecordAgreesWithLedger' /\ LockHeldByOneRun' /\ RemovedWhenSettled'
    BY DEF IInv, DebitedOnce, RecordAgreesWithLedger, LockHeldByOneRun, RemovedWhenSettled, Net
  <1>4. TradesStoredInOrder'
    BY DEF IInv, TradesStoredInOrder, CanMove
  <1>5. UnbornInv' /\ InFlightInv' /\ IdleInv' /\ UpdateInv'
    BY DEF IInv, UnbornInv, Unborn, Present, Logged, InFlightInv, InFlight, Executed, IdleInv,
           UpdateInv, Net
  <1>6. QED BY <1>1, <1>2, <1>3, <1>4, <1>5, CallerStep DEF IInv

LEMMA TimerFiresIInv == ASSUME IInv, NEW p \in Proc, TimerFires(p) PROVE IInv'
  <1>1. proc' \in [Proc -> ProcState]
    BY DEF TimerFires, IInv, TypeOK, ProcState
  <1>2. \A q \in Proc : Flushing(q)' <=> Flushing(q)
    BY DEF TimerFires, Flushing, IInv, TypeOK
  <1>3. NoLostWakeup'
    BY DEF TimerFires, NoLostWakeup, IInv, TypeOK, NoWork, canister
  <1>4. \A q \in Proc : proc[q] = "running" => proc'[q] = "running"
    BY DEF TimerFires, IInv, TypeOK
  <1>5. QED BY <1>1, <1>2, <1>3, <1>4, ProcIInv DEF TimerFires

LEMMA SelfCallFailsIInv == ASSUME IInv, NEW p \in Proc, SelfCallFails(p) PROVE IInv'
  <1>1. proc' \in [Proc -> ProcState]
    BY DEF SelfCallFails, Reschedule, IInv, TypeOK, ProcState
  <1>2. \A q \in Proc : Flushing(q)' <=> Flushing(q)
    BY DEF SelfCallFails, Reschedule, Flushing, IInv, TypeOK
  <1>3. NoLostWakeup'
    BY DEF SelfCallFails, Reschedule, NoLostWakeup, IInv, TypeOK, NoWork, canister
  <1>4. \A q \in Proc : proc[q] = "running" => proc'[q] = "running"
    BY DEF SelfCallFails, Reschedule, IInv, TypeOK
  <1>5. QED BY <1>1, <1>2, <1>3, <1>4, ProcIInv DEF SelfCallFails

LEMMA TradesFlushedIInv == ASSUME IInv, NEW p \in Proc, TradesFlushed(p) PROVE IInv'
  <1>1. proc' \in [Proc -> ProcState]
    BY DEF TradesFlushed, Reschedule, IInv, TypeOK, ProcState
  <1>2. \A q \in Proc : Flushing(q)' <=> Flushing(q)
    BY DEF TradesFlushed, Reschedule, Flushing, IInv, TypeOK
  <1>3. NoLostWakeup'
    BY DEF TradesFlushed, Reschedule, NoLostWakeup, IInv, TypeOK, NoWork, canister
  <1>4. \A q \in Proc : proc[q] = "running" => proc'[q] = "running"
    BY DEF TradesFlushed, Reschedule, IInv, TypeOK
  <1>5. QED BY <1>1, <1>2, <1>3, <1>4, ProcIInv DEF TradesFlushed

LEMMA UpgradeIInv == ASSUME IInv, NEW p \in Proc, Upgrade(p) PROVE IInv'
  <1>1. proc' \in [Proc -> ProcState]
    BY DEF Upgrade, ProcState
  <1>2. \A q \in Proc : Flushing(q)' <=> Flushing(q)
    BY DEF Upgrade, Flushing, IInv, TypeOK
  <1>3. NoLostWakeup'
    BY DEF Upgrade, NoLostWakeup
  <1>4. \A q \in Proc : proc[q] = "running" => proc'[q] = "running"
    BY DEF Upgrade, IInv, TypeOK
  <1>5. QED BY <1>1, <1>2, <1>3, <1>4, ProcIInv DEF Upgrade

LEMMA PositionsFlushedIInv == ASSUME IInv, NEW p \in Proc, PositionsFlushed(p) PROVE IInv'
  <1> USE DEF PositionsFlushed
  <1>0. /\ proc' \in [Proc -> ProcState]
        /\ \A q \in Proc : Flushing(q)' <=> Flushing(q) /\ q # p
    BY DEF Reschedule, IInv, TypeOK, ProcState, Flushing
  <1>1. TypeOK'
    BY <1>0 DEF IInv, TypeOK
  <1>2. FlushLockExclusive'
    BY <1>0 DEF IInv, FlushLockExclusive, Updating, Flushing
  <1>3. DebitedOnce' /\ RecordAgreesWithLedger' /\ LockHeldByOneRun' /\ RemovedWhenSettled'
    BY DEF IInv, DebitedOnce, RecordAgreesWithLedger, LockHeldByOneRun, RemovedWhenSettled, Net
  <1>4. TradesStoredInOrder'
    BY DEF IInv, TradesStoredInOrder, CanMove
  <1>5. UnbornInv' /\ InFlightInv' /\ IdleInv' /\ UpdateInv'
    BY DEF IInv, UnbornInv, Unborn, Present, Logged, InFlightInv, InFlight, Executed, IdleInv,
           UpdateInv, Net
  <1>6. NoLostWakeup'
    BY DEF IInv, NoLostWakeup, TypeOK, NoWork, Reschedule
  <1>7. \A q \in Proc : proc[q] = "running" => proc'[q] = "running"
    BY DEF Reschedule, IInv, TypeOK
  <1>8. QED BY <1>1, <1>2, <1>3, <1>4, <1>5, <1>6, <1>7, CallerStep DEF IInv

LEMMA VoidPositionIInv == ASSUME IInv, NEW v \in Void, NEW p \in Proc, VoidPosition(v, p) PROVE IInv'
  <1> USE DEF VoidPosition, ArmTimer
  <1>0. /\ proc' \in [Proc -> ProcState] /\ proc'[p] = "armed"
        /\ \A q \in Proc : Flushing(q)' <=> Flushing(q)
        /\ \A q \in Proc : proc[q] = "running" => proc'[q] = "running"
    BY DEF IInv, TypeOK, ProcState, Flushing
  <1>1. TypeOK'
    BY <1>0 DEF IInv, TypeOK
  <1>2. FlushLockExclusive'
    BY <1>0 DEF IInv, FlushLockExclusive, Updating
  <1>3. DebitedOnce' /\ RecordAgreesWithLedger' /\ LockHeldByOneRun' /\ IdleInv' /\ CallerInv'
    BY <1>0, CallerStep DEF IInv, DebitedOnce, RecordAgreesWithLedger, LockHeldByOneRun, IdleInv,
           InFlight, Net
  <1>4. RemovedWhenSettled' /\ UpdateInv'
    BY DEF IInv, RemovedWhenSettled, UpdateInv
  <1>5. TradesStoredInOrder'
    BY DEF IInv, TradesStoredInOrder, CanMove
  <1>6. \A i \in Item : Present(i)' <=> Present(i) \/ i = v
    BY DEF Present, Logged
  <1>7. \A i \in Item : Unborn(i)' <=> Unborn(i) /\ i # v
    BY ItemFacts DEF Unborn
  <1>8. UnbornInv'
    BY <1>6, <1>7 DEF IInv, UnbornInv
  <1>9. InFlightInv'
    BY <1>6 DEF IInv, InFlightInv, InFlight, Executed, Net
  <1>10. NoLostWakeup'
    BY <1>0 DEF NoLostWakeup
  <1>11. QED BY <1>1, <1>2, <1>3, <1>4, <1>5, <1>8, <1>9, <1>10 DEF IInv

(* The ids that n new trade logs take, and a buffer and a queue that hold  *)
(* the first c ids in order.                                               *)
NewIds(c, n) == [k \in 1 .. n |-> c + k - 1]
InOrder(b, l, c) == b \o l = [k \in 1 .. c |-> k - 1]

LEMMA NewIdsFacts ==
    ASSUME NEW n \in Nat, NEW c \in Nat, c + n <= MaxTrades
    PROVE  /\ NewIds(c, n) \in Seq(Trade)
           /\ Len(NewIds(c, n)) = n
           /\ \A k \in 1 .. n : NewIds(c, n)[k] = c + k - 1
  <1>1. \A k \in 1 .. n : c + k - 1 \in Trade
    BY PayoutsAssumption DEF Trade
  <1>2. QED BY <1>1 DEF NewIds

(* The queue of trade logs grows by the next n ids.                        *)
LEMMA AppendTrades ==
    ASSUME NEW b \in Seq(Trade), NEW l \in Seq(Trade), NEW c \in Nat, NEW n \in Nat,
           InOrder(b, l, c), c + n <= MaxTrades,
           NEW add, add = NewIds(c, n)
    PROVE  /\ l \o add \in Seq(Trade)
           /\ InOrder(b, l \o add, c + n)
           /\ Range(l \o add) = Range(l) \cup c .. c + n - 1
  <1>1. add \in Seq(Trade) /\ Len(add) = n /\ \A k \in 1 .. n : add[k] = c + k - 1
    BY NewIdsFacts
  <1>a. add \in Seq(Trade)
    BY <1>1
  <1>2. l \o add \in Seq(Trade)
    BY <1>1, ConcatProperties
  <1>3. InOrder(b, l \o add, c + n)
    <2>1. b \o (l \o add) = (b \o l) \o add
      <3>1. b \in Seq(Trade) /\ l \in Seq(Trade) /\ add \in Seq(Trade)
        BY <1>a
      <3>2. QED BY ONLY <3>1, ConcatAssociative, SMTT(30)
    <2> DEFINE s == b \o l
               q == s \o add
               ids == [k \in 1 .. c + n |-> k - 1]
    <2>2. s \in Seq(Trade) /\ Len(s) = c /\ \A k \in 1 .. c : s[k] = k - 1
      <3>1. s \in Seq(Trade) BY ConcatProperties, Zenon
      <3>2. QED BY <3>1 DEF InOrder
    <2>3. ids \in Seq(Trade) /\ Len(ids) = c + n /\ \A k \in 1 .. c + n : ids[k] = k - 1
      <3>1. \A k \in 1 .. c + n : k - 1 \in Trade BY PayoutsAssumption DEF Trade
      <3>2. QED BY <3>1
    <2> HIDE DEF s, ids
    <2>4. /\ q \in Seq(Trade) /\ Len(q) = Len(s) + Len(add)
          /\ \A k \in 1 .. Len(s) + Len(add) : q[k] = IF k <= Len(s) THEN s[k] ELSE add[k - Len(s)]
      <3>1. s \in Seq(Trade) BY <2>2
      <3>2. QED BY <1>a, <3>1, ConcatProperties, Zenon
    <2> HIDE DEF q
    <2>5. /\ Len(q) = c + n
          /\ \A k \in 1 .. c + n : q[k] = IF k <= c THEN s[k] ELSE add[k - c]
      BY <1>1, <2>2, <2>4
    <2>6. ASSUME NEW k \in 1 .. c + n PROVE q[k] = k - 1
      <3>1. CASE k <= c BY <2>2, <2>5, <3>1
      <3>2. CASE ~(k <= c)
        <4>1. k - c \in 1 .. n /\ c + (k - c) - 1 = k - 1 BY <3>2
        <4>2. add[k - c] = k - 1 BY <1>1, <4>1
        <4>3. q[k] = add[k - c] BY <2>5, <3>2
        <4>4. QED BY <4>2, <4>3
      <3>3. QED BY <3>1, <3>2
    <2>7. \A k \in 1 .. Len(q) : q[k] = ids[k]
      BY <2>3, <2>5, <2>6
    <2>8. q = ids
      <3>1. q \in Seq(Trade) /\ ids \in Seq(Trade) /\ Len(q) = Len(ids) BY <2>3, <2>4, <2>5
      <3>2. QED BY <2>7, <3>1, SeqEqual, Zenon
    <2>9. QED BY <2>1, <2>8 DEF q, s, ids, InOrder
  <1>4. Range(l \o add) = Range(l) \cup c .. c + n - 1
    <2> DEFINE t == l \o add
    <2>1. /\ t \in Seq(Trade) /\ Len(t) = Len(l) + Len(add)
          /\ \A k \in 1 .. Len(l) + Len(add) : t[k] = IF k <= Len(l) THEN l[k] ELSE add[k - Len(l)]
      BY <1>a, ConcatProperties, Zenon
    <2> HIDE DEF t
    <2>2. PICK m \in Nat : Len(l) = m
      OBVIOUS
    <2>3. DOMAIN t = 1 .. m + n /\ DOMAIN l = 1 .. m
      BY <1>1, <2>1, <2>2
    <2>4. \A k \in 1 .. m + n : t[k] = IF k <= m THEN l[k] ELSE add[k - m]
      BY <1>1, <2>1, <2>2
    <2>5. ASSUME NEW k \in 1 .. m + n PROVE t[k] \in {l[j] : j \in 1 .. m} \cup c .. c + n - 1
      <3>1. CASE k <= m BY <2>4, <3>1
      <3>2. CASE ~(k <= m)
        <4>1. k - m \in 1 .. n /\ c + (k - m) - 1 \in c .. c + n - 1 BY <3>2
        <4>2. t[k] = add[k - m] BY <2>4, <3>2
        <4>3. add[k - m] = c + (k - m) - 1 BY <1>1, <4>1
        <4>4. QED BY <4>1, <4>2, <4>3
      <3>3. QED BY <3>1, <3>2
    <2>6. ASSUME NEW k \in 1 .. m PROVE l[k] \in {t[j] : j \in 1 .. m + n}
      <3>1. k \in 1 .. m + n /\ k <= m OBVIOUS
      <3>2. t[k] = l[k] BY <2>4, <3>1
      <3>3. QED BY <3>1, <3>2
    <2>7. ASSUME NEW i \in c .. c + n - 1 PROVE i \in {t[j] : j \in 1 .. m + n}
      <3>1. PICK j \in 1 .. n : i = c + j - 1
        <4>1. i - c + 1 \in 1 .. n /\ i = c + (i - c + 1) - 1 OBVIOUS
        <4>2. QED BY <4>1
      <3>2. m + j \in 1 .. m + n /\ ~(m + j <= m) /\ m + j - m = j
        <4>1. j \in Int /\ m \in Nat /\ n \in Nat /\ 1 <= j /\ j <= n OBVIOUS
        <4>2. m + j - m = j BY <4>1
        <4>3. QED BY <4>1, <4>2
      <3>3. t[m + j] = add[j]
        <4> DEFINE k == m + j
        <4>1. k \in 1 .. m + n /\ ~(k <= m) /\ k - m = j BY <3>2
        <4> HIDE DEF k
        <4>2. t[k] = add[k - m] BY <2>4, <4>1
        <4>3. QED BY <4>1, <4>2 DEF k
      <3>4. t[m + j] = i BY <1>1, <3>1, <3>3
      <3>5. QED BY <3>2, <3>4
    <2>8. {t[k] : k \in 1 .. m + n} = {l[k] : k \in 1 .. m} \cup c .. c + n - 1
      BY <2>5, <2>6, <2>7
    <2>9. QED BY <2>3, <2>8 DEF t, Range
  <1>5. QED BY <1>2, <1>3, <1>4

LEMMA MatchTradesIInv ==
    ASSUME IInv, NEW n \in 0 .. MaxTrades, NEW filled \in SUBSET Void, NEW p \in Proc,
           MatchTrades(n, filled, p)
    PROVE  IInv'
  <1> USE DEF MatchTrades, ArmTimer
  <1> DEFINE c == trade_logs_id_counter
  <1>0. /\ proc' \in [Proc -> ProcState] /\ proc'[p] = "armed"
        /\ \A q \in Proc : Flushing(q)' <=> Flushing(q)
        /\ \A q \in Proc : proc[q] = "running" => proc'[q] = "running"
    BY DEF IInv, TypeOK, ProcState, Flushing
  <1>1. c \in Nat /\ n \in Nat /\ c + n \in 0 .. MaxTrades /\ c + n <= MaxTrades
    BY PayoutsAssumption DEF IInv, TypeOK
  <1>2. /\ trade_logs' \in Seq(Trade)
        /\ InOrder(trades_buffer, trade_logs', c + n)
        /\ Logged' = Logged \cup c .. c + n - 1
    <2>1. trades_buffer \in Seq(Trade) /\ trade_logs \in Seq(Trade)
      BY DEF IInv, TypeOK
    <2>2. InOrder(trades_buffer, trade_logs, c)
      BY DEF IInv, TradesStoredInOrder, InOrder
    <2>3. trade_logs' = trade_logs \o NewIds(c, n)
      BY DEF NewIds, NextIds
    <2>4. /\ trade_logs \o NewIds(c, n) \in Seq(Trade)
          /\ InOrder(trades_buffer, trade_logs \o NewIds(c, n), c + n)
          /\ Range(trade_logs \o NewIds(c, n)) = Range(trade_logs) \cup c .. c + n - 1
      BY ONLY <1>1, <2>1, <2>2, AppendTrades
    <2>5. QED BY <2>3, <2>4 DEF Logged
  <1>3. TypeOK'
    BY <1>0, <1>1, <1>2 DEF IInv, TypeOK
  <1>4. FlushLockExclusive'
    BY <1>0 DEF IInv, FlushLockExclusive, Updating
  <1>5. DebitedOnce' /\ RecordAgreesWithLedger' /\ LockHeldByOneRun' /\ IdleInv' /\ CallerInv'
    BY <1>0, CallerStep DEF IInv, DebitedOnce, RecordAgreesWithLedger, LockHeldByOneRun, IdleInv,
           InFlight, Net
  <1>6. RemovedWhenSettled' /\ UpdateInv'
    BY DEF IInv, RemovedWhenSettled, UpdateInv
  <1>7. TradesStoredInOrder'
    BY <1>2 DEF IInv, TradesStoredInOrder, InOrder, CanMove
  <1>8. \A i \in Item : Present(i) => Present(i)'
    BY <1>2 DEF Present
  <1>9. ASSUME NEW i \in Item, Unborn(i)'
        PROVE  Unborn(i) /\ ~Present(i)'
    <2>1. CASE i \in Void
      BY <1>9, <2>1 DEF IInv, UnbornInv, Unborn, Present
    <2>2. CASE i \notin Void
      <3>1. i[2] \in Nat /\ i[2] >= c + n
        <4>1. i[2] \in Trade BY <2>2, ItemFacts
        <4>2. i[2] \in Nat BY <4>1, PayoutsAssumption DEF Trade
        <4>3. i[2] >= trade_logs_id_counter' BY <1>9, <2>2 DEF Unborn
        <4>4. trade_logs_id_counter' = c + n OBVIOUS
        <4>5. QED BY <4>2, <4>3, <4>4
      <3>2. i[2] >= c /\ i[2] \notin c .. c + n - 1
        BY <1>1, <3>1
      <3>3. Unborn(i)
        BY <2>2, <3>2 DEF Unborn
      <3>4. i[2] \notin Logged
        BY <2>2, <3>3 DEF IInv, UnbornInv, Present
      <3>5. QED BY <1>2, <2>2, <3>2, <3>3, <3>4 DEF Present
    <2>3. QED BY <2>1, <2>2
  <1>10. UnbornInv'
    BY <1>9 DEF IInv, UnbornInv
  <1>11. InFlightInv'
    BY <1>8 DEF IInv, InFlightInv, InFlight, Executed, Net
  <1>12. NoLostWakeup'
    BY <1>0 DEF NoLostWakeup
  <1>13. QED BY <1>3, <1>4, <1>5, <1>6, <1>7, <1>10, <1>11, <1>12 DEF IInv

-----------------------------------------------------------------------------
(* The messages of a run.  They differ in the futures c and u that the run *)
(* has at the end of the message.                                          *)

(* The futures c and u of the run r are right about the ledgers and the    *)
(* stored logs, and no other run has a future for the same debt or log.    *)
Sound(r, c, u) ==
    /\ c \in [Item -> Call \cup {None}]
    /\ u \in [Void -> Update]
    /\ \A i \in Item : call[r][i] # None => c[i] # None
    /\ \A i \in Item : c[i] # None =>
         /\ Present(i)
         /\ payout_data[i] = None
         /\ c[i].st = "sent" => c[i].fee < Net(i)
         /\ Executed(c[i]) => Net(i) # 0
         /\ debited[i] = IF Executed(c[i]) THEN Net(i) ELSE 0
         /\ \A s \in Run \ {r} : call[s][i] = None
    /\ \A v \in Void : update[r][v] # "none" => u[v] # "none"
    /\ \A v \in Void : u[v] # "none" =>
         /\ v \in void_positions
         /\ payout_data[v] # None
         /\ u[v] \in {"applied", "ok"} => log_updated'[v]
         /\ \A s \in Run \ {r} : ~Updating(s)
         /\ \A p \in Proc : ~Flushing(p)

(* What a message of a run leaves alone.                                   *)
Frame ==
    /\ UNCHANGED <<positions, trade_logs, trade_logs_id_counter, trades_buffer, ledger_fee, debited>>
    /\ transfer_fee' \in [Ledger -> Fees]
    /\ log_updated' \in [Void -> BOOLEAN]
    /\ \A v \in Void : /\ log_updated[v] => log_updated'[v]
                       /\ log_updated'[v] => payout_data[v] # None

(* Who waits for the run r.                                                *)
Waits(r, w) ==
    /\ w \in Proc \cup {Anyone}
    /\ w \in Proc => /\ proc[w] \in {"calling", "running"}
                     /\ \A s \in Run \ {r} : caller[s] # w

(* The run r, that w waits for, goes on waiting with what it holds locked.  *)
Holds(r, w, c, u) ==
    /\ Wait(r, c, u)
    /\ UNCHANGED <<void_positions, payout_data, update_status>>
    /\ payout_lock' \in [Item -> BOOLEAN]
    /\ update_lock' \in [Void -> BOOLEAN]
    /\ storage_flush_lock' \in BOOLEAN
    /\ \A i \in Item : payout_lock'[i] <=> payout_lock[i] \/ c[i] # None
    /\ \A v \in Void : update_lock'[v] <=> update_lock[v] \/ u[v] # "none"
    /\ storage_flush_lock' <=> storage_flush_lock \/ \E v \in Void : u[v] # "none"
    /\ caller' = [caller EXCEPT ![r] = w]
    /\ proc' = [p \in Proc |-> IF p = w THEN "running" ELSE proc[p]]

LEMMA WaitIInv ==
    ASSUME IInv, NEW r \in Run, NEW w, NEW c, NEW u, Sound(r, c, u), Frame, Waits(r, w),
           Holds(r, w, c, u)
    PROVE  IInv'
  <1> USE DEF Holds
  <1> USE DEF Frame
  <1>0. /\ call' \in [Run -> [Item -> Call \cup {None}]]
        /\ update' \in [Run -> [Void -> Update]]
        /\ call'[r] = c /\ update'[r] = u
        /\ \A s \in Run \ {r} : call'[s] = call[s] /\ update'[s] = update[s]
    BY DEF IInv, TypeOK, Wait, Sound
  <1>1. TypeOK'
    <2>1. caller' \in [Run -> Proc \cup {Anyone, Nobody}] /\ proc' \in [Proc -> ProcState]
      BY DEF IInv, TypeOK, Waits, ProcState
    <2>2. QED BY <1>0, <2>1 DEF IInv, TypeOK
  <1>2. \A p \in Proc : Flushing(p)' <=> Flushing(p)
    BY DEF Flushing, Waits, IInv, TypeOK
  <1>3. \A s \in Run : Updating(s)' <=> IF s = r THEN \E v \in Void : u[v] # "none" ELSE Updating(s)
    BY <1>0 DEF Updating
  <1>4. Updating(r) => \E v \in Void : u[v] # "none"
    BY DEF Updating, Sound
  <1>5. FlushLockExclusive'
    BY <1>2, <1>3, <1>4 DEF IInv, FlushLockExclusive, Sound
  <1>6. LockHeldByOneRun'
    <2> SUFFICES ASSUME NEW i \in Item
                 PROVE  /\ payout_lock'[i] <=> \E s \in Run : call'[s][i] # None
                        /\ \A s, t \in Run : call'[s][i] # None /\ call'[t][i] # None => s = t
      BY DEF LockHeldByOneRun
    <2>1. /\ payout_lock[i] <=> \E s \in Run : call[s][i] # None
          /\ \A s, t \in Run : call[s][i] # None /\ call[t][i] # None => s = t
      BY DEF IInv, LockHeldByOneRun
    <2>2. CASE c[i] # None
      <3>1. \A s \in Run \ {r} : call[s][i] = None
        BY <2>2 DEF Sound
      <3>2. \A s \in Run : call'[s][i] # None <=> s = r
        BY <1>0, <2>2, <3>1
      <3>3. QED
        BY <2>2, <3>2
    <2>3. CASE c[i] = None
      <3>1. \A s \in Run : call'[s][i] = call[s][i] BY <1>0, <2>3 DEF Sound
      <3>2. QED BY <2>1, <2>3, <3>1
    <2>4. QED BY <2>2, <2>3
  <1>7. DebitedOnce' /\ RecordAgreesWithLedger'
    BY DEF IInv, DebitedOnce, RecordAgreesWithLedger, Net
  <1>8. RemovedWhenSettled'
    BY DEF IInv, RemovedWhenSettled
  <1>9. TradesStoredInOrder'
    <2>1. \A t \in Trade : CanMove(t) => CanMove(t)'
      BY ItemFacts DEF CanMove, Sound
    <2>2. \A k \in DOMAIN trades_buffer : trades_buffer[k] \in Trade
      BY DEF IInv, TypeOK
    <2>3. QED BY <2>1, <2>2 DEF IInv, TradesStoredInOrder
  <1>10. NoLostWakeup'
    BY DEF IInv, NoLostWakeup, NoWork
  <1>11. UnbornInv'
    BY DEF IInv, UnbornInv, Unborn, Present, Logged
  <1>12. \A i \in Item : Present(i)' <=> Present(i)
    BY DEF Present, Logged
  <1>13. InFlightInv'
    <2> SUFFICES ASSUME NEW s \in Run, NEW i \in Item, call'[s][i] # None
                 PROVE  /\ Present(i)'
                        /\ payout_data[i] = None
                        /\ call'[s][i].st = "sent" => call'[s][i].fee < Net(i)
                        /\ Executed(call'[s][i]) => Net(i) # 0
                        /\ debited[i] = IF Executed(call'[s][i]) THEN Net(i) ELSE 0
      BY DEF InFlightInv, InFlight, Net, Executed
    <2>1. CASE s = r
      BY <1>0, <1>12, <2>1 DEF Sound
    <2>2. CASE s # r
      BY <1>0, <1>12, <2>2 DEF IInv, InFlightInv, InFlight
    <2>3. QED BY <2>1, <2>2
  <1>14. IdleInv'
    BY <1>0 DEF IInv, IdleInv, InFlight, Sound
  <1>15. UpdateInv'
    <2>1. ASSUME NEW v \in Void PROVE update_lock'[v] <=> \E s \in Run : update'[s][v] # "none"
      <3>1. update_lock[v] <=> \E s \in Run : update[s][v] # "none"
        BY DEF IInv, UpdateInv
      <3>2. \A s \in Run : update'[s][v] = IF s = r THEN u[v] ELSE update[s][v]
        BY <1>0
      <3>3. update[r][v] # "none" => u[v] # "none"
        BY DEF Sound
      <3>4. QED BY <3>1, <3>2, <3>3
    <2>2. ASSUME NEW s \in Run, NEW v \in Void, update'[s][v] # "none"
          PROVE  /\ v \in void_positions
                 /\ payout_data[v] # None
                 /\ update'[s][v] \in {"applied", "ok"} => log_updated'[v]
      <3>1. CASE s = r BY <1>0, <2>2, <3>1 DEF Sound
      <3>2. CASE s # r BY <1>0, <2>2, <3>2 DEF IInv, UpdateInv
      <3>3. QED BY <3>1, <3>2
    <2>3. \A v \in Void : update_status[v] => log_updated'[v]
      BY DEF IInv, UpdateInv
    <2>4. QED BY <2>1, <2>2, <2>3 DEF UpdateInv
  <1>16. CallerInv'
    <2>1. \A s \in Run : caller'[s] = IF s = r THEN w ELSE caller[s]
      BY DEF IInv, TypeOK
    <2>2. w # Nobody
      BY PayoutsAssumption DEF Waits
    <2>3. QED BY <1>0, <2>1, <2>2, SMTT(30) DEF IInv, CallerInv, Waits, NoCalls, NoUpdates
  <1>17. QED BY <1>1, <1>5, <1>6, <1>7, <1>8, <1>9, <1>10, <1>11, <1>13, <1>14, <1>15, <1>16 DEF IInv

(* The run r ends.                                                         *)
LEMMA FinishIInv ==
    ASSUME IInv, NEW r \in Run, NEW w, NEW c, NEW u, Sound(r, c, u), Complete(c, u), Frame,
           Waits(r, w), Finish(r, w, c, u)
    PROVE  IInv'
  <1> USE DEF Frame
  <1> DEFINE handled == Handled(c)
             updated == {v \in void_positions : u[v] # "none"}
  <1>1. /\ payout_lock' = [i \in Item |-> payout_lock[i] /\ i \notin handled]
        /\ payout_data' = [i \in Item |-> IF i \in handled THEN Outcome(c[i]) ELSE payout_data[i]]
        /\ update_lock' = [v \in Void |-> update_lock[v] /\ v \notin updated]
        /\ update_status' = [v \in Void |-> IF v \in updated THEN u[v] = "ok" ELSE update_status[v]]
        /\ void_positions' = {v \in void_positions : v \in handled \cup updated
                                => ~CanRemove(payout_data'[v], update_status'[v])}
        /\ storage_flush_lock' = (storage_flush_lock /\ \A v \in Void : u[v] = "none")
        /\ call' = [call EXCEPT ![r] = NoCalls]
        /\ update' = [update EXCEPT ![r] = NoUpdates]
        /\ caller' = [caller EXCEPT ![r] = Nobody]
        /\ proc' = [p \in Proc |-> IF p = w THEN "returned" ELSE proc[p]]
    BY DEF Finish
  <1>2. /\ handled = {i \in Item : c[i] # None}
        /\ updated = {v \in Void : u[v] # "none"}
    BY DEF Handled, Sound, IInv, TypeOK
  <1> HIDE DEF handled, updated
  <1>3. \A i \in handled : /\ i \in Item /\ Present(i) /\ payout_data[i] = None
                           /\ c[i] \in Call /\ c[i].st \in Ready
                           /\ \A s \in Run \ {r} : call[s][i] = None
    BY <1>2, CallFacts DEF Sound, Complete
  <1>4. \A v \in updated : /\ v \in Void /\ v \in void_positions /\ payout_data[v] # None
                           /\ u[v] = "ok" => log_updated'[v]
                           /\ \A s \in Run \ {r} : update[s][v] = "none"
    BY <1>2 DEF Sound, Updating
  <1>5. handled \cap updated = {}
    BY <1>3, <1>4
  <1>6. \A s \in Run : /\ call'[s] = IF s = r THEN NoCalls ELSE call[s]
                       /\ update'[s] = IF s = r THEN NoUpdates ELSE update[s]
                       /\ caller'[s] = IF s = r THEN Nobody ELSE caller[s]
    BY <1>1 DEF IInv, TypeOK
  <1>7. \A s \in Run, i \in Item : call'[s][i] = IF s = r THEN None ELSE call[s][i]
    BY <1>6 DEF NoCalls
  <1>8. \A s \in Run, v \in Void : update'[s][v] = IF s = r THEN "none" ELSE update[s][v]
    BY <1>6 DEF NoUpdates
  <1>9. \A i \in Item : payout_data'[i] = IF i \in handled THEN Outcome(c[i]) ELSE payout_data[i]
    BY <1>1
  <1>10. \A v \in Void : update_status'[v] = IF v \in updated THEN u[v] = "ok" ELSE update_status[v]
    BY <1>1
  <1>11. \A s \in Run \ {r}, i \in Item : call[s][i] # None => i \notin handled
    BY <1>3
  <1>12. void_positions' \subseteq void_positions
    BY <1>1
  <1>13. \A i \in Item : Present(i)' => Present(i)
    BY <1>12 DEF Present, Logged
  <1>14. TypeOK'
    <2>1. payout_lock' \in [Item -> BOOLEAN] /\ update_lock' \in [Void -> BOOLEAN]
      BY <1>1 DEF IInv, TypeOK
    <2>2. payout_data' \in [Item -> PayoutData \cup {None}]
      <3>1. \A i \in handled : Outcome(c[i]) \in PayoutData \cup {None}
        BY <1>3, OutcomeType
      <3>2. QED BY <1>1, <3>1 DEF IInv, TypeOK
    <2>3. update_status' \in [Void -> BOOLEAN] /\ void_positions' \subseteq Void
      BY <1>1, <1>12 DEF IInv, TypeOK
    <2>4. storage_flush_lock' \in BOOLEAN
      BY <1>1
    <2>5. call' \in [Run -> [Item -> Call \cup {None}]] /\ update' \in [Run -> [Void -> Update]]
      BY <1>1 DEF IInv, TypeOK, NoCalls, NoUpdates, Update
    <2>6. caller' \in [Run -> Proc \cup {Anyone, Nobody}] /\ proc' \in [Proc -> ProcState]
      BY <1>1 DEF IInv, TypeOK, ProcState
    <2>7. QED BY <2>1, <2>2, <2>3, <2>4, <2>5, <2>6 DEF IInv, TypeOK
  <1>15. DebitedOnce'
    BY DEF IInv, DebitedOnce, Net
  <1>16. ASSUME NEW i \in handled
         PROVE  /\ Outcome(c[i]) = None => debited[i] = 0
                /\ Outcome(c[i]) # None => (Outcome(c[i]).did_transfer <=> debited[i] # 0)
    <2>1. /\ Executed(c[i]) => Net(i) # 0
          /\ debited[i] = IF Executed(c[i]) THEN Net(i) ELSE 0
      BY <1>2, <1>16 DEF Sound
    <2>2. Executed(c[i]) <=> c[i].st = "transferred"
      BY <1>3 DEF Executed, Ready
    <2>3. CASE c[i].st = "failed"
      BY <2>1, <2>2, <2>3 DEF Outcome
    <2>4. CASE c[i].st # "failed"
      <3>1. Outcome(c[i]) = [did_transfer |-> c[i].st = "transferred", ledger_transfer_fee |-> c[i].fee]
        BY <2>4 DEF Outcome
      <3>2. Outcome(c[i]) \in PayoutData
        BY <1>3, <3>1, CallFacts DEF PayoutData
      <3>3. Outcome(c[i]) # None
        BY <3>2, CallFacts
      <3>4. Outcome(c[i]).did_transfer = (c[i].st = "transferred")
        BY <3>1
      <3>5. c[i].st = "transferred" <=> debited[i] # 0
        <4>1. CASE c[i].st = "transferred" BY <2>1, <2>2, <4>1
        <4>2. CASE c[i].st # "transferred" BY <2>1, <2>2, <4>2
        <4>3. QED BY <4>1, <4>2
      <3>6. QED BY <3>3, <3>4, <3>5
    <2>5. QED BY <2>3, <2>4
  <1>17. RecordAgreesWithLedger'
    <2> SUFFICES ASSUME NEW i \in Item, payout_data'[i] # None
                 PROVE  payout_data'[i].did_transfer <=> debited[i] # 0
      BY DEF RecordAgreesWithLedger
    <2>1. CASE i \in handled
      <3>1. payout_data'[i] = Outcome(c[i]) BY <1>9, <2>1
      <3>2. QED BY <1>16, <2>1, <3>1
    <2>2. CASE i \notin handled
      BY <1>9, <2>2 DEF IInv, RecordAgreesWithLedger
    <2>3. QED BY <2>1, <2>2
  <1>18. IdleInv'
    <2> SUFFICES ASSUME NEW i \in Item, payout_data'[i] = None, \A s \in Run : call'[s][i] = None
                 PROVE  debited[i] = 0
      BY DEF IdleInv, InFlight
    <2>1. CASE i \in handled
      <3>1. payout_data'[i] = Outcome(c[i]) BY <1>9, <2>1
      <3>2. QED BY <1>16, <2>1, <3>1
    <2>2. CASE i \notin handled
      <3>1. c[i] = None BY <1>2, <2>2
      <3>2. \A s \in Run : call[s][i] = None BY <1>7, <3>1 DEF Sound
      <3>3. payout_data[i] = None BY <1>9, <2>2
      <3>4. QED BY <3>2, <3>3 DEF IInv, IdleInv, InFlight
    <2>3. QED BY <2>1, <2>2
  <1>19. LockHeldByOneRun'
    <2> SUFFICES ASSUME NEW i \in Item
                 PROVE  /\ payout_lock'[i] <=> \E s \in Run : call'[s][i] # None
                        /\ \A s, t \in Run : call'[s][i] # None /\ call'[t][i] # None => s = t
      BY DEF LockHeldByOneRun
    <2>1. /\ payout_lock[i] <=> \E s \in Run : call[s][i] # None
          /\ \A s, t \in Run : call[s][i] # None /\ call[t][i] # None => s = t
      BY DEF IInv, LockHeldByOneRun
    <2>2. payout_lock'[i] <=> payout_lock[i] /\ i \notin handled
      BY <1>1
    <2>3. CASE i \in handled
      BY <1>3, <1>7, <2>2, <2>3
    <2>4. CASE i \notin handled
      <3>1. call[r][i] = None BY <1>2, <2>4 DEF Sound
      <3>2. QED BY <1>7, <2>1, <2>2, <2>4, <3>1
    <2>5. QED BY <2>3, <2>4
  <1>20. FlushLockExclusive'
    <2>1. \A s \in Run : Updating(s)' <=> s # r /\ Updating(s)
      BY <1>8 DEF Updating
    <2>2. \A p \in Proc : Flushing(p)' <=> Flushing(p)
      BY <1>1 DEF Flushing, Waits
    <2>3. CASE \A v \in Void : u[v] = "none"
      <3>1. ~Updating(r) BY <2>3 DEF Sound, Updating
      <3>2. storage_flush_lock' <=> storage_flush_lock BY <1>1, <2>3
      <3>3. QED BY <2>1, <2>2, <3>1, <3>2 DEF IInv, FlushLockExclusive
    <2>4. CASE \E v \in Void : u[v] # "none"
      <3>1. ~storage_flush_lock' BY <1>1, <2>4
      <3>2. \A s \in Run : ~Updating(s)' BY <2>1, <2>4 DEF Sound
      <3>3. \A p \in Proc : ~Flushing(p)' BY <2>2, <2>4 DEF Sound
      <3>4. QED BY <3>1, <3>2, <3>3 DEF FlushLockExclusive
    <2>5. QED BY <2>3, <2>4
  <1>21. \A v \in Void : update_status'[v] => log_updated'[v]
    BY <1>4, <1>10 DEF IInv, UpdateInv
  <1>22. RemovedWhenSettled'
    <2> SUFFICES ASSUME NEW v \in Void
                 PROVE  /\ v \notin positions \cup void_positions'
                             => payout_data'[v] # None /\ log_updated'[v]
                        /\ log_updated'[v] => payout_data'[v] # None
      BY DEF RemovedWhenSettled
    <2>1. v \in Item
      BY ItemFacts
    <2>2. log_updated'[v] => payout_data'[v] # None
      BY <1>3, <1>9, <2>1
    <2>3. CASE v \in void_positions
      <3>1. ASSUME v \notin void_positions' PROVE payout_data'[v] # None /\ update_status'[v]
        BY <1>1, <2>3, <3>1 DEF CanRemove
      <3>2. QED BY <1>21, <2>2, <3>1
    <2>4. CASE v \notin void_positions
      <3>1. v \notin handled BY <1>3, <2>4 DEF Present
      <3>2. payout_data'[v] = payout_data[v] BY <1>9, <2>1, <3>1
      <3>3. v \notin positions => payout_data[v] # None /\ log_updated[v]
        BY <2>4 DEF IInv, RemovedWhenSettled
      <3>4. QED BY <1>12, <2>2, <2>4, <3>2, <3>3
    <2>5. QED BY <2>2, <2>3, <2>4
  <1>23. TradesStoredInOrder'
    <2>1. ASSUME NEW t \in Trade, CanMove(t) PROVE CanMove(t)'
      <3>1. ASSUME NEW kind \in {"cyclesLeg", "tokenLeg"}
            PROVE  ~payout_lock'[<<kind, t>>] /\ payout_data'[<<kind, t>>] # None
        <4>1. <<kind, t>> \in Item BY ItemFacts, <3>1
        <4>2. ~payout_lock[<<kind, t>>] /\ payout_data[<<kind, t>>] # None BY <2>1, <3>1 DEF CanMove
        <4>3. <<kind, t>> \notin handled BY <1>3, <4>2
        <4>4. QED BY <1>1, <1>9, <4>1, <4>2, <4>3
      <3>2. QED BY <3>1 DEF CanMove
    <2>2. \A k \in DOMAIN trades_buffer : trades_buffer[k] \in Trade
      BY DEF IInv, TypeOK
    <2>3. QED BY <2>1, <2>2 DEF IInv, TradesStoredInOrder
  <1>24. NoLostWakeup'
    <2>1. NoWork => NoWork'
      BY <1>12 DEF NoWork
    <2>2. \A p \in Proc : proc[p] # "none" => proc'[p] # "none"
      BY <1>1
    <2>3. QED BY <2>1, <2>2 DEF IInv, NoLostWakeup
  <1>25. UnbornInv'
    <2>1. \A i \in Item : Unborn(i)' <=> Unborn(i)
      BY DEF Unborn
    <2>2. QED BY <1>3, <1>9, <1>13, <2>1 DEF IInv, UnbornInv
  <1>26. \A v \in Void : v \in void_positions /\ v \notin handled /\ v \notin updated
                            => v \in void_positions'
    BY <1>1
  <1>27. InFlightInv'
    <2> SUFFICES ASSUME NEW s \in Run, NEW i \in Item, call'[s][i] # None
                 PROVE  /\ Present(i)'
                        /\ payout_data'[i] = None
                        /\ call'[s][i].st = "sent" => call'[s][i].fee < Net(i)
                        /\ Executed(call'[s][i]) => Net(i) # 0
                        /\ debited[i] = IF Executed(call'[s][i]) THEN Net(i) ELSE 0
      BY DEF InFlightInv, InFlight, Net, Executed
    <2>1. s # r /\ call'[s][i] = call[s][i] /\ call[s][i] # None
      BY <1>7
    <2>2. /\ Present(i)
          /\ payout_data[i] = None
          /\ call[s][i].st = "sent" => call[s][i].fee < Net(i)
          /\ Executed(call[s][i]) => Net(i) # 0
          /\ debited[i] = IF Executed(call[s][i]) THEN Net(i) ELSE 0
      BY <2>1 DEF IInv, InFlightInv, InFlight
    <2>3. i \notin handled /\ i \notin updated
      BY <1>4, <1>11, <2>1, <2>2
    <2>4. Present(i)'
      BY <1>26, <2>2, <2>3 DEF Present, Logged
    <2>5. payout_data'[i] = None
      BY <1>9, <2>2, <2>3
    <2>6. QED BY <2>1, <2>2, <2>4, <2>5
  <1>28. UpdateInv'
    <2>1. ASSUME NEW v \in Void PROVE update_lock'[v] <=> \E s \in Run : update'[s][v] # "none"
      <3>1. update_lock[v] <=> \E s \in Run : update[s][v] # "none"
        BY DEF IInv, UpdateInv
      <3>2. update_lock'[v] <=> update_lock[v] /\ v \notin updated
        BY <1>1
      <3>3. CASE v \in updated
        BY <1>4, <1>8, <3>2, <3>3
      <3>4. CASE v \notin updated
        <4>1. update[r][v] = "none" BY <1>2, <3>4 DEF Sound
        <4>2. QED BY <1>8, <3>1, <3>2, <3>4, <4>1
      <3>5. QED BY <3>3, <3>4
    <2>2. ASSUME NEW s \in Run, NEW v \in Void, update'[s][v] # "none"
          PROVE  /\ v \in void_positions'
                 /\ payout_data'[v] # None
                 /\ update'[s][v] \in {"applied", "ok"} => log_updated'[v]
      <3>1. s # r /\ update'[s][v] = update[s][v] /\ update[s][v] # "none"
        BY <1>8, <2>2
      <3>2. /\ v \in void_positions
            /\ payout_data[v] # None
            /\ update[s][v] \in {"applied", "ok"} => log_updated[v]
        BY <3>1 DEF IInv, UpdateInv
      <3>3. v \notin handled /\ v \notin updated /\ v \in Item
        BY <1>3, <1>4, <3>1, <3>2, ItemFacts
      <3>4. QED BY <1>9, <1>26, <3>1, <3>2, <3>3
    <2>3. QED BY <1>21, <2>1, <2>2 DEF UpdateInv
  <1>29. CallerInv'
    <2>1. \A s \in Run : caller[s] \in Proc => proc[caller[s]] = "running"
      BY DEF IInv, CallerInv
    <2>2. \A s \in Run \ {r} : caller[s] \in Proc => caller[s] # w
      BY DEF Waits
    <2>3. QED BY <1>1, <1>6, <2>1, <2>2, PayoutsAssumption DEF IInv, CallerInv, NoCalls, NoUpdates
  <1>30. QED
    BY <1>14, <1>15, <1>17, <1>18, <1>19, <1>20, <1>22, <1>23, <1>24, <1>25, <1>27, <1>28, <1>29
    DEF IInv

LEMMA StartRunIInv ==
    ASSUME IInv, NEW r \in Run, NEW w \in Proc \cup {Anyone}, NEW buffered \in SUBSET Void,
           StartRun(r, w, buffered)
    PROVE  IInv'
  <1> DEFINE payouts == PayoutsChunk
             updates == UpdatesChunk
             c == [i \in Item |-> IF i \in payouts THEN BeginPayout(i) ELSE None]
             u == [v \in Void |-> IF v \notin updates THEN "none"
                                  ELSE IF v \in buffered THEN "ok" ELSE "sent"]
  <1>1. /\ caller[r] = Nobody
        /\ w \in Proc => proc[w] = "calling"
        /\ buffered \subseteq updates
        /\ log_updated' = [v \in Void |-> log_updated[v] \/ v \in buffered]
        /\ IF Complete(c, u)
           THEN Finish(r, w, c, u)
           ELSE /\ payout_lock' = [i \in Item |-> payout_lock[i] \/ i \in payouts]
                /\ update_lock' = [v \in Void |-> update_lock[v] \/ v \in updates]
                /\ storage_flush_lock' = (storage_flush_lock \/ updates # {})
                /\ Wait(r, c, u)
                /\ caller' = [caller EXCEPT ![r] = w]
                /\ proc' = [p \in Proc |-> IF p = w THEN "running" ELSE proc[p]]
                /\ UNCHANGED <<void_positions, payout_data, update_status>>
        /\ UNCHANGED <<positions, trade_logs, trade_logs_id_counter, trades_buffer, transfer_fee,
                       ledger_fee, debited>>
    BY DEF StartRun
  <1>2. \A i \in payouts : i \in Item /\ Present(i) /\ payout_data[i] = None /\ ~payout_lock[i]
    BY PayoutsChunkFacts DEF Unpaid
  <1>3. \A v \in updates : v \in Void /\ v \in void_positions /\ payout_data[v] # None
    BY UpdatesChunkFacts DEF NotUpdated
  <1>4. /\ \A i \in Item : call[r][i] = None
        /\ \A v \in Void : update[r][v] = "none"
    BY <1>1 DEF IInv, CallerInv, NoCalls, NoUpdates
  <1>5. \A i \in payouts : /\ BeginPayout(i) \in Call
                           /\ BeginPayout(i).st \in {"dust", "sent"}
                           /\ BeginPayout(i).st = "sent" => BeginPayout(i).fee < Net(i)
    BY <1>2, BeginPayoutFacts DEF IInv, TypeOK
  <1>6. \A i \in payouts : debited[i] = 0 /\ \A s \in Run : call[s][i] = None
    BY <1>2 DEF IInv, LockHeldByOneRun, IdleInv, InFlight
  <1>7. updates # {} => /\ \A s \in Run : ~Updating(s)
                        /\ \A p \in Proc : ~Flushing(p)
    BY UpdatesChunkFacts DEF IInv, FlushLockExclusive
  <1> HIDE DEF payouts, updates
  <1>8. c \in [Item -> Call \cup {None}] /\ u \in [Void -> Update]
    BY <1>5 DEF Update, UpdateWaiting
  <1>9. \A i \in Item : /\ c[i] # None <=> i \in payouts
                        /\ i \in payouts => c[i] = BeginPayout(i)
    <2>1. \A i \in payouts : BeginPayout(i) # None BY <1>5, CallFacts
    <2>2. QED BY <2>1
  <1>10. \A v \in Void : /\ u[v] # "none" <=> v \in updates
                         /\ u[v] \in {"applied", "ok"} => v \in buffered
    OBVIOUS
  <1> HIDE DEF c, u
  <1>11. Sound(r, c, u)
    <2>1. ASSUME NEW i \in Item, c[i] # None
          PROVE  /\ Present(i)
                 /\ payout_data[i] = None
                 /\ c[i].st = "sent" => c[i].fee < Net(i)
                 /\ Executed(c[i]) => Net(i) # 0
                 /\ debited[i] = IF Executed(c[i]) THEN Net(i) ELSE 0
                 /\ \A s \in Run \ {r} : call[s][i] = None
      <3>1. i \in payouts /\ c[i] = BeginPayout(i) BY <1>9, <2>1
      <3>2. ~Executed(c[i]) BY <1>5, <3>1 DEF Executed
      <3>3. QED BY <1>2, <1>5, <1>6, <3>1, <3>2
    <2>2. ASSUME NEW v \in Void, u[v] # "none"
          PROVE  /\ v \in void_positions
                 /\ payout_data[v] # None
                 /\ u[v] \in {"applied", "ok"} => log_updated'[v]
                 /\ \A s \in Run \ {r} : ~Updating(s)
                 /\ \A p \in Proc : ~Flushing(p)
      BY <1>1, <1>3, <1>7, <1>10, <2>2
    <2>3. QED BY <1>4, <1>8, <2>1, <2>2 DEF Sound
  <1>12. Frame
    <2>1. transfer_fee' \in [Ledger -> Fees] /\ log_updated' \in [Void -> BOOLEAN]
      BY <1>1 DEF IInv, TypeOK
    <2>2. \A v \in Void : log_updated'[v] <=> log_updated[v] \/ v \in buffered
      BY <1>1
    <2>3. \A v \in Void : log_updated[v] => payout_data[v] # None
      BY DEF IInv, RemovedWhenSettled
    <2>4. QED BY <1>1, <1>3, <2>1, <2>2, <2>3 DEF Frame
  <1>13. Waits(r, w)
    BY <1>1 DEF Waits, IInv, CallerInv
  <1>14. CASE Complete(c, u)
    BY <1>1, <1>11, <1>12, <1>13, <1>14, FinishIInv
  <1>15. CASE ~Complete(c, u)
    <2>1. /\ payout_lock' = [i \in Item |-> payout_lock[i] \/ i \in payouts]
          /\ update_lock' = [v \in Void |-> update_lock[v] \/ v \in updates]
          /\ storage_flush_lock' = (storage_flush_lock \/ updates # {})
          /\ Wait(r, c, u)
          /\ caller' = [caller EXCEPT ![r] = w]
          /\ proc' = [p \in Proc |-> IF p = w THEN "running" ELSE proc[p]]
          /\ UNCHANGED <<void_positions, payout_data, update_status>>
      BY <1>1, <1>15
    <2>2. /\ payout_lock' \in [Item -> BOOLEAN]
          /\ update_lock' \in [Void -> BOOLEAN]
          /\ storage_flush_lock' \in BOOLEAN
      BY <2>1 DEF IInv, TypeOK
    <2>3. /\ \A i \in Item : payout_lock'[i] <=> payout_lock[i] \/ c[i] # None
          /\ \A v \in Void : update_lock'[v] <=> update_lock[v] \/ u[v] # "none"
      BY <1>9, <1>10, <2>1
    <2>4. storage_flush_lock' <=> storage_flush_lock \/ \E v \in Void : u[v] # "none"
      BY <1>3, <1>10, <2>1
    <2>5. Holds(r, w, c, u)
      BY <2>1, <2>2, <2>3, <2>4 DEF Holds
    <2>6. QED BY <1>11, <1>12, <1>13, <2>5, WaitIInv
  <1>16. QED BY <1>14, <1>15

(* An answer: the run goes on waiting, as it did, or ends.                 *)
LEMMA ResumeIInv ==
    ASSUME IInv, NEW r \in Run, NEW c, NEW u, Resume(r, c, u), Sound(r, c, u), Frame,
           caller[r] # Nobody,
           \A i \in Item : c[i] # None => call[r][i] # None,
           \A v \in Void : u[v] # "none" => update[r][v] # "none"
    PROVE  IInv'
  <1> DEFINE w == caller[r]
  <1>1. Waits(r, w)
    BY DEF Waits, IInv, TypeOK, CallerInv
  <1>2. CASE Complete(c, u)
    BY <1>1, <1>2, FinishIInv DEF Resume
  <1>3. CASE ~Complete(c, u)
    <2>1. /\ Wait(r, c, u)
          /\ UNCHANGED <<void_positions, payout_lock, payout_data, update_lock, update_status,
                         storage_flush_lock, caller, proc>>
      BY <1>3 DEF Resume
    <2>2. /\ payout_lock' \in [Item -> BOOLEAN]
          /\ update_lock' \in [Void -> BOOLEAN]
          /\ storage_flush_lock' \in BOOLEAN
      BY <2>1 DEF IInv, TypeOK
    <2>3. \A i \in Item : payout_lock'[i] <=> payout_lock[i] \/ c[i] # None
      BY <2>1 DEF IInv, LockHeldByOneRun
    <2>4. \A v \in Void : update_lock'[v] <=> update_lock[v] \/ u[v] # "none"
      BY <2>1 DEF IInv, UpdateInv
    <2>5. storage_flush_lock' <=> storage_flush_lock \/ \E v \in Void : u[v] # "none"
      BY <2>1 DEF IInv, FlushLockExclusive, Updating
    <2>6. caller' = [caller EXCEPT ![r] = w]
      BY <2>1 DEF IInv, TypeOK
    <2>7. proc' = [p \in Proc |-> IF p = w THEN "running" ELSE proc[p]]
      BY <2>1 DEF IInv, TypeOK, CallerInv
    <2>8. Holds(r, w, c, u)
      BY <2>1, <2>2, <2>3, <2>4, <2>5, <2>6, <2>7 DEF Holds
    <2>9. QED BY <1>1, <2>8, WaitIInv
  <1>4. QED BY <1>2, <1>3

LEMMA PayoutReplyIInv ==
    ASSUME IInv, NEW r \in Run, NEW j \in Item, PayoutReply(r, j)
    PROVE  IInv'
  <1> DEFINE st == IF call[r][j].st = "executed" THEN "transferred" ELSE "failed"
             c == [call[r] EXCEPT ![j].st = st]
             u == update[r]
  <1>1. /\ call[r][j] # None
        /\ call[r][j].st \in {"executed", "refused", "badFee"}
        /\ Resume(r, c, u)
        /\ transfer_fee' = FeeAfter(call[r][j], j)
        /\ UNCHANGED <<positions, trade_logs, trade_logs_id_counter, trades_buffer, ledger_fee,
                       debited, log_updated>>
    BY DEF PayoutReply
  <1>2. call[r] \in [Item -> Call \cup {None}] /\ update[r] \in [Void -> Update]
    BY DEF IInv, TypeOK
  <1>3. call[r][j] \in Call
    BY <1>1, <1>2
  <1>4. \A i \in Item : i # j => c[i] = call[r][i]
    BY <1>2
  <1>5. c[j] \in Call /\ c[j].st = st
    <2>1. c[j] = [call[r][j] EXCEPT !.st = st]
      BY <1>2
    <2>2. c[j] \in Call
      BY <1>3, <2>1, CallFacts DEF Ready
    <2>3. c[j].st = st
      BY <1>3, <2>1 DEF Call
    <2>4. QED BY <2>2, <2>3
  <1>6. c \in [Item -> Call \cup {None}]
    BY <1>2, <1>5
  <1>7. \A i \in Item : c[i] # None <=> call[r][i] # None
    BY <1>1, <1>4, <1>5, CallFacts
  <1>8. Executed(c[j]) <=> Executed(call[r][j])
    BY <1>1, <1>5 DEF Executed
  <1> HIDE DEF c
  <1>9. Sound(r, c, u)
    <2>1. ASSUME NEW i \in Item, c[i] # None
          PROVE  /\ Present(i)
                 /\ payout_data[i] = None
                 /\ c[i].st = "sent" => c[i].fee < Net(i)
                 /\ Executed(c[i]) => Net(i) # 0
                 /\ debited[i] = IF Executed(c[i]) THEN Net(i) ELSE 0
                 /\ \A s \in Run \ {r} : call[s][i] = None
      <3>1. call[r][i] # None BY <1>7, <2>1
      <3>2. \A s \in Run \ {r} : call[s][i] = None BY <3>1 DEF IInv, LockHeldByOneRun
      <3>3. /\ Present(i)
            /\ payout_data[i] = None
            /\ call[r][i].st = "sent" => call[r][i].fee < Net(i)
            /\ Executed(call[r][i]) => Net(i) # 0
            /\ debited[i] = IF Executed(call[r][i]) THEN Net(i) ELSE 0
        BY <3>1 DEF IInv, InFlightInv, InFlight
      <3>4. CASE i = j BY <1>5, <1>8, <3>2, <3>3, <3>4
      <3>5. CASE i # j BY <1>4, <3>2, <3>3, <3>5
      <3>6. QED BY <3>4, <3>5
    <2>2. ASSUME NEW v \in Void, u[v] # "none"
          PROVE  /\ v \in void_positions
                 /\ payout_data[v] # None
                 /\ u[v] \in {"applied", "ok"} => log_updated'[v]
                 /\ \A s \in Run \ {r} : ~Updating(s)
                 /\ \A p \in Proc : ~Flushing(p)
      <3>1. Updating(r) BY <2>2 DEF Updating
      <3>2. QED BY <1>1, <2>2, <3>1 DEF IInv, UpdateInv, FlushLockExclusive
    <2>3. QED BY <1>2, <1>6, <1>7, <2>1, <2>2 DEF Sound
  <1>10. Frame
    <2>1. transfer_fee' \in [Ledger -> Fees]
      BY <1>1, <1>3, LedgerType, CallFacts DEF FeeAfter, IInv, TypeOK
    <2>2. QED BY <1>1, <2>1 DEF Frame, IInv, TypeOK, RemovedWhenSettled
  <1>11. caller[r] # Nobody
    BY <1>1 DEF IInv, CallerInv, NoCalls
  <1>12. QED BY <1>1, <1>7, <1>9, <1>10, <1>11, ResumeIInv

LEMMA UpdateReplyIInv ==
    ASSUME IInv, NEW r \in Run, NEW w \in Void, UpdateReply(r, w)
    PROVE  IInv'
  <1> DEFINE c == call[r]
             u == [update[r] EXCEPT ![w] = IF @ = "applied" THEN "ok" ELSE "err"]
  <1>1. /\ update[r][w] \in {"applied", "rejected"}
        /\ Resume(r, c, u)
        /\ UNCHANGED <<positions, trade_logs, trade_logs_id_counter, trades_buffer, transfer_fee,
                       ledger_fee, debited, log_updated>>
    BY DEF UpdateReply
  <1>2. c \in [Item -> Call \cup {None}] /\ update[r] \in [Void -> Update]
    BY DEF IInv, TypeOK
  <1>3. /\ u \in [Void -> Update]
        /\ \A v \in Void : /\ u[v] # "none" <=> update[r][v] # "none"
                           /\ u[v] \in {"applied", "ok"} => update[r][v] \in {"applied", "ok"}
    BY <1>1, <1>2 DEF Update
  <1> HIDE DEF u
  <1>4. Sound(r, c, u)
    <2>1. ASSUME NEW i \in Item, c[i] # None
          PROVE  /\ Present(i)
                 /\ payout_data[i] = None
                 /\ c[i].st = "sent" => c[i].fee < Net(i)
                 /\ Executed(c[i]) => Net(i) # 0
                 /\ debited[i] = IF Executed(c[i]) THEN Net(i) ELSE 0
                 /\ \A s \in Run \ {r} : call[s][i] = None
      BY <2>1 DEF IInv, LockHeldByOneRun, InFlightInv, InFlight
    <2>2. ASSUME NEW v \in Void, u[v] # "none"
          PROVE  /\ v \in void_positions
                 /\ payout_data[v] # None
                 /\ u[v] \in {"applied", "ok"} => log_updated'[v]
                 /\ \A s \in Run \ {r} : ~Updating(s)
                 /\ \A p \in Proc : ~Flushing(p)
      <3>1. Updating(r) BY <1>3, <2>2 DEF Updating
      <3>2. QED BY <1>1, <1>3, <2>2, <3>1 DEF IInv, UpdateInv, FlushLockExclusive
    <2>3. QED BY <1>2, <1>3, <2>1, <2>2 DEF Sound
  <1>5. Frame
    BY <1>1 DEF Frame, IInv, TypeOK, RemovedWhenSettled
  <1>6. caller[r] # Nobody
    BY <1>1 DEF IInv, CallerInv, NoUpdates
  <1>7. QED BY <1>1, <1>3, <1>4, <1>5, <1>6, ResumeIInv

-----------------------------------------------------------------------------
(* The ledgers and the storage canisters.                                  *)

(* A step that changes nothing but one call in flight and what a ledger    *)
(* has done.                                                               *)
LEMMA LedgerIInv ==
    ASSUME IInv, NEW r \in Run, NEW j \in Item, NEW x \in Call, call[r][j] # None,
           UNCHANGED <<canister, transfer_fee, update, caller, proc, ledger_fee, log_updated>>,
           call' = [call EXCEPT ![r][j] = x],
           debited' \in [Item -> Nat],
           \A i \in Item : i # j => debited'[i] = debited[i],
           x.st = "sent" => x.fee < Net(j),
           Executed(x) => Net(j) # 0,
           debited'[j] = IF Executed(x) THEN Net(j) ELSE 0
    PROVE  IInv'
  <1> USE DEF canister
  <1>1. /\ call' \in [Run -> [Item -> Call \cup {None}]]
        /\ \A s \in Run, i \in Item : call'[s][i] = IF s = r /\ i = j THEN x ELSE call[s][i]
    BY DEF IInv, TypeOK
  <1>2. \A s \in Run, i \in Item : call'[s][i] # None <=> call[s][i] # None
    BY <1>1, CallFacts
  <1>3. payout_data[j] = None /\ Present(j)
    BY DEF IInv, InFlightInv, InFlight
  <1>4. \A s \in Run : call[s][j] # None => s = r
    BY DEF IInv, LockHeldByOneRun
  <1>5. TypeOK'
    BY <1>1 DEF IInv, TypeOK
  <1>6. DebitedOnce' /\ RecordAgreesWithLedger'
    BY <1>3 DEF IInv, DebitedOnce, RecordAgreesWithLedger, Net
  <1>7. LockHeldByOneRun'
    BY <1>2 DEF IInv, LockHeldByOneRun
  <1>8. FlushLockExclusive' /\ RemovedWhenSettled' /\ UpdateInv' /\ NoLostWakeup'
    BY DEF IInv, FlushLockExclusive, RemovedWhenSettled, UpdateInv, Updating, Flushing,
           NoLostWakeup, NoWork
  <1>9. TradesStoredInOrder'
    BY DEF IInv, TradesStoredInOrder, CanMove
  <1>10. UnbornInv'
    BY DEF IInv, UnbornInv, Unborn, Present, Logged
  <1>11. InFlightInv'
    <2> SUFFICES ASSUME NEW s \in Run, NEW i \in Item, call'[s][i] # None
                 PROVE  /\ Present(i)'
                        /\ payout_data[i] = None
                        /\ call'[s][i].st = "sent" => call'[s][i].fee < Net(i)
                        /\ Executed(call'[s][i]) => Net(i) # 0
                        /\ debited'[i] = IF Executed(call'[s][i]) THEN Net(i) ELSE 0
      BY DEF InFlightInv, InFlight, Net, Executed
    <2>1. Present(i)' <=> Present(i)
      BY DEF Present, Logged
    <2>2. CASE i = j
      BY <1>1, <1>2, <1>3, <1>4, <2>1, <2>2
    <2>3. CASE i # j
      <3>1. call'[s][i] = call[s][i] /\ call[s][i] # None /\ debited'[i] = debited[i] BY <1>1, <2>3
      <3>2. QED BY <2>1, <3>1 DEF IInv, InFlightInv, InFlight
    <2>4. QED BY <2>2, <2>3
  <1>12. IdleInv'
    BY <1>2 DEF IInv, IdleInv, InFlight
  <1>13. CallerInv'
    <2>1. \A s \in Run : caller[s] = Nobody => s # r
      BY DEF IInv, CallerInv, NoCalls
    <2>2. \A s \in Run : s # r => call'[s] = call[s]
      BY DEF IInv, TypeOK
    <2>3. QED BY <2>1, <2>2 DEF IInv, CallerInv, NoCalls, NoUpdates
  <1>14. QED BY <1>5, <1>6, <1>7, <1>8, <1>9, <1>10, <1>11, <1>12, <1>13 DEF IInv

LEMMA LedgerPaysIInv ==
    ASSUME IInv, NEW r \in Run, NEW j \in Item, LedgerPays(r, j)
    PROVE  IInv'
  <1> DEFINE x == [call[r][j] EXCEPT !.st = "executed"]
  <1>1. /\ call[r][j] # None /\ call[r][j].st = "sent"
        /\ call[r][j].fee = ledger_fee[LedgerOf(j)]
        /\ call' = [call EXCEPT ![r][j].st = "executed"]
        /\ debited' = [debited EXCEPT ![j] = @ + (Net(j) - call[r][j].fee) + ledger_fee[LedgerOf(j)]]
        /\ UNCHANGED <<canister, transfer_fee, update, caller, proc, ledger_fee, log_updated>>
    BY DEF LedgerPays
  <1>2. call[r][j] \in Call
    BY <1>1 DEF IInv, TypeOK
  <1>3. x \in Call /\ x.st = "executed"
    BY <1>2, CallFacts DEF Waiting, Call
  <1>4. call' = [call EXCEPT ![r][j] = x]
    BY <1>1 DEF IInv, TypeOK
  <1>5. call[r][j].fee < Net(j) /\ debited[j] = 0
    BY <1>1 DEF IInv, InFlightInv, InFlight, Executed
  <1>6. call[r][j].fee \in Nat /\ Net(j) \in Nat
    BY <1>2, CallFacts, NetType, PayoutsAssumption
  <1>7. Net(j) # 0
    BY <1>5, <1>6
  <1>8. debited[j] + (Net(j) - call[r][j].fee) + ledger_fee[LedgerOf(j)] = Net(j)
    BY <1>1, <1>5, <1>6
  <1>9. debited' = [debited EXCEPT ![j] = Net(j)]
    BY <1>1, <1>8
  <1>10. /\ debited' \in [Item -> Nat]
         /\ \A i \in Item : i # j => debited'[i] = debited[i]
         /\ debited'[j] = Net(j)
    BY <1>6, <1>9 DEF IInv, TypeOK
  <1>11. Executed(x)
    BY <1>3 DEF Executed
  <1> HIDE DEF x
  <1>12. QED BY <1>1, <1>3, <1>4, <1>7, <1>10, <1>11, LedgerIInv

LEMMA LedgerRefusesIInv ==
    ASSUME IInv, NEW r \in Run, NEW j \in Item, LedgerRefuses(r, j)
    PROVE  IInv'
  <1>1. /\ call[r][j] # None /\ call[r][j].st = "sent"
        /\ \/ call' = [call EXCEPT ![r][j].st = "refused"]
           \/ call' = [call EXCEPT ![r][j] = [st |-> "badFee", fee |-> ledger_fee[LedgerOf(j)]]]
        /\ UNCHANGED <<canister, transfer_fee, update, caller, proc, ledger_fee, debited, log_updated>>
    BY DEF LedgerRefuses
  <1>2. call[r][j] \in Call
    BY <1>1 DEF IInv, TypeOK
  <1>3. ledger_fee[LedgerOf(j)] \in Fees
    BY LedgerType DEF IInv, TypeOK
  <1>4. PICK x \in Call : x.st \in {"refused", "badFee"} /\ call' = [call EXCEPT ![r][j] = x]
    <2>1. CASE call' = [call EXCEPT ![r][j].st = "refused"]
      <3> DEFINE x == [call[r][j] EXCEPT !.st = "refused"]
      <3>1. x \in Call /\ x.st = "refused" BY <1>2, CallFacts DEF Waiting, Call
      <3>2. call' = [call EXCEPT ![r][j] = x] BY <2>1 DEF IInv, TypeOK
      <3> HIDE DEF x
      <3>3. QED BY <3>1, <3>2
    <2>2. CASE call' = [call EXCEPT ![r][j] = [st |-> "badFee", fee |-> ledger_fee[LedgerOf(j)]]]
      <3> DEFINE x == [st |-> "badFee", fee |-> ledger_fee[LedgerOf(j)]]
      <3>1. x \in Call /\ x.st = "badFee" BY <1>3, CallFacts DEF Waiting
      <3>2. call' = [call EXCEPT ![r][j] = x] BY <2>2
      <3> HIDE DEF x
      <3>3. QED BY <3>1, <3>2
    <2>3. QED BY <1>1, <2>1, <2>2
  <1>5. debited[j] = 0
    BY <1>1 DEF IInv, InFlightInv, InFlight, Executed
  <1>6. debited' \in [Item -> Nat] /\ \A i \in Item : debited'[i] = debited[i]
    BY <1>1 DEF IInv, TypeOK
  <1>7. ~Executed(x)
    BY <1>4 DEF Executed
  <1>8. QED BY <1>1, <1>4, <1>5, <1>6, <1>7, LedgerIInv

LEMMA LedgerFeeChangesIInv ==
    ASSUME IInv, NEW l \in Ledger, NEW f \in Fees, LedgerFeeChanges(l, f)
    PROVE  IInv'
  <1> USE DEF LedgerFeeChanges, canister
  <1>1. TypeOK'
    BY DEF IInv, TypeOK
  <1>2. DebitedOnce' /\ RecordAgreesWithLedger' /\ LockHeldByOneRun' /\ RemovedWhenSettled'
    BY DEF IInv, DebitedOnce, RecordAgreesWithLedger, LockHeldByOneRun, RemovedWhenSettled, Net
  <1>3. FlushLockExclusive' /\ TradesStoredInOrder' /\ NoLostWakeup' /\ CallerInv'
    BY DEF IInv, FlushLockExclusive, Updating, Flushing, TradesStoredInOrder, CanMove,
           NoLostWakeup, NoWork, CallerInv, NoCalls, NoUpdates
  <1>4. UnbornInv' /\ InFlightInv' /\ IdleInv' /\ UpdateInv'
    BY DEF IInv, UnbornInv, Unborn, Present, Logged, InFlightInv, InFlight, Executed, IdleInv,
           UpdateInv, Net
  <1>5. QED BY <1>1, <1>2, <1>3, <1>4 DEF IInv

(* The answer a of a storage canister is on its way.                       *)
LEMMA StorageIInv ==
    ASSUME IInv, NEW r \in Run, NEW w \in Void, NEW a \in {"applied", "rejected"},
           update[r][w] = "sent",
           UNCHANGED <<canister, transfer_fee, call, caller, proc, ledger_fee, debited>>,
           update' = [update EXCEPT ![r][w] = a],
           log_updated' = [log_updated EXCEPT ![w] = @ \/ a = "applied"]
    PROVE  IInv'
  <1> USE DEF canister
  <1>1. /\ update' \in [Run -> [Void -> Update]]
        /\ \A s \in Run, v \in Void : update'[s][v] = IF s = r /\ v = w THEN a ELSE update[s][v]
    BY DEF IInv, TypeOK, Update, UpdateWaiting
  <1>2. \A s \in Run, v \in Void : update'[s][v] # "none" <=> update[s][v] # "none"
    BY <1>1
  <1>3. /\ log_updated' \in [Void -> BOOLEAN]
        /\ \A v \in Void : log_updated'[v] <=> log_updated[v] \/ (v = w /\ a = "applied")
    BY DEF IInv, TypeOK
  <1>4. payout_data[w] # None
    BY DEF IInv, UpdateInv
  <1>5. TypeOK'
    BY <1>1, <1>3 DEF IInv, TypeOK
  <1>6. DebitedOnce' /\ RecordAgreesWithLedger' /\ LockHeldByOneRun' /\ TradesStoredInOrder' /\ NoLostWakeup'
    BY DEF IInv, DebitedOnce, RecordAgreesWithLedger, LockHeldByOneRun, Net, TradesStoredInOrder,
           CanMove, NoLostWakeup, NoWork
  <1>7. RemovedWhenSettled'
    BY <1>3, <1>4 DEF IInv, RemovedWhenSettled
  <1>8. FlushLockExclusive'
    <2>1. \A s \in Run : Updating(s)' <=> Updating(s)
      BY <1>2 DEF Updating
    <2>2. QED BY <2>1 DEF IInv, FlushLockExclusive, Flushing
  <1>9. UnbornInv' /\ InFlightInv' /\ IdleInv'
    BY DEF IInv, UnbornInv, Unborn, Present, Logged, InFlightInv, InFlight, Executed, IdleInv, Net
  <1>10. UpdateInv'
    <2>1. \A v \in Void : update_lock'[v] <=> \E s \in Run : update'[s][v] # "none"
      BY <1>2 DEF IInv, UpdateInv
    <2>2. ASSUME NEW s \in Run, NEW v \in Void, update'[s][v] # "none"
          PROVE  /\ v \in void_positions'
                 /\ payout_data'[v] # None
                 /\ update'[s][v] \in {"applied", "ok"} => log_updated'[v]
      <3>1. /\ v \in void_positions
            /\ payout_data[v] # None
            /\ update[s][v] \in {"applied", "ok"} => log_updated[v]
        BY <1>2, <2>2 DEF IInv, UpdateInv
      <3>2. CASE s = r /\ v = w BY <1>1, <1>3, <3>1, <3>2
      <3>3. CASE ~(s = r /\ v = w) BY <1>1, <1>3, <3>1, <3>3
      <3>4. QED BY <3>2, <3>3
    <2>3. \A v \in Void : update_status'[v] => log_updated'[v]
      BY <1>3 DEF IInv, UpdateInv
    <2>4. QED BY <2>1, <2>2, <2>3 DEF UpdateInv
  <1>11. CallerInv'
    <2>1. \A s \in Run : caller[s] = Nobody => s # r
      BY DEF IInv, CallerInv, NoUpdates
    <2>2. \A s \in Run : s # r => update'[s] = update[s]
      BY DEF IInv, TypeOK
    <2>3. QED BY <2>1, <2>2 DEF IInv, CallerInv, NoCalls, NoUpdates
  <1>12. QED BY <1>5, <1>6, <1>7, <1>8, <1>9, <1>10, <1>11 DEF IInv

LEMMA StorageStepIInv ==
    ASSUME IInv, NEW r \in Run, NEW w \in Void, StorageUpdates(r, w) \/ StorageRejects(r, w)
    PROVE  IInv'
  <1>1. log_updated \in [Void -> BOOLEAN]
    BY DEF IInv, TypeOK
  <1>2. CASE StorageUpdates(r, w)
    <2>1. log_updated' = [log_updated EXCEPT ![w] = @ \/ "applied" = "applied"]
      BY <1>1, <1>2 DEF StorageUpdates
    <2>2. QED BY <1>2, <2>1, StorageIInv DEF StorageUpdates
  <1>3. CASE StorageRejects(r, w)
    <2>1. log_updated' = [log_updated EXCEPT ![w] = @ \/ "rejected" = "applied"]
      BY <1>1, <1>3 DEF StorageRejects
    <2>2. QED BY <1>3, <2>1, StorageIInv DEF StorageRejects
  <1>4. QED BY <1>2, <1>3

-----------------------------------------------------------------------------
(* The front of the queue moves into the storage buffer.                   *)

(* The first n elements of l move to the end of b.                         *)
MovesFront(S, b, l, n) ==
    /\ b \o SubSeq(l, 1, n) \in Seq(S)
    /\ SubSeq(l, n + 1, Len(l)) \in Seq(S)
    /\ (b \o SubSeq(l, 1, n)) \o SubSeq(l, n + 1, Len(l)) = b \o l
    /\ Range(b \o SubSeq(l, 1, n)) = Range(b) \cup {l[k] : k \in 1 .. n}
    /\ Range(SubSeq(l, n + 1, Len(l))) = {l[k] : k \in n + 1 .. Len(l)}
    /\ Range(l) = {l[k] : k \in 1 .. Len(l)}

LEMMA MoveTrades ==
    ASSUME NEW S, NEW b \in Seq(S), NEW l \in Seq(S), NEW n \in 0 .. Len(l)
    PROVE  MovesFront(S, b, l, n)
  <1> DEFINE x == SubSeq(l, 1, n)
             y == SubSeq(l, n + 1, Len(l))
  <1>1. n \in Nat /\ n <= Len(l) /\ Len(l) \in Nat
    OBVIOUS
  <1>2. /\ x \in Seq(S) /\ Len(x) = n
        /\ \A k \in 1 .. n : x[k] = l[k]
    BY <1>1
  <1>3. /\ y \in Seq(S) /\ Len(y) = Len(l) - n
        /\ \A k \in 1 .. Len(l) - n : y[k] = l[n + k]
    BY <1>1
  <1>4. x \o y = l
    <2> DEFINE q == x \o y
    <2>1. x \in Seq(S) /\ y \in Seq(S)
      BY <1>2, <1>3
    <2>2. /\ q \in Seq(S) /\ Len(q) = Len(x) + Len(y)
          /\ \A k \in 1 .. Len(x) + Len(y) : q[k] = IF k <= Len(x) THEN x[k] ELSE y[k - Len(x)]
      BY <2>1, ConcatProperties, Zenon
    <2> HIDE DEF q
    <2>3. Len(x) + Len(y) = Len(l)
      <3>1. n + (Len(l) - n) = Len(l) BY <1>1
      <3>2. Len(x) = n /\ Len(y) = Len(l) - n BY <1>2, <1>3
      <3>3. QED BY <3>1, <3>2
    <2>4. ASSUME NEW k \in 1 .. Len(q) PROVE q[k] = l[k]
      <3>1. k \in 1 .. Len(l) /\ q[k] = IF k <= n THEN x[k] ELSE y[k - n]
        BY <1>2, <2>2, <2>3
      <3>2. CASE k <= n
        <4>1. k \in 1 .. n BY <3>1, <3>2
        <4>2. QED BY <1>2, <3>1, <3>2, <4>1
      <3>3. CASE ~(k <= n)
        <4>1. k - n \in 1 .. Len(l) - n /\ n + (k - n) = k BY <1>1, <3>1, <3>3
        <4>2. y[k - n] = l[k] BY <1>3, <4>1
        <4>3. QED BY <3>1, <3>3, <4>2
      <3>4. QED BY <3>2, <3>3
    <2>5. Len(q) = Len(l)
      BY <2>2, <2>3
    <2>6. q = l
      BY <2>2, <2>4, <2>5, SeqEqual, Zenon
    <2>7. QED BY <2>6 DEF q
  <1>5. b \o x \in Seq(S)
    BY <1>2, ConcatProperties
  <1>6. (b \o x) \o y = b \o l
    <2>1. b \in Seq(S) /\ x \in Seq(S) /\ y \in Seq(S)
      BY <1>2, <1>3
    <2> HIDE DEF x, y
    <2>2. b \o (x \o y) = (b \o x) \o y
      BY ONLY <2>1, ConcatAssociative, SMTT(30)
    <2>3. QED BY <1>4, <2>2
  <1>7. Range(x) = {l[k] : k \in 1 .. n}
    <2>1. Range(x) = {x[k] : k \in 1 .. n}
      BY <1>2, RangeEquality
    <2>2. \A k \in 1 .. n : x[k] = l[k]
      BY <1>2
    <2>3. QED BY <2>1, <2>2
  <1>8. Range(y) = {l[k] : k \in n + 1 .. Len(l)}
    <2>1. Range(y) = {y[k] : k \in 1 .. Len(l) - n}
      BY <1>3, RangeEquality
    <2>2. ASSUME NEW k \in n + 1 .. Len(l) PROVE l[k] \in {y[j] : j \in 1 .. Len(l) - n}
      <3>1. k - n \in 1 .. Len(l) - n /\ n + (k - n) = k BY <1>1
      <3>2. QED BY <1>3, <3>1
    <2>3. ASSUME NEW j \in 1 .. Len(l) - n PROVE y[j] \in {l[k] : k \in n + 1 .. Len(l)}
      <3>1. n + j \in n + 1 .. Len(l) BY <1>1
      <3>2. QED BY <1>3, <3>1
    <2>4. QED BY <2>1, <2>2, <2>3
  <1>9. Range(b \o x) = Range(b) \cup Range(x)
    BY <1>2, RangeConcatenation
  <1>10. Range(l) = {l[k] : k \in 1 .. Len(l)}
    BY RangeEquality
  <1>11. QED BY <1>3, <1>5, <1>6, <1>7, <1>8, <1>9, <1>10 DEF x, y, MovesFront

LEMMA SelfCallReturnsIInv ==
    ASSUME IInv, NEW p \in Proc, SelfCallReturns(p)
    PROVE  IInv'
  <1>1. PICK n \in 0 .. Len(trade_logs) :
            /\ \A k \in 1 .. n : CanMove(trade_logs[k])
            /\ trades_buffer' = trades_buffer \o SubSeq(trade_logs, 1, n)
            /\ trade_logs' = SubSeq(trade_logs, n + 1, Len(trade_logs))
    BY DEF SelfCallReturns, Moves
  <1>2. /\ proc[p] = "returned"
        /\ UNCHANGED <<positions, void_positions, trade_logs_id_counter, payout_lock, payout_data,
                       update_lock, update_status, transfer_fee, call, update, caller, ledger_fee,
                       debited, log_updated>>
    BY DEF SelfCallReturns
  <1>3. /\ proc' \in [Proc -> ProcState]
        /\ storage_flush_lock' \in BOOLEAN
        /\ \A q \in Proc : proc[q] = "running" => proc'[q] = "running"
        /\ \/ /\ storage_flush_lock' = storage_flush_lock
              /\ \A q \in Proc : Flushing(q)' <=> Flushing(q)
           \/ /\ ~storage_flush_lock /\ storage_flush_lock'
              /\ \A q \in Proc : Flushing(q)' <=> q = p
        /\ ~NoWork' => proc'[p] # "none"
    <2>1. proc \in [Proc -> ProcState] /\ storage_flush_lock \in BOOLEAN
      BY DEF IInv, TypeOK
    <2>2. ~storage_flush_lock => \A q \in Proc : ~Flushing(q)
      BY DEF IInv, FlushLockExclusive
    <2>3. CASE Reschedule(p) /\ UNCHANGED storage_flush_lock
      BY <1>2, <2>1, <2>3 DEF Reschedule, ProcState, Flushing
    <2>4. CASE proc' = [proc EXCEPT ![p] = "flushingTrades"] /\ UNCHANGED storage_flush_lock
      BY <1>2, <2>1, <2>4 DEF ProcState, Flushing
    <2>5. CASE /\ ~storage_flush_lock /\ storage_flush_lock' = TRUE
               /\ proc' = [proc EXCEPT ![p] = "flushingPositions"]
      BY <1>2, <2>1, <2>2, <2>5 DEF ProcState, Flushing
    <2>6. QED BY <2>3, <2>4, <2>5 DEF SelfCallReturns
  <1>4. /\ trades_buffer' \in Seq(Trade) /\ trade_logs' \in Seq(Trade)
        /\ trades_buffer' \o trade_logs' = trades_buffer \o trade_logs
        /\ Range(trades_buffer') = Range(trades_buffer) \cup {trade_logs[k] : k \in 1 .. n}
        /\ Logged' = {trade_logs[k] : k \in n + 1 .. Len(trade_logs)}
        /\ Logged = {trade_logs[k] : k \in 1 .. Len(trade_logs)}
    <2>1. trades_buffer \in Seq(Trade) /\ trade_logs \in Seq(Trade)
      BY DEF IInv, TypeOK
    <2>2. n \in 0 .. Len(trade_logs)
      OBVIOUS
    <2>3. MovesFront(Trade, trades_buffer, trade_logs, n)
      BY ONLY <2>1, <2>2, MoveTrades
    <2>4. QED BY <1>1, <2>3 DEF Logged, MovesFront
  <1>5. \A t \in Logged : t \in Logged' \/ CanMove(t)
    BY <1>1, <1>4
  <1>6. Logged' \subseteq Logged
    BY <1>4
  <1>7. TypeOK'
    BY <1>2, <1>3, <1>4 DEF IInv, TypeOK
  <1>8. FlushLockExclusive'
    <2>1. \A r \in Run : Updating(r)' <=> Updating(r)
      BY <1>2 DEF Updating
    <2>2. QED BY <1>3, <2>1 DEF IInv, FlushLockExclusive
  <1>9. DebitedOnce' /\ RecordAgreesWithLedger' /\ LockHeldByOneRun' /\ RemovedWhenSettled'
    BY <1>2 DEF IInv, DebitedOnce, RecordAgreesWithLedger, LockHeldByOneRun, RemovedWhenSettled, Net
  <1>10. IdleInv' /\ UpdateInv' /\ CallerInv'
    BY <1>2, <1>3, CallerStep DEF IInv, IdleInv, InFlight, UpdateInv
  <1>11. TradesStoredInOrder'
    <2>1. \A t : CanMove(t)' <=> CanMove(t)
      BY <1>2 DEF CanMove
    <2>2. \A t \in Range(trades_buffer') : CanMove(t)
      BY <1>1, <1>4 DEF IInv, TradesStoredInOrder, Range
    <2>3. QED BY <1>2, <1>4, <2>1, <2>2 DEF IInv, TradesStoredInOrder, Range
  <1>12. UnbornInv'
    BY <1>2, <1>6 DEF IInv, UnbornInv, Unborn, Present
  <1>13. InFlightInv'
    <2> SUFFICES ASSUME NEW r \in Run, NEW i \in Item, call[r][i] # None
                 PROVE  Present(i)'
      BY <1>2 DEF IInv, InFlightInv, InFlight, Executed, Net
    <2>1. Present(i) /\ payout_data[i] = None
      BY DEF IInv, InFlightInv, InFlight
    <2>2. CASE i \in Void
      BY <1>2, <2>1, <2>2 DEF Present
    <2>3. CASE i \notin Void
      <3>1. ~CanMove(i[2]) BY <2>1, <2>3, ItemFacts DEF CanMove
      <3>2. QED BY <1>5, <2>1, <2>3, <3>1 DEF Present
    <2>4. QED BY <2>2, <2>3
  <1>14. NoLostWakeup'
    BY <1>3 DEF NoLostWakeup
  <1>15. QED
    BY <1>7, <1>8, <1>9, <1>10, <1>11, <1>12, <1>13, <1>14 DEF IInv

-----------------------------------------------------------------------------
(* The theorems.                                                           *)

LEMMA StutterIInv == ASSUME IInv, UNCHANGED vars PROVE IInv'
  <1>1. NoLostWakeup'
    BY DEF IInv, NoLostWakeup, NoWork, vars, canister
  <1>2. proc' \in [Proc -> ProcState]
    BY DEF IInv, TypeOK, vars
  <1>3. QED BY <1>1, <1>2, ProcIInv DEF vars, Flushing

LEMMA NextIInv == ASSUME IInv, [Next]_vars PROVE IInv'
  <1>1. CASE UNCHANGED vars
    BY <1>1, StutterIInv
  <1>2. ASSUME NEW p \in Proc,
               \/ \E v \in Void : VoidPosition(v, p)
               \/ \E n \in 0 .. MaxTrades, filled \in SUBSET Void : MatchTrades(n, filled, p)
               \/ TimerFires(p) \/ SelfCallFails(p) \/ SelfCallReturns(p)
               \/ PositionsFlushed(p) \/ TradesFlushed(p)
               \/ Upgrade(p)
        PROVE  IInv'
    BY <1>2, VoidPositionIInv, MatchTradesIInv, TimerFiresIInv, SelfCallFailsIInv,
       SelfCallReturnsIInv, PositionsFlushedIInv, TradesFlushedIInv, UpgradeIInv
  <1>3. ASSUME NEW r \in Run,
               \/ \E w \in Proc \cup {Anyone}, buffered \in SUBSET Void : StartRun(r, w, buffered)
               \/ \E i \in Item : LedgerPays(r, i) \/ LedgerRefuses(r, i) \/ PayoutReply(r, i)
               \/ \E v \in Void : StorageUpdates(r, v) \/ StorageRejects(r, v) \/ UpdateReply(r, v)
        PROVE  IInv'
    BY <1>3, StartRunIInv, LedgerPaysIInv, LedgerRefusesIInv, PayoutReplyIInv, StorageStepIInv,
       UpdateReplyIInv
  <1>4. ASSUME NEW l \in Ledger, NEW f \in Fees, LedgerFeeChanges(l, f)
        PROVE  IInv'
    BY <1>4, LedgerFeeChangesIInv
  <1>5. QED BY <1>1, <1>2, <1>3, <1>4 DEF Next

(* Everything below holds in every state of the engine.                    *)
THEOREM Invariance == Spec => []IInv
  <1>1. Init => IInv
    BY InitIInv
  <1>2. IInv /\ [Next]_vars => IInv'
    BY NextIInv
  <1>3. QED BY <1>1, <1>2, PTL DEF Spec

(* The state keeps its types: the chunks, the locks, the records and the   *)
(* queue of trade logs, through every message and upgrade.                 *)
THEOREM TypeCorrect == Spec => []TypeOK
  <1>1. IInv => TypeOK
    BY DEF IInv
  <1>2. QED BY <1>1, Invariance, PTL

(* However many runs of the payouts overlap, fail and retry, a ledger      *)
(* takes the amount of a debt at most once, and takes it exactly.          *)
THEOREM PaidAtMostOnce == Spec => []DebitedOnce
  <1>1. IInv => DebitedOnce
    BY DEF IInv
  <1>2. QED BY <1>1, Invariance, PTL

(* The canister's record of a payout is what the ledger did.               *)
THEOREM RecordsAgree == Spec => []RecordAgreesWithLedger
  <1>1. IInv => RecordAgreesWithLedger
    BY DEF IInv
  <1>2. QED BY <1>1, Invariance, PTL

(* A debt is in the chunk of one run at a time, the updates of stored      *)
(* position logs and the flush of the position logs exclude each other,    *)
(* and no lock outlives its run or its flush.                              *)
THEOREM NoStuckLock == Spec => []LocksExact
  <1>1. IInv => LocksExact
    BY DEF IInv, LocksExact
  <1>2. QED BY <1>1, Invariance, PTL

(* A void position leaves the books only when it is settled and its stored *)
(* log is final.                                                           *)
THEOREM RemovalIsFinal == Spec => []RemovedWhenSettled
  <1>1. IInv => RemovedWhenSettled
    BY DEF IInv
  <1>2. QED BY <1>1, Invariance, PTL

(* The trade logs reach the storage settled, in order and without a gap.   *)
THEOREM StorageOrder == Spec => []TradesStoredInOrder
  <1>1. IInv => TradesStoredInOrder
    BY DEF IInv
  <1>2. QED BY <1>1, Invariance, PTL

(* A pending debt always has a timer or an activation of do_payouts.       *)
THEOREM Wakeup == Spec => []NoLostWakeup
  <1>1. IInv => NoLostWakeup
    BY DEF IInv
  <1>2. QED BY <1>1, Invariance, PTL

-----------------------------------------------------------------------------
(* The engine implements its promise.  What a message of a run does to the *)
(* debts: it goes on waiting with the futures c, or it records their       *)
(* outcomes and takes what is settled off the books.                       *)

RunEnds(r, c) ==
    /\ payout_data' = [i \in Item |-> IF i \in Handled(c) THEN Outcome(c[i]) ELSE payout_data[i]]
    /\ void_positions' \subseteq void_positions
    /\ call' = [call EXCEPT ![r] = NoCalls]
    /\ \A i \in Item : c[i] # None => c[i].st \in Ready

RunWaits(r, c) ==
    /\ UNCHANGED <<payout_data, void_positions>>
    /\ call' = [call EXCEPT ![r] = c]

RunMessage(r, c) ==
    /\ RunWaits(r, c) \/ RunEnds(r, c)
    /\ \A i \in Item : c[i] # None =>
         /\ c[i] \in Call
         /\ payout_data[i] = None
         /\ c[i].st = "dust" => c[i].fee >= Net(i)
    /\ UNCHANGED <<positions, trade_logs, trade_logs_id_counter, debited>>

LEMMA FinishEnds ==
    ASSUME NEW r, NEW w, NEW c, NEW u, Complete(c, u), Finish(r, w, c, u)
    PROVE  RunEnds(r, c)
  <1>1. void_positions' \subseteq void_positions
    BY DEF Finish
  <1>2. \A i \in Item : c[i] # None => c[i].st \in Ready
    BY DEF Complete
  <1>3. /\ payout_data' = [i \in Item |-> IF i \in Handled(c) THEN Outcome(c[i]) ELSE payout_data[i]]
        /\ call' = [call EXCEPT ![r] = NoCalls]
    BY DEF Finish
  <1>4. QED BY <1>1, <1>2, <1>3 DEF RunEnds

LEMMA ResumeMessage ==
    ASSUME NEW r, NEW c, NEW u, Resume(r, c, u)
    PROVE  RunWaits(r, c) \/ RunEnds(r, c)
  <1>1. CASE Complete(c, u)
    BY <1>1, FinishEnds DEF Resume
  <1>2. CASE ~Complete(c, u)
    BY <1>2 DEF Resume, Wait, RunWaits
  <1>3. QED BY <1>1, <1>2

LEMMA StartRunMessage ==
    ASSUME IInv, NEW r \in Run, NEW w, NEW buffered, StartRun(r, w, buffered)
    PROVE  \E c : RunMessage(r, c)
  <1> DEFINE c == [i \in Item |-> IF i \in PayoutsChunk THEN BeginPayout(i) ELSE None]
             u == [v \in Void |-> IF v \notin UpdatesChunk THEN "none"
                                  ELSE IF v \in buffered THEN "ok" ELSE "sent"]
  <1>1. /\ IF Complete(c, u)
           THEN Finish(r, w, c, u)
           ELSE Wait(r, c, u) /\ UNCHANGED <<void_positions, payout_data>>
        /\ UNCHANGED <<positions, trade_logs, trade_logs_id_counter, debited>>
    BY DEF StartRun
  <1>2. \A i \in Item : c[i] # None => i \in PayoutsChunk /\ c[i] = BeginPayout(i)
    OBVIOUS
  <1> HIDE DEF c, u
  <1>3. RunWaits(r, c) \/ RunEnds(r, c)
    <2>1. CASE Complete(c, u)
      BY <1>1, <2>1, FinishEnds
    <2>2. CASE ~Complete(c, u)
      BY <1>1, <2>2 DEF Wait, RunWaits
    <2>3. QED BY <2>1, <2>2
  <1>4. ASSUME NEW i \in Item, c[i] # None
        PROVE  /\ c[i] \in Call
               /\ payout_data[i] = None
               /\ c[i].st = "dust" => c[i].fee >= Net(i)
    <2>1. payout_data[i] = None
      BY <1>2, <1>4, PayoutsChunkFacts DEF Unpaid
    <2>2. BeginPayout(i) \in Call
      BY BeginPayoutFacts DEF IInv, TypeOK
    <2>3. BeginPayout(i).st = "dust" => BeginPayout(i).fee >= Net(i)
      BY DEF BeginPayout
    <2>4. QED BY <1>2, <1>4, <2>1, <2>2, <2>3
  <1>5. QED BY <1>1, <1>3, <1>4 DEF RunMessage

LEMMA PayoutReplyMessage ==
    ASSUME IInv, DustInv, NEW r \in Run, NEW j \in Item, PayoutReply(r, j)
    PROVE  \E c : RunMessage(r, c)
  <1> DEFINE st == IF call[r][j].st = "executed" THEN "transferred" ELSE "failed"
             c == [call[r] EXCEPT ![j].st = st]
  <1>1. /\ call[r][j] # None
        /\ Resume(r, c, update[r])
        /\ UNCHANGED <<positions, trade_logs, trade_logs_id_counter, debited>>
    BY DEF PayoutReply
  <1>2. call[r] \in [Item -> Call \cup {None}]
    BY DEF IInv, TypeOK
  <1>3. /\ c[j] \in Call /\ c[j].st # "dust"
        /\ \A i \in Item : i # j => c[i] = call[r][i]
    <2>1. c[j] = [call[r][j] EXCEPT !.st = st] /\ call[r][j] \in Call
      BY <1>1, <1>2
    <2>2. c[j] \in Call
      BY <2>1, CallFacts DEF Ready
    <2>3. c[j].st = st
      BY <2>1 DEF Call
    <2>4. \A i \in Item : i # j => c[i] = call[r][i]
      BY <1>2
    <2>5. QED BY <2>2, <2>3, <2>4
  <1> HIDE DEF c
  <1>4. RunWaits(r, c) \/ RunEnds(r, c)
    BY <1>1, ResumeMessage
  <1>5. ASSUME NEW i \in Item, c[i] # None
        PROVE  /\ c[i] \in Call
               /\ payout_data[i] = None
               /\ c[i].st = "dust" => c[i].fee >= Net(i)
    <2>1. InFlight(r, i)
      BY <1>1, <1>3, <1>5 DEF InFlight
    <2>2. payout_data[i] = None
      BY <2>1 DEF IInv, InFlightInv
    <2>3. CASE i = j
      BY <1>3, <2>2, <2>3
    <2>4. CASE i # j
      BY <1>2, <1>3, <1>5, <2>1, <2>2, <2>4 DEF DustInv
    <2>5. QED BY <2>3, <2>4
  <1>6. QED BY <1>1, <1>4, <1>5 DEF RunMessage

LEMMA UpdateReplyMessage ==
    ASSUME IInv, DustInv, NEW r \in Run, NEW v \in Void, UpdateReply(r, v)
    PROVE  \E c : RunMessage(r, c)
  <1>1. UNCHANGED <<positions, trade_logs, trade_logs_id_counter, debited>>
    BY DEF UpdateReply
  <1>2. RunWaits(r, call[r]) \/ RunEnds(r, call[r])
    BY ResumeMessage DEF UpdateReply
  <1>3. ASSUME NEW i \in Item, call[r][i] # None
        PROVE  /\ call[r][i] \in Call
               /\ payout_data[i] = None
               /\ call[r][i].st = "dust" => call[r][i].fee >= Net(i)
    BY <1>3 DEF IInv, TypeOK, InFlightInv, InFlight, DustInv
  <1>4. QED BY <1>1, <1>2, <1>3 DEF RunMessage

LEMMA OutcomeFacts ==
    ASSUME NEW c \in Call, c.st \in Ready
    PROVE  /\ Outcome(c) # None <=> c.st # "failed"
           /\ Outcome(c) # None /\ ~Outcome(c).did_transfer
              => c.st = "dust" /\ Outcome(c).ledger_transfer_fee = c.fee
  <1>1. c.fee \in Fees
    BY CallFacts
  <1>2. [did_transfer |-> c.st = "transferred", ledger_transfer_fee |-> c.fee] \in PayoutData
    BY <1>1 DEF PayoutData
  <1>3. [did_transfer |-> c.st = "transferred", ledger_transfer_fee |-> c.fee] # None
    BY <1>2, CallFacts
  <1>4. QED BY <1>3 DEF Outcome, Ready

LEMMA RunMessageDust ==
    ASSUME IInv, DustInv, NEW r \in Run, NEW c, RunMessage(r, c)
    PROVE  DustInv'
  <1>1. /\ call \in [Run -> [Item -> Call \cup {None}]]
        /\ \A i \in Item : Net(i)' = Net(i)
    BY DEF IInv, TypeOK, Net
  <1>2. CASE RunWaits(r, c)
    <2>1. ASSUME NEW s \in Run, NEW i \in Item, call'[s][i] # None, call'[s][i].st = "dust"
          PROVE  call'[s][i].fee >= Net(i)
      <3>1. CASE s = r
        BY <1>1, <1>2, <2>1, <3>1 DEF RunWaits, RunMessage
      <3>2. CASE s # r
        BY <1>1, <1>2, <2>1, <3>2 DEF RunWaits, DustInv, InFlight
      <3>3. QED BY <3>1, <3>2
    <2>2. \A i \in Item : payout_data'[i] = payout_data[i]
      BY <1>2 DEF RunWaits
    <2>3. QED BY <1>1, <2>1, <2>2 DEF DustInv, InFlight
  <1>3. CASE RunEnds(r, c)
    <2>1. ASSUME NEW s \in Run, NEW i \in Item, call'[s][i] # None
          PROVE  call'[s][i] = call[s][i]
      BY <1>1, <1>3, <2>1 DEF RunEnds, NoCalls
    <2>2. ASSUME NEW i \in Item, payout_data'[i] # None, ~payout_data'[i].did_transfer
          PROVE  payout_data'[i].ledger_transfer_fee >= Net(i)
      <3>1. CASE i \in Handled(c)
        <4>1. c[i] # None
          BY <3>1 DEF Handled
        <4>2. /\ c[i] \in Call /\ c[i].st \in Ready
              /\ c[i].st = "dust" => c[i].fee >= Net(i)
          BY <1>3, <4>1 DEF RunMessage, RunEnds
        <4>3. payout_data'[i] = Outcome(c[i])
          BY <1>3, <3>1 DEF RunEnds
        <4>4. QED BY <2>2, <4>2, <4>3, OutcomeFacts
      <3>2. CASE i \notin Handled(c)
        <4>1. payout_data'[i] = payout_data[i]
          BY <1>3, <3>2 DEF RunEnds
        <4>2. QED BY <2>2, <4>1 DEF DustInv
      <3>3. QED BY <3>1, <3>2
    <2>3. QED BY <1>1, <2>1, <2>2 DEF DustInv, InFlight
  <1>4. QED BY <1>2, <1>3 DEF RunMessage

LEMMA LedgerDust ==
    ASSUME IInv, DustInv, NEW r \in Run, NEW j \in Item, LedgerPays(r, j) \/ LedgerRefuses(r, j)
    PROVE  DustInv'
  <1>1. /\ call \in [Run -> [Item -> Call \cup {None}]]
        /\ call[r][j] \in Call
        /\ \A i \in Item : Net(i)' = Net(i)
    BY DEF IInv, TypeOK, Net, LedgerPays, LedgerRefuses
  <1>2. payout_data' = payout_data
    BY DEF LedgerPays, LedgerRefuses, canister
  <1>3. PICK x : call' = [call EXCEPT ![r][j] = x] /\ x.st # "dust"
    <2>1. CASE LedgerPays(r, j)
      <3>1. call' = [call EXCEPT ![r][j] = [call[r][j] EXCEPT !.st = "executed"]]
        BY <1>1, <2>1 DEF LedgerPays
      <3>2. [call[r][j] EXCEPT !.st = "executed"].st = "executed"
        BY <1>1 DEF Call
      <3>3. QED BY <3>1, <3>2
    <2>2. CASE LedgerRefuses(r, j)
      <3>1. CASE call' = [call EXCEPT ![r][j].st = "refused"]
        <4>1. call' = [call EXCEPT ![r][j] = [call[r][j] EXCEPT !.st = "refused"]]
          BY <1>1, <3>1
        <4>2. [call[r][j] EXCEPT !.st = "refused"].st = "refused"
          BY <1>1 DEF Call
        <4>3. QED BY <4>1, <4>2
      <3>2. CASE call' = [call EXCEPT ![r][j] = [st |-> "badFee", fee |-> ledger_fee[LedgerOf(j)]]]
        <4>1. [st |-> "badFee", fee |-> ledger_fee[LedgerOf(j)]].st = "badFee"
          OBVIOUS
        <4>2. QED BY <3>2, <4>1
      <3>3. QED BY <2>2, <3>1, <3>2 DEF LedgerRefuses
    <2>3. QED BY <2>1, <2>2
  <1>4. ASSUME NEW s \in Run, NEW i \in Item, call'[s][i].st = "dust"
        PROVE  call'[s][i] = call[s][i]
    <2>1. CASE s = r /\ i = j
      BY <1>1, <1>3, <1>4, <2>1
    <2>2. CASE ~(s = r /\ i = j)
      BY <1>1, <1>3, <2>2
    <2>3. QED BY <2>1, <2>2
  <1>5. QED BY <1>1, <1>2, <1>4 DEF DustInv, InFlight

LEMMA StillDust ==
    ASSUME DustInv, UNCHANGED <<call, payout_data>>
    PROVE  DustInv'
  <1>1. \A i \in Item : Net(i)' = Net(i)
    BY DEF Net
  <1>2. QED BY <1>1 DEF DustInv, InFlight

(* What the messages other than those of a run leave alone.                *)
LEMMA NextDust == ASSUME IInv, DustInv, [Next]_vars PROVE DustInv'
  <1>1. CASE UNCHANGED vars
    BY <1>1, StillDust DEF vars, canister
  <1>2. ASSUME NEW p \in Proc,
               \/ \E v \in Void : VoidPosition(v, p)
               \/ \E n \in 0 .. MaxTrades, filled \in SUBSET Void : MatchTrades(n, filled, p)
               \/ TimerFires(p) \/ SelfCallFails(p) \/ SelfCallReturns(p)
               \/ PositionsFlushed(p) \/ TradesFlushed(p)
               \/ Upgrade(p)
        PROVE  DustInv'
    <2>1. UNCHANGED <<call, payout_data>>
      BY <1>2 DEF VoidPosition, MatchTrades, TimerFires, SelfCallFails, SelfCallReturns,
                  PositionsFlushed, TradesFlushed, Upgrade, canister
    <2>2. QED BY <2>1, StillDust
  <1>3. ASSUME NEW r \in Run, NEW w \in Proc \cup {Anyone}, NEW buffered \in SUBSET Void,
               StartRun(r, w, buffered)
        PROVE  DustInv'
    BY <1>3, StartRunMessage, RunMessageDust
  <1>4. ASSUME NEW r \in Run, NEW i \in Item,
               LedgerPays(r, i) \/ LedgerRefuses(r, i) \/ PayoutReply(r, i)
        PROVE  DustInv'
    BY <1>4, LedgerDust, PayoutReplyMessage, RunMessageDust
  <1>5. ASSUME NEW r \in Run, NEW v \in Void,
               StorageUpdates(r, v) \/ StorageRejects(r, v) \/ UpdateReply(r, v)
        PROVE  DustInv'
    <2>1. CASE UpdateReply(r, v)
      BY <2>1, UpdateReplyMessage, RunMessageDust
    <2>2. CASE StorageUpdates(r, v) \/ StorageRejects(r, v)
      BY <2>2, StillDust DEF StorageUpdates, StorageRejects, canister
    <2>3. QED BY <1>5, <2>1, <2>2
  <1>6. ASSUME NEW l \in Ledger, NEW f \in Fees, LedgerFeeChanges(l, f)
        PROVE  DustInv'
    BY <1>6, StillDust DEF LedgerFeeChanges, canister
  <1>7. QED BY <1>1, <1>2, <1>3, <1>4, <1>5, <1>6 DEF Next

(* Where a debt is, in the states that the engine can be in: one that has  *)
(* left the books is settled.                                              *)
StatusIs(i) ==
    /\ Unborn(i) => ~Present(i) /\ payout_data[i] = None /\ debited[i] = 0
    /\ Status(i) = IF Unborn(i) THEN "none"
                   ELSE IF debited[i] # 0 THEN "paid"
                   ELSE IF payout_data[i] = None THEN "owed" ELSE "dust"
    /\ ~Unborn(i) /\ ~Present(i) => payout_data[i] # None

LEMMA InOrderHas ==
    ASSUME NEW b \in Seq(Trade), NEW l \in Seq(Trade), NEW c \in Nat, InOrder(b, l, c),
           NEW t \in Nat, t < c
    PROVE  (\E k \in DOMAIN b : b[k] = t) \/ t \in Range(l)
  <1> DEFINE k == t + 1
  <1>1. Len(b) \in Nat /\ Len(l) \in Nat /\ DOMAIN b = 1 .. Len(b) /\ DOMAIN l = 1 .. Len(l)
    OBVIOUS
  <1>2. /\ Len(b \o l) = Len(b) + Len(l)
        /\ DOMAIN (b \o l) = 1 .. Len(b \o l)
        /\ \A n \in 1 .. Len(b) + Len(l) :
              (b \o l)[n] = IF n <= Len(b) THEN b[n] ELSE l[n - Len(b)]
    BY ConcatProperties
  <1>3. DOMAIN (b \o l) = 1 .. c /\ (b \o l)[k] = t
    BY DEF InOrder
  <1>4. k \in 1 .. Len(b) + Len(l)
    BY <1>2, <1>3
  <1>5. CASE k <= Len(b)
    <2>1. k \in DOMAIN b /\ b[k] = t
      BY <1>1, <1>2, <1>3, <1>4, <1>5
    <2>2. QED BY <2>1
  <1>6. CASE ~(k <= Len(b))
    <2>1. k - Len(b) \in DOMAIN l
      BY <1>1, <1>4, <1>6
    <2>2. l[k - Len(b)] = t
      BY <1>2, <1>3, <1>4, <1>6
    <2>3. QED BY <2>1, <2>2 DEF Range
  <1>7. QED BY <1>5, <1>6

LEMMA ClosedIsSettled ==
    ASSUME IInv, NEW i \in Item, ~Unborn(i), ~Present(i)
    PROVE  payout_data[i] # None
  <1>1. CASE i \in Void
    BY <1>1 DEF IInv, RemovedWhenSettled, Unborn, Present
  <1>2. CASE i \notin Void
    <2>1. /\ i[2] \in Nat /\ i[2] < trade_logs_id_counter
          /\ i \in {<<"cyclesLeg", i[2]>>, <<"tokenLeg", i[2]>>}
          /\ i[2] \notin Range(trade_logs)
          /\ trade_logs_id_counter \in Nat
      BY <1>2, ItemFacts, PayoutsAssumption DEF Unborn, Present, Logged, Trade, IInv, TypeOK
    <2>2. InOrder(trades_buffer, trade_logs, trade_logs_id_counter)
      BY DEF IInv, TradesStoredInOrder, InOrder
    <2>3. PICK k \in DOMAIN trades_buffer : trades_buffer[k] = i[2]
      BY <2>1, <2>2, InOrderHas DEF IInv, TypeOK
    <2>4. CanMove(i[2])
      BY <2>3 DEF IInv, TradesStoredInOrder
    <2>5. QED BY <2>1, <2>4 DEF CanMove
  <1>3. QED BY <1>1, <1>2

LEMMA StatusFacts == IInv => \A i \in Item : StatusIs(i)
  <1> SUFFICES ASSUME IInv, NEW i \in Item PROVE StatusIs(i)
    OBVIOUS
  <1>1. Unborn(i) => ~Present(i) /\ payout_data[i] = None /\ debited[i] = 0
    BY DEF IInv, UnbornInv, IdleInv, InFlightInv
  <1>2. debited[i] # 0 => debited[i] = Net(i)
    BY DEF IInv, DebitedOnce
  <1>3. payout_data[i] # None /\ debited[i] = 0 => ~payout_data[i].did_transfer
    BY DEF IInv, RecordAgreesWithLedger
  <1>4. ~Unborn(i) /\ ~Present(i) => payout_data[i] # None
    BY ClosedIsSettled
  <1>5. Status(i) = IF Unborn(i) THEN "none"
                    ELSE IF debited[i] # 0 THEN "paid"
                    ELSE IF payout_data[i] = None THEN "owed" ELSE "dust"
    BY <1>1, <1>2, <1>3 DEF Status
  <1>6. QED BY <1>1, <1>4, <1>5 DEF StatusIs

LEMMA StatusFactsNext == IInv' => \A i \in Item : StatusIs(i)'
  <1>1. IInv' => (\A i \in Item : StatusIs(i))'
    BY StatusFacts, PTL
  <1>2. QED BY <1>1

(* A step that incurs debts, and does not touch the others.                *)
LEMMA IncurStep ==
    ASSUME IInv, IInv', UNCHANGED <<payout_data, debited>>,
           \A i \in Item : Unborn(i)' => Unborn(i),
           \A i \in Item : Unborn(i) /\ ~Unborn(i)' => Present(i)',
           \A i \in Item : ~Unborn(i) => (Present(i)' <=> Present(i))
    PROVE  Promise!Next
  <1> DEFINE D == {i \in Item : Unborn(i) /\ ~Unborn(i)'}
  <1>0. \A i \in Item : StatusIs(i) /\ StatusIs(i)'
    BY StatusFacts, StatusFactsNext
  <1>1. \A i \in Item : /\ i \in D => Status(i) = "none" /\ Status(i)' = "owed"
                        /\ i \notin D => Status(i)' = Status(i)
    BY <1>0 DEF StatusIs
  <1>2. Closed' = Closed
    <2>1. ASSUME NEW i \in Item
          PROVE  (Status(i)' # "none" /\ ~Present(i)') <=> (Status(i) # "none" /\ ~Present(i))
      BY <1>0 DEF StatusIs
    <2>2. QED BY <2>1 DEF Closed
  <1>3. D \in SUBSET Item
    OBVIOUS
  <1> HIDE DEF D
  <1>4. Promise!Incur(D)
    BY <1>1, <1>2, <1>3 DEF Promise!Incur
  <1>5. QED BY <1>3, <1>4 DEF Promise!Next

(* A step that records outcomes, and takes settled debts off the books.    *)
LEMMA SettleStep ==
    ASSUME IInv, IInv', DustInv', debited' = debited,
           \A i \in Item : Unborn(i)' <=> Unborn(i),
           \A i \in Item : Present(i)' => Present(i),
           \A i \in Item : payout_data[i] # None => payout_data'[i] # None
    PROVE  Promise!Next
  <1> DEFINE D == {i \in Item : Status(i) = "owed" /\ Status(i)' = "dust"}
  <1>0. \A i \in Item : StatusIs(i) /\ StatusIs(i)'
    BY StatusFacts, StatusFactsNext
  <1>1. \A i \in Item : i \notin D => Status(i)' = Status(i)
    BY <1>0 DEF StatusIs
  <1>2. ASSUME NEW i \in D PROVE \E f \in Fees : f >= Net(i)
    <2>1. i \in Item /\ payout_data'[i] # None /\ debited'[i] = 0
      BY <1>0 DEF StatusIs
    <2>2. ~payout_data'[i].did_transfer
      BY <2>1 DEF IInv, RecordAgreesWithLedger
    <2>3. payout_data'[i].ledger_transfer_fee >= Net(i)
      BY <2>1, <2>2 DEF DustInv, Net
    <2>4. payout_data'[i].ledger_transfer_fee \in Fees
      BY <2>1 DEF IInv, TypeOK, PayoutData
    <2>5. QED BY <2>3, <2>4
  <1>3. Closed' = Closed \cup Closed' /\ Closed' \in SUBSET Item
    <2>1. Closed \subseteq Closed'
      BY <1>0 DEF Closed, StatusIs
    <2>2. QED BY <2>1 DEF Closed
  <1>4. \A i \in Closed' : i \in Item /\ Status(i)' \in {"paid", "dust"}
    BY <1>0 DEF Closed, StatusIs
  <1>5. D \in SUBSET Item /\ \A i \in D : Status(i) = "owed" /\ Status(i)' = "dust"
    OBVIOUS
  <1> HIDE DEF D
  <1>6. Promise!Settle(D, Closed')
    BY <1>1, <1>2, <1>3, <1>4, <1>5 DEF Promise!Settle, Promise!Settled
  <1>7. QED BY <1>3, <1>5, <1>6 DEF Promise!Next

LEMMA PromiseKept ==
    ASSUME UNCHANGED <<positions, void_positions, trade_logs, trade_logs_id_counter, payout_data,
                       debited>>
    PROVE  UNCHANGED Promise!vars
  <1>1. \A i \in Item : /\ Unborn(i)' = Unborn(i) /\ Present(i)' = Present(i)
                        /\ Status(i)' = Status(i)
    BY DEF Unborn, Present, Logged, Status, Net
  <1>2. Closed' = Closed
    BY <1>1 DEF Closed
  <1>3. QED BY <1>1, <1>2 DEF Promise!vars

LEMMA VoidPositionPromise ==
    ASSUME IInv, IInv', NEW v \in Void, NEW p \in Proc, VoidPosition(v, p)
    PROVE  Promise!Next
  <1>1. /\ v \in positions
        /\ positions' = positions \ {v}
        /\ void_positions' = void_positions \cup {v}
        /\ UNCHANGED <<trade_logs, trade_logs_id_counter, payout_data, debited>>
    BY DEF VoidPosition
  <1>2. \A i \in Item : /\ Unborn(i)' => Unborn(i)
                        /\ Unborn(i) /\ ~Unborn(i)' => Present(i)'
                        /\ ~Unborn(i) => (Present(i)' <=> Present(i))
    BY <1>1 DEF Unborn, Present, Logged
  <1>3. QED BY <1>1, <1>2, IncurStep

LEMMA MatchTradesPromise ==
    ASSUME IInv, IInv', NEW n \in 0 .. MaxTrades, NEW filled \in SUBSET Void, NEW p \in Proc,
           MatchTrades(n, filled, p)
    PROVE  Promise!Next
  <1>1. /\ filled \subseteq positions
        /\ positions' = positions \ filled
        /\ void_positions' = void_positions \cup filled
        /\ trade_logs' = trade_logs \o NextIds(n)
        /\ trade_logs_id_counter' = trade_logs_id_counter + n
        /\ trade_logs_id_counter + n <= MaxTrades
        /\ UNCHANGED <<payout_data, debited>>
    BY DEF MatchTrades
  <1>2. /\ trade_logs \in Seq(Trade) /\ trade_logs_id_counter \in Nat /\ n \in Nat
        /\ NextIds(n) \in Seq(Nat) /\ Len(NextIds(n)) = n
        /\ \A k \in 1 .. n : NextIds(n)[k] = trade_logs_id_counter + k - 1
    BY PayoutsAssumption DEF IInv, TypeOK, NextIds
  <1>3. ASSUME NEW t \in Trade
        PROVE  t \in Range(trade_logs')
               <=> t \in Range(trade_logs)
                   \/ t \in trade_logs_id_counter .. trade_logs_id_counter + n - 1
    <2>1. /\ trade_logs \in Seq(Nat)
          /\ Len(trade_logs) \in Nat
          /\ DOMAIN trade_logs = 1 .. Len(trade_logs)
      BY <1>2, PayoutsAssumption DEF Trade
    <2>2. /\ DOMAIN trade_logs' = 1 .. Len(trade_logs) + n
          /\ \A k \in 1 .. Len(trade_logs) + n :
                trade_logs'[k] = IF k <= Len(trade_logs) THEN trade_logs[k]
                                 ELSE NextIds(n)[k - Len(trade_logs)]
      BY <1>1, <1>2, <2>1, ConcatProperties
    <2>3. t \in Nat
      BY PayoutsAssumption DEF Trade
    <2>4. ASSUME NEW k \in DOMAIN trade_logs', trade_logs'[k] = t
          PROVE  t \in Range(trade_logs)
                 \/ t \in trade_logs_id_counter .. trade_logs_id_counter + n - 1
      <3>1. CASE k <= Len(trade_logs)
        BY <2>1, <2>2, <2>4, <3>1 DEF Range
      <3>2. CASE ~(k <= Len(trade_logs))
        <4>1. k - Len(trade_logs) \in 1 .. n
          BY <1>2, <2>1, <2>2, <3>2
        <4>2. t = trade_logs_id_counter + (k - Len(trade_logs)) - 1
          BY <1>2, <2>2, <2>4, <3>2, <4>1
        <4>3. QED BY <1>2, <4>1, <4>2
      <3>3. QED BY <3>1, <3>2
    <2>5. ASSUME t \in Range(trade_logs) PROVE t \in Range(trade_logs')
      <3>1. PICK k \in DOMAIN trade_logs : trade_logs[k] = t
        BY <2>5 DEF Range
      <3>2. k \in 1 .. Len(trade_logs) + n /\ trade_logs'[k] = t
        BY <1>2, <2>1, <2>2, <3>1
      <3>3. QED BY <2>2, <3>2 DEF Range
    <2>6. ASSUME t \in trade_logs_id_counter .. trade_logs_id_counter + n - 1
          PROVE  t \in Range(trade_logs')
      <3> DEFINE k == Len(trade_logs) + (t - trade_logs_id_counter) + 1
      <3>1. k \in 1 .. Len(trade_logs) + n /\ ~(k <= Len(trade_logs))
        BY <1>2, <2>1, <2>3, <2>6
      <3>2. k - Len(trade_logs) \in 1 .. n /\ trade_logs_id_counter + (k - Len(trade_logs)) - 1 = t
        BY <1>2, <2>1, <2>3, <2>6
      <3>3. trade_logs'[k] = t
        BY <1>2, <2>2, <3>1, <3>2
      <3>4. QED BY <2>2, <3>1, <3>3 DEF Range
    <2>7. QED BY <2>2, <2>4, <2>5, <2>6 DEF Range
  <1>4. \A i \in Item : /\ Unborn(i)' => Unborn(i)
                        /\ Unborn(i) /\ ~Unborn(i)' => Present(i)'
                        /\ ~Unborn(i) => (Present(i)' <=> Present(i))
    <2>1. ASSUME NEW i \in Void
          PROVE  /\ Unborn(i)' => Unborn(i)
                 /\ Unborn(i) /\ ~Unborn(i)' => Present(i)'
                 /\ ~Unborn(i) => (Present(i)' <=> Present(i))
      BY <1>1 DEF Unborn, Present
    <2>2. ASSUME NEW i \in Item, i \notin Void
          PROVE  /\ Unborn(i)' => Unborn(i)
                 /\ Unborn(i) /\ ~Unborn(i)' => Present(i)'
                 /\ ~Unborn(i) => (Present(i)' <=> Present(i))
      <3>1. i[2] \in Trade /\ i[2] \in Nat
        BY <2>2, ItemFacts, PayoutsAssumption DEF Trade
      <3>2. i[2] \in Range(trade_logs')
            <=> i[2] \in Range(trade_logs)
                \/ i[2] \in trade_logs_id_counter .. trade_logs_id_counter + n - 1
        BY <1>3, <3>1
      <3>3. /\ Unborn(i) <=> i[2] >= trade_logs_id_counter
            /\ Unborn(i)' <=> i[2] >= trade_logs_id_counter + n
            /\ Present(i) <=> i[2] \in Range(trade_logs)
            /\ Present(i)' <=> i[2] \in Range(trade_logs')
        BY <1>1, <2>2 DEF Unborn, Present, Logged
      <3>4. QED BY <1>2, <3>1, <3>2, <3>3
    <2>3. QED BY <2>1, <2>2
  <1>5. QED BY <1>1, <1>4, IncurStep

LEMMA SelfCallReturnsPromise ==
    ASSUME IInv, IInv', DustInv', NEW p \in Proc, SelfCallReturns(p)
    PROVE  Promise!Next
  <1>1. PICK n \in 0 .. Len(trade_logs) : trade_logs' = SubSeq(trade_logs, n + 1, Len(trade_logs))
    BY DEF SelfCallReturns
  <1>2. UNCHANGED <<positions, void_positions, trade_logs_id_counter, payout_data, debited>>
    BY DEF SelfCallReturns
  <1>3. trade_logs \in Seq(Trade) /\ Len(trade_logs) \in Nat
    BY DEF IInv, TypeOK
  <1>4. Range(trade_logs') \subseteq Range(trade_logs)
    <2>1. ASSUME NEW k \in DOMAIN trade_logs'
          PROVE  n + k \in DOMAIN trade_logs /\ trade_logs'[k] = trade_logs[n + k]
      BY <1>1, <1>3
    <2>2. QED BY <2>1 DEF Range
  <1>5. \A i \in Item : (Unborn(i)' <=> Unborn(i)) /\ (Present(i)' => Present(i))
    BY <1>2, <1>4 DEF Unborn, Present, Logged
  <1>6. QED BY <1>2, <1>5, SettleStep

LEMMA RunMessagePromise ==
    ASSUME IInv, IInv', DustInv', NEW r \in Run, NEW c, RunMessage(r, c)
    PROVE  Promise!Next
  <1>1. /\ UNCHANGED <<positions, trade_logs, trade_logs_id_counter, debited>>
        /\ void_positions' \subseteq void_positions
    BY DEF RunMessage, RunWaits, RunEnds
  <1>2. \A i \in Item : (Unborn(i)' <=> Unborn(i)) /\ (Present(i)' => Present(i))
    BY <1>1 DEF Unborn, Present, Logged
  <1>3. ASSUME NEW i \in Item, payout_data[i] # None PROVE payout_data'[i] = payout_data[i]
    <2>1. i \notin Handled(c)
      BY <1>3 DEF RunMessage, Handled
    <2>2. QED BY <2>1 DEF RunMessage, RunWaits, RunEnds
  <1>4. QED BY <1>1, <1>2, <1>3, SettleStep

LEMMA LedgerPaysPromise ==
    ASSUME IInv, IInv', NEW r \in Run, NEW j \in Item, LedgerPays(r, j)
    PROVE  Promise!Next
  <1>1. /\ call[r][j] # None /\ call[r][j].st = "sent"
        /\ call[r][j].fee = ledger_fee[LedgerOf(j)]
        /\ debited' = [debited EXCEPT ![j] = @ + (Net(j) - call[r][j].fee) + ledger_fee[LedgerOf(j)]]
        /\ UNCHANGED <<positions, void_positions, trade_logs, trade_logs_id_counter, payout_data>>
    BY DEF LedgerPays, canister
  <1>2. /\ Present(j) /\ payout_data[j] = None /\ debited[j] = 0
        /\ call[r][j].fee < Net(j)
    BY <1>1 DEF IInv, InFlightInv, InFlight, Executed
  <1>3. call[r][j] \in Call /\ debited \in [Item -> Nat]
    BY <1>1 DEF IInv, TypeOK
  <1>4. call[r][j].fee \in Nat /\ Net(j) \in Nat
    BY <1>3, CallFacts, NetType, PayoutsAssumption
  <1>5. debited'[j] # 0 /\ \A i \in Item : i # j => debited'[i] = debited[i]
    BY <1>1, <1>2, <1>3, <1>4
  <1>6. \A i \in Item : Unborn(i)' = Unborn(i) /\ Present(i)' = Present(i)
    BY <1>1 DEF Unborn, Present, Logged
  <1>7. \A i \in Item : StatusIs(i) /\ StatusIs(i)'
    BY StatusFacts, StatusFactsNext
  <1>8. /\ Status(j) = "owed" /\ Status(j)' = "paid"
        /\ \A i \in Item : i # j => Status(i)' = Status(i)
    BY <1>1, <1>2, <1>5, <1>6, <1>7 DEF StatusIs
  <1>9. Closed' = Closed
    BY <1>2, <1>6, <1>8 DEF Closed
  <1>10. Promise!Pay(j)
    BY <1>8, <1>9 DEF Promise!Pay
  <1>11. QED BY <1>10 DEF Promise!Next

LEMMA NextPromise ==
    ASSUME IInv, IInv', DustInv, DustInv', [Next]_vars
    PROVE  [Promise!Next]_(Promise!vars)
  <1>1. CASE UNCHANGED vars
    BY <1>1, PromiseKept DEF vars, canister
  <1>2. ASSUME NEW p \in Proc,
               TimerFires(p) \/ SelfCallFails(p) \/ PositionsFlushed(p) \/ TradesFlushed(p) \/ Upgrade(p)
        PROVE  UNCHANGED Promise!vars
    <2>1. UNCHANGED <<positions, void_positions, trade_logs, trade_logs_id_counter, payout_data,
                      debited>>
      BY <1>2 DEF TimerFires, SelfCallFails, PositionsFlushed, TradesFlushed, Upgrade, canister
    <2>2. QED BY <2>1, PromiseKept
  <1>3. ASSUME NEW p \in Proc,
               \/ \E v \in Void : VoidPosition(v, p)
               \/ \E n \in 0 .. MaxTrades, filled \in SUBSET Void : MatchTrades(n, filled, p)
               \/ SelfCallReturns(p)
        PROVE  Promise!Next
    BY <1>3, VoidPositionPromise, MatchTradesPromise, SelfCallReturnsPromise
  <1>4. ASSUME NEW r \in Run, NEW w \in Proc \cup {Anyone}, NEW buffered \in SUBSET Void,
               StartRun(r, w, buffered)
        PROVE  Promise!Next
    BY <1>4, StartRunMessage, RunMessagePromise
  <1>5. ASSUME NEW r \in Run, NEW i \in Item, LedgerPays(r, i) \/ PayoutReply(r, i)
        PROVE  Promise!Next
    BY <1>5, LedgerPaysPromise, PayoutReplyMessage, RunMessagePromise
  <1>6. ASSUME NEW r \in Run, NEW v \in Void, UpdateReply(r, v)
        PROVE  Promise!Next
    BY <1>6, UpdateReplyMessage, RunMessagePromise
  <1>7. ASSUME NEW r \in Run,
               \/ \E i \in Item : LedgerRefuses(r, i)
               \/ \E v \in Void : StorageUpdates(r, v) \/ StorageRejects(r, v)
        PROVE  UNCHANGED Promise!vars
    <2>1. UNCHANGED <<positions, void_positions, trade_logs, trade_logs_id_counter, payout_data,
                      debited>>
      BY <1>7 DEF LedgerRefuses, StorageUpdates, StorageRejects, canister
    <2>2. QED BY <2>1, PromiseKept
  <1>8. ASSUME NEW l \in Ledger, NEW f \in Fees, LedgerFeeChanges(l, f)
        PROVE  UNCHANGED Promise!vars
    BY <1>8, PromiseKept DEF LedgerFeeChanges, canister
  <1>9. QED BY <1>1, <1>2, <1>3, <1>4, <1>5, <1>6, <1>7, <1>8 DEF Next

(* Through overlapping runs, retries, changing fees and upgrades, a debt   *)
(* is incurred once, paid once or written off because a fee eats it up,    *)
(* and leaves the books only then: the engine implements Obligations.      *)
THEOREM PayoutsImplementPromise == Spec => ImplementsPromise
  <1>1. Init => IInv /\ DustInv /\ Promise!Init
    <2> SUFFICES ASSUME Init PROVE IInv /\ DustInv /\ Promise!Init
      OBVIOUS
    <2>1. DustInv
      BY DEF Init, DustInv, InFlight, NoCalls
    <2>2. \A i \in Item : Unborn(i)
      BY ItemFacts, PayoutsAssumption DEF Init, Unborn, Trade
    <2>3. [i \in Item |-> Status(i)] = [i \in Item |-> "none"] /\ Closed = {}
      BY <2>2 DEF Status, Closed
    <2>4. QED BY <2>1, <2>3, InitIInv DEF Promise!Init
  <1>2. IInv /\ DustInv /\ [Next]_vars => IInv' /\ DustInv' /\ [Promise!Next]_(Promise!vars)
    BY NextIInv, NextDust, NextPromise
  <1>3. QED BY <1>1, <1>2, PTL DEF Spec, ImplementsPromise, Promise!Spec

=============================================================================
