------------------------------ MODULE LogViews ------------------------------
(***************************************************************************)
(* The views of a log storage.  A reader pages backwards through the logs: *)
(* first the trades that are not settled yet and the buffer on the trade   *)
(* contract, then the storage canisters of the list, each time asking for  *)
(* the logs before the first one of the last answer.  Flushes go on        *)
(* between two pages and while a flush is under way its logs are on both   *)
(* sides.                                                                  *)
(***************************************************************************)
EXTENDS LogStorage

CONSTANTS
    PageSize,    \* MAX_LATEST_TRADE_LOGS_SPONSE_TRADE_DATA
    MaxPending   \* bound: trades that are not in the buffer yet

ASSUME LogViewsAssumption == PageSize \in Nat \ {0} /\ MaxPending \in Nat

Least(a, b) == IF a < b THEN a ELSE b

(* The last n elements of a sequence.                                      *)
LastN(s, n) == SubSeq(s, Len(s) - Least(n, Len(s)) + 1, Len(s))
Ids(logs) == [j \in DOMAIN logs |-> logs[j].id]

(* How many of n logs whose first id is first are before an id, checked_sub *)
(* and unwrap_or(0) for an id that is before them all.                     *)
TillCount(before, first, n) ==
    IF before = None THEN n ELSE IF before <= first THEN 0 ELSE Least(before - first, n)

(* view_storage_logs_: the newest max_logs of the buffer, with a key.      *)
ViewStorageLogs(before, keys, max_logs) ==
    IF storage_buffer = <<>> THEN <<>>
    ELSE LET till == TillCount(before, storage_buffer[1].id, Len(storage_buffer))
         IN LastN(SelectSeq(SubSeq(storage_buffer, 1, till),
                            LAMBDA log : KeysOf(log.id) \cap keys # {}), max_logs)

(* view_latest_trades of the trade contract, where trade_logs are the ids  *)
(* of the trades that are not settled: they follow those of the buffer.    *)
Pending(trade_logs, before) == SelectSeq(trade_logs, LAMBDA id : before = None \/ id < before)

BeforeThePending(pending, before) == \* mutant: the whole page again from the buffer
    Ids(ViewStorageLogs(before, Key, PageSize))
FromTheBuffer(pending, before) == Ids(ViewStorageLogs(before, Key, PageSize - Len(pending)))

LatestTrades(trade_logs, before) ==
    LET pending == LastN(Pending(trade_logs, before), PageSize)
        trades == IF Len(pending) < PageSize THEN FromTheBuffer(pending, before) \o pending ELSE pending
        first == IF storage_buffer # <<>> THEN storage_buffer[1].id
                 ELSE IF trade_logs # <<>> THEN trade_logs[1] ELSE None
    IN [trades_data |-> trades,
        is_last_chunk_on_this_canister |-> trades = <<>> \/ trades[1] = first]

(* view_latest_trades of a storage canister.                               *)
LatestTradesOn(c, before) ==
    LET till == TillCount(before, first_log_id[c], Len(stored[c]))
        trades == Ids(LastN(SubSeq(stored[c], 1, till), PageSize))
    IN [trades_data |-> trades,
        is_last_chunk_on_this_canister |-> trades = <<>> \/ trades[1] = first_log_id[c]]

(* map_logs_rchunks of a storage canister: the ids before one by the index, *)
(* the logs by their place in the stable memory.                           *)
MapLogsRchunk(c, key, before, chunk_size) ==
    LET ids == LastN(SelectSeq(map[c][key], LAMBDA id : before = None \/ id < before), chunk_size)
    IN [j \in DOMAIN ids |-> stored[c][Place(c, ids[j])]]

(* view_log_storage_canisters_                                             *)
ViewStorageCanisters == [k \in DOMAIN storage_canisters |->
    [first_log_id |-> storage_canisters[k].first_log_id, length |-> storage_canisters[k].length,
     canister_id |-> storage_canisters[k].canister_id]]

-----------------------------------------------------------------------------
(* Properties.                                                             *)

(* A page of the latest trades, from the trade contract or from a storage  *)
(* canister, goes on exactly where the reader is, in order, and is no      *)
(* longer than an answer may be.                                           *)
GoesOn(page, before) ==
    LET ids == page.trades_data
    IN ids = [j \in DOMAIN ids |-> before - Len(ids) + j - 1] /\ Len(ids) <= PageSize

(* Wherever a reader of the trades is, and whatever flush is under way,    *)
(* the next page goes on with the trade before the last one he has read:   *)
(* it is on the trade contract, or the contract says that it has none      *)
(* before it and the storage canister that is listed for it has it.  So no *)
(* sequence of pages skips a trade or gives one twice.                     *)
TradePagesGoOn ==
    \A n \in 0 .. MaxPending :
    LET trade_logs == [j \in 1 .. n |-> id_counter + j - 1]
    IN \A before \in 1 .. id_counter + n :
        LET page == LatestTrades(trade_logs, before)
        IN /\ GoesOn(page, before)
           /\ page.is_last_chunk_on_this_canister
                <=> page.trades_data = <<>>
                    \/ LatestTrades(trade_logs, page.trades_data[1]).trades_data = <<>>
           /\ before = id_counter + n => page = LatestTrades(trade_logs, None)
           /\ page.trades_data = <<>> =>
                 \E k \in DOMAIN ViewStorageCanisters :
                    LET sc == ViewStorageCanisters[k]
                        stored_page == LatestTradesOn(sc.canister_id, before)
                    IN /\ before - 1 \in sc.first_log_id .. sc.first_log_id + sc.length - 1
                       /\ stored_page.trades_data # <<>> /\ GoesOn(stored_page, before)
                       /\ stored_page.is_last_chunk_on_this_canister
                            <=> stored_page.trades_data[1] = sc.first_log_id

(* The pages of one positor, or of one position: what a storage canister   *)
(* answers by its index, and the contract from its buffer, are the newest  *)
(* logs with that key before the reader's place, each in its last version, *)
(* and none of the logs that the list says are there is missing.           *)
IndexPagesComplete ==
    \A key \in Key, before \in 1 .. id_counter :
        LET WithKey(ids) == {id \in ids : id < before /\ key \in Range(IndexKeys[id])}
            Newest(S, n) == {id \in S : Cardinality({j \in S : j > id}) < n}
        IN /\ \A k \in DOMAIN storage_canisters :
                 LET sc == storage_canisters[k]
                     held == {id \in LogId : Found(sc.canister_id, id)}
                     page == MapLogsRchunk(sc.canister_id, key, before, PageSize)
                 IN /\ Range(Ids(page)) = Newest(WithKey(held), PageSize)
                    /\ Len(page) = Cardinality(Range(Ids(page)))
                    /\ \A j \in DOMAIN page : page[j].id < BufferFirstId => page[j] = RecordOf(page[j].id)
           /\ LET page == ViewStorageLogs(before, {key}, PageSize)
              IN /\ Range(Ids(page)) = Newest(WithKey(BufferFirstId .. id_counter - 1), PageSize)
                 /\ \A j \in DOMAIN page : page[j] = RecordOf(page[j].id)

(* The pages by id and the pages by key are both complete.                 *)
LogPagesComplete == TradePagesGoOn /\ IndexPagesComplete
=============================================================================
