--------------------------- MODULE MCTradeHistory ---------------------------
(***************************************************************************)
(* What a trade contract derives from the trades that it makes one after   *)
(* another: the candles.  The history of the trades is kept to compare     *)
(* with.                                                                   *)
(***************************************************************************)
EXTENDS Candles, TLC, FiniteSetsExt

CONSTANTS
    TradeCycles,  \* bound: the sizes of the trades
    Rates,        \* bound: their rates
    Steps,        \* bound: the times between one trade and the next
    MaxTrades,    \* bound: the number of trades
    Window        \* the length of the window of the volume statistics

VARIABLE trades

vars == <<candle_counter, trades>>

Init == CandlesInit /\ trades = <<>>

Now == IF trades = <<>> THEN 0 ELSE Last(trades).time

Trade(cycles, rate, step) ==
    LET trade == [time |-> Now + step, cycles |-> cycles, tokens |-> cycles \div rate, rate |-> rate]
    IN /\ Len(trades) < MaxTrades
       /\ trades' = Append(trades, trade)
       /\ CountTrade(trade)

Next == \E cycles \in TradeCycles, rate \in Rates, step \in Steps : Trade(cycles, rate, step)

Spec == Init /\ [][Next]_vars

-----------------------------------------------------------------------------
(* Properties.                                                             *)

TotalCycles(S) == Lower(MaxAmount, MapThenSumSet(LAMBDA i : trades[i].cycles, S))
TotalTokens(S) == Lower(MaxAmount, MapThenSumSet(LAMBDA i : trades[i].tokens, S))

(* count_trade keeps one candle for each segment with a trade, in order,   *)
(* and each is the summary of the trades of its segment, however the       *)
(* trades fall on the segments' borders; volumes saturate.                 *)
CandlesSummarizeTrades ==
    LET In(start) == {i \in DOMAIN trades : start <= trades[i].time /\ trades[i].time < start + SegmentLength}
    IN /\ \A i \in DOMAIN trades : \E k \in DOMAIN segments : i \in In(segments[k].time)
       /\ \A k \in DOMAIN segments :
             LET S == In(segments[k].time)
                 rates == {trades[i].rate : i \in S}
             IN /\ S # {} /\ (k > 1 => segments[k - 1].time < segments[k].time)
                /\ segments[k] = [time |-> segments[k].time,
                       cycles |-> TotalCycles(S), tokens |-> TotalTokens(S),
                       open |-> trades[Min(S)].rate, high |-> Max(rates), low |-> Min(rates),
                       close |-> trades[Max(S)].rate]
       /\ volume_cycles = TotalCycles(DOMAIN trades) /\ volume_tokens = TotalTokens(DOMAIN trades)

(* Whoever asks for the latest candles, and then for those before the      *)
(* first one of the last answer until is_earliest_chunk, gets every candle *)
(* once, whatever time within a segment the next page is asked from.       *)
CandlePagesCover ==
    LET following(page, within) == CreateCandles(page.candles[1].time + within)
        pages(within) ==
            LET all[n \in 0 .. MaxTrades] ==   \* the pages from the n-th on
                    IF n = 0 THEN <<LatestCandles>>
                    ELSE IF Last(all[n - 1]).is_earliest_chunk THEN all[n - 1]
                    ELSE Append(all[n - 1], following(Last(all[n - 1]), within))
            IN all[MaxTrades]
    IN \A within \in 0 .. SegmentLength - 1 :
          LET answers == pages(within)
          IN /\ Last(answers).is_earliest_chunk
             /\ FlattenSeq([i \in DOMAIN answers |-> answers[Len(answers) + 1 - i].candles]) = segments

(* The candles and their pages together are the history of the trades.     *)
CandlesTellTheTrades == CandlesSummarizeTrades /\ CandlePagesCover

(* The volume of a window is that of the trades in the segments that start *)
(* in the window: at most the trades of the segment that the window starts *)
(* in are left out, and none from before it are counted.                   *)
VolumeOfWindow ==
    \A now \in Now .. Now + SegmentLength :
        LET since == {i \in DOMAIN trades : trades[i].time >= now - Window}
            whole == {i \in since : trades[i].time >= now - Window + SegmentLength - 1}
        IN TotalCycles(whole) <= VolumeSince(now, Window) /\ VolumeSince(now, Window) <= TotalCycles(since)
=============================================================================
