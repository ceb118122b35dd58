------------------------------ MODULE Candles -------------------------------
(***************************************************************************)
(* The candle counter of a trade contract: one candle for each one-minute  *)
(* segment that has a trade, and the volumes of all time.  Trades are      *)
(* counted as they are made, in the order of their times; views page       *)
(* through the candles backwards and add up the volumes of a window.       *)
(***************************************************************************)
EXTENDS Integers, Sequences, SequencesExt

CONSTANTS
    SegmentLength,   \* one minute
    MaxCandles,      \* MAX_CANDLES_SPONSE, the candles of one page
    MaxAmount        \* the largest volume, where additions saturate

ASSUME CandlesAssumption ==
    /\ SegmentLength \in Nat \ {0} /\ MaxCandles \in Nat \ {0} /\ MaxAmount \in Nat

VARIABLES segments, volume_cycles, volume_tokens

candle_counter == <<segments, volume_cycles, volume_tokens>>

CandlesInit == segments = <<>> /\ volume_cycles = 0 /\ volume_tokens = 0

SaturatingAdd(a, b) == IF a + b > MaxAmount THEN MaxAmount ELSE a + b
Higher(a, b) == IF a > b THEN a ELSE b
Lower(a, b) == IF a < b THEN a ELSE b

SegmentStart(time) == time - (time % SegmentLength)

NewCandle(trade) ==
    [time |-> SegmentStart(trade.time), cycles |-> trade.cycles, tokens |-> trade.tokens,
     open |-> trade.rate, high |-> trade.rate, low |-> trade.rate, close |-> trade.rate]

UpdatedHighOnly(candle, trade) == \* mutant: a new high is not looked at for the low
    [candle EXCEPT !.cycles = SaturatingAdd(@, trade.cycles), !.tokens = SaturatingAdd(@, trade.tokens),
                   !.high = Higher(@, trade.rate), !.close = trade.rate]
Updated(candle, trade) ==
    [candle EXCEPT !.cycles = SaturatingAdd(@, trade.cycles), !.tokens = SaturatingAdd(@, trade.tokens),
                   !.high = Higher(@, trade.rate), !.low = Lower(@, trade.rate), !.close = trade.rate]

\* count_trade: only the last candle is ever looked at.
CountTrade(trade) ==
    /\ segments' = IF segments = <<>> \/ Last(segments).time < SegmentStart(trade.time)
                   THEN Append(segments, NewCandle(trade))
                   ELSE Front(segments) \o <<Updated(Last(segments), trade)>>
    /\ volume_cycles' = SaturatingAdd(volume_cycles, trade.cycles)
    /\ volume_tokens' = SaturatingAdd(volume_tokens, trade.tokens)

-----------------------------------------------------------------------------
(* Views *)

\* binary_search_by_key, found or not: how many candles start before the time.
CandlesBefore(time) == Cardinality({i \in DOMAIN segments : segments[i].time < time})

CandlesUpTo(before) == \* mutant: the candle of the segment is on the page again
    Cardinality({i \in DOMAIN segments : segments[i].time <= SegmentStart(before)})
\* How many candles a page that starts before a time can choose from.
PageEnd(before) == CandlesBefore(SegmentStart(before))

\* The last chunk of the first so many candles.
ChunkBefore(end) == SubSeq(segments, Higher(end - MaxCandles, 0) + 1, end)

\* create_candles, without and with opt_start_before_time_nanos.
LatestCandles == [candles |-> ChunkBefore(Len(segments)), is_earliest_chunk |-> Len(segments) <= MaxCandles]
CreateCandles(before) ==
    [candles |-> ChunkBefore(PageEnd(before)), is_earliest_chunk |-> PageEnd(before) <= MaxCandles]

WindowFromSegment(now, length) == \* mutant: counts the whole first segment
    Higher(SegmentStart(now - length), 0)
WindowStart(now, length) == Higher(now - length, 0)

\* create_view_volume_stats: the cycles of the window's candles.
VolumeSince(now, length) ==
    FoldLeft(LAMBDA sum, candle : SaturatingAdd(sum, candle.cycles), 0,
             SubSeq(segments, CandlesBefore(WindowStart(now, length)) + 1, Len(segments)))
=============================================================================
