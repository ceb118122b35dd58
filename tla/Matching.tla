------------------------------ MODULE Matching ------------------------------
(***************************************************************************)
(* The books of a trade contract.  A trade makes a position, matches it at *)
(* once with the compatible positions of the other side in the order of    *)
(* their ids, and leaves it open with what remains.  Each match is a trade *)
(* at the middle of the two rates, on which both sides pay a fee by their  *)
(* own tiers.  A position that falls below the minimum is filled: it leaves*)
(* the book and its remainder is owed.                                     *)
(*                                                                         *)
(* Trade logs and void positions stay here once they are made; paying them *)
(* out is the matter of Payouts.                                           *)
(***************************************************************************)
EXTENDS TradeFee, Sequences, FiniteSets, FiniteSetsExt

CONSTANTS
    FeeTimes,      \* the 10 ledger transfer fees that a match is worth at least
    LedgerFee,     \* bound: the transfer fees of the ledgers
    Quantity,      \* bound: the quantities traded, of cycles and of tokens
    Rate,          \* bound: the rates asked for
    MaxPositions,  \* bound: the positions that are made
    MaxTradeLogs,  \* MAX_TRADE_LOGS
    MaxMatches     \* bound: the matches that MAX_INSTRUCTIONS_IN_THE_MATCH_TRADES_FN may allow

Kind == {"cycles", "token"}
Other(kind) == IF kind = "cycles" THEN "token" ELSE "cycles"

ASSUME MatchingAssumption ==
    /\ FeeTimes \in Nat
    /\ LedgerFee \subseteq Nat /\ LedgerFee # {}
    /\ Quantity \in [Kind -> SUBSET Nat] /\ Rate \subseteq Nat
    /\ MaxPositions \in Nat /\ MaxTradeLogs \in Nat /\ MaxMatches \subseteq Nat

VARIABLES
    positions,     \* the open positions of both kinds, by their ids
    void_positions,
    trade_logs,    \* all the logs made
    queue,         \* the number of them that are in cm_data.trade_logs
    positions_id_counter,
    posits,        \* the trades whose posit transfer is under way
    transfer_fee,  \* the known transfer fee of each ledger
    cut_short      \* the positions whose matching stopped before its end

vars == <<positions, void_positions, trade_logs, queue, positions_id_counter, posits,
          transfer_fee, cut_short>>

Quest == [kind : Kind, rate : Nat, quantity : Nat]

(* For both kinds: left is current_position_cycles or .._tokens, volume is *)
(* purchases_rates_times_cycles_quantities_sum or .._token_.., fill is     *)
(* fill_quantity_tokens (of cycles positions), fees is                     *)
(* tokens_payouts_fees_sum or cycles_payouts_fees_sum.                     *)
Position == [quest : Quest, left : Nat, volume : Nat, fill : Nat, fees : Nat]
TradeLog == [matcher : Nat, matchee : Nat, tokens : Nat, cycles : Nat, rate : Nat,
             tokens_payout_fee : Nat, cycles_payout_fee : Nat]

Init ==
    /\ positions = <<>>
    /\ void_positions = <<>>
    /\ trade_logs = <<>>
    /\ queue = 0
    /\ positions_id_counter = 0
    /\ posits = {}
    /\ transfer_fee \in [Kind -> LedgerFee]
    /\ cut_short = {}

-----------------------------------------------------------------------------
(* Amounts and rates.                                                      *)

tokens_transform_cycles(tokens, rate) == tokens * rate
cycles_transform_tokens(cycles, rate) == IF rate = 0 THEN 0 ELSE cycles \div rate
SaturatingSub(a, b) == IF a > b THEN a - b ELSE 0

minimum_match(kind) == FeeUnit + transfer_fee[kind] * FeeTimes

IsLessThanMinimumPosition(q) ==
    IF q.kind = "cycles"
    THEN \/ q.quantity < minimum_match("cycles")
         \/ cycles_transform_tokens(q.quantity, q.rate) < minimum_match("token")
    ELSE \/ q.quantity < minimum_match("token")
         \/ tokens_transform_cycles(q.quantity, q.rate) < minimum_match("cycles")

(* current_position_tokens                                                 *)
TokensAt(p, rate) ==
    IF p.quest.kind = "cycles" THEN cycles_transform_tokens(p.left, rate) ELSE p.left

(* The mean of the two rates, rounded in favour of the matchee.            *)
HalfRoundedUp(difference) == difference \div 2 + 1 \* mutant: beyond the limit
Half(difference) == difference \div 2

CompatibleIfBetter(matchee, match_rate) == \* mutant: not at the same rate
    IF matchee.quest.kind = "cycles" THEN matchee.quest.rate > match_rate
                                     ELSE matchee.quest.rate < match_rate
Compatible(matchee, match_rate) ==
    IF matchee.quest.kind = "cycles" THEN matchee.quest.rate >= match_rate
                                     ELSE matchee.quest.rate <= match_rate
TradeRate(matchee, match_rate) ==
    IF matchee.quest.kind = "cycles"
    THEN matchee.quest.rate - Half(matchee.quest.rate - match_rate)
    ELSE matchee.quest.rate + Half(match_rate - matchee.quest.rate)

(* The fee of a position that trades so many cycles now.                   *)
FeeCycles(p, cycles) ==
    Fee(IF p.quest.kind = "cycles" THEN p.quest.quantity - p.left ELSE p.volume, cycles)

(* subtract_tokens                                                         *)
SubtractTokens(p, tokens, rate) ==
    LET cycles == tokens_transform_cycles(tokens, rate)
        fee == FeeCycles(p, cycles)
    IN  IF p.quest.kind = "cycles"
        THEN [p EXCEPT !.fill = @ + tokens, !.left = SaturatingSub(@, cycles),
                       !.volume = @ + rate * cycles,
                       !.fees = @ + cycles_transform_tokens(fee, rate)]
        ELSE [p EXCEPT !.left = SaturatingSub(@, tokens), !.volume = @ + cycles, !.fees = @ + fee]

(* What is left is not worth a match at the position's own rate.           *)
BelowMinimum(p) ==
    LET tokens == TokensAt(p, p.quest.rate)
    IN  \/ tokens < minimum_match("token")
        \/ tokens_transform_cycles(tokens, p.quest.rate) < minimum_match("cycles")
IsEmpty(p) == p.left = 0 \* mutant: dust stays in the book
IsFilled(p) == BelowMinimum(p)

(* as_stable_memory_position_log: what the storage keeps of a position.    *)
PositionLog(p) ==
    LET sold == p.quest.quantity - p.left
    IN  [mainder |-> p.left,
         fill_quantity |-> IF p.quest.kind = "cycles" THEN p.fill ELSE p.volume,
         fill_average_rate |-> IF sold = 0 THEN p.quest.rate ELSE p.volume \div sold,
         payouts_fees_sum |-> p.fees]

-----------------------------------------------------------------------------
(* match_trades                                                            *)

FeeTokensAsCycles(fee, rate) == fee \* mutant: not transformed
FeeTokens(fee, rate) == cycles_transform_tokens(fee, rate)

(* The log of a match.  Cycles positions pay their fee of the tokens they  *)
(* buy, token positions of the cycles.                                     *)
NewLog(id, p, matchee_id, matchee, tokens, rate) ==
    LET cycles == tokens_transform_cycles(tokens, rate)
        cyclesPosition == IF p.quest.kind = "cycles" THEN p ELSE matchee
        tokenPosition == IF p.quest.kind = "cycles" THEN matchee ELSE p
    IN  [matcher |-> id, matchee |-> matchee_id, tokens |-> tokens, cycles |-> cycles, rate |-> rate,
         tokens_payout_fee |-> FeeTokens(FeeCycles(cyclesPosition, cycles), rate),
         cycles_payout_fee |-> FeeCycles(tokenPosition, cycles)]

PurchaseTokensMax(p, q, rate) == \* mutant: the larger of the two
    IF TokensAt(p, rate) > TokensAt(q, rate) THEN TokensAt(p, rate) ELSE TokensAt(q, rate)
PurchaseTokens(p, q, rate) ==
    IF TokensAt(p, rate) < TokensAt(q, rate) THEN TokensAt(p, rate) ELSE TokensAt(q, rate)

(* The loop's body.  m is the state of the matching: the matcher, the      *)
(* positions of the other side, the logs made, and whether the loop ended. *)
MatchOne(m, id, matchee_id, room) ==
    LET p == m.matcher
        q == m.matchees[matchee_id]
        rate == TradeRate(q, p.quest.rate)
        tokens == PurchaseTokens(p, q, rate)
        matcher == SubtractTokens(p, tokens, rate)
    IN  IF m.ended \/ ~Compatible(q, p.quest.rate) THEN m
        ELSE IF Len(m.logs) >= room THEN [m EXCEPT !.ended = TRUE, !.cut = TRUE]
        ELSE [m EXCEPT !.matcher = matcher,
                       !.matchees[matchee_id] = SubtractTokens(q, tokens, rate),
                       !.logs = Append(@, NewLog(id, p, matchee_id, q, tokens, rate)),
                       !.ended = IsFilled(matcher)]

IdsOf(kind) == {i \in DOMAIN positions : positions[i].quest.kind = kind}

NewPosition(q) == [quest |-> q, left |-> q.quantity, volume |-> 0, fill |-> 0, fees |-> 0]

(* The loop, in the order of the ids: the matchee with the greatest of all *)
(* is matched with what the others leave.                                  *)
NoMatches(q) ==
    [matcher |-> NewPosition(q), matchees |-> Restrict(positions, IdsOf(Other(q.kind))),
     logs |-> <<>>, ended |-> FALSE, cut |-> FALSE]

Matched(id, q, room) ==
    MapThenFoldSet(LAMBDA matchee_id, m : MatchOne(m, id, matchee_id, room), NoMatches(q),
                   LAMBDA i : i, Max, IdsOf(Other(q.kind)))

Merge(f, g) == [i \in DOMAIN f \cup DOMAIN g |-> IF i \in DOMAIN f THEN f[i] ELSE g[i]]

-----------------------------------------------------------------------------

(* A trade is admitted and its posit transfer is sent.                     *)
TradeCall(q) ==
    /\ positions_id_counter + Cardinality(posits) < MaxPositions
    /\ q.rate # 0
    /\ ~IsLessThanMinimumPosition(q)
    /\ posits' = posits \cup {q}
    /\ UNCHANGED <<positions, void_positions, trade_logs, queue, positions_id_counter,
                   transfer_fee, cut_short>>

TradeRefused(q) ==
    /\ posits' = posits \ {q}
    /\ UNCHANGED <<positions, void_positions, trade_logs, queue, positions_id_counter,
                   transfer_fee, cut_short>>

(* What stays in the book, of all positions and those that are filled.     *)
Open(all, filled, id) == Restrict(all, DOMAIN all \ filled)

(* The transfer succeeded: the position is made and matched, as far as the *)
(* queue has room and the instructions suffice.                            *)
Trade(q, matches) ==
    LET id == positions_id_counter
        room == IF matches < MaxTradeLogs - queue THEN matches ELSE MaxTradeLogs - queue
        m == Matched(id, q, room)
        all == Merge(Merge([i \in {id} |-> m.matcher], m.matchees), positions)
        traded == {m.logs[k].matchee : k \in DOMAIN m.logs}
                  \cup IF m.logs = <<>> THEN {} ELSE {id}
        filled == {i \in traded : IsFilled(all[i])}
    IN  /\ posits' = posits \ {q}
        /\ positions_id_counter' = id + 1
        /\ trade_logs' = trade_logs \o m.logs
        /\ queue' = queue + Len(m.logs)
        /\ positions' = Open(all, filled, id)
        /\ void_positions' = Merge(void_positions, Restrict(all, filled))
        /\ cut_short' = IF m.cut THEN cut_short \cup {id} ELSE cut_short
        /\ UNCHANGED transfer_fee

(* void_position_                                                          *)
VoidPosition(id) ==
    /\ void_positions' = Merge(void_positions, Restrict(positions, {id}))
    /\ positions' = Restrict(positions, DOMAIN positions \ {id})
    /\ UNCHANGED <<trade_logs, queue, positions_id_counter, posits, transfer_fee, cut_short>>

(* A log that is paid out leaves the queue.                                *)
LogLeaves ==
    /\ queue > 0
    /\ queue' = queue - 1
    /\ UNCHANGED <<positions, void_positions, trade_logs, positions_id_counter, posits,
                   transfer_fee, cut_short>>

(* A ledger answers BadFee to a transfer.                                  *)
FeeChanges(kind, fee) ==
    /\ transfer_fee' = [transfer_fee EXCEPT ![kind] = fee]
    /\ UNCHANGED <<positions, void_positions, trade_logs, queue, positions_id_counter, posits,
                   cut_short>>

Next ==
    \/ \E kind \in Kind, rate \in Rate : \E quantity \in Quantity[kind] :
         TradeCall([kind |-> kind, rate |-> rate, quantity |-> quantity])
    \/ \E q \in posits :
         \/ TradeRefused(q)
         \/ \E matches \in MaxMatches : Trade(q, matches)
    \/ \E id \in DOMAIN positions : VoidPosition(id)
    \/ LogLeaves
    \/ \E kind \in Kind, fee \in LedgerFee : FeeChanges(kind, fee)

Spec == Init /\ [][Next]_vars

-----------------------------------------------------------------------------
(* Properties.                                                             *)

TypeOK ==
    /\ DOMAIN positions \cap DOMAIN void_positions = {}
    /\ DOMAIN positions \cup DOMAIN void_positions = 0 .. positions_id_counter - 1
    /\ positions \in [DOMAIN positions -> Position]
    /\ void_positions \in [DOMAIN void_positions -> Position]
    /\ trade_logs \in Seq(TradeLog)
    /\ queue \in 0 .. MaxTradeLogs /\ queue <= Len(trade_logs)
    /\ positions_id_counter \in Nat
    /\ posits \subseteq Quest
    /\ transfer_fee \in [Kind -> LedgerFee]
    /\ cut_short \subseteq 0 .. positions_id_counter - 1

AllPositions == Merge(positions, void_positions)

(* The logs of a position's trades, and the totals of what they say.       *)
LogsOf(id, logs) == {k \in DOMAIN logs : id \in {logs[k].matcher, logs[k].matchee}}
Totals(id, logs) ==
    [trades |-> Cardinality(LogsOf(id, logs)),
     rates |-> SumFunctionOnSet([k \in DOMAIN logs |-> logs[k].rate], LogsOf(id, logs)),
     cycles |-> SumFunctionOnSet([k \in DOMAIN logs |-> logs[k].cycles], LogsOf(id, logs)),
     tokens |-> SumFunctionOnSet([k \in DOMAIN logs |-> logs[k].tokens], LogsOf(id, logs)),
     tokens_fees |->
        SumFunctionOnSet([k \in DOMAIN logs |-> logs[k].tokens_payout_fee], LogsOf(id, logs)),
     tokens_fees_worth |->
        SumFunctionOnSet([k \in DOMAIN logs |-> logs[k].tokens_payout_fee * logs[k].rate],
                         LogsOf(id, logs)),
     cycles_fees |->
        SumFunctionOnSet([k \in DOMAIN logs |-> logs[k].cycles_payout_fee], LogsOf(id, logs))]

(* No trade is empty, and its fees never exceed what they are taken from.  *)
CoversItsFees(log) ==
    /\ log.tokens > 0
    /\ log.tokens_payout_fee <= log.tokens
    /\ log.cycles_payout_fee <= log.cycles

AgreesWith(p, totals) ==
    LET record == PositionLog(p)
        sold == p.quest.quantity - record.mainder
    IN  IF p.quest.kind = "cycles"
        THEN /\ sold = totals.cycles
             /\ record.fill_quantity = totals.tokens
             /\ record.payouts_fees_sum = totals.tokens_fees
        ELSE /\ sold = totals.tokens
             /\ record.fill_quantity = totals.cycles
             /\ record.payouts_fees_sum = totals.cycles_fees

(* The record of every position, open or void, agrees with its trade logs: *)
(* what it has sold is what the buyers are owed, to the last cycle and     *)
(* token, through all the rounding; and the fill and the fees are theirs.  *)
(* So the contract owes exactly what was posited.                          *)
PositionsAgreeWithTrades ==
    /\ \A k \in DOMAIN trade_logs : CoversItsFees(trade_logs[k])
    /\ \A id \in DOMAIN AllPositions : AgreesWith(AllPositions[id], Totals(id, trade_logs))

(* What the trades of a position have paid, at their rates, is what the    *)
(* tiers ask of its volume, rounded down once for each trade and each tier *)
(* that it has left, and in tokens by less than one token for each trade.  *)
(* So it makes no difference for the fees with how many others, or in how  *)
(* many matches, a position trades.                                        *)
Rounding(kind, totals) ==
    (totals.trades + 4) * ((FeeUnit - 1) * TierFee[1])
        + (IF kind = "cycles" THEN FeeUnit * totals.rates ELSE 0)
Paid(kind, totals) == IF kind = "cycles" THEN totals.tokens_fees_worth ELSE totals.cycles_fees
FeesOfTiers ==
    \A id \in DOMAIN AllPositions :
        LET totals == Totals(id, trade_logs)
            kind == AllPositions[id].quest.kind
            paid == FeeUnit * Paid(kind, totals)
        IN  /\ paid <= Asked(totals.cycles)
            /\ Asked(totals.cycles) <= paid + Rounding(kind, totals)

(* Whether a rate is no worse than the one a position asked for.           *)
WithinLimit(rate, quest) ==
    IF quest.kind = "cycles" THEN rate <= quest.rate ELSE rate >= quest.rate

(* Nobody pays more than the rate they asked for, or is paid less; nor does*)
(* the average rate on the record of a position say so.  The queue of the  *)
(* trade logs keeps to its own limit.                                      *)
LimitsRespected ==
    /\ TypeOK
    /\ \A k \in DOMAIN trade_logs :
         \A id \in {trade_logs[k].matcher, trade_logs[k].matchee} :
             WithinLimit(trade_logs[k].rate, AllPositions[id].quest)
    /\ \A id \in DOMAIN AllPositions :
         WithinLimit(PositionLog(AllPositions[id]).fill_average_rate, AllPositions[id].quest)

(* Two open positions that could trade with each other exist only when the *)
(* later one was matched while the queue was full or the instructions ran  *)
(* out.                                                                    *)
Uncrossed ==
    \A a \in IdsOf("cycles"), b \in IdsOf("token") :
        positions[a].quest.rate >= positions[b].quest.rate
            => (IF a > b THEN a ELSE b) \in cut_short

(* A position that trades and stays open is worth another match.           *)
DustLeavesTheBook ==
    [][\A id \in DOMAIN positions \cap DOMAIN positions' :
           positions'[id].left # positions[id].left => ~BelowMinimum(positions'[id])]_vars

=============================================================================
