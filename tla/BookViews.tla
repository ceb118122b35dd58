------------------------------ MODULE BookViews ------------------------------
(***************************************************************************)
(* What a trade contract answers of its books: the pages of the position   *)
(* book and the depth that it gives to aggregators (ICRC-45), and the      *)
(* pages of the open positions, of the void positions and of the trades    *)
(* that are not paid out.                                                  *)
(*                                                                         *)
(* What a page has is sorted, by id or by rate, so a page is a set here, or*)
(* a function on the set of its rates.                                     *)
(***************************************************************************)
EXTENDS Matching

CONSTANTS
    Positor,        \* bound: who makes each position
    MaxQuantities,  \* MAX_POSITIONS_QUANTITIES
    PageSize,       \* the logs in 1.5 MiB
    Depth,          \* bound: the depths that aggregators ask for
    None            \* Option::None

ASSUME BookViewsAssumption ==
    /\ DOMAIN Positor = 0 .. MaxPositions - 1
    /\ MaxQuantities \in Nat \ {0} /\ PageSize \in Nat \ {0} /\ Depth \subseteq Nat
    /\ None \notin Nat

Greatest(S, n) == {i \in S : Cardinality({j \in S : j > i}) < n}
Least(S, n) == {i \in S : Cardinality({j \in S : j < i}) < n}

-----------------------------------------------------------------------------
(* The position book.                                                      *)

Lefts == [i \in DOMAIN positions |-> positions[i].left]
RatesOf(kind) == {positions[i].quest.rate : i \in IdsOf(kind)}
AtRate(kind, rate) == {i \in IdsOf(kind) : positions[i].quest.rate = rate}
QuantityAt(kind, rate) == SumFunctionOnSet(Lefts, AtRate(kind, rate))

AtOrAfter(rate, start) == start = None \/ rate >= start \* mutant: the last rate of the page before
After(rate, start) == start = None \/ rate > start

(* view_position_book_                                                     *)
ViewPositionBook(kind, start_greater_than_rate) ==
    LET all == {rate \in RatesOf(kind) : After(rate, start_greater_than_rate)}
        rates == Least(all, MaxQuantities)
    IN [positions_quantities |-> [rate \in rates |-> QuantityAt(kind, rate)],
        is_last_chunk |-> rates = {} \/ Max(rates) = Max(all)]

(* The loop of icrc_45_get_pairs: each page is asked for after the last    *)
(* rate of those before it.                                                *)
ReadOn(kind, read) ==
    LET start == IF DOMAIN read.quantities = {} THEN None ELSE Max(DOMAIN read.quantities)
        page == ViewPositionBook(kind, start)
    IN IF read.ended THEN read
       ELSE [quantities |-> Merge(read.quantities, page.positions_quantities),
             ended |-> page.is_last_chunk]

(* More pages than this there are not.                                     *)
Pages(kind) == Cardinality(RatesOf(kind)) + 1
WholeBook(kind) ==
    LET read[n \in 0 .. Pages(kind)] ==
            IF n = 0 THEN [quantities |-> <<>>, ended |-> FALSE] ELSE ReadOn(kind, read[n - 1])
    IN read[Pages(kind)]

(* icrc_45_get_pairs: the best prices.                                     *)
Bids(depth) ==
    LET quantities == WholeBook("cycles").quantities
    IN Restrict(quantities, Greatest(DOMAIN quantities, depth))
Asks(depth) ==
    LET quantities == ViewPositionBook("token", None).positions_quantities
    IN Restrict(quantities, Least(DOMAIN quantities, depth))

-----------------------------------------------------------------------------
(* Positions and trades.                                                   *)

Before(S, before) == {i \in S : before = None \/ i < before}
OfPositor(S, positor) == {i \in S : positor = None \/ Positor[i] = positor}

(* The page of one side.                                                   *)
PageThenFilter(S, before, positor) == \* mutant: the limit counts the positions of others
    OfPositor(Greatest(Before(S, before), PageSize), positor)
PageOfSide(S, before, positor) == Greatest(OfPositor(Before(S, before), positor), PageSize)

(* _view_current_positions                                                 *)
ViewCurrentPositions(before, positor) ==
    Greatest(UNION {PageOfSide(IdsOf(kind), before, positor) : kind \in Kind}, PageSize)

VoidIdsOf(kind) == {i \in DOMAIN void_positions : void_positions[i].quest.kind = kind}

(* view_void_positions_pending: the two sides give up to PageSize each, of *)
(* which one more than PageSize are kept.                                  *)
ViewVoidPositionsPending(before, positor) ==
    Greatest(UNION {PageOfSide(VoidIdsOf(kind), before, positor) : kind \in Kind}, PageSize + 1)

(* view_position_pending_trades: of the logs in the queue.                 *)
InQueue == {id \in 0 .. Len(trade_logs) - 1 : id >= Len(trade_logs) - queue}
LogAt(id) == trade_logs[id + 1]
TradesOf(S, position) == {id \in S : position = None \/ position \in {LogAt(id).matchee, LogAt(id).matcher}}
ViewPositionPendingTrades(before, position) ==
    Greatest(TradesOf(Before(InQueue, before), position), PageSize + 2)

-----------------------------------------------------------------------------
(* Properties.                                                             *)

(* Wherever a reader of the book is, the next page goes on with the lowest *)
(* rates that he has not read, leaves none of them out, has as many of them*)
(* as there are or as a page may have, and says whether they are the last. *)
BookPagesGoOn ==
    \A kind \in Kind : \A start \in RatesOf(kind) \cup {None} :
        LET page == ViewPositionBook(kind, start)
            rates == DOMAIN page.positions_quantities
            unread == {rate \in RatesOf(kind) : start \in Nat => rate > start}
        IN /\ rates \subseteq unread
           /\ Cardinality(rates) <= MaxQuantities
           /\ page.is_last_chunk <=> rates = unread
           /\ ~page.is_last_chunk => Cardinality(rates) = MaxQuantities
           /\ \A rate \in rates, other \in unread \ rates : rate < other

(* Whoever reads the pages of the book until the last one has each rate,   *)
(* and with them all the cycles, or tokens, that are open.                 *)
BookIsWhole ==
    \A kind \in Kind :
        LET book == WholeBook(kind)
        IN /\ book.ended
           /\ DOMAIN book.quantities = RatesOf(kind)
           /\ SumFunctionOnSet(book.quantities, DOMAIN book.quantities)
                 = SumFunctionOnSet(Lefts, IdsOf(kind))

(* The depth for aggregators is of the best prices, and the two sides that *)
(* it shows do not overlap, but for what matching left when it was cut     *)
(* short.                                                                  *)
DepthIsOfTheBest ==
    \A depth \in Depth :
        LET bids == DOMAIN Bids(depth)
            asks == DOMAIN Asks(depth)
        IN /\ \A rate \in RatesOf("cycles") \ bids :
                 Cardinality(bids) = depth /\ (\A bid \in bids : bid > rate)
           /\ \A rate \in RatesOf("token") \ asks :
                 Cardinality(asks) \in {depth, MaxQuantities} /\ (\A ask \in asks : ask < rate)
           /\ cut_short = {} => \A bid \in bids, ask \in asks : bid < ask

(* A page of the newest n of a set leaves nothing out before its oldest.   *)
NoGap(page, S, n) ==
    /\ page \subseteq S
    /\ Cardinality(page) <= n
    /\ Cardinality(page) < n => page = S
    /\ \A i \in S \ page, j \in page : i < j

(* Whatever is before a reader's place, his next page has the newest of    *)
(* it: of the open positions, of one positor or of all; of the trades that *)
(* are not paid out; and of the void positions, where the oldest entry of  *)
(* a page with one more than PageSize may have others before it that are   *)
(* not on the page.                                                        *)
PositionPagesComplete ==
    /\ \A positor \in {Positor[i] : i \in DOMAIN Positor} \cup {None},
          before \in 1 .. positions_id_counter :
          LET void == OfPositor(Before(DOMAIN void_positions, before), positor)
          IN /\ NoGap(ViewCurrentPositions(before, positor),
                      OfPositor(Before(DOMAIN positions, before), positor), PageSize)
             /\ NoGap(Greatest(ViewVoidPositionsPending(before, positor), PageSize), void, PageSize)
             /\ ViewVoidPositionsPending(before, positor) \subseteq void
    /\ \A position \in DOMAIN AllPositions \cup {None}, before \in 1 .. Len(trade_logs) :
          NoGap(ViewPositionPendingTrades(before, position),
                TradesOf(Before(InQueue, before), position), PageSize + 2)

(* No page of the book, of the positions or of the trades leaves a gap.    *)
BooksAreShown == BookPagesGoOn /\ BookIsWhole /\ DepthIsOfTheBest /\ PositionPagesComplete
=============================================================================
