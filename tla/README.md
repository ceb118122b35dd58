# A verification project for the CTS canisters

The Cycles Transfer Station is a market on the Internet Computer: a cycles ledger (the bank), a
main market canister that creates one trade contract per token ledger, the trade contracts, the
canisters that keep their logs, and a few helpers. This directory holds TLA+ modules translated
from the Rust code in `src/rust`, the TLC configurations that check them on small instances, and
TLAPS proofs of the theorems that matter most. Paths below are relative to `src/rust`.

## 1. How the code runs

A canister is single-threaded and processes one message at a time. A method that awaits a call is
split there: the part before the await is one atomic message, the part after it another, and any
number of other messages are processed in between. A call always gets an answer: a reply or a
rejection. A timer starts a message. An upgrade replaces the code; state is serialised and restored
and timers are lost. Before an upgrade the canister is stopped, which waits for the answers of all
its open calls (`cts_lib/src/tools.rs:260-311`).

So the atomic step of every module is one message of one canister, the part of a method between two
awaits; the callee's execution is a step of its own, and so is the delivery of its answer.

Two things about calls are assumed everywhere and are properties of the platform or of the ledgers,
not of this code. An error answer to a ledger transfer means that the ledger did not execute it. And
a part of a method after an await does not trap (a trap there would roll back that message only, and
leave whatever lock the method holds set for ever; there are no cleanup guards in the code).

## 2. Inventory

### cm_tc, the trade contract (`canisters/market/cm_tc/src`)

One per token ledger. Its state (`cts_lib/src/types/cm/tc/mod.rs:209-291`): the open cycles and token
positions, the void positions of both kinds whose remainder is owed to the positor, the queue of
trade logs whose two legs are owed, the id counters, the callers in the middle of a ledger call, the
known fees of both ledgers, the candles, and for each of the two log storages (positions, trades) a
byte buffer, the list of storage canisters, a flush lock and a half-created canister.

| part | operations | interacts with | hard behaviour | correct when |
|---|---|---|---|---|
| payouts (`payouts/`) | `do_payouts` (timer), `do_payouts_public_method` (anyone), `_do_payouts` | both ledgers, storage canisters, log storage | overlapping runs, retries, fee changes, lost timers | no debt is paid twice; every debt is paid or dust and leaves the books; records agree with the ledgers; logs are final and in order |
| log storage (`flush_logs/`) | `flush_logs`, `create_storage_canister` | management canister, storage canisters, payouts | failure of any call on the way, a full canister, updates of logs that move | logs are neither lost nor duplicated nor reordered, and found where the list says |
| admission (`lib.rs:256-349`) | `trade_cycles`, `trade_tokens`, `transfer_*_balance` | both ledgers | capacity and locks checked before an await and used after it | one ledger call per user and side at once; the bounds hold; a busy market recovers |
| matching (`lib.rs:355-480`, `traits/`) | `match_trades`, `void_position` | the books, the queue | integer rounding, minimum amounts, width of products | funds are conserved; limits are respected; no two open positions cross, but for the limits of the queue |
| candles (`candle_counter.rs`) | `count_trade`, `create_candles` | matching | segment boundaries, gaps | a candle is the summary of the trades of its segment |
| views (`lib.rs:618-1127`) | queries | all of the above | paging over data that is split between queue, buffer and canisters | pages neither skip nor repeat |

### Storage canisters (`cm_storage_lib`, `cm_positions_storage`, `cm_trades_storage`)

State: a stable memory of fixed-size logs, the id of the first, an index by user or by position, a
mark that the canister is full. Operations: `flush` (append a chunk), `cm_update_log`,
`controller_mark_full`, and the pages of logs, by id and by the index (`map_logs_rchunks`). Correct when
a chunk is stored entirely or not at all, a log is found at its id, and the pages leave none out.

### cm_main (`canisters/market/cm_main/src/lib.rs`)

State: the trade contracts and the ledgers they serve, a creation that stopped half way, the code of
the three kinds of canister. Operations: create and continue the creation of a trade contract (calls
to the management canister and the ledger), upload code, upgrade trade contracts and through them
their storage canisters. Correct when a ledger never has two trade contracts, a canister that was
created is not lost when a later step fails, and the recorded module hash is that of the code that
runs.

### bank, the cycles ledger (`canisters/bank/src`)

State: balances, total supply, blocks and their hash chain, the index of blocks by account, the certified
hash of the last block, the deduplication map, callers in the middle of `cycles_out` or `mint_cycles`. Operations: `icrc1_transfer` with deduplication, `cycles_in`, `cycles_out` (await,
refund on failure), `mint_cycles` (a transfer of ICP to the CMC, then the conversion, each of which
may fail and is continued by `complete_mint_cycles`), the ICRC-3 views. Correct when supply is the sum of balances,
is covered by the cycles of the canister, a mint is credited once, and blocks are chained.

### fueler (`canisters/fueler/src/lib.rs`)

It keeps no state between runs. Once a day `fuel` asks the CMC for its rate, the SNS root, the top level
upgrader and cm_main for the cycles of all canisters and the bank for what it holds beyond the supply,
mints at the bank what it lacks to fill up those below 40 trillion to 60, and tops them up one by one with
`cycles_out`. Each call may fail, some of them without an end to the run. Correct when what it mints is
enough, fees and rounding included, and a low canister gets its fuel in the end.

### cts_lib

`upgrade_canisters` (`tools.rs:245-312`) upgrades a list of canisters for cm_main, for the trade contracts
(their storage canisters) and for the top level upgrader, with a chain of calls for each. Correct when code
is replaced on a stopped canister only and nothing stays stopped unreported. `tools/structural_hash.rs` is the hash by which
the bank knows a transfer again: correct when two different transfers have two hashes.

### The others

`top_level_upgrader` passes an upgrade on and keeps no state. `cts` serves certified static files, uploaded in batches.
`cts_lib` also holds the shared types and clients of other canisters. `outsiders` (generated interfaces)
and `pic_tests` (tests) have no behaviour of their own to model.

PROJECT.json lists every component with its status, and every hazard of the code at its line.

## 3. What is modelled

### Payouts

`Payouts.tla` models the whole of the payouts engine. A debt is a pair of a kind (the remainder of a
cycles or token position; the cycles or the token leg of a trade) and an id. The correspondence:

| code | model |
|---|---|
| `void_*_positions`, `trade_logs` | `void_positions` (ids of debts), `trade_logs` (ids in queue order) |
| `*_payout_lock`, `*_payout_data` | `payout_lock`, `payout_data` |
| `update_storage_position_data.lock`, `.status` | `update_lock`, `update_status` |
| `storage_flush_lock` of the positions storage | `storage_flush_lock` |
| trade log bytes appended to the storage buffer | `trades_buffer` |
| the futures joined in `_do_payouts` | `call[r]` and `update[r]`, for each call context `r` |
| the timers and activations of `do_payouts` | `proc[p]` |

A run is split exactly where it awaits: `StartRun` picks the chunk, takes the locks and makes the
calls (and goes straight to its end when every future is ready at once); each answer is a step
(`PayoutReply`, `UpdateReply`); the last one applies every outcome (`Finish`). The ledgers may pay,
refuse for any reason, or change their fee at any time. `do_payouts` calls the public method of its own
canister, which may fail; afterwards it moves the finished trade logs, flushes, and sets the next
timer. Whether a storage has enough logs to flush is left open here. Amounts matter only as whether the fee eats
them up, and as the exact sum the ledger takes (`debited`).

`Obligations.tla` is the abstract promise: debts are incurred, paid or (if a fee can eat them up)
written off, and leave the books only then. `ImplementsPromise` states the refinement, `PayoutsImplementPromise`
proves it.

### LogStorage

`LogStorage.tla` models one of the two log storages (the code is generic over positions and trades)
together with its storage canisters, so both ends of each call. `storage_buffer`, `storage_canisters`,
`storage_flush_lock` and `create_storage_canister_temp_holder` are the fields of `LogStorageData`;
`flush[f]` is where the activation `f` is in `flush_logs`; `stored`, `first_log_id` and
`controller_mark_full` are the state of each storage canister. Creating a canister, installing its
code, sending a chunk and updating a log are calls that may fail, each split into the caller's part,
the callee's and the answer's. Sizes are counted in logs rather than bytes: every log of a storage has
the same size. `update[u]` are the updates of one run of `_do_payouts`. In this module a lock that is taken
by a run and one that is taken by a flush are told apart (`holds_lock`), in the code they are one flag.

A storage canister also has the index of its logs (`map`): a flush enters each log under its keys (the two
positions of a trade, the position and its user), an update of a log leaves the keys alone.

`LogViews.tla` has the views of both ends: `view_latest_trades` of the trade contract, which joins the
trades that are not settled with those in the buffer, and of a storage canister; `view_storage_logs_`, `map_logs_rchunks` and
the list of storage canisters. `LogPagesComplete` states that a reader who pages backwards, over the three
places and while flushes go on, meets each log once.

`RecordLog.tla` is the abstract promise: records are appended in order, each is made final at most
once, none is lost. `ImplementsRecordLog` states that buffer and canisters together are such a log,
`StorageImplementsRecordLog` proves it.

### TradeContract

`TradeContract.tla` composes the intake of the trade contract with its storage. `trade_cycles` and
`trade_tokens` are one action with a side; a call is sent, executed or refused by the ledger, and its
answer is delivered. The per-user locks, the capacity and the buffer limit are checked where the code
checks them, before the await. It instantiates `LogStorage` for the positions storage and takes its
flush steps as its own; matching and the payouts are abstract here (any open position may be
matched, any pending debts may be done with when a run returns), because `Matching` and `Payouts`
have them in full. Upgrades are left out here and modelled in `Payouts`.

### Matching and TradeFee

`Matching.tla` has the arithmetic: amounts and rates, the middle rate of a trade, the minimum below
which a position is closed, fees, and the whole of `match_trades` as a fold over the ids of the other
side, in their order, within the limit of the queue. The cycles and token sides are one definition where the
code is generic. Quantities are unbounded numbers. `PositionLog` is the record of a position as the storage
gets it, and `Totals` what the trade logs of a position add up to, as sums over their indices. `TradeFee.tla` is
the tiered fee, unrolled over the five tiers; the volumes in `matching` reach four of them. `Asked` is what the tiers ask of a volume when nothing is rounded, and
`FeesOfTiers` says how far what a position has paid can be from it.

`BookViews.tla` has what is answered of the books: the pages of `view_position_book`, the depth of ICRC-45,
and the pages of open positions, void positions and pending trades. What a page has is sorted, by id or by
rate, so it is a set of ids, or a function on a set of rates. `WholeBook` is the loop of `icrc_45_get_pairs`, which
asks for page after page until one says that it is the last.

### Candles

`Candles.tla` has `count_trade`, the pages of candles and the volume of a window. Only the segments with a
trade have a candle, and the volumes saturate (`MaxAmount`). `MCTradeHistory` drives it with
sequences of trades and keeps them to compare with.

### CanisterUpgrades and CMMain

`CanisterUpgrades.tla` is `upgrade_canisters`: `upgrade[u].stage[c]` is where the chain of calls for a canister is. An effect on the
management canister and its answer are one step, since the caller does nothing with an answer but make the
next call. `CMMain.tla` adds the creation of trade contracts, split at its two awaits, and the three methods that
upgrade: of the trade contracts by cm_main, and of its storage canisters by a trade contract. Canisters
that two calls work on at the same time are noted in `overlapped`: their recorded hash is of the call that
ended last, not of the one that installed last. So `RecordedIsInstalled` leaves them out, and no property covers this hazard: it is what the code
does.

### Bank and MintCycles

`Bank.tla` has `icrc1_transfer` with the deduplication map, `cycles_in`, and `cycles_out` with its await
and refund. `logs` are the blocks without hashes and memos; a block keeps the `created_at_time` of its
transfer. `certified_data` is the hash that the platform certifies, which every method that writes a block sets by itself (`SetRootHash`), and
which an upgrade loses and `post_upgrade` sets again, and `TipHashTree` the tree that it is the root of, with the archives (`ArchiveData`); `user_logs_pointers` is the
index by account, which the controller may clear. `canister_cycles` is what the canister holds, apart from what it pays for its own execution.
`MintCycles.tla` extends it with `mint_cycles`: the saved data of each user, the calls under way
(`mint_calls`, each at one of its awaits), the timers and the timer of `post_upgrade`. The ICP ledger and
the CMC are external: the CMC decides once on each ICP block, may be notified by anyone, and its answer
may be lost before or after. Whether the bank is low on cycles is left open. A timer of a user that is
set twice is kept once, since the second would do nothing more.

`BankViews.tla` has `icrc3_get_blocks`, whose rest a client follows, and the blocks of an account page by page. `StructuralHash.tla` is the hash as a function of the tree that a value is serialized to: what each
kind of value contributes, what is left out and what is sorted, while LEB128 is written out and SHA-256 is
an injective constructor. `IcrcValues.tla` has the accounts, their encodings, the transfer as it is
hashed and the ICRC-3 value of a block.

### Fueler

`Fueler.tla` has every call of `fuel` with its answer as one step, and what the others do meanwhile: the bank's timer
completes a mint, the rate changes, canisters consume cycles. A status may be missing from an answer. Of the bank it has the fueler's balance, its
mint under way, and the cycles that it owes to nobody; a refund by the CMC is left out.
With more than one `Run` the runs would overlap, as `set_timer_interval` permits when one is open for
longer than a day; the run of TLC has one.

Each definition with a comment `\* mutant` is a plausible bug in the definition that follows it. No specification
uses it; it is there to show that the properties notice: substituting it makes TLC find a violation.

## 4. The runs

| run | instance | shows |
|---|---|---|
| `payouts` | one cycles and one token position, one trade (both legs), 2 call contexts, 2 timers, chunks of one | no double payment; exact locks, the exclusion of flush and update included; removal only when settled; no lost wakeup |
| `payouts_fees` | one position, two trades, a fee of 1 or 9 for debts of 10 (9 after the cts fee) | records of transfer and dust; logs stored in order and final; refinement of `Obligations` |
| `payouts_live` | one position, one trade, 2 runs | every debt is closed |
| `storage` | four logs, chunks of two, canisters of three, two flushes and a run of updates at once, two keys, pages of two | the list, the buffer, the stable memories and indexes agree; updates find their log; no canister is lost; the pages miss nothing; refinement of `RecordLog` |
| `contract` | two users with two locks on both sides, a book with room for two, a buffer limit of two | the book's limits hold although they are checked before the await; locks are exact; each executed posit has its position |
| `contract_busy` | one user, one position | a finding, see below |
| `matching` | three positions, two quantities and three rates on either side, a queue of two, changing ledger fees, pages of one entry | records agree with trades; fees are those of the tiers, within the rounding; limits are respected; the book is uncrossed; dust leaves it; the pages of books, positions and trades are complete |
| `trade_history` | four trades of three sizes and rates, at and beside the borders of segments | candles and their pages are the history; volumes are of the window |
| `bank` | two accounts, four blocks, a window of three ticks, two overlapping `cycles_out`, upgrades, pages of two and one | the bank is backed; the blocks replay to the balances and the supply; no transfer twice; pages complete; the tip certified; two hashes for two transfers |
| `mint` | two users, two ICP blocks, failures of every call, upgrades; of the bank's own steps only the clock's, the others being those of `bank` | each ICP block is credited once and never lost; a stopped mint has a timer; each mint ends |
| `cm_main` | two ledgers, canisters for two trade contracts and one storage canister, two modules, two creations or continuations and two upgrade calls at once, but not both the second trade contract and the second upgrade call (`Bound`) | no canister is lost and no ledger gets two; recorded hashes are of what runs; stopped canisters are reported; code is replaced on stopped canisters only |
| `fueler` | the bank, an SNS canister and a trade contract, two rates, two failures, one more drain | enough is minted; a low canister is fuelled |

Why the bounds are enough: a double payment, a race for a lock or a crossed answer needs two actors, and
each run has two of the actors it is about. The chunk sizes of the code (5 and
10 debts, thousands of logs) only limit how many independent items a step takes; chunks of one or two already
leave some behind. Three logs to a canister and chunks of two make a chunk that does not fit, and four
logs make a second canister. Pages of one or two entries make every sequence of pages several pages long. The dedup window of three ticks has a transfer at each of its edges. For
the payouts, the log storage, the admission of trades, matching and the views of the books, the bank, minting, cm_main and what the fueler mints, the safety properties
do not rest on the bounds at all: they are proved for all values of the constants (section 5). Symmetry is used where the members are interchangeable: runs, timers, users, canisters. It is never
used in a run with a liveness property.

The fueler's ICP are enough for one full mint and a small one; after that `LowIsFuelled` asks nothing of it.

The type invariant of a module is a conjunct of one of the invariants that its run checks. Those of the modules with
proofs are part of the inductive invariants and hence proved.
Runs whose model stops at a bound (`matching`, `bank`, `mint`, `trade_history`: no more blocks, positions or
trades) do not check deadlock. The others do.

### A finding: a full buffer may stay full

ARCHITECTURE.md:42 says that the buffer, when full, is flushed to the storage canisters. `contract_busy` shows when it is not. The storage buffer of positions can fill up
with resting orders: each admitted trade adds a position log whether it is matched or not, the limit of
the buffer is below the limit of the book, and only `do_payouts` flushes. But `do_payouts` returns
early when there is nothing to pay out and no log to update (`payouts/mod.rs:58-62`), before it gets to the flush. From then
on `_trade` rejects every trade as busy (`lib.rs:266-274`), so no new work arises that would bring
`do_payouts` to the flush; only a user who voids a position, or an upgrade whose timer finds work, ends it. It also happens when a flush fails
while the last payouts finish: `do_payouts` flushes again only if there are payouts left. The counterexample holds under
`FairSpec`, where ledgers, timers and storage canisters all do their part.

### Observations

Met while modelling, none of them against what the repository says of itself.

- `icrc3_get_blocks` answers nothing at all when its first range begins at or after the end of the log, so
  the ranges after it are lost to a client; ends of ranges are cut to 64 bits. `PagesComplete` is about the others.
- `icrc3_get_archives` computes `logs.len() - 1` of an empty log (`bank/src/lib.rs:877`).
- A transfer with the default subaccount left out and one that spells it out have two hashes, so they are
  not each other's duplicates though the account is the same.
- `view_void_positions_pending` keeps one more entry than the limit of a page, of which the
  oldest may have entries of the other side before it that are on no page (`cm_tc/src/lib.rs:834`).
- `1*MiB+512*KiB / SIZE` (`cm_tc/src/lib.rs:901` and `:917`) divides only the second term.
- cm_main asks a trade contract for `controller_view_payouts_errors` (`cm_main/src/lib.rs:484`), which trade contracts do not export.
- A mint that the bank refuses, for the ICP are too few or the amount is below its minimum, ends a run of the fueler before it has topped
  up anything with what it has. `fueler_bank_balance -=` can wrap around when the account grew after it was read.

### Fairness

`FairSpec` assumes what the platform gives: timers fire, messages are delivered, calls are answered
(weak fairness of those steps). It assumes of the ledgers and storage canisters that they do not
refuse for ever what is asked again and again, and of the canister's queue that a self-call does not fail for ever (strong
fairness). And it assumes (`Calms`) that upgrades, fee changes and new flushes of the positions
storage come to an end. The last two are needed: upgrades more often than every 30 seconds lose each
retry timer, and a flush that starts just before each run keeps the update of logs out for ever. In
the code, a flush needs 5 MiB of new logs, so it does end.

`TradeContract`'s `FairSpec` is of the same kind: answers and timers come, and neither the self-call of
`do_payouts` nor the steps of a flush fail for ever. `MintFairSpec` assumes that answers are delivered and timers fire, that the CMC decides on each block and is
not out of reach for ever, and that the bank is not low on cycles each time that a timer tries (it is
refilled by its owners). Under it a mint ends through any upgrades, which need not stop: the timer
of `post_upgrade` survives as a promise of the code, not as a timer.

The fueler's `FairSpec` has weak fairness of a run and of the bank's timer alone: the number of failures is bounded in
the model, so that calls do not fail for ever.

With chunks of one, the strong fairness for each debt is what rules out the starvation the code
permits: `_do_payouts` always takes the first unsettled ids, so debts whose ledger refuses for ever
keep those behind them waiting.

## 5. The proofs

| module | about | proves |
|---|---|---|
| `PayoutsProofs` | `Payouts` | `DebitedOnce`, `RecordAgreesWithLedger`, `LocksExact`, `RemovedWhenSettled`, `TradesStoredInOrder`, `NoLostWakeup`; the refinement of `Obligations` |
| `LogStorageProofs` | `LogStorage` | `StoredWhereListed`, `UpdateFindsLog`, `NoCanisterLost`; the refinement of `RecordLog` |
| `TradeContractProofs` | `TradeContract` | `LocksAreCalls`, `CapacityRespected`, `EveryPositIsAPosition`; that its storage is a `LogStorage` |
| `MatchingProofs` | `Matching`, `TradeFee`, `BookViews` | `PositionsAgreeWithTrades`, `FeesOfTiers`, `LimitsRespected`, `Uncrossed`, `BooksAreShown`, and the action property `DustLeavesTheBook` |
| `BankProofs` | `Bank`, `MintCycles` | `NoDuplicateTransfer`, `Backed`, `BlocksReplayToBalances`, `TipIsCertified`; with mints `MintedOnce`, `IcpAccounted`, `RetryArmed`, and `Backed` again |
| `CMMainProofs` | `CMMain`, `CanisterUpgrades` | `CanisterNotLost`, `RecordedIsInstalled`, `StoppedIsReported`, and the action property `ReplacedWhileStopped` |
| `FuelerProofs` | `Fueler` | the action property `EnoughIsMinted` |
| `Sums` | - | the facts about least numbers, sums and cardinalities that the others cite |

Each is proved for any sets of positions, users, accounts, canisters, runs, timers and calls, and any limits, rates, fees,
chunk and page sizes. The assumptions are those that the modules state of their constants: they type them, say of the sets that
sums or cardinalities range over that they are finite (`BankAssumption`, `TradeContractAssumption`, `CMMainAssumption`,
`FuelerAssumption`), that the marks for "nothing" are none of the values that they stand beside, and that `Margin`, the room kept for
trades under way, is not zero. `TradeFeeAssumption` says besides that the tiers go up in volume and that none asks for
more than the first, as the constants in the code do, and `MatchingAssumption` that a ledger has some fee. TLC evaluates them in each run.

None of the properties is inductive by itself. The inductive invariant of each module was first checked by TLC on the
module's instance, then proved with one lemma per action and, under it, one step per conjunct that the action touches.

**Payouts (`IInv`).** That a debt is never debited twice needs that a call in flight
holds a debt that is unsettled and knows what the ledger has done so far (`InFlightInv`), that a debt that nobody
holds and that is not settled has cost nothing (`IdleInv`), that the lock is set for
exactly one run (`LockHeldByOneRun`, a part of `LocksExact`), and that debts not yet incurred are untouched (`UnbornInv`). That a removed
position has a final log needs the same facts about updates (`UpdateInv`), and the exact flush lock needs that an unused call
context holds nothing (`CallerInv`). The end of a run (`Finish`), which is shared by three actions, is
proved once in lemmas of its own. The refinement of `Obligations` needs one fact more, `DustInv`: what is not sent, and what is recorded as not
transferred, names a fee that eats it up. Then a match or a voided position is `Incur`, `LedgerPays` is `Pay`, the end of
a run and the move of finished trade logs are `Settle`, and every other message is a stutter.

**Log storage (`LogStorageInv`).** One activation or run holds the flush lock (`OneHolder`); the chunks that a flush
has left to send are of the front of the buffer and for the last canister in the list, and a canister that is being installed is not in it (`FlushOK`); the canisters in the list have contiguous ranges of ids
with the buffer after them (`Contiguous`, `ListOK`, `BufferOK`), and the stable memories agree with the list, but for a chunk that was appended and
whose answer is under way (`StoredOK`); the same for the updates under way (`UpdatesOK`). The refinement maps an id to where the invariant says that it is.

**Trade contract (`TradeInv`).** A lock is a call of that user on that side (`LocksAreCalls`), and each trade
under way has its room in the book, although others are admitted before it is made (`RoomKept`). Every step of the composition is a step of `LogStorage` or leaves the storage alone,
so the theorems of `LogStorageProofs` hold of its storage (`TradeContractHasAStorage`, `PositionsAreStored`, `PositionsAreRecords`).

**Matching (`MatchingInv`).** Each trade log is between known positions, covers its fees and is within the limits of both
(`LogOK`); each position's record is sound and agrees with the sums over its logs (`PositionOK`); whatever is open or
posited is worth a match, so that a trade is never empty (`Worth`, `PositOK`); and the book is uncrossed. `match_trades` is a loop: its
fold is unfolded into a recursive function of the set of the ids that it has been through (`Loop`), and `LoopInv` is kept by each match
(`LoopSkips`, `LoopIsCut`, `LoopMatches`). It says of the position that is being matched what `MatchingInv` says of the others, and that what
is compatible among the ids behind it is used up, unless the loop has ended. The amounts need lemmas of their own: the middle rate is between the two rates, `rate * (cycles \div rate)` loses less
than one token, and the records' bounds on the volume are linear in what was traded.

*Fees.* `FeesOfTiers` is a part of it (`FeesFollow`). What is charged for the part of a trade that falls in one tier is rounded once
(`ChargeOfPart`), a trade takes from each tier just what is between its volume before and after (`TierTakes`), and it has no more parts than one and the
tiers that it leaves behind, which no later trade meets again (`FeeFollowsTiers`, `TiersOver`). So the loss grows with the number of trades plus
four, and not with the number of trades times five.

*Pages.* The newest or the least `n` of a finite set leave no gap, and those of the union of two sides are among the
newest `n` of each (`PagesOfBoth`). The whole book is read by a recursive function of the number of pages: each
page adds a rate until one is the last, so it ends, and the sums over the rates are the sum over the positions
(`SumOfParts` in `Sums`). That the two sides of the depth do not overlap is from `Uncrossed`.

**Bank (`LedgerInv`, `Solvent`).** The canister holds the supply and a reserve for each `cycles_out` that is under way,
by its state (`Solvent`); the supply is the sum of the balances, and what is under way of an account is what its blocks replay to beyond its balance. `BlocksReplayToBalances` and the sums are proved
by induction over the blocks and over the finite set of accounts.
No transfer with a `created_at_time` is executed twice because for every block of a
transfer that is still young enough to be asked for again the map has its quest (`StillRemembered`). The proof rests on the
test of age in `check_for_dup` and the one in `prune_dedup_map` being exact complements, which the mutant `RememberedAfter`
breaks. Each step that appends a block, and each upgrade, ends with the certified hash set (`Tip`).

**Minting (`MintInv`).** What is saved of a user, the call under way and the timers agree (`UserOK`); an ICP block is held
by one user at most (`EachHeldOnce`) until it is credited, and then by none (`EachCreditedOnce`); one that is neither refunded nor credited is held (`EachAccounted`);
what the bank has beyond its reserves covers what the CMC has minted and the bank has not credited yet (`CreditsAreBacked`).

**cm_main (`MainInv`).** A canister is a trade contract, a storage canister, or held by the one creation that has it
(`CreationOK`, `PlacesOK`). Each stage of the chain of an upgrade knows what its predecessors did
(`UpgradesOK`), which gives the recorded hashes (`HashesOK`) and the canisters that are stopped (`StopsOK`).

**Fueler (`FuelerInv`).** A run that mints burns the need that it computed, so the division with its added one covers the
fees whatever the rate (`NeedIsMinted`).

What stays with TLC:

- Liveness (`EveryDebtCloses`, `MintEnds`, `LowIsFuelled`) and the finding about `FullBufferIsFlushed`: the prover has no fairness.
- The pages of logs and of blocks (`LogPagesComplete`, `PagesComplete`): a reader pages over sequences that are reversed, filtered and cut, by
  RECURSIVE operators and `SelectSeq`, of which the provers know nothing. What a recursive definition computes can be proved here only when
  it is a recursive function and what is said of it is stated as a set (`InductiveSet` in `Sums`), as in `BookViews`;
  induction over a predicate needs a parameter that the provers cannot instantiate.
- The candles (`CandlesTellTheTrades`, `VolumeOfWindow`): they are compared with a history that only the instance keeps, by folds over
  sequences. And that `Asked` is the sum of what the tiers ask of each single cycle: an ASSUME of `MCMatching` says it of the first 100, which TLC evaluates.
- `DuplicateIsTheQuest`, which is about values that only the instance has.

## 6. What is left out

- Encodings: candid and the byte layout of logs. The injectivity of SHA-256 is assumed. The merkle trees and
  signatures of certificates are the platform's.
- Widths: amounts are unbounded. The code uses u128 and saturates or checks where amounts are
  added; products of amounts and rates (`rate * sub_cycles` in the average rate of a record is the largest) are not guarded, and stay below 2^128 for
  the supplies and rates of real ledgers.
- Traps in the part of a method after an await (out of memory in `logs.push(..).unwrap()`), which would
  leave the lock set.
- `do_payouts_errors` and `flush_logs_storage_errors`: vectors of errors that grow without limit until read and cleared by the controller.
- The `cts` canister: static files and their certification. An upload is one message and nothing is awaited.
- Logging, and controller-only setters.

## 7. Plan

Done: all the modules above, and the proofs of section 5, with every safety invariant of the payouts, the log storage, the
admission, matching, the views of the books, the bank, minting and cm_main, and both refinements. Next, in order:

1. The pages of logs and blocks, in the form of `BookViews`: sets of ids, and a recursive function for the reader.
2. `Candles` as functions on the borders of segments, and an invariant for its volumes.
