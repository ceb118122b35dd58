------------------------------- MODULE Fueler -------------------------------
(***************************************************************************)
(* The fueler.  Each day it asks for the cycles of the canisters, mints at *)
(* the bank what it lacks to top up those that are low, and tops them up   *)
(* with cycles_out of its account.  Nothing keeps a run from beginning     *)
(* while another one waits for an answer.                                  *)
(*                                                                         *)
(* A step is the effect of one call together with its answer: the fueler   *)
(* does nothing with an answer but make the next call, a later step.       *)
(***************************************************************************)
EXTENDS Integers, FiniteSets, Functions

CONSTANTS
    Bank,
    Sns, TopLevel, Tcs,       \* the canisters that each service knows of
    FUEL_TOPUP_TRIGGER_THRESHOLD, FUEL_TOPUP_TO_MINIMUM_BALANCE,
    BANK_TRANSFER_FEE, ICP_TRANSFER_FEE, MINIMUM_BURN_ICP,
    COMPLETE_MINT_CYCLES_MAX_TRIES,
    U128,       \* a u128 is less than this
    None,
    Run,        \* bound: the runs under way at once
    Rate,       \* bound: the cycles that the CMC mints for an e8
    Level,      \* bound: the cycles of the canisters in the beginning
    MaxDrains,  \* bound: the times that cycles are consumed
    MaxFailures,\* bound: the calls that fail
    MaxIcp      \* bound: the e8s that the fueler has at the bank

Canister == Sns \cup TopLevel \cup Tcs

ASSUME FuelerAssumption ==
    /\ IsFiniteSet(Canister) /\ Bank \in TopLevel
    /\ {FUEL_TOPUP_TRIGGER_THRESHOLD, FUEL_TOPUP_TO_MINIMUM_BALANCE, BANK_TRANSFER_FEE,
        ICP_TRANSFER_FEE, MINIMUM_BURN_ICP, COMPLETE_MINT_CYCLES_MAX_TRIES, MaxIcp} \subseteq Nat
    /\ U128 \in Nat \ {0} /\ Level \subseteq Nat
    /\ FUEL_TOPUP_TRIGGER_THRESHOLD < FUEL_TOPUP_TO_MINIMUM_BALANCE \* check_thresholds
    /\ Rate \subseteq Nat \ {0}

VARIABLES
    run,       \* the runs of fuel
    cycles,    \* external: of each canister; of the bank those that it owes nobody
    drains,
    failures,
    rate,      \* external: the rate of the CMC
    icp,       \* external: the fueler's ICP at the bank
    count,     \* the fueler's balance at the bank
    mid_call,  \* the e8s that the bank has burnt for the fueler's mint, until it is complete
    locked     \* whether the bank is at work on it

bank_vars == <<count, mid_call, locked>>
vars == <<run, cycles, drains, failures, rate, icp, bank_vars>>

Idle == [at |-> "idle"]
At(r, step) == run[r].at = step
GoTo(r, state) == run' = [run EXCEPT ![r] = state]

(* A call may fail, and then so much is done.                              *)
Fails(failed) ==
    /\ failed => failures < MaxFailures
    /\ failures' = IF failed THEN failures + 1 ELSE failures
GivesUp(r) == GoTo(r, Idle) /\ UNCHANGED <<cycles, drains, rate, icp, bank_vars>>

Init ==
    /\ run = [r \in Run |-> Idle]
    /\ cycles \in [Canister -> Level]
    /\ drains = 0 /\ failures = 0
    /\ rate \in Rate
    /\ icp = MaxIcp
    /\ count = 0 /\ mid_call = None /\ locked = FALSE

-----------------------------------------------------------------------------
(* start_timer, and what fuel asks before it knows what it needs.          *)

Start(r) ==
    /\ At(r, "idle")
    /\ GoTo(r, [at |-> "rate"])
    /\ UNCHANGED <<cycles, drains, failures, rate, icp, bank_vars>>

Nothing == [c \in {} |-> 0]
GetRate(r) ==
    /\ At(r, "rate")
    /\ GoTo(r, [at |-> "Sns", rate |-> rate, topup |-> Nothing])
    /\ UNCHANGED <<cycles, drains, failures, rate, icp, bank_vars>>

(* The cycles that the status of a canister has: of the bank, also those   *)
(* that it owes its users.                                                 *)
StatusCycles(c) == IF c = Bank THEN cycles[c] + count ELSE cycles[c]

Low(amount) == amount < FUEL_TOPUP_TRIGGER_THRESHOLD
With(topup, found) ==
    [c \in DOMAIN topup \cup DOMAIN found |->
        IF c \in DOMAIN found THEN FUEL_TOPUP_TO_MINIMUM_BALANCE - found[c] ELSE topup[c]]

(* get_sns_canisters_summary, view_top_level_canisters_status and          *)
(* view_tcs_status: each may answer for some of its canisters only.        *)
Group(step) == CASE step = "Sns" -> Sns [] step = "TopLevel" -> TopLevel [] step = "Tcs" -> Tcs
After(step) == CASE step = "Sns" -> "TopLevel" [] step = "TopLevel" -> "Tcs" [] step = "Tcs" -> "bank"

ViewStatuses(r, answered) ==
    /\ run[r].at \in {"Sns", "TopLevel", "Tcs"} /\ answered \subseteq Group(run[r].at)
    /\ GoTo(r, [run[r] EXCEPT !.at = After(@),
                   !.topup = With(@, [c \in {b \in answered : Low(StatusCycles(b))} |-> StatusCycles(c)])])
    /\ Fails(answered # Group(run[r].at))
    /\ UNCHANGED <<cycles, drains, rate, icp, bank_vars>>

(* canister_cycles_balance_minus_total_supply goes before the status.      *)
BankStatusOnly(topup) == topup \* mutant: what the bank owes is fuel
WithBank(topup) ==
    IF Low(cycles[Bank]) THEN With(topup, [c \in {Bank} |-> cycles[c]]) ELSE topup

AskBank(r, answered) ==
    /\ At(r, "bank")
    /\ GoTo(r, [run[r] EXCEPT !.at = "balance",
                              !.topup = IF answered THEN WithBank(@) ELSE @])
    /\ Fails(~answered)
    /\ UNCHANGED <<cycles, drains, rate, icp, bank_vars>>

-----------------------------------------------------------------------------
(* The fueler's balance, and the mint of what it lacks.                    *)

SumFuel(topup) ==
    SumFunction(topup) + BANK_TRANSFER_FEE * Cardinality(DOMAIN topup)

IcpNeedRounded(topup, balance, r) == \* mutant: without the one for the remainder
    (SumFuel(topup) - balance + BANK_TRANSFER_FEE) \div r
IcpNeed(topup, balance, r) == (SumFuel(topup) - balance + BANK_TRANSFER_FEE) \div r + 1

ToFuel(state, balance) ==
    [at |-> "fuel", topup |-> state.topup, balance |-> balance, left |-> DOMAIN state.topup]

ReadBalance(r) ==
    /\ At(r, "balance")
    /\ LET s == run[r]
       IN  GoTo(r, IF SumFuel(s.topup) > count
                   THEN [at |-> "mint", rate |-> s.rate, topup |-> s.topup, balance |-> count,
                         burn_icp |-> IcpNeed(s.topup, count, s.rate), tries |-> 0]
                   ELSE ToFuel(s, count))
    /\ UNCHANGED <<cycles, drains, failures, rate, icp, bank_vars>>

(* The bank credits what the CMC mints, less its fee, which it keeps.      *)
Minted(e8s) == IF e8s * rate < BANK_TRANSFER_FEE THEN 0 ELSE e8s * rate - BANK_TRANSFER_FEE
Credited(e8s) ==
    /\ count' = count + Minted(e8s)
    /\ cycles' = [cycles EXCEPT ![Bank] = @ + e8s * rate - Minted(e8s)]

MayBurn(e8s) == mid_call = None /\ e8s >= MINIMUM_BURN_ICP /\ icp >= e8s + ICP_TRANSFER_FEE

MintCycles(r) ==
    /\ At(r, "mint") /\ MayBurn(run[r].burn_icp)
    /\ icp' = icp - run[r].burn_icp - ICP_TRANSFER_FEE
    /\ Credited(run[r].burn_icp)
    /\ GoTo(r, ToFuel(run[r], run[r].balance + Minted(run[r].burn_icp)))
    /\ UNCHANGED <<drains, failures, rate, mid_call, locked>>

(* MidCallError: the ICP are burnt, and the bank will complete the mint.   *)
MintStopsMidCall(r) ==
    /\ At(r, "mint") /\ MayBurn(run[r].burn_icp)
    /\ icp' = icp - run[r].burn_icp - ICP_TRANSFER_FEE
    /\ mid_call' = run[r].burn_icp
    /\ GoTo(r, [run[r] EXCEPT !.at = "complete"])
    /\ Fails(TRUE)
    /\ UNCHANGED <<cycles, drains, rate, count, locked>>

CompleteMint(r) ==
    /\ At(r, "complete") /\ mid_call # None /\ ~locked
    /\ Credited(mid_call)
    /\ mid_call' = None
    /\ GoTo(r, ToFuel(run[r], run[r].balance + Minted(mid_call)))
    /\ UNCHANGED <<drains, failures, rate, icp, locked>>

CompleteStopsMidCall(r) ==
    /\ At(r, "complete") /\ mid_call # None /\ ~locked
    /\ run[r].tries + 1 < COMPLETE_MINT_CYCLES_MAX_TRIES
    /\ GoTo(r, [run[r] EXCEPT !.tries = @ + 1])
    /\ Fails(TRUE)
    /\ UNCHANGED <<cycles, drains, rate, icp, bank_vars>>

(* The bank refuses a mint that is below its minimum, that the ICP cannot  *)
(* pay for or that another one is in the way of, and the completion of none*)
(* or of one that it is at work on.  The run ends.                         *)
MintIsRefused(r) ==
    /\ \/ At(r, "mint") /\ ~MayBurn(run[r].burn_icp)
       \/ At(r, "complete") /\ (mid_call = None \/ locked)
    /\ Fails(FALSE)
    /\ GivesUp(r)

(* A run ends by an error of a call whose answer it cannot do without.     *)
CallFails(r) ==
    /\ run[r].at \in {"rate", "Sns", "balance", "mint", "complete"}
    /\ Fails(TRUE)
    /\ GivesUp(r)

-----------------------------------------------------------------------------
(* The top-ups, in any order.                                              *)

Lesser(m, n) == IF m < n THEN m ELSE n
QuestCycles(need, balance) ==
    LET all == Lesser(need + BANK_TRANSFER_FEE, balance)
    IN  IF all < BANK_TRANSFER_FEE THEN 0 ELSE all - BANK_TRANSFER_FEE

ToppedUp(c, amount) ==
    [b \in Canister |-> cycles[b] + (IF b = c THEN amount ELSE 0)
                                  + (IF b = Bank THEN BANK_TRANSFER_FEE ELSE 0)]

(* cycles_out answers Ok: the balance that the run knows may be less than  *)
(* what it takes, and wraps.                                               *)
Spent(r, c) == QuestCycles(run[r].topup[c], run[r].balance) + BANK_TRANSFER_FEE

TopUp(r, c) ==
    /\ At(r, "fuel") /\ c \in run[r].left
    /\ count >= Spent(r, c)
    /\ count' = count - Spent(r, c)
    /\ cycles' = ToppedUp(c, Spent(r, c) - BANK_TRANSFER_FEE)
    /\ GoTo(r, [run[r] EXCEPT !.left = @ \ {c},
                              !.balance = (@ - Spent(r, c)) % U128])
    /\ UNCHANGED <<drains, failures, rate, icp, mid_call, locked>>

TopUpFails(r, c) ==
    /\ At(r, "fuel") /\ c \in run[r].left
    /\ Fails(count >= Spent(r, c))
    /\ GoTo(r, [run[r] EXCEPT !.left = @ \ {c}])
    /\ UNCHANGED <<cycles, drains, rate, icp, bank_vars>>

FuelDone(r) ==
    /\ At(r, "fuel") /\ run[r].left = {}
    /\ Fails(FALSE)
    /\ GivesUp(r)

-----------------------------------------------------------------------------
(* What happens meanwhile.                                                 *)

BankTimerBegins ==
    /\ mid_call # None /\ ~locked
    /\ locked' = TRUE
    /\ UNCHANGED <<run, cycles, drains, failures, rate, icp, count, mid_call>>

BankTimerCompletes ==
    /\ locked
    /\ \/ Credited(mid_call) /\ mid_call' = None /\ Fails(FALSE)
       \/ UNCHANGED <<count, cycles, mid_call>> /\ Fails(TRUE)
    /\ locked' = FALSE
    /\ UNCHANGED <<run, drains, rate, icp>>

Drain(c) ==
    /\ drains < MaxDrains
    /\ \E level \in Level : level < cycles[c] /\ cycles' = [cycles EXCEPT ![c] = level]
    /\ drains' = drains + 1
    /\ UNCHANGED <<run, failures, rate, icp, bank_vars>>

RateChanges ==
    /\ rate' \in Rate \ {rate}
    /\ UNCHANGED <<run, cycles, drains, failures, icp, bank_vars>>

-----------------------------------------------------------------------------

RunStep(r) ==
    \/ Start(r) \/ GetRate(r)
    \/ \E answered \in SUBSET Canister : ViewStatuses(r, answered)
    \/ \E answered \in BOOLEAN : AskBank(r, answered)
    \/ ReadBalance(r) \/ MintCycles(r) \/ MintStopsMidCall(r) \/ CompleteMint(r)
    \/ CompleteStopsMidCall(r) \/ MintIsRefused(r) \/ CallFails(r)
    \/ \E c \in Canister : TopUp(r, c) \/ TopUpFails(r, c)
    \/ FuelDone(r)

Next ==
    \/ \E r \in Run : RunStep(r)
    \/ BankTimerBegins \/ BankTimerCompletes
    \/ \E c \in Canister : Drain(c)
    \/ RateChanges

Spec == Init /\ [][Next]_vars

(* The timer fires each day, a call is answered, and the bank's timer      *)
(* completes a mint.                                                       *)
Fairness ==
    /\ \A r \in Run : WF_vars(RunStep(r))
    /\ WF_vars(BankTimerBegins) /\ WF_vars(BankTimerCompletes)

FairSpec == Spec /\ Fairness

-----------------------------------------------------------------------------
(* What the fueler is correct by.                                          *)

(* When a run begins to top up, having minted what it lacked at the rate   *)
(* that it had asked for, what it has is enough for all of its top-ups and *)
(* their fees: the fee of the mint and the remainder of the division are   *)
(* in what it burnt.                                                       *)
EnoughIsMinted ==
    [][\A r \in Run :
        /\ run[r].at \in {"mint", "complete"} /\ run'[r].at = "fuel"
        /\ rate = run[r].rate
        /\ At(r, "complete") => mid_call = run[r].burn_icp
        => run'[r].balance >= SumFuel(run[r].topup)]_vars

(* A canister whose cycles are below the threshold is topped up, whatever  *)
(* calls fail on the way, unless the ICP cannot pay for the mint or the    *)
(* mint is for less than the bank's minimum.                               *)
Lacking == {c \in Canister : Low(cycles[c])}
TooLittleForAMint ==
    \E C \in SUBSET Lacking, r \in Rate :
        LET topup == With(Nothing, [c \in C |-> cycles[c]])
            need == IcpNeed(topup, count, r)
        IN  /\ SumFuel(topup) > count
            /\ need < MINIMUM_BURN_ICP \/ icp < need + ICP_TRANSFER_FEE
LowIsFuelled == \A c \in Canister : Low(cycles[c]) ~> ~Low(cycles[c]) \/ TooLittleForAMint
=============================================================================
