---------------------------- MODULE FuelerProofs ----------------------------
(***************************************************************************)
(* The fueler burns enough ICP for what it tops up, for any canisters,     *)
(* thresholds, fees and rates, and however the runs overlap.               *)
(***************************************************************************)
EXTENDS Fueler, Sums, TLAPS

(* What a run knows at each of its steps.                                  *)
Topup == UNION {[S -> Nat] : S \in SUBSET Canister}
Asking == [at : {"Sns", "TopLevel", "Tcs", "bank", "balance"}, rate : Rate, topup : Topup]
Minting == [at : {"mint", "complete"}, rate : Rate, topup : Topup, balance : Nat,
            burn_icp : Nat, tries : Nat]
Fuelling == [at : {"fuel"}, topup : Topup, balance : Nat, left : SUBSET Canister]

(* It burns what it needs, by what it knew when it read its balance.       *)
BurnsItsNeed(s) ==
    /\ s.burn_icp = IcpNeed(s.topup, s.balance, s.rate)
    /\ SumFuel(s.topup) > s.balance

RunOK(s) ==
    \/ s.at \in {"idle", "rate"}
    \/ s \in Asking
    \/ s \in Minting /\ BurnsItsNeed(s)
    \/ s \in Fuelling /\ s.left \subseteq DOMAIN s.topup

WorldOK ==
    /\ cycles \in [Canister -> Nat]
    /\ rate \in Rate
    /\ count \in Nat
    /\ mid_call \in Nat \cup {None}
    /\ locked \in BOOLEAN /\ (locked => mid_call # None)

FuelerInv ==
    /\ DOMAIN run = Run
    /\ \A r \in Run : RunOK(run[r])
    /\ WorldOK

-----------------------------------------------------------------------------
(* The arithmetic.                                                         *)

LEMMA RateType == Rate \subseteq Nat /\ \A n \in Rate : n > 0
  BY FuelerAssumption

LEMMA FeesType ==
    /\ BANK_TRANSFER_FEE \in Nat /\ FUEL_TOPUP_TRIGGER_THRESHOLD \in Nat
    /\ FUEL_TOPUP_TO_MINIMUM_BALANCE \in Nat
    /\ FUEL_TOPUP_TRIGGER_THRESHOLD < FUEL_TOPUP_TO_MINIMUM_BALANCE
    /\ U128 \in Nat /\ U128 > 0 /\ Level \subseteq Nat
  BY FuelerAssumption

LEMMA TopupFacts ==
    ASSUME NEW t \in Topup
    PROVE  /\ DOMAIN t \subseteq Canister
           /\ \A c \in DOMAIN t : t[c] \in Nat
  BY DEF Topup

LEMMA SumFuelType == ASSUME NEW t \in Topup PROVE SumFuel(t) \in Nat
  <1>1. IsFiniteSet(DOMAIN t) /\ \A c \in DOMAIN t : t[c] \in Nat
    BY TopupFacts, FuelerAssumption, FS_Subset
  <1>2. SumFunction(t) \in Nat
    BY <1>1, SumType DEF SumFunction
  <1>3. Cardinality(DOMAIN t) \in Nat
    BY <1>1, FS_CardinalityType
  <1>4. BANK_TRANSFER_FEE * Cardinality(DOMAIN t) \in Nat
    BY <1>3, FeesType
  <1>5. QED BY <1>2, <1>4 DEF SumFuel

LEMMA Quotient ==
    ASSUME NEW n \in Nat, NEW r \in Nat, r > 0
    PROVE  n \div r \in Nat /\ (n \div r + 1) * r > n
  <1>1. n \div r \in Nat
    OBVIOUS
  <1>2. n = r * (n \div r) + (n % r) /\ n % r < r /\ n % r \in Nat
    OBVIOUS
  <1>3. (n \div r + 1) * r = r * (n \div r) + r
    BY <1>1
  <1>4. r * (n \div r) \in Nat
    BY <1>1
  <1>5. QED BY <1>1, <1>2, <1>3, <1>4

(* What is burnt for the need pays for it at the rate it was computed by:  *)
(* the one that is added makes up for the remainder of the division.       *)
LEMMA NeedIsMinted ==
    ASSUME NEW t \in Topup, NEW b \in Nat, rate \in Rate, SumFuel(t) > b
    PROVE  /\ IcpNeed(t, b, rate) \in Nat
           /\ b + Minted(IcpNeed(t, b, rate)) >= SumFuel(t)
  <1> DEFINE n == SumFuel(t) - b + BANK_TRANSFER_FEE
             e8s == IcpNeed(t, b, rate)
  <1>1. SumFuel(t) \in Nat /\ n \in Nat /\ BANK_TRANSFER_FEE \in Nat
    BY SumFuelType, FeesType
  <1>2. rate \in Nat /\ rate > 0
    BY RateType
  <1>3. e8s = n \div rate + 1
    BY DEF IcpNeed
  <1> HIDE DEF e8s
  <1>4. e8s \in Nat /\ e8s * rate > n
    BY <1>1, <1>2, <1>3, Quotient
  <1>5. e8s * rate \in Nat
    BY <1>2, <1>4
  <1>6. n >= BANK_TRANSFER_FEE /\ n = SumFuel(t) - b + BANK_TRANSFER_FEE
    BY <1>1
  <1>7. Minted(e8s) = e8s * rate - BANK_TRANSFER_FEE
    BY <1>1, <1>4, <1>5, <1>6 DEF Minted
  <1>8. b + Minted(e8s) >= SumFuel(t)
    BY <1>1, <1>4, <1>5, <1>6, <1>7
  <1>9. QED BY <1>4, <1>8 DEF e8s

LEMMA MintedType ==
    ASSUME rate \in Rate, NEW e8s \in Nat
    PROVE  /\ Minted(e8s) \in Nat
           /\ e8s * rate - Minted(e8s) \in Nat
  <1>1. e8s * rate \in Nat
    BY RateType
  <1>2. BANK_TRANSFER_FEE \in Nat
    BY FeesType
  <1>3. QED BY <1>1, <1>2 DEF Minted

LEMMA QuestType ==
    ASSUME NEW need \in Nat, NEW balance \in Nat
    PROVE  QuestCycles(need, balance) \in Nat
  BY FeesType DEF QuestCycles, Lesser

LEMMA WithType ==
    ASSUME NEW t \in Topup, NEW S \in SUBSET Canister, NEW found \in [S -> Nat],
           \A c \in S : Low(found[c])
    PROVE  With(t, found) \in Topup
  <1> DEFINE D == DOMAIN t \cup S
             f == [c \in D |-> IF c \in S THEN FUEL_TOPUP_TO_MINIMUM_BALANCE - found[c] ELSE t[c]]
  <1>1. With(t, found) = f
    BY DEF With
  <1>2. D \in SUBSET Canister
    BY TopupFacts
  <1>3. ASSUME NEW c \in D PROVE f[c] \in Nat
    <2>1. CASE c \in S
      BY <2>1, FeesType DEF Low
    <2>2. CASE c \notin S
      BY <2>2, TopupFacts
    <2>3. QED BY <2>1, <2>2
  <1>4. f \in [D -> Nat]
    BY <1>3
  <1>5. QED BY <1>1, <1>2, <1>4 DEF Topup

-----------------------------------------------------------------------------
(* The invariant.                                                          *)

(* A step of one run.                                                      *)
LEMMA GoToInv ==
    ASSUME FuelerInv, NEW r \in Run, NEW s, GoTo(r, s), RunOK(s), WorldOK'
    PROVE  FuelerInv'
  <1>1. /\ DOMAIN run' = Run
        /\ \A q \in Run : run'[q] = IF q = r THEN s ELSE run[q]
    BY DEF FuelerInv, GoTo
  <1>2. ASSUME NEW q \in Run PROVE RunOK(run'[q])
    BY <1>1 DEF FuelerInv
  <1>3. \A q \in Run : RunOK(run[q])'
    BY <1>2 DEF RunOK, BurnsItsNeed, SumFuel, IcpNeed
  <1>4. QED BY <1>1, <1>3 DEF FuelerInv

LEMMA IdleOK == RunOK(Idle)
  BY DEF RunOK, Idle

LEMMA GivesUpInv ==
    ASSUME FuelerInv, NEW r \in Run, GivesUp(r)
    PROVE  FuelerInv'
  <1>1. WorldOK'
    BY DEF GivesUp, FuelerInv, WorldOK, bank_vars
  <1>2. QED BY <1>1, IdleOK, GoToInv DEF GivesUp

(* What a run asks, and what it learns.                                    *)
LEMMA AskInv ==
    ASSUME FuelerInv, NEW r \in Run,
           \/ Start(r) \/ GetRate(r)
           \/ \E answered \in SUBSET Canister : ViewStatuses(r, answered)
           \/ \E answered \in BOOLEAN : AskBank(r, answered)
    PROVE  FuelerInv'
  <1>1. WorldOK'
    <2>1. UNCHANGED <<cycles, rate, count, mid_call, locked>>
      BY DEF Start, GetRate, ViewStatuses, AskBank, bank_vars
    <2>2. QED BY <2>1 DEF FuelerInv, WorldOK
  <1>2. CASE Start(r)
    <2>1. RunOK([at |-> "rate"])
      BY DEF RunOK
    <2>2. QED BY <1>1, <1>2, <2>1, GoToInv DEF Start
  <1>3. CASE GetRate(r)
    <2>1. Nothing \in Topup
      <3>1. Nothing \in [{} -> Nat] /\ {} \in SUBSET Canister
        BY DEF Nothing
      <3>2. QED BY <3>1 DEF Topup
    <2>2. [at |-> "Sns", rate |-> rate, topup |-> Nothing] \in Asking
      BY <2>1 DEF Asking, FuelerInv, WorldOK
    <2>3. QED BY <1>1, <1>3, <2>2, GoToInv DEF GetRate, RunOK
  <1>4. ASSUME NEW answered \in SUBSET Canister, ViewStatuses(r, answered)
        PROVE  FuelerInv'
    <2> DEFINE s == run[r]
               found == [c \in {b \in answered : Low(StatusCycles(b))} |-> StatusCycles(c)]
               n == [s EXCEPT !.at = After(@), !.topup = With(@, found)]
    <2>1. s.at \in {"Sns", "TopLevel", "Tcs"} /\ GoTo(r, n)
      BY <1>4 DEF ViewStatuses
    <2>2. s \in Asking
      BY <2>1 DEF FuelerInv, RunOK, Minting, Fuelling
    <2>3. \A c \in Canister : StatusCycles(c) \in Nat
      BY DEF StatusCycles, FuelerInv, WorldOK
    <2>4. With(s.topup, found) \in Topup
      <3> DEFINE S == {b \in answered : Low(StatusCycles(b))}
      <3>1. S \in SUBSET Canister /\ found \in [S -> Nat] /\ \A c \in S : Low(found[c])
        BY <2>3
      <3>2. s.topup \in Topup
        BY <2>2 DEF Asking
      <3> HIDE DEF S, found, s
      <3>3. QED BY <3>1, <3>2, WithType
    <2>5. After(s.at) \in {"Sns", "TopLevel", "Tcs", "bank", "balance"}
      BY <2>1 DEF After
    <2> HIDE DEF found
    <2>6. n \in Asking
      BY <2>2, <2>4, <2>5 DEF Asking
    <2>7. QED BY <1>1, <2>1, <2>6, GoToInv DEF RunOK
  <1>5. ASSUME NEW answered \in BOOLEAN, AskBank(r, answered)
        PROVE  FuelerInv'
    <2> DEFINE s == run[r]
               n == [s EXCEPT !.at = "balance", !.topup = IF answered THEN WithBank(@) ELSE @]
    <2>1. s.at = "bank" /\ GoTo(r, n)
      BY <1>5 DEF AskBank, At
    <2>2. s \in Asking
      BY <2>1 DEF FuelerInv, RunOK, Minting, Fuelling
    <2>3. WithBank(s.topup) \in Topup
      <3>1. cycles[Bank] \in Nat /\ Bank \in Canister
        BY FuelerAssumption DEF FuelerInv, WorldOK, Canister
      <3>2. CASE Low(cycles[Bank])
        <4> DEFINE found == [c \in {Bank} |-> cycles[c]]
        <4>1. found \in [{Bank} -> Nat] /\ \A c \in {Bank} : Low(found[c])
          BY <3>1, <3>2
        <4>2. {Bank} \in SUBSET Canister /\ s.topup \in Topup
          BY <2>2, <3>1 DEF Asking
        <4>3. With(s.topup, found) \in Topup
          <5> HIDE DEF found, s
          <5>1. QED BY <4>1, <4>2, WithType
        <4>4. QED BY <3>2, <4>3 DEF WithBank
      <3>3. CASE ~Low(cycles[Bank])
        BY <2>2, <3>3 DEF WithBank, Asking
      <3>4. QED BY <3>2, <3>3
    <2>4. n \in Asking
      BY <2>2, <2>3 DEF Asking
    <2>5. QED BY <1>1, <2>1, <2>4, GoToInv DEF RunOK
  <1>6. QED BY <1>2, <1>3, <1>4, <1>5

LEMMA ToFuelOK ==
    ASSUME NEW s, s.topup \in Topup, NEW balance \in Nat
    PROVE  RunOK(ToFuel(s, balance))
  <1>1. DOMAIN s.topup \in SUBSET Canister
    BY TopupFacts
  <1>2. ToFuel(s, balance) \in Fuelling
    BY <1>1 DEF ToFuel, Fuelling
  <1>3. ToFuel(s, balance).left \subseteq DOMAIN ToFuel(s, balance).topup
    BY DEF ToFuel
  <1>4. QED BY <1>2, <1>3 DEF RunOK

LEMMA ReadBalanceInv ==
    ASSUME FuelerInv, NEW r \in Run, ReadBalance(r)
    PROVE  FuelerInv'
  <1> DEFINE s == run[r]
             mint == [at |-> "mint", rate |-> s.rate, topup |-> s.topup, balance |-> count,
                      burn_icp |-> IcpNeed(s.topup, count, s.rate), tries |-> 0]
  <1>1. /\ s.at = "balance"
        /\ GoTo(r, IF SumFuel(s.topup) > count THEN mint ELSE ToFuel(s, count))
        /\ WorldOK'
    BY DEF ReadBalance, At, FuelerInv, WorldOK, bank_vars
  <1>2. s \in Asking
    BY <1>1 DEF FuelerInv, RunOK, Minting, Fuelling
  <1>3. s.topup \in Topup /\ s.rate \in Rate /\ count \in Nat
    BY <1>2 DEF Asking, FuelerInv, WorldOK
  <1>4. CASE SumFuel(s.topup) > count
    <2>1. IcpNeed(s.topup, count, s.rate) \in Nat
      <3>1. SumFuel(s.topup) - count + BANK_TRANSFER_FEE \in Nat
        BY <1>3, <1>4, SumFuelType, FeesType
      <3>2. QED BY <1>3, <3>1, RateType, Quotient DEF IcpNeed
    <2>2. mint \in Minting /\ BurnsItsNeed(mint)
      BY <1>3, <1>4, <2>1 DEF Minting, BurnsItsNeed
    <2>3. QED BY <1>1, <1>4, <2>2, GoToInv DEF RunOK
  <1>5. CASE ~(SumFuel(s.topup) > count)
    BY <1>1, <1>3, <1>5, ToFuelOK, GoToInv
  <1>6. QED BY <1>4, <1>5

LEMMA CreditedWorld ==
    ASSUME FuelerInv, NEW e8s \in Nat, Credited(e8s)
    PROVE  cycles' \in [Canister -> Nat] /\ count' \in Nat
  <1>1. Minted(e8s) \in Nat /\ e8s * rate - Minted(e8s) \in Nat
    BY MintedType DEF FuelerInv, WorldOK
  <1>2. count \in Nat /\ cycles \in [Canister -> Nat] /\ Bank \in Canister
    BY FuelerAssumption DEF FuelerInv, WorldOK, Canister
  <1>3. cycles[Bank] + e8s * rate - Minted(e8s) \in Nat
    <2>1. e8s * rate \in Nat
      BY RateType DEF FuelerInv, WorldOK
    <2>2. QED BY <1>1, <1>2, <2>1
  <1>4. QED BY <1>1, <1>2, <1>3 DEF Credited

(* A run that mints knows its need.                                        *)
LEMMA MintingFacts ==
    ASSUME FuelerInv, NEW r \in Run, run[r].at \in {"mint", "complete"}
    PROVE  /\ run[r] \in Minting /\ BurnsItsNeed(run[r])
           /\ run[r].topup \in Topup /\ run[r].balance \in Nat /\ run[r].burn_icp \in Nat
  <1>1. run[r] \in Minting /\ BurnsItsNeed(run[r])
    BY DEF FuelerInv, RunOK, Asking, Fuelling
  <1>2. QED BY <1>1 DEF Minting

LEMMA MintInv ==
    ASSUME FuelerInv, NEW r \in Run,
           \/ MintCycles(r) \/ MintStopsMidCall(r) \/ CompleteMint(r) \/ CompleteStopsMidCall(r)
    PROVE  FuelerInv'
  <1> DEFINE s == run[r]
  <1>0. rate \in Rate
    BY DEF FuelerInv, WorldOK
  <1>1. /\ s \in Minting /\ BurnsItsNeed(s)
        /\ s.topup \in Topup /\ s.balance \in Nat /\ s.burn_icp \in Nat
    BY MintingFacts DEF MintCycles, MintStopsMidCall, CompleteMint, CompleteStopsMidCall, At
  <1>2. CASE MintCycles(r)
    <2>1. WorldOK'
      BY <1>1, <1>2, CreditedWorld DEF MintCycles, FuelerInv, WorldOK
    <2>2. s.balance + Minted(s.burn_icp) \in Nat
      BY <1>0, <1>1, MintedType
    <2>3. QED BY <1>1, <1>2, <2>1, <2>2, ToFuelOK, GoToInv DEF MintCycles
  <1>3. CASE MintStopsMidCall(r)
    <2>1. /\ mid_call' = s.burn_icp /\ mid_call = None
          /\ GoTo(r, [s EXCEPT !.at = "complete"])
          /\ UNCHANGED <<cycles, rate, count, locked>>
      BY <1>3 DEF MintStopsMidCall, MayBurn
    <2>2. WorldOK'
      BY <1>1, <2>1 DEF FuelerInv, WorldOK
    <2>3. [s EXCEPT !.at = "complete"] \in Minting /\ BurnsItsNeed([s EXCEPT !.at = "complete"])
      BY <1>1 DEF Minting, BurnsItsNeed
    <2>4. QED BY <2>1, <2>2, <2>3, GoToInv DEF RunOK
  <1>4. CASE CompleteMint(r)
    <2>1. mid_call \in Nat /\ ~locked
      BY <1>4 DEF CompleteMint, FuelerInv, WorldOK
    <2>2. WorldOK'
      BY <1>4, <2>1, CreditedWorld DEF CompleteMint, FuelerInv, WorldOK
    <2>3. s.balance + Minted(mid_call) \in Nat
      BY <1>0, <1>1, <2>1, MintedType
    <2>4. QED BY <1>1, <1>4, <2>2, <2>3, ToFuelOK, GoToInv DEF CompleteMint
  <1>5. CASE CompleteStopsMidCall(r)
    <2>1. WorldOK' /\ GoTo(r, [s EXCEPT !.tries = @ + 1])
      BY <1>5 DEF CompleteStopsMidCall, FuelerInv, WorldOK, bank_vars
    <2>2. [s EXCEPT !.tries = @ + 1] \in Minting /\ BurnsItsNeed([s EXCEPT !.tries = @ + 1])
      BY <1>1 DEF Minting, BurnsItsNeed
    <2>3. QED BY <2>1, <2>2, GoToInv DEF RunOK
  <1>6. QED BY <1>2, <1>3, <1>4, <1>5

LEMMA TopUpInv ==
    ASSUME FuelerInv, NEW r \in Run, NEW c \in Canister, TopUp(r, c) \/ TopUpFails(r, c)
    PROVE  FuelerInv'
  <1> DEFINE s == run[r]
  <1>1. s.at = "fuel" /\ c \in s.left
    BY DEF TopUp, TopUpFails, At
  <1>2. s \in Fuelling /\ s.left \subseteq DOMAIN s.topup
    BY <1>1 DEF FuelerInv, RunOK, Asking, Minting
  <1>3. s.topup[c] \in Nat /\ s.balance \in Nat
    BY <1>1, <1>2, TopupFacts DEF Fuelling
  <1>4. QuestCycles(s.topup[c], s.balance) \in Nat
    BY <1>3, QuestType
  <1>5. Spent(r, c) \in Nat /\ Spent(r, c) - BANK_TRANSFER_FEE \in Nat
    BY <1>4, FeesType DEF Spent
  <1>6. CASE TopUp(r, c)
    <2> DEFINE n == [s EXCEPT !.left = @ \ {c}, !.balance = (@ - Spent(r, c)) % U128]
    <2>1. /\ count >= Spent(r, c) /\ count' = count - Spent(r, c)
          /\ cycles' = ToppedUp(c, Spent(r, c) - BANK_TRANSFER_FEE)
          /\ GoTo(r, n)
          /\ UNCHANGED <<rate, mid_call, locked>>
      BY <1>6 DEF TopUp
    <2>2. count' \in Nat
      BY <1>5, <2>1 DEF FuelerInv, WorldOK
    <2>3. cycles' \in [Canister -> Nat]
      <3>1. \A b \in Canister : cycles[b] \in Nat
        BY DEF FuelerInv, WorldOK
      <3>2. QED BY <1>5, <2>1, <3>1, FeesType DEF ToppedUp
    <2>4. WorldOK'
      BY <2>1, <2>2, <2>3 DEF FuelerInv, WorldOK
    <2>5. (s.balance - Spent(r, c)) % U128 \in Nat
      BY <1>3, <1>5, FeesType
    <2>6. n \in Fuelling /\ n.left \subseteq DOMAIN n.topup
      BY <1>2, <2>5 DEF Fuelling
    <2>7. QED BY <2>1, <2>4, <2>6, GoToInv DEF RunOK
  <1>7. CASE TopUpFails(r, c)
    <2> DEFINE n == [s EXCEPT !.left = @ \ {c}]
    <2>1. GoTo(r, n) /\ WorldOK'
      BY <1>7 DEF TopUpFails, FuelerInv, WorldOK, bank_vars
    <2>2. n \in Fuelling /\ n.left \subseteq DOMAIN n.topup
      BY <1>2 DEF Fuelling
    <2>3. QED BY <2>1, <2>2, GoToInv DEF RunOK
  <1>8. QED BY <1>6, <1>7

(* What happens meanwhile.                                                 *)
LEMMA OutsideInv ==
    ASSUME FuelerInv, run' = run, WorldOK'
    PROVE  FuelerInv'
  BY DEF FuelerInv, RunOK, BurnsItsNeed, SumFuel, IcpNeed

LEMMA WorldInv ==
    ASSUME FuelerInv,
           \/ BankTimerBegins \/ BankTimerCompletes \/ RateChanges
           \/ \E c \in Canister : Drain(c)
    PROVE  FuelerInv'
  <1>1. CASE BankTimerBegins
    BY <1>1, OutsideInv DEF BankTimerBegins, FuelerInv, WorldOK
  <1>2. CASE BankTimerCompletes
    <2>1. /\ run' = run /\ rate' = rate /\ locked' = FALSE
          /\ \/ Credited(mid_call) /\ mid_call' = None
             \/ UNCHANGED <<count, cycles, mid_call>>
      BY <1>2 DEF BankTimerCompletes
    <2>2. mid_call \in Nat
      BY <1>2 DEF BankTimerCompletes, FuelerInv, WorldOK
    <2>3. WorldOK'
      BY <2>1, <2>2, CreditedWorld DEF FuelerInv, WorldOK
    <2>4. QED BY <2>1, <2>3, OutsideInv
  <1>3. CASE RateChanges
    BY <1>3, OutsideInv DEF RateChanges, FuelerInv, WorldOK, bank_vars
  <1>4. ASSUME NEW c \in Canister, Drain(c) PROVE FuelerInv'
    <2>1. PICK level \in Level : cycles' = [cycles EXCEPT ![c] = level]
      BY <1>4 DEF Drain
    <2>2. cycles' \in [Canister -> Nat]
      BY <2>1, FeesType DEF FuelerInv, WorldOK
    <2>3. WorldOK' /\ run' = run
      BY <1>4, <2>2 DEF Drain, FuelerInv, WorldOK, bank_vars
    <2>4. QED BY <2>3, OutsideInv
  <1>5. QED BY <1>1, <1>2, <1>3, <1>4

LEMMA NextInv == ASSUME FuelerInv, [Next]_vars PROVE FuelerInv'
  <1>1. CASE UNCHANGED vars
    BY <1>1, OutsideInv DEF vars, bank_vars, FuelerInv, WorldOK
  <1>2. ASSUME NEW r \in Run, RunStep(r) PROVE FuelerInv'
    <2>1. CASE MintIsRefused(r) \/ CallFails(r) \/ FuelDone(r)
      BY <2>1, GivesUpInv DEF MintIsRefused, CallFails, FuelDone
    <2>2. QED BY <1>2, <2>1, AskInv, ReadBalanceInv, MintInv, TopUpInv DEF RunStep
  <1>3. QED BY <1>1, <1>2, WorldInv DEF Next

(* The fueler's runs know what they need, whatever happens meanwhile.      *)
THEOREM FuelerInvariant == Spec => []FuelerInv
  <1>1. Init => FuelerInv
    <2> SUFFICES ASSUME Init PROVE FuelerInv
      OBVIOUS
    <2>1. DOMAIN run = Run /\ \A r \in Run : RunOK(run[r])
      BY IdleOK DEF Init
    <2>2. cycles \in [Canister -> Nat]
      BY FeesType DEF Init
    <2>3. QED BY <2>1, <2>2 DEF Init, FuelerInv, WorldOK
  <1>2. FuelerInv /\ [Next]_vars => FuelerInv'
    BY NextInv
  <1>3. QED BY <1>1, <1>2, PTL DEF Spec

(* A run that minted at the rate that it had asked for begins with enough  *)
(* for all of its top-ups and their fees, whatever the rate and the fees.  *)
THEOREM MintsEnough == Spec => EnoughIsMinted
  <1>1. ASSUME FuelerInv, [Next]_vars, NEW r \in Run,
               run[r].at \in {"mint", "complete"}, run'[r].at = "fuel",
               rate = run[r].rate, At(r, "complete") => mid_call = run[r].burn_icp
        PROVE  run'[r].balance >= SumFuel(run[r].topup)
    <2> DEFINE s == run[r]
    <2>1. /\ s \in Minting /\ BurnsItsNeed(s)
          /\ s.topup \in Topup /\ s.balance \in Nat /\ s.burn_icp \in Nat
      BY <1>1, MintingFacts
    <2>2. run' # run
      BY <1>1
    <2>3. PICK q \in Run : RunStep(q)
      BY <1>1, <2>2
      DEF Next, vars, BankTimerBegins, BankTimerCompletes, RateChanges, Drain
    <2>4. DOMAIN run = Run
      BY <1>1 DEF FuelerInv
    <2>5. ASSUME NEW x \in Run, NEW n, GoTo(x, n), run'[r] # run[r] PROVE x = r /\ run'[r] = n
      BY <2>4, <2>5 DEF GoTo
    <2>6. run'[r] # run[r]
      BY <1>1
    <2>7. (MintCycles(r) \/ CompleteMint(r)) /\ q = r
      <3>1. q = r
        BY <2>3, <2>5, <2>6
        DEF RunStep, Start, GetRate, ViewStatuses, AskBank, ReadBalance, MintCycles, MintStopsMidCall,
            CompleteMint, CompleteStopsMidCall, MintIsRefused, CallFails, TopUp, TopUpFails, FuelDone,
            GivesUp
      <3>2. ~GivesUp(r)
        BY <1>1, <2>5, <2>6 DEF GivesUp, Idle
      <3>3. ~MintStopsMidCall(r) /\ ~CompleteStopsMidCall(r)
        <4>1. [s EXCEPT !.at = "complete"].at = "complete"
          BY <2>1 DEF Minting
        <4>2. [s EXCEPT !.tries = @ + 1].at # "fuel"
          BY <1>1, <2>1 DEF Minting
        <4>3. QED BY <1>1, <2>5, <2>6, <4>1, <4>2 DEF MintStopsMidCall, CompleteStopsMidCall
      <3>4. QED
        BY <1>1, <2>3, <3>1, <3>2, <3>3
        DEF RunStep, At, Start, GetRate, ViewStatuses, AskBank, ReadBalance, MintIsRefused, CallFails,
            TopUp, TopUpFails, FuelDone
    <2>8. run'[r] = ToFuel(s, s.balance + Minted(s.burn_icp))
      <3>1. CASE MintCycles(r)
        BY <2>5, <2>6, <3>1 DEF MintCycles
      <3>2. CASE CompleteMint(r)
        BY <1>1, <2>5, <2>6, <3>2 DEF CompleteMint
      <3>3. QED BY <2>7, <3>1, <3>2
    <2>9. run'[r].balance = s.balance + Minted(s.burn_icp)
      BY <2>8 DEF ToFuel
    <2>10. s.balance + Minted(s.burn_icp) >= SumFuel(s.topup)
      <3>1. s.burn_icp = IcpNeed(s.topup, s.balance, rate) /\ SumFuel(s.topup) > s.balance
        BY <1>1, <2>1 DEF BurnsItsNeed
      <3>2. rate \in Rate
        BY <1>1 DEF FuelerInv, WorldOK
      <3>3. QED BY <2>1, <3>1, <3>2, NeedIsMinted
    <2>11. QED BY <2>9, <2>10
  <1>2. FuelerInv /\ [Next]_vars
          => [\A r \in Run :
                /\ run[r].at \in {"mint", "complete"} /\ run'[r].at = "fuel"
                /\ rate = run[r].rate
                /\ At(r, "complete") => mid_call = run[r].burn_icp
                => run'[r].balance >= SumFuel(run[r].topup)]_vars
    BY <1>1
  <1>3. QED BY <1>2, FuelerInvariant, PTL DEF Spec, EnoughIsMinted

=============================================================================
