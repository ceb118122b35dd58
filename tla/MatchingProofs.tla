--------------------------- MODULE MatchingProofs ---------------------------
(***************************************************************************)
(* Proofs about Matching, for any positions, quantities, rates, tiers and  *)
(* limits: the records of the positions agree with the trades, nobody      *)
(* trades beyond the rate asked for, the books do not overlap, what is not *)
(* worth a match leaves them, and the pages that show them are complete.   *)
(***************************************************************************)
EXTENDS BookViews, Sums, SequenceTheorems

-----------------------------------------------------------------------------
(* Amounts.                                                                *)

LEMMA DivFacts ==
    ASSUME NEW a \in Nat, NEW b \in Nat \ {0}
    PROVE  a \div b \in Nat /\ b * (a \div b) <= a /\ a < b * (a \div b) + b
  <1>1. a \div b \in Int /\ a % b \in 0 .. b - 1 /\ a = b * (a \div b) + (a % b)
    OBVIOUS
  <1>2. a \div b \in Nat
    BY Z3
  <1>3. b * (a \div b) \in Nat
    BY <1>2
  <1>4. QED BY <1>1, <1>2, <1>3

LEMMA Products ==
    /\ \A a, b \in Nat : a * b \in Nat
    /\ \A a, b, c \in Nat : a <= b => c * a <= c * b /\ a * c <= b * c
    /\ \A a, b, c \in Nat : a * (b + c) = a * b + a * c /\ (b + c) * a = b * a + c * a
    /\ \A a, b \in Nat : a * b = b * a
    /\ \A a, b, c \in Nat : a * (b * c) = (a * b) * c
  OBVIOUS

LEMMA Distributes ==
    ASSUME NEW a \in Nat, NEW b \in Nat, NEW c \in Nat
    PROVE  a * (b + c) = a * b + a * c
  OBVIOUS

(* The quotient is the greatest number that fits.                          *)
LEMMA DivIsGreatest ==
    ASSUME NEW a \in Nat, NEW b \in Nat \ {0}, NEW c \in Nat, b * c <= a
    PROVE  c <= a \div b
  <1> DEFINE d == a \div b
  <1>1. d \in Nat /\ b * d <= a /\ a < b * d + b
    BY DivFacts
  <1> HIDE DEF d
  <1>2. SUFFICES ASSUME d + 1 <= c PROVE FALSE
    BY <1>1 DEF d
  <1>3. b * (d + 1) <= b * c
    BY <1>1, <1>2, Products
  <1>4. b * (d + 1) = b * d + b
    BY <1>1
  <1>5. b * d \in Nat /\ b * c \in Nat
    BY <1>1, Products
  <1>6. QED BY <1>1, <1>3, <1>4, <1>5

(* It is no less of more, and by less.                                     *)
LEMMA DivMonotonic ==
    ASSUME NEW a \in Nat, NEW c \in Nat, a <= c,
           NEW b \in Nat \ {0}, NEW d \in Nat \ {0}, d <= b
    PROVE  a \div b <= c \div d
  <1> DEFINE e == a \div b
  <1>1. e \in Nat /\ b * e <= a
    BY DivFacts
  <1> HIDE DEF e
  <1>2. d * e <= b * e /\ d * e \in Nat /\ b * e \in Nat
    BY <1>1, Products
  <1>3. d * e <= c
    BY <1>1, <1>2
  <1>4. e <= c \div d
    BY <1>1, <1>3, DivIsGreatest
  <1>5. QED BY <1>4 DEF e

LEMMA DivExact ==
    ASSUME NEW a \in Nat, NEW b \in Nat \ {0}
    PROVE  (a * b) \div b = a
  <1> DEFINE d == (a * b) \div b
  <1>1. a * b \in Nat /\ b * a = a * b
    OBVIOUS
  <1>2. a <= d
    BY <1>1, DivIsGreatest
  <1>3. d \in Nat /\ b * d <= a * b
    BY <1>1, DivFacts
  <1> HIDE DEF d
  <1>4. SUFFICES ASSUME a + 1 <= d PROVE FALSE
    BY <1>2, <1>3 DEF d
  <1>5. b * (a + 1) <= b * d
    BY <1>3, <1>4, Products
  <1>6. b * (a + 1) = a * b + b
    OBVIOUS
  <1>7. b * d \in Nat
    BY <1>3, Products
  <1>8. QED BY <1>1, <1>3, <1>5, <1>6, <1>7

LEMMA DivOfLess ==
    ASSUME NEW a \in Nat, NEW b \in Nat \ {0}, a < b
    PROVE  a \div b = 0
  <1> DEFINE d == a \div b
  <1>1. d \in Nat /\ b * d <= a
    BY DivFacts
  <1> HIDE DEF d
  <1>2. SUFFICES ASSUME 1 <= d PROVE FALSE
    BY <1>1 DEF d
  <1>3. b * 1 <= b * d
    BY <1>1, <1>2, Products
  <1>4. QED BY <1>1, <1>3, Products

-----------------------------------------------------------------------------
(* The fee.                                                                *)

LEMMA ChargeIsAPart ==
    ASSUME NEW part \in Nat, NEW k \in 1 .. 5
    PROVE  Charge(part, k) \in Nat /\ Charge(part, k) <= part
  <1> DEFINE n == part \div FeeUnit
             fee == TierFee[k]
  <1>1. FeeUnit \in Nat \ {0} /\ fee \in Nat /\ fee <= FeeUnit
    BY TradeFeeAssumption DEF Tier
  <1>2. n \in Nat /\ FeeUnit * n <= part
    BY <1>1, DivFacts
  <1>3. Charge(part, k) = n * fee
    BY DEF Charge
  <1> HIDE DEF n, fee
  <1>4. n * fee <= n * FeeUnit /\ n * fee \in Nat /\ n * FeeUnit = FeeUnit * n /\ FeeUnit * n \in Nat
    BY <1>1, <1>2, Products
  <1>5. QED BY <1>2, <1>3, <1>4

(* What a tier leaves of a trade, and what has been paid of the rest.      *)
PaidFor(trade) ==
    {acc \in [rest : Nat, fee : Nat] : acc.rest <= trade /\ acc.fee <= trade - acc.rest}

LEMMA TierIsPaid ==
    ASSUME NEW traded \in Nat, NEW trade \in Nat, NEW acc \in PaidFor(trade), NEW k \in 1 .. 5
    PROVE  PayTier(traded, trade, acc, k) \in PaidFor(trade)
  <1> DEFINE at == traded + (trade - acc.rest)
             part == PartOfTier(acc.rest, at, k)
  <1>1. /\ acc \in [rest : Nat, fee : Nat] /\ acc.rest \in Nat /\ acc.fee \in Nat
        /\ acc.rest <= trade /\ acc.fee <= trade - acc.rest
    BY DEF PaidFor
  <1>2. TierVolume[k] \in Nat
    BY TradeFeeAssumption DEF Tier
  <1>3. CASE at + 1 <= TierVolume[k]
    <2>1. at \in Nat
      BY <1>1
    <2> HIDE DEF at
    <2>2. part \in Nat /\ part <= acc.rest
      BY <1>1, <1>2, <1>3, <2>1 DEF PartOfTier, Lesser
    <2>3. PayTier(traded, trade, acc, k)
             = [rest |-> acc.rest - part, fee |-> acc.fee + Charge(part, k)]
      BY <1>3 DEF PayTier, at
    <2> HIDE DEF part
    <2>4. Charge(part, k) \in Nat /\ Charge(part, k) <= part
      BY <2>2, ChargeIsAPart
    <2> DEFINE charge == Charge(part, k)
               next == [rest |-> acc.rest - part, fee |-> acc.fee + charge]
    <2> HIDE DEF charge
    <2>5. acc.rest - part \in Nat /\ acc.fee + charge \in Nat /\ acc.rest - part <= trade
          /\ acc.fee + charge <= trade - (acc.rest - part)
      BY <1>1, <2>2, <2>4 DEF charge
    <2>6. next \in PaidFor(trade)
      BY <2>5 DEF PaidFor
    <2>7. QED BY <2>3, <2>6 DEF charge
  <1>4. CASE ~(at + 1 <= TierVolume[k])
    BY <1>4 DEF PayTier
  <1>5. QED BY <1>3, <1>4

(* The fee of a trade is never more than the trade.                        *)
LEMMA FeeIsAPart ==
    ASSUME NEW traded \in Nat, NEW trade \in Nat
    PROVE  Fee(traded, trade) \in Nat /\ Fee(traded, trade) <= trade
  <1> DEFINE Pay(acc, k) == PayTier(traded, trade, acc, k)
             first == [rest |-> trade, fee |-> 0]
             all == Pay(Pay(Pay(Pay(Pay(first, 1), 2), 3), 4), 5)
  <1>1. first \in PaidFor(trade)
    BY DEF PaidFor
  <1>2. \A acc \in PaidFor(trade) : \A k \in 1 .. 5 : Pay(acc, k) \in PaidFor(trade)
    BY TierIsPaid
  <1>3. Fee(traded, trade) = all.fee
    BY DEF Fee
  <1> HIDE DEF Pay, first
  <1>4. all \in PaidFor(trade)
    BY <1>1, <1>2
  <1> HIDE DEF all
  <1>5. all.fee \in Nat /\ all.rest \in Nat /\ all.rest <= trade /\ all.fee <= trade - all.rest
    BY <1>4 DEF PaidFor
  <1>6. QED BY <1>3, <1>5

-----------------------------------------------------------------------------
(* What the tiers ask.                                                     *)

Loss == (FeeUnit - 1) * TierFee[1]

(* How far a trade has come after tier k.                                  *)
Reached(traded, total, v) == IF total < v THEN total ELSE IF traded < v THEN v ELSE traded

LEMMA TierFacts ==
    /\ FeeUnit \in Nat \ {0}
    /\ \A k \in 1 .. 5 : /\ TierVolume[k] \in Nat /\ TierFee[k] \in Nat /\ TierFee[k] <= TierFee[1]
                         /\ TierStart(k) \in Nat /\ TierStart(k) <= TierVolume[k]
    /\ TierVolume[1] <= TierVolume[2] /\ TierVolume[2] <= TierVolume[3]
    /\ TierVolume[3] <= TierVolume[4] /\ TierVolume[4] <= TierVolume[5]
    /\ Loss \in Nat
  <1>1. /\ FeeUnit \in Nat \ {0}
        /\ \A k \in 1 .. 5 : TierVolume[k] \in Nat /\ TierFee[k] \in Nat
        /\ \A k \in 1 .. 4 : TierVolume[k] <= TierVolume[k + 1] /\ TierFee[k + 1] <= TierFee[1]
    BY TradeFeeAssumption DEF Tier
  <1>2. ASSUME NEW k \in 1 .. 5, k # 1
        PROVE  TierFee[k] <= TierFee[1] /\ TierVolume[k - 1] \in Nat /\ TierVolume[k - 1] <= TierVolume[k]
    <2>1. k - 1 \in 1 .. 4 /\ k - 1 \in 1 .. 5 /\ (k - 1) + 1 = k
      BY <1>2
    <2>2. QED BY <1>1, <2>1
  <1>3. \A k \in 1 .. 5 : TierFee[k] <= TierFee[1]
    BY <1>1, <1>2
  <1>4. \A k \in 1 .. 5 : TierStart(k) \in Nat /\ TierStart(k) <= TierVolume[k]
    BY <1>1, <1>2 DEF TierStart
  <1>5. /\ TierVolume[1] <= TierVolume[2] /\ TierVolume[2] <= TierVolume[3]
        /\ TierVolume[3] <= TierVolume[4] /\ TierVolume[4] <= TierVolume[5]
    BY <1>1
  <1>6. Loss \in Nat
    BY <1>1, Products DEF Loss
  <1>7. QED BY <1>1, <1>3, <1>4, <1>5, <1>6

(* The charge is what the tier asks of a part, but for the rounding.       *)
LEMMA ChargeOfPart ==
    ASSUME NEW part \in Nat, NEW k \in 1 .. 5
    PROVE  /\ Charge(part, k) \in Nat /\ part * TierFee[k] \in Nat
           /\ FeeUnit * Charge(part, k) <= part * TierFee[k]
           /\ part * TierFee[k] <= FeeUnit * Charge(part, k) + (IF part = 0 THEN 0 ELSE Loss)
  <1> DEFINE n == part \div FeeUnit
             rest == part - FeeUnit * n
             fee == TierFee[k]
  <1>1. FeeUnit \in Nat \ {0} /\ fee \in Nat /\ fee <= TierFee[1] /\ TierFee[1] \in Nat
    BY TierFacts
  <1>2. n \in Nat /\ FeeUnit * n <= part /\ FeeUnit * n \in Nat /\ rest \in Nat /\ rest <= FeeUnit - 1
        /\ rest <= part
    BY <1>1, DivFacts, Products
  <1>3. Charge(part, k) = n * fee
    BY DEF Charge
  <1>4. part = FeeUnit * n + rest
    BY <1>2
  <1> HIDE DEF n, rest, fee
  <1>5. part * fee = (FeeUnit * n) * fee + rest * fee
    BY <1>1, <1>2, <1>4, Distributes
  <1>6. (FeeUnit * n) * fee = FeeUnit * (n * fee) /\ n * fee \in Nat /\ FeeUnit * (n * fee) \in Nat
        /\ rest * fee \in Nat
    BY <1>1, <1>2, Products
  <1>7. rest * fee <= Loss
    <2>1. rest * fee <= (FeeUnit - 1) * fee /\ (FeeUnit - 1) * fee <= (FeeUnit - 1) * TierFee[1]
      BY <1>1, <1>2, Products
    <2>2. (FeeUnit - 1) * fee \in Nat /\ (FeeUnit - 1) * TierFee[1] \in Nat
      BY <1>1, Products
    <2>3. QED BY <1>6, <2>1, <2>2 DEF Loss
  <1>8. part = 0 => rest * fee = 0
    BY <1>1, <1>2
  <1>9. Loss \in Nat
    BY TierFacts
  <1>10. QED BY <1>3, <1>5, <1>6, <1>7, <1>8, <1>9 DEF fee

(* What a tier takes of a trade is the part of the volume that lies in it. *)
PartIn(traded, total, k) == InTier(total, k) - InTier(traded, k)
At(traded, trade, acc) == traded + (trade - acc.rest)
Accumulators(trade) == {acc \in [rest : Nat, fee : Nat] : acc.rest <= trade}

LEMMA TierTakes ==
    ASSUME NEW traded \in Nat, NEW trade \in Nat, NEW k \in 1 .. 5, NEW acc \in Accumulators(trade),
           At(traded, trade, acc) = Reached(traded, traded + trade, TierStart(k))
    PROVE  LET next == PayTier(traded, trade, acc, k)
               part == PartIn(traded, traded + trade, k)
           IN  /\ next \in Accumulators(trade)
               /\ At(traded, trade, next) = Reached(traded, traded + trade, TierVolume[k])
               /\ part \in Nat /\ part * TierFee[k] \in Nat
               /\ part # 0 => /\ traded < TierVolume[k]
                              /\ TierStart(k) < traded + trade
               /\ FeeUnit * next.fee <= FeeUnit * acc.fee + part * TierFee[k]
               /\ FeeUnit * acc.fee + part * TierFee[k]
                    <= FeeUnit * next.fee + (IF part = 0 THEN 0 ELSE Loss)
  <1> DEFINE next == PayTier(traded, trade, acc, k)
             total == traded + trade
             part == PartIn(traded, total, k)
             at == At(traded, trade, acc)
             v == TierVolume[k]
             w == TierStart(k)
             take == PartOfTier(acc.rest, at, k)
  <1>1. acc \in [rest : Nat, fee : Nat] /\ acc.rest \in Nat /\ acc.fee \in Nat /\ acc.rest <= trade
    BY DEF Accumulators
  <1>2. v \in Nat /\ w \in Nat /\ w <= v
    BY TierFacts
  <1>3. part = (Lesser(total, v) - Lesser(total, w))
               - (Lesser(traded, v) - Lesser(traded, w))
    BY DEF PartIn, InTier
  <1>4. /\ next = IF at + 1 <= v
                  THEN [rest |-> acc.rest - take, fee |-> acc.fee + Charge(take, k)]
                  ELSE acc
        /\ take = Lesser(acc.rest, v - at)
    BY DEF PayTier, At, PartOfTier
  <1>5. at = traded + (trade - acc.rest) /\ at = Reached(traded, total, w)
    BY DEF At
  <1>6. total \in Nat /\ total = traded + trade
    OBVIOUS
  <1>7. FeeUnit \in Nat \ {0} /\ TierFee[k] \in Nat /\ Loss \in Nat
    BY TierFacts
  <1> HIDE DEF next, total, part, at, v, w, take
  <1>8. CASE at + 1 <= v
    <2>1. take \in Nat /\ take <= acc.rest /\ take = part
      <3>1. at \in Nat /\ v - at \in Nat /\ acc.rest = total - at
        BY <1>1, <1>2, <1>5, <1>6, <1>8
      <3>2. take = (IF acc.rest < v - at THEN acc.rest ELSE v - at)
        BY <1>4 DEF Lesser
      <3>3. take \in Nat /\ take <= acc.rest /\ take = (IF total < v THEN total ELSE v) - at
        BY <1>1, <1>2, <1>6, <3>1, <3>2
      <3>4. part = (IF total < v THEN total ELSE v) - at
        BY <1>2, <1>3, <1>5, <1>6, <1>8, <3>1 DEF Reached, Lesser
      <3>5. QED BY <3>3, <3>4
    <2>2. at + take = Reached(traded, total, v)
      BY <1>1, <1>2, <1>4, <1>5, <1>6, <1>8 DEF Reached, Lesser
    <2>3. part # 0 => traded < v /\ w < total
      BY <1>1, <1>2, <1>3, <1>5, <1>6, <1>8 DEF Reached, Lesser
    <2>4. /\ Charge(take, k) \in Nat /\ take * TierFee[k] \in Nat
          /\ FeeUnit * Charge(take, k) <= take * TierFee[k]
          /\ take * TierFee[k] <= FeeUnit * Charge(take, k) + (IF take = 0 THEN 0 ELSE Loss)
      BY <2>1, ChargeOfPart
    <2> DEFINE charge == Charge(take, k)
    <2>5. next = [rest |-> acc.rest - take, fee |-> acc.fee + charge]
      BY <1>4, <1>8
    <2> HIDE DEF charge
    <2>6. charge \in Nat
      BY <2>4 DEF charge
    <2>7. next \in Accumulators(trade) /\ next.rest = acc.rest - take /\ next.fee = acc.fee + charge
      BY <1>1, <2>1, <2>5, <2>6 DEF Accumulators
    <2>8. At(traded, trade, next) = Reached(traded, total, v)
      BY <1>1, <1>5, <2>1, <2>2, <2>7 DEF At
    <2>9. /\ FeeUnit * next.fee = FeeUnit * acc.fee + FeeUnit * charge
          /\ FeeUnit * acc.fee \in Nat /\ FeeUnit * charge \in Nat
      BY <1>1, <1>7, <2>6, <2>7, Products
    <2>10. QED BY <1>7, <2>1, <2>3, <2>4, <2>7, <2>8, <2>9 DEF next, part, total, v, w, charge
  <1>9. CASE ~(at + 1 <= v)
    <2>1. next = acc
      BY <1>4, <1>9
    <2>2. part = 0
      BY <1>1, <1>2, <1>3, <1>5, <1>6, <1>9 DEF Reached, Lesser
    <2>3. at = Reached(traded, total, v)
      BY <1>1, <1>2, <1>5, <1>6, <1>9 DEF Reached
    <2>4. At(traded, trade, next) = at
      BY <2>1 DEF at
    <2>5. FeeUnit * acc.fee \in Nat /\ part * TierFee[k] = 0
      BY <1>1, <1>7, <2>2, Products
    <2>6. QED BY <1>7, <2>1, <2>2, <2>3, <2>4, <2>5 DEF next, part, total, v, w
  <1>10. QED BY <1>8, <1>9

(* The tiers that a volume has left behind it.                             *)
IsOver(volume, k) == IF TierVolume[k] <= volume THEN 1 ELSE 0
TiersOver(volume) == IsOver(volume, 1) + IsOver(volume, 2) + IsOver(volume, 3) + IsOver(volume, 4)

LEMMA AskedFacts ==
    ASSUME NEW traded \in Nat, NEW total \in Nat, traded <= total, NEW k \in 1 .. 5,
           PartIn(traded, total, k) \in Nat
    PROVE  /\ AskedOf(traded, k) \in Nat /\ AskedOf(total, k) \in Nat
           /\ PartIn(traded, total, k) * TierFee[k] = AskedOf(total, k) - AskedOf(traded, k)
  <1> DEFINE a == InTier(traded, k)
             b == InTier(total, k)
             part == PartIn(traded, total, k)
             fee == TierFee[k]
  <1>1. a \in Nat /\ b \in Nat /\ fee \in Nat
    BY TierFacts DEF InTier, Lesser
  <1>2. part \in Nat /\ part = b - a
    BY DEF PartIn
  <1>3. AskedOf(traded, k) = a * fee /\ AskedOf(total, k) = b * fee
    BY DEF AskedOf
  <1> HIDE DEF a, b, part, fee
  <1>4. b = part + a
    BY <1>1, <1>2
  <1>5. b * fee = part * fee + a * fee /\ part * fee \in Nat /\ a * fee \in Nat /\ b * fee \in Nat
    BY <1>1, <1>2, <1>4, Products
  <1>6. QED BY <1>3, <1>5 DEF part, fee

(* The parts that are rounded are no more than one, and one for each tier  *)
(* that the volume leaves.                                                 *)
LEMMA RoundedParts ==
    ASSUME NEW traded \in Nat, NEW total \in Nat, traded <= total,
           NEW part, \A k \in 1 .. 5 : part[k] # 0 => traded < TierVolume[k] /\ TierStart(k) < total,
           NEW loss, loss \in Nat
    PROVE  LET lost(k) == IF part[k] = 0 THEN 0 ELSE loss
               over == TiersOver(total) - TiersOver(traded)
           IN  /\ over \in Nat
               /\ lost(1) + lost(2) + lost(3) + lost(4) + lost(5) <= loss + over * loss
  <1> DEFINE n(k) == IF part[k] = 0 THEN 0 ELSE 1
             over == TiersOver(total) - TiersOver(traded)
             N == n(1) + n(2) + n(3) + n(4) + n(5)
  <1>1. /\ TierVolume[1] \in Nat /\ TierVolume[2] \in Nat /\ TierVolume[3] \in Nat
        /\ TierVolume[4] \in Nat /\ TierVolume[5] \in Nat
        /\ TierVolume[1] <= TierVolume[2] /\ TierVolume[2] <= TierVolume[3]
        /\ TierVolume[3] <= TierVolume[4] /\ TierVolume[4] <= TierVolume[5]
    BY TierFacts
  <1>2. \A k \in 2 .. 5 : TierStart(k) = TierVolume[k - 1]
    BY DEF TierStart
  <1>3. /\ part[2] # 0 => traded < TierVolume[2] /\ TierVolume[1] < total
        /\ part[3] # 0 => traded < TierVolume[3] /\ TierVolume[2] < total
        /\ part[4] # 0 => traded < TierVolume[4] /\ TierVolume[3] < total
        /\ part[5] # 0 => traded < TierVolume[5] /\ TierVolume[4] < total
        /\ part[1] # 0 => traded < TierVolume[1]
    BY <1>2
  <1>4. over \in Nat /\ over \in 0 .. 4
    BY <1>1 DEF TiersOver, IsOver
  <1>5. N \in 0 .. 5 /\ N <= 1 + over
    BY <1>1, <1>3 DEF TiersOver, IsOver
  <1>6. (IF part[1] = 0 THEN 0 ELSE loss) + (IF part[2] = 0 THEN 0 ELSE loss)
        + (IF part[3] = 0 THEN 0 ELSE loss) + (IF part[4] = 0 THEN 0 ELSE loss)
        + (IF part[5] = 0 THEN 0 ELSE loss) = N * loss
    OBVIOUS
  <1> HIDE DEF N, over
  <1>7. N * loss <= (1 + over) * loss /\ (1 + over) * loss = loss + over * loss
    BY <1>4, <1>5, Products
  <1>8. QED BY <1>4, <1>6, <1>7 DEF over

(* The fee of a trade is what the tiers ask of the volume that it adds,    *)
(* rounded down at most once, and once for each tier that the volume       *)
(* leaves.                                                                 *)
LEMMA FeeFollowsTiers ==
    ASSUME NEW traded \in Nat, NEW trade \in Nat
    PROVE  LET total == traded + trade
               fee == Fee(traded, trade)
               over == TiersOver(total) - TiersOver(traded)
           IN  /\ fee \in Nat /\ over \in Nat
               /\ Asked(traded) \in Nat /\ Asked(total) \in Nat
               /\ Asked(traded) + FeeUnit * fee <= Asked(total)
               /\ Asked(total) <= Asked(traded) + FeeUnit * fee + (Loss + over * Loss)
  <1> DEFINE total == traded + trade
             Pay(acc, k) == PayTier(traded, trade, acc, k)
             a0 == [rest |-> trade, fee |-> 0]
             a1 == Pay(a0, 1)
             a2 == Pay(a1, 2)
             a3 == Pay(a2, 3)
             a4 == Pay(a3, 4)
             a5 == Pay(a4, 5)
             part == [k \in 1 .. 5 |-> PartIn(traded, total, k)]
             asked(k) == part[k] * TierFee[k]
             lost(k) == IF part[k] = 0 THEN 0 ELSE Loss
             Taken(acc, next, k) ==
                 /\ next \in Accumulators(trade)
                 /\ At(traded, trade, next) = Reached(traded, total, TierVolume[k])
                 /\ part[k] \in Nat /\ asked(k) \in Nat
                 /\ part[k] # 0 => traded < TierVolume[k] /\ TierStart(k) < total
                 /\ FeeUnit * next.fee <= FeeUnit * acc.fee + asked(k)
                 /\ FeeUnit * acc.fee + asked(k) <= FeeUnit * next.fee + lost(k)
  <1>1. total \in Nat /\ traded <= total /\ total = traded + trade
    OBVIOUS
  <1>2. Fee(traded, trade) = a5.fee
    BY DEF Fee
  <1>3. ASSUME NEW k \in 1 .. 5, NEW acc \in Accumulators(trade),
               At(traded, trade, acc) = Reached(traded, total, TierStart(k))
        PROVE  Taken(acc, Pay(acc, k), k)
    <2>1. part[k] = PartIn(traded, total, k)
      OBVIOUS
    <2> HIDE DEF part
    <2>2. QED BY <1>3, <2>1, TierTakes
  <1>4. a0 \in Accumulators(trade) /\ a0.fee = 0 /\ At(traded, trade, a0) = Reached(traded, total, TierStart(1))
    BY DEF Accumulators, At, Reached, TierStart
  <1>5. /\ TierStart(2) = TierVolume[1] /\ TierStart(3) = TierVolume[2]
        /\ TierStart(4) = TierVolume[3] /\ TierStart(5) = TierVolume[4]
    BY DEF TierStart
  <1> HIDE DEF total, Pay, a0, part
  <1>6. Taken(a0, a1, 1)
    BY <1>3, <1>4
  <1> HIDE DEF a1
  <1>7. Taken(a1, a2, 2)
    BY <1>3, <1>5, <1>6
  <1> HIDE DEF a2
  <1>8. Taken(a2, a3, 3)
    BY <1>3, <1>5, <1>7
  <1> HIDE DEF a3
  <1>9. Taken(a3, a4, 4)
    BY <1>3, <1>5, <1>8
  <1> HIDE DEF a4
  <1>10. Taken(a4, a5, 5)
    BY <1>3, <1>5, <1>9
  <1> HIDE DEF a5
  <1>11. /\ a1.fee \in Nat /\ a2.fee \in Nat /\ a3.fee \in Nat /\ a4.fee \in Nat /\ a5.fee \in Nat
    BY <1>6, <1>7, <1>8, <1>9, <1>10 DEF Accumulators
  <1> DEFINE over == TiersOver(total) - TiersOver(traded)
             allAsked == asked(1) + asked(2) + asked(3) + asked(4) + asked(5)
             allLost == lost(1) + lost(2) + lost(3) + lost(4) + lost(5)
             fee == FeeUnit * a5.fee
  <1>12. over \in Nat /\ allLost <= Loss + over * Loss
    <2>1. Loss \in Nat
      BY TierFacts
    <2>2. \A k \in 1 .. 5 : part[k] # 0 => traded < TierVolume[k] /\ TierStart(k) < total
      <3>1. \A k \in 1 .. 5 : k = 1 \/ k = 2 \/ k = 3 \/ k = 4 \/ k = 5
        OBVIOUS
      <3>2. QED BY <1>6, <1>7, <1>8, <1>9, <1>10, <3>1
    <2>3. QED BY ONLY <1>1, <2>1, <2>2, RoundedParts
  <1>13. fee <= allAsked /\ allAsked <= fee + allLost /\ fee \in Nat /\ allAsked \in Nat /\ allLost \in Nat
    <2>1. /\ FeeUnit * a1.fee \in Nat /\ FeeUnit * a2.fee \in Nat /\ FeeUnit * a3.fee \in Nat
          /\ FeeUnit * a4.fee \in Nat /\ FeeUnit * a5.fee \in Nat /\ FeeUnit * a0.fee = 0
      BY <1>4, <1>11, TierFacts, Products
    <2>2. lost(1) \in Nat /\ lost(2) \in Nat /\ lost(3) \in Nat /\ lost(4) \in Nat /\ lost(5) \in Nat
      BY TierFacts
    <2> HIDE DEF asked, lost
    <2>3. QED BY <1>6, <1>7, <1>8, <1>9, <1>10, <2>1, <2>2
  <1>14. ASSUME NEW k \in 1 .. 5, part[k] \in Nat
         PROVE  /\ AskedOf(traded, k) \in Nat /\ AskedOf(total, k) \in Nat
                /\ asked(k) = AskedOf(total, k) - AskedOf(traded, k)
    <2>1. part[k] = PartIn(traded, total, k)
      BY DEF part
    <2>2. QED BY <1>1, <1>14, <2>1, AskedFacts
  <1>15. /\ Asked(traded) \in Nat /\ Asked(total) \in Nat
         /\ allAsked = Asked(total) - Asked(traded)
    <2> HIDE DEF asked
    <2>1. /\ AskedOf(traded, 1) \in Nat /\ AskedOf(total, 1) \in Nat
          /\ asked(1) = AskedOf(total, 1) - AskedOf(traded, 1)
      BY <1>6, <1>14
    <2>2. /\ AskedOf(traded, 2) \in Nat /\ AskedOf(total, 2) \in Nat
          /\ asked(2) = AskedOf(total, 2) - AskedOf(traded, 2)
      BY <1>7, <1>14
    <2>3. /\ AskedOf(traded, 3) \in Nat /\ AskedOf(total, 3) \in Nat
          /\ asked(3) = AskedOf(total, 3) - AskedOf(traded, 3)
      BY <1>8, <1>14
    <2>4. /\ AskedOf(traded, 4) \in Nat /\ AskedOf(total, 4) \in Nat
          /\ asked(4) = AskedOf(total, 4) - AskedOf(traded, 4)
      BY <1>9, <1>14
    <2>5. /\ AskedOf(traded, 5) \in Nat /\ AskedOf(total, 5) \in Nat
          /\ asked(5) = AskedOf(total, 5) - AskedOf(traded, 5)
      BY <1>10, <1>14
    <2>6. QED BY <2>1, <2>2, <2>3, <2>4, <2>5 DEF Asked
  <1> HIDE DEF over, allAsked, allLost, fee
  <1>16. over * Loss \in Nat /\ Loss \in Nat
    BY <1>12, TierFacts, Products
  <1>17. /\ Asked(traded) + fee <= Asked(total)
         /\ Asked(total) <= Asked(traded) + fee + (Loss + over * Loss)
    BY <1>12, <1>13, <1>15, <1>16
  <1>18. QED BY <1>2, <1>11, <1>12, <1>15, <1>17 DEF fee, over, total

-----------------------------------------------------------------------------
(* Positions.                                                              *)

(* What has been paid or got for what was sold keeps to the rate.          *)
Sold(p) == p.quest.quantity - p.left
VolumeWithinLimit(p) ==
    IF p.quest.kind = "cycles" THEN p.volume <= p.quest.rate * Sold(p)
                               ELSE p.volume >= p.quest.rate * Sold(p)
Sound(p) ==
    /\ p \in Position /\ p.quest.rate # 0
    /\ p.left <= p.quest.quantity
    /\ VolumeWithinLimit(p)

(* What is open is worth some tokens, at whatever rate it may trade.       *)
Worth(p) == TokensAt(p, p.quest.rate) >= FeeUnit

LEMMA SoundFacts ==
    ASSUME NEW p, Sound(p)
    PROVE  /\ p \in Position /\ p.quest \in Quest /\ p.quest.kind \in Kind
           /\ p.quest.rate \in Nat \ {0} /\ p.quest.quantity \in Nat
           /\ p.left \in Nat /\ p.left <= p.quest.quantity
           /\ p.volume \in Nat /\ p.fill \in Nat /\ p.fees \in Nat
           /\ Sold(p) \in Nat
           /\ p = [quest |-> p.quest, left |-> p.left, volume |-> p.volume, fill |-> p.fill,
                   fees |-> p.fees]
  <1>1. p \in Position /\ p.quest.rate # 0 /\ p.left <= p.quest.quantity
    BY DEF Sound
  <1>2. p.quest \in Quest /\ p.left \in Nat /\ p.volume \in Nat /\ p.fill \in Nat /\ p.fees \in Nat
    BY <1>1 DEF Position
  <1>3. p.quest.kind \in Kind /\ p.quest.rate \in Nat /\ p.quest.quantity \in Nat
    BY <1>2 DEF Quest
  <1>4. p = [quest |-> p.quest, left |-> p.left, volume |-> p.volume, fill |-> p.fill,
             fees |-> p.fees]
    BY <1>1 DEF Position
  <1>5. QED BY <1>1, <1>2, <1>3, <1>4 DEF Sold

LEMMA TokensFacts ==
    ASSUME NEW p, Sound(p), NEW rate \in Nat \ {0}
    PROVE  /\ TokensAt(p, rate) \in Nat
           /\ p.quest.kind = "cycles" => TokensAt(p, rate) = p.left \div rate
           /\ p.quest.kind # "cycles" => TokensAt(p, rate) = p.left
           /\ p.quest.kind = "cycles" => TokensAt(p, rate) * rate <= p.left
           /\ p.quest.kind = "cycles" => p.left < TokensAt(p, rate) * rate + rate
  <1>1. p.left \in Nat
    BY SoundFacts
  <1>2. p.left \div rate \in Nat /\ rate * (p.left \div rate) <= p.left
        /\ p.left < rate * (p.left \div rate) + rate
    BY <1>1, DivFacts
  <1>3. (p.left \div rate) * rate = rate * (p.left \div rate)
    BY <1>2, Products
  <1>4. QED BY <1>1, <1>2, <1>3 DEF TokensAt, cycles_transform_tokens

(* A position that is worth a match at its own rate is so at a better one. *)
LEMMA WorthWithinLimit ==
    ASSUME NEW p, Sound(p), Worth(p), NEW rate \in Nat \ {0}, WithinLimit(rate, p.quest)
    PROVE  TokensAt(p, rate) > 0
  <1>1. FeeUnit \in Nat \ {0}
    BY TradeFeeAssumption
  <1>2. CASE p.quest.kind = "cycles"
    <2>1. p.left \in Nat /\ p.quest.rate \in Nat \ {0} /\ rate <= p.quest.rate
      BY <1>2, SoundFacts DEF WithinLimit
    <2>2. p.left \div p.quest.rate <= p.left \div rate
      BY <2>1, DivMonotonic
    <2>3. /\ TokensAt(p, p.quest.rate) = p.left \div p.quest.rate /\ TokensAt(p, p.quest.rate) \in Nat
          /\ TokensAt(p, rate) = p.left \div rate /\ TokensAt(p, rate) \in Nat
      BY <1>2, <2>1, TokensFacts
    <2>4. TokensAt(p, p.quest.rate) >= FeeUnit
      BY DEF Worth
    <2>5. QED BY <1>1, <2>2, <2>3, <2>4
  <1>3. CASE p.quest.kind # "cycles"
    BY <1>1, <1>3, SoundFacts, TokensFacts DEF Worth
  <1>4. QED BY <1>2, <1>3

LEMMA FeeOfPosition ==
    ASSUME NEW p, Sound(p), NEW cycles \in Nat
    PROVE  FeeCycles(p, cycles) \in Nat /\ FeeCycles(p, cycles) <= cycles
  <1>1. Sold(p) \in Nat /\ p.volume \in Nat
    BY SoundFacts
  <1>2. CASE p.quest.kind = "cycles"
    <2>1. FeeCycles(p, cycles) = Fee(Sold(p), cycles)
      BY <1>2 DEF FeeCycles, Sold
    <2>2. QED BY <1>1, <2>1, FeeIsAPart
  <1>3. CASE p.quest.kind # "cycles"
    <2>1. FeeCycles(p, cycles) = Fee(p.volume, cycles)
      BY <1>3 DEF FeeCycles
    <2>2. QED BY <1>1, <2>1, FeeIsAPart
  <1>4. QED BY <1>2, <1>3

(* What a match makes of a cycles position: nothing saturates.             *)
LEMMA CyclesSubtracted ==
    ASSUME NEW p, Sound(p), p.quest.kind = "cycles", NEW rate \in Nat \ {0},
           WithinLimit(rate, p.quest), NEW tokens \in Nat, tokens <= TokensAt(p, rate)
    PROVE  LET cycles == tokens_transform_cycles(tokens, rate)
               fee == FeeCycles(p, cycles)
           IN  /\ cycles \in Nat /\ cycles <= p.left
               /\ fee \in Nat /\ fee <= cycles
               /\ FeeTokens(fee, rate) \in Nat /\ FeeTokens(fee, rate) <= tokens
               /\ SubtractTokens(p, tokens, rate)
                    = [quest |-> p.quest, left |-> p.left - cycles, volume |-> p.volume + rate * cycles,
                       fill |-> p.fill + tokens, fees |-> p.fees + FeeTokens(fee, rate)]
               /\ Sound(SubtractTokens(p, tokens, rate))
  <1> DEFINE cycles == tokens_transform_cycles(tokens, rate)
             fee == FeeCycles(p, cycles)
             feeTokens == FeeTokens(fee, rate)
             r == [quest |-> p.quest, left |-> p.left - cycles, volume |-> p.volume + rate * cycles,
                   fill |-> p.fill + tokens, fees |-> p.fees + feeTokens]
  <1>1. /\ p.quest \in Quest /\ p.quest.rate \in Nat \ {0} /\ p.quest.quantity \in Nat
        /\ p.left \in Nat /\ p.left <= p.quest.quantity /\ p.volume \in Nat /\ p.fill \in Nat
        /\ p.fees \in Nat /\ Sold(p) \in Nat
        /\ p = [quest |-> p.quest, left |-> p.left, volume |-> p.volume, fill |-> p.fill,
                fees |-> p.fees]
    BY SoundFacts
  <1>2. cycles = tokens * rate /\ cycles \in Nat
    BY DEF tokens_transform_cycles
  <1>3. cycles <= p.left
    <2>1. TokensAt(p, rate) \in Nat /\ TokensAt(p, rate) * rate <= p.left
      BY TokensFacts
    <2>2. tokens * rate <= TokensAt(p, rate) * rate
      BY <2>1, Products
    <2>3. TokensAt(p, rate) * rate \in Nat
      BY <2>1, Products
    <2>4. QED BY <1>1, <1>2, <2>1, <2>2, <2>3
  <1>4. fee \in Nat /\ fee <= cycles
    BY <1>2, FeeOfPosition
  <1>5. feeTokens = fee \div rate
    BY DEF FeeTokens, cycles_transform_tokens
  <1>6. feeTokens \in Nat /\ feeTokens <= tokens
    <2> HIDE DEF fee, cycles
    <2>1. fee \div rate <= cycles \div rate
      <3>1. rate <= rate /\ cycles \in Nat
        BY <1>2
      <3>2. QED BY ONLY <1>4, <3>1, rate \in Nat \ {0}, DivMonotonic, Zenon
    <2>2. cycles \div rate = tokens
      BY <1>2, DivExact
    <2>3. QED BY <1>4, <1>5, <2>1, <2>2, DivFacts
  <1>7. SubtractTokens(p, tokens, rate) = r
    <2>1. SubtractTokens(p, tokens, rate)
            = [p EXCEPT !.fill = @ + tokens, !.left = SaturatingSub(@, cycles),
                        !.volume = @ + rate * cycles, !.fees = @ + feeTokens]
      BY DEF SubtractTokens, FeeTokens
    <2>2. SaturatingSub(p.left, cycles) = p.left - cycles
      BY <1>1, <1>2, <1>3 DEF SaturatingSub
    <2> HIDE DEF feeTokens, fee, cycles
    <2>3. QED BY <1>1, <2>1, <2>2
  <1> HIDE DEF feeTokens, fee, cycles
  <1>8. rate * cycles \in Nat /\ p.quest.rate * cycles \in Nat /\ p.quest.rate * Sold(p) \in Nat
        /\ rate * cycles <= p.quest.rate * cycles
    <2>1. rate <= p.quest.rate
      BY DEF WithinLimit
    <2>2. QED BY <1>1, <1>2, <2>1, Products
  <1>9. r \in Position /\ r.quest.rate # 0 /\ r.left <= r.quest.quantity
    BY <1>1, <1>2, <1>3, <1>6, <1>8 DEF Position
  <1>10. VolumeWithinLimit(r)
    <2>1. p.volume <= p.quest.rate * Sold(p)
      BY DEF Sound, VolumeWithinLimit
    <2>2. Sold(r) = Sold(p) + cycles
      BY <1>1, <1>2, <1>3 DEF Sold
    <2>3. p.quest.rate * (Sold(p) + cycles) = p.quest.rate * Sold(p) + p.quest.rate * cycles
      <3>1. p.quest.rate \in Nat /\ Sold(p) \in Nat
        BY <1>1
      <3>2. QED BY ONLY <1>2, <3>1, Distributes
    <2>4. p.volume + rate * cycles <= p.quest.rate * Sold(p) + p.quest.rate * cycles
      BY <1>1, <1>8, <2>1
    <2>5. QED BY <2>2, <2>3, <2>4 DEF VolumeWithinLimit
  <1>11. Sound(r)
    BY <1>9, <1>10 DEF Sound
  <1>12. QED
    BY <1>2, <1>3, <1>4, <1>6, <1>7, <1>11 DEF cycles, fee, feeTokens

(* And of a token position.                                                *)
LEMMA TokensSubtracted ==
    ASSUME NEW p, Sound(p), p.quest.kind # "cycles", NEW rate \in Nat \ {0},
           WithinLimit(rate, p.quest), NEW tokens \in Nat, tokens <= TokensAt(p, rate)
    PROVE  LET cycles == tokens_transform_cycles(tokens, rate)
               fee == FeeCycles(p, cycles)
           IN  /\ cycles \in Nat /\ tokens <= p.left
               /\ fee \in Nat /\ fee <= cycles
               /\ SubtractTokens(p, tokens, rate)
                    = [quest |-> p.quest, left |-> p.left - tokens, volume |-> p.volume + cycles,
                       fill |-> p.fill, fees |-> p.fees + fee]
               /\ Sound(SubtractTokens(p, tokens, rate))
  <1> DEFINE cycles == tokens_transform_cycles(tokens, rate)
             fee == FeeCycles(p, cycles)
             r == [quest |-> p.quest, left |-> p.left - tokens, volume |-> p.volume + cycles,
                   fill |-> p.fill, fees |-> p.fees + fee]
  <1>1. /\ p.quest \in Quest /\ p.quest.rate \in Nat \ {0} /\ p.quest.quantity \in Nat
        /\ p.left \in Nat /\ p.left <= p.quest.quantity /\ p.volume \in Nat /\ p.fill \in Nat
        /\ p.fees \in Nat /\ Sold(p) \in Nat
        /\ p = [quest |-> p.quest, left |-> p.left, volume |-> p.volume, fill |-> p.fill,
                fees |-> p.fees]
    BY SoundFacts
  <1>2. cycles = tokens * rate /\ cycles \in Nat
    BY DEF tokens_transform_cycles
  <1>3. tokens <= p.left
    BY TokensFacts
  <1>4. fee \in Nat /\ fee <= cycles
    BY <1>2, FeeOfPosition
  <1>5. SubtractTokens(p, tokens, rate) = r
    <2>1. SubtractTokens(p, tokens, rate)
            = [p EXCEPT !.left = SaturatingSub(@, tokens), !.volume = @ + cycles, !.fees = @ + fee]
      BY DEF SubtractTokens
    <2>2. SaturatingSub(p.left, tokens) = p.left - tokens
      BY <1>1, <1>3 DEF SaturatingSub
    <2> HIDE DEF fee, cycles
    <2>3. QED BY <1>1, <2>1, <2>2
  <1> HIDE DEF fee, cycles
  <1>6. p.quest.rate * tokens <= cycles /\ p.quest.rate * tokens \in Nat /\ p.quest.rate * Sold(p) \in Nat
    <2>1. rate >= p.quest.rate
      BY DEF WithinLimit
    <2>2. p.quest.rate * tokens <= rate * tokens /\ rate * tokens = tokens * rate
      BY <1>1, <2>1, Products
    <2>3. QED BY <1>1, <1>2, <2>2, Products
  <1>7. r \in Position /\ r.quest.rate # 0 /\ r.left <= r.quest.quantity
    BY <1>1, <1>2, <1>3, <1>4 DEF Position
  <1>8. VolumeWithinLimit(r)
    <2>1. p.volume >= p.quest.rate * Sold(p)
      BY DEF Sound, VolumeWithinLimit
    <2>2. Sold(r) = Sold(p) + tokens
      BY <1>1, <1>3 DEF Sold
    <2>3. p.quest.rate * (Sold(p) + tokens) = p.quest.rate * Sold(p) + p.quest.rate * tokens
      <3>1. p.quest.rate \in Nat /\ Sold(p) \in Nat
        BY <1>1
      <3>2. QED BY ONLY <3>1, tokens \in Nat, Distributes
    <2>4. p.volume + cycles >= p.quest.rate * Sold(p) + p.quest.rate * tokens
      BY <1>1, <1>2, <1>6, <2>1
    <2>5. QED BY <2>2, <2>3, <2>4 DEF VolumeWithinLimit
  <1>9. Sound(r)
    BY <1>7, <1>8 DEF Sound
  <1>10. QED
    BY <1>2, <1>3, <1>4, <1>5, <1>9 DEF cycles, fee

LEMMA MinimumFacts ==
    ASSUME transfer_fee \in [Kind -> LedgerFee], NEW kind \in Kind
    PROVE  minimum_match(kind) \in Nat /\ minimum_match(kind) >= FeeUnit
  <1>1. transfer_fee[kind] \in Nat /\ FeeTimes \in Nat /\ FeeUnit \in Nat
    BY MatchingAssumption, TradeFeeAssumption
  <1>2. transfer_fee[kind] * FeeTimes \in Nat
    BY <1>1, Products
  <1>3. QED BY <1>1, <1>2 DEF minimum_match

(* What a match leaves in the book is worth another.                       *)
LEMMA NotFilledIsWorth ==
    ASSUME transfer_fee \in [Kind -> LedgerFee], NEW p, Sound(p), ~IsFilled(p)
    PROVE  Worth(p)
  <1>1. minimum_match("token") \in Nat /\ minimum_match("token") >= FeeUnit
    BY MinimumFacts DEF Kind
  <1>2. TokensAt(p, p.quest.rate) \in Nat
    BY SoundFacts, TokensFacts
  <1>3. ~(TokensAt(p, p.quest.rate) < minimum_match("token"))
    BY DEF IsFilled, BelowMinimum
  <1>4. FeeUnit \in Nat
    BY TradeFeeAssumption
  <1>5. QED BY <1>1, <1>2, <1>3, <1>4 DEF Worth

(* A position that trades all the tokens it can is filled.                 *)
LEMMA Exhausted ==
    ASSUME transfer_fee \in [Kind -> LedgerFee], NEW p, Sound(p), NEW rate \in Nat \ {0},
           WithinLimit(rate, p.quest)
    PROVE  IsFilled(SubtractTokens(p, TokensAt(p, rate), rate))
  <1> DEFINE tokens == TokensAt(p, rate)
             r == SubtractTokens(p, tokens, rate)
  <1>1. minimum_match("token") \in Nat /\ minimum_match("token") >= FeeUnit /\ FeeUnit \in Nat \ {0}
    BY MinimumFacts, TradeFeeAssumption DEF Kind
  <1>2. p.left \in Nat /\ p.quest.rate \in Nat \ {0} /\ tokens \in Nat
    BY SoundFacts, TokensFacts
  <1>3. SUFFICES TokensAt(r, r.quest.rate) = 0
    BY <1>1, <1>3 DEF IsFilled, BelowMinimum
  <1>4. CASE p.quest.kind = "cycles"
    <2> DEFINE cycles == tokens_transform_cycles(tokens, rate)
    <2>1. cycles = tokens * rate
      BY DEF tokens_transform_cycles
    <2>2. cycles \in Nat /\ cycles <= p.left /\ p.left < cycles + rate
      <3>1. tokens * rate <= p.left /\ p.left < tokens * rate + rate
        BY <1>4, TokensFacts
      <3>2. QED BY <1>2, <2>1, <3>1
    <2>3. rate <= p.quest.rate
      BY <1>4 DEF WithinLimit
    <2>4. tokens <= TokensAt(p, rate)
      BY <1>2
    <2>5. r.quest = p.quest /\ r.left = p.left - cycles /\ Sound(r)
      <3> HIDE DEF tokens
      <3>1. QED BY <1>2, <1>4, <2>4, CyclesSubtracted
    <2> HIDE DEF cycles, tokens, r
    <2>6. r.left \in Nat /\ r.left < p.quest.rate
      BY <1>2, <2>2, <2>3, <2>5
    <2>7. r.left \div p.quest.rate = 0
      BY <1>2, <2>6, DivOfLess
    <2>8. QED BY <1>4, <1>2, <2>5, <2>7 DEF TokensAt, cycles_transform_tokens
  <1>5. CASE p.quest.kind # "cycles"
    <2>1. tokens = p.left /\ tokens <= TokensAt(p, rate)
      BY <1>2, <1>5, TokensFacts
    <2>2. r.quest = p.quest /\ r.left = p.left - tokens
      <3> HIDE DEF tokens
      <3>1. QED BY <1>2, <1>5, <2>1, TokensSubtracted
    <2> HIDE DEF tokens, r
    <2>3. r.left = 0
      BY <1>2, <2>1, <2>2
    <2>4. QED BY <1>5, <2>2, <2>3 DEF TokensAt
  <1>6. QED BY <1>4, <1>5

-----------------------------------------------------------------------------
(* A match.                                                                *)

(* The middle of two rates is between them.                                *)
LEMMA HalfFacts ==
    ASSUME NEW a \in Nat
    PROVE  Half(a) \in Nat /\ Half(a) <= a
  BY DEF Half

LEMMA RateBetween ==
    ASSUME NEW p, Sound(p), NEW q, Sound(q), q.quest.kind = Other(p.quest.kind),
           Compatible(q, p.quest.rate)
    PROVE  /\ TradeRate(q, p.quest.rate) \in Nat \ {0}
           /\ WithinLimit(TradeRate(q, p.quest.rate), p.quest)
           /\ WithinLimit(TradeRate(q, p.quest.rate), q.quest)
  <1> DEFINE a == p.quest.rate
             b == q.quest.rate
  <1>1. a \in Nat \ {0} /\ b \in Nat \ {0} /\ p.quest.kind \in Kind
    BY SoundFacts
  <1>2. CASE q.quest.kind = "cycles"
    <2>1. p.quest.kind = "token"
      BY <1>1, <1>2 DEF Other, Kind
    <2>2. b >= a /\ TradeRate(q, a) = b - Half(b - a)
      BY <1>2 DEF Compatible, TradeRate
    <2> HIDE DEF a, b
    <2>3. Half(b - a) \in Nat /\ Half(b - a) <= b - a
      BY <1>1, <2>2, HalfFacts
    <2>4. TradeRate(q, a) \in Nat \ {0} /\ TradeRate(q, a) >= a /\ TradeRate(q, a) <= b
      BY <1>1, <2>2, <2>3
    <2>5. QED BY <1>2, <2>1, <2>4 DEF WithinLimit, a, b
  <1>3. CASE q.quest.kind # "cycles"
    <2>1. p.quest.kind = "cycles"
      BY <1>1, <1>3 DEF Other, Kind
    <2>2. b <= a /\ TradeRate(q, a) = b + Half(a - b)
      BY <1>3 DEF Compatible, TradeRate
    <2> HIDE DEF a, b
    <2>3. Half(a - b) \in Nat /\ Half(a - b) <= a - b
      BY <1>1, <2>2, HalfFacts
    <2>4. TradeRate(q, a) \in Nat \ {0} /\ TradeRate(q, a) >= b /\ TradeRate(q, a) <= a
      BY <1>1, <2>2, <2>3
    <2>5. QED BY <1>3, <2>1, <2>4 DEF WithinLimit, a, b
  <1>4. QED BY <1>2, <1>3

(* One of the two trades all that it has.                                  *)
LEMMA PurchaseFacts ==
    ASSUME NEW p, Sound(p), Worth(p), NEW q, Sound(q), Worth(q), NEW rate \in Nat \ {0},
           WithinLimit(rate, p.quest), WithinLimit(rate, q.quest)
    PROVE  /\ PurchaseTokens(p, q, rate) \in Nat /\ PurchaseTokens(p, q, rate) > 0
           /\ PurchaseTokens(p, q, rate) <= TokensAt(p, rate)
           /\ PurchaseTokens(p, q, rate) <= TokensAt(q, rate)
           /\ PurchaseTokens(p, q, rate) \in {TokensAt(p, rate), TokensAt(q, rate)}
  <1>1. TokensAt(p, rate) \in Nat /\ TokensAt(q, rate) \in Nat
    BY TokensFacts
  <1>2. TokensAt(p, rate) > 0 /\ TokensAt(q, rate) > 0
    BY WorthWithinLimit
  <1>3. QED BY <1>1, <1>2 DEF PurchaseTokens

(* Either kind of position.                                                *)
LEMMA SubtractedIsSound ==
    ASSUME NEW p, Sound(p), NEW rate \in Nat \ {0}, WithinLimit(rate, p.quest),
           NEW tokens \in Nat, tokens <= TokensAt(p, rate)
    PROVE  /\ Sound(SubtractTokens(p, tokens, rate))
           /\ SubtractTokens(p, tokens, rate).quest = p.quest
  <1>1. CASE p.quest.kind = "cycles"
    BY <1>1, CyclesSubtracted
  <1>2. CASE p.quest.kind # "cycles"
    BY <1>2, TokensSubtracted
  <1>3. QED BY <1>1, <1>2

-----------------------------------------------------------------------------
(* Logs and totals.                                                        *)

TotalsRecord == [trades : Nat, rates : Nat, cycles : Nat, tokens : Nat, tokens_fees : Nat,
                 tokens_fees_worth : Nat, cycles_fees : Nat]
NoTotals == [trades |-> 0, rates |-> 0, cycles |-> 0, tokens |-> 0, tokens_fees |-> 0,
             tokens_fees_worth |-> 0, cycles_fees |-> 0]
WithLog(totals, log) ==
    [trades |-> totals.trades + 1, rates |-> totals.rates + log.rate,
     cycles |-> totals.cycles + log.cycles, tokens |-> totals.tokens + log.tokens,
     tokens_fees |-> totals.tokens_fees + log.tokens_payout_fee,
     tokens_fees_worth |-> totals.tokens_fees_worth + log.tokens_payout_fee * log.rate,
     cycles_fees |-> totals.cycles_fees + log.cycles_payout_fee]

LEMMA LogTypes ==
    ASSUME NEW logs \in Seq(TradeLog)
    PROVE  /\ Len(logs) \in Nat /\ DOMAIN logs = 1 .. Len(logs)
           /\ \A k \in DOMAIN logs :
                /\ logs[k] \in TradeLog
                /\ logs[k].rate \in Nat /\ logs[k].tokens_payout_fee * logs[k].rate \in Nat
                /\ logs[k].cycles \in Nat /\ logs[k].tokens \in Nat
                /\ logs[k].tokens_payout_fee \in Nat /\ logs[k].cycles_payout_fee \in Nat
  <1>1. Len(logs) \in Nat /\ DOMAIN logs = 1 .. Len(logs)
    OBVIOUS
  <1>2. ASSUME NEW k \in DOMAIN logs PROVE logs[k] \in TradeLog
    OBVIOUS
  <1>3. QED BY <1>1, <1>2, Products DEF TradeLog

LEMMA LogsOfFacts ==
    ASSUME NEW logs \in Seq(TradeLog), NEW id
    PROVE  IsFiniteSet(LogsOf(id, logs)) /\ LogsOf(id, logs) \subseteq 1 .. Len(logs)
  <1>1. Len(logs) \in Nat /\ DOMAIN logs = 1 .. Len(logs)
    BY LogTypes
  <1>2. LogsOf(id, logs) \subseteq 1 .. Len(logs)
    BY <1>1 DEF LogsOf
  <1>3. IsFiniteSet(1 .. Len(logs))
    BY <1>1, FS_Interval
  <1>4. QED BY <1>2, <1>3, FS_Subset

LEMMA TotalsType ==
    ASSUME NEW logs \in Seq(TradeLog), NEW id
    PROVE  Totals(id, logs) \in TotalsRecord
  <1> DEFINE S == LogsOf(id, logs)
             cycles == [k \in DOMAIN logs |-> logs[k].cycles]
             tokens == [k \in DOMAIN logs |-> logs[k].tokens]
             tokens_fees == [k \in DOMAIN logs |-> logs[k].tokens_payout_fee]
             cycles_fees == [k \in DOMAIN logs |-> logs[k].cycles_payout_fee]
             rates == [k \in DOMAIN logs |-> logs[k].rate]
             worth == [k \in DOMAIN logs |-> logs[k].tokens_payout_fee * logs[k].rate]
  <1>1. IsFiniteSet(S) /\ S \subseteq DOMAIN logs
    BY LogsOfFacts, LogTypes
  <1>2. \A k \in S : /\ cycles[k] \in Nat /\ tokens[k] \in Nat /\ rates[k] \in Nat /\ worth[k] \in Nat
                     /\ tokens_fees[k] \in Nat /\ cycles_fees[k] \in Nat
    BY <1>1, LogTypes
  <1>3. Totals(id, logs) = [trades |-> Cardinality(S), rates |-> SumFunctionOnSet(rates, S),
                            cycles |-> SumFunctionOnSet(cycles, S),
                            tokens |-> SumFunctionOnSet(tokens, S),
                            tokens_fees |-> SumFunctionOnSet(tokens_fees, S),
                            tokens_fees_worth |-> SumFunctionOnSet(worth, S),
                            cycles_fees |-> SumFunctionOnSet(cycles_fees, S)]
    BY DEF Totals
  <1> HIDE DEF S, cycles, tokens, tokens_fees, cycles_fees, rates, worth
  <1>4. SumFunctionOnSet(cycles, S) \in Nat /\ SumFunctionOnSet(tokens, S) \in Nat
    BY <1>1, <1>2, SumType
  <1>5. SumFunctionOnSet(tokens_fees, S) \in Nat /\ SumFunctionOnSet(cycles_fees, S) \in Nat
    BY <1>1, <1>2, SumType
  <1>6. SumFunctionOnSet(rates, S) \in Nat /\ SumFunctionOnSet(worth, S) \in Nat
    BY <1>1, <1>2, SumType
  <1>7. Cardinality(S) \in Nat
    BY <1>1, FS_CardinalityType
  <1>8. QED BY <1>3, <1>4, <1>5, <1>6, <1>7 DEF TotalsRecord

(* One more log counts for its two positions, and for no other.            *)
LEMMA AppendedLogs ==
    ASSUME NEW logs \in Seq(TradeLog), NEW log \in TradeLog, NEW id
    PROVE  /\ Append(logs, log) \in Seq(TradeLog)
           /\ DOMAIN Append(logs, log) = DOMAIN logs \cup {Len(logs) + 1}
           /\ Len(logs) + 1 \notin DOMAIN logs
           /\ \A k \in DOMAIN logs : Append(logs, log)[k] = logs[k]
           /\ Append(logs, log)[Len(logs) + 1] = log
           /\ id \in {log.matcher, log.matchee}
                => LogsOf(id, Append(logs, log)) = LogsOf(id, logs) \cup {Len(logs) + 1}
           /\ id \notin {log.matcher, log.matchee}
                => LogsOf(id, Append(logs, log)) = LogsOf(id, logs)
  <1> DEFINE more == Append(logs, log)
             n == Len(logs) + 1
  <1>1. /\ more \in Seq(TradeLog) /\ Len(more) = n /\ DOMAIN more = 1 .. n
        /\ \A k \in 1 .. Len(logs) : more[k] = logs[k]
        /\ more[n] = log
    OBVIOUS
  <1>2. Len(logs) \in Nat /\ DOMAIN logs = 1 .. Len(logs)
    BY LogTypes
  <1>3. 1 .. n = 1 .. Len(logs) \cup {n} /\ n \notin 1 .. Len(logs)
    BY <1>2
  <1> HIDE DEF more, n
  <1>4. /\ id \in {log.matcher, log.matchee} => LogsOf(id, more) = LogsOf(id, logs) \cup {n}
        /\ id \notin {log.matcher, log.matchee} => LogsOf(id, more) = LogsOf(id, logs)
    BY <1>1, <1>2, <1>3 DEF LogsOf
  <1>5. QED BY <1>1, <1>2, <1>3, <1>4 DEF more, n

LEMMA TotalsWithLog ==
    ASSUME NEW logs \in Seq(TradeLog), NEW log \in TradeLog, NEW id
    PROVE  /\ id \in {log.matcher, log.matchee}
                => Totals(id, Append(logs, log)) = WithLog(Totals(id, logs), log)
           /\ id \notin {log.matcher, log.matchee}
                => Totals(id, Append(logs, log)) = Totals(id, logs)
  <1> DEFINE more == Append(logs, log)
             n == Len(logs) + 1
             S == LogsOf(id, logs)
             c(l) == [k \in DOMAIN l |-> l[k].cycles]
             t(l) == [k \in DOMAIN l |-> l[k].tokens]
             tf(l) == [k \in DOMAIN l |-> l[k].tokens_payout_fee]
             cf(l) == [k \in DOMAIN l |-> l[k].cycles_payout_fee]
             rs(l) == [k \in DOMAIN l |-> l[k].rate]
             tw(l) == [k \in DOMAIN l |-> l[k].tokens_payout_fee * l[k].rate]
             Sum(f) == SumFunctionOnSet(f, S)
             SumMore(f) == SumFunctionOnSet(f, S \cup {n})
  <1>1. /\ more \in Seq(TradeLog) /\ n \notin DOMAIN logs /\ n \in DOMAIN more
        /\ \A k \in DOMAIN logs : more[k] = logs[k] /\ k \in DOMAIN more
        /\ more[n] = log
        /\ id \in {log.matcher, log.matchee} => LogsOf(id, more) = S \cup {n}
        /\ id \notin {log.matcher, log.matchee} => LogsOf(id, more) = S
    BY AppendedLogs
  <1>2. IsFiniteSet(S) /\ S \subseteq DOMAIN logs /\ n \notin S
    BY <1>1, LogsOfFacts, LogTypes
  <1> HIDE DEF more, n, S
  <1>3. \A k \in S : /\ c(logs)[k] \in Nat /\ c(more)[k] = c(logs)[k]
                     /\ t(logs)[k] \in Nat /\ t(more)[k] = t(logs)[k]
                     /\ tf(logs)[k] \in Nat /\ tf(more)[k] = tf(logs)[k]
                     /\ cf(logs)[k] \in Nat /\ cf(more)[k] = cf(logs)[k]
                     /\ rs(logs)[k] \in Nat /\ rs(more)[k] = rs(logs)[k]
                     /\ tw(logs)[k] \in Nat /\ tw(more)[k] = tw(logs)[k]
    BY <1>1, <1>2, LogTypes
  <1>4. /\ c(more)[n] = log.cycles /\ t(more)[n] = log.tokens
        /\ tf(more)[n] = log.tokens_payout_fee /\ cf(more)[n] = log.cycles_payout_fee
        /\ rs(more)[n] = log.rate /\ tw(more)[n] = log.tokens_payout_fee * log.rate
    BY <1>1
  <1>5. /\ log.cycles \in Nat /\ log.tokens \in Nat
        /\ log.tokens_payout_fee \in Nat /\ log.cycles_payout_fee \in Nat
        /\ log.rate \in Nat /\ log.tokens_payout_fee * log.rate \in Nat
    BY Products DEF TradeLog
  <1>6. \A l : Totals(id, l) =
            [trades |-> Cardinality(LogsOf(id, l)),
             rates |-> SumFunctionOnSet(rs(l), LogsOf(id, l)),
             cycles |-> SumFunctionOnSet(c(l), LogsOf(id, l)),
             tokens |-> SumFunctionOnSet(t(l), LogsOf(id, l)),
             tokens_fees |-> SumFunctionOnSet(tf(l), LogsOf(id, l)),
             tokens_fees_worth |-> SumFunctionOnSet(tw(l), LogsOf(id, l)),
             cycles_fees |-> SumFunctionOnSet(cf(l), LogsOf(id, l))]
    BY DEF Totals
  <1> HIDE DEF c, t, tf, cf, rs, tw
  <1> DEFINE R == S \cup {n}
  <1>6a. IsFiniteSet(R) /\ n \in R /\ R \ {n} = S
    BY <1>2, FS_AddElement
  <1> HIDE DEF R
  <1>6b. ASSUME NEW f, NEW h, \A k \in S : f[k] \in Nat /\ h[k] = f[k], h[n] \in Nat
        PROVE  Sum(h) = Sum(f) /\ SumMore(h) = Sum(f) + h[n]
    <2>1. SumFunctionOnSet(h, S) = SumFunctionOnSet(f, S)
      BY <1>6b, <1>2, SumOfSame
    <2>2. \A k \in R : h[k] \in Nat
      BY <1>6b DEF R
    <2>3. SumFunctionOnSet(h, R) = h[n] + SumFunctionOnSet(h, R \ {n})
      BY ONLY <1>6a, <2>2, SumWithout
    <2>4. SumFunctionOnSet(h, R) = h[n] + SumFunctionOnSet(h, S)
      BY ONLY <1>6a, <2>3, Zenon
    <2>5. SumFunctionOnSet(f, S) \in Nat
      BY <1>6b, <1>2, SumType
    <2>6. QED BY <1>6b, <2>1, <2>4, <2>5 DEF R
  <1> HIDE DEF Sum, SumMore
  <1>7. Sum(c(more)) = Sum(c(logs)) /\ SumMore(c(more)) = Sum(c(logs)) + log.cycles
    <2>1. (\A k \in S : c(logs)[k] \in Nat /\ c(more)[k] = c(logs)[k]) /\ c(more)[n] \in Nat
      BY <1>3, <1>4, <1>5
    <2>2. SumMore(c(more)) = Sum(c(logs)) + c(more)[n] /\ Sum(c(more)) = Sum(c(logs))
      BY ONLY <1>6b, <2>1
    <2>3. QED BY <1>4, <2>2
  <1>8. Sum(t(more)) = Sum(t(logs)) /\ SumMore(t(more)) = Sum(t(logs)) + log.tokens
    <2>1. (\A k \in S : t(logs)[k] \in Nat /\ t(more)[k] = t(logs)[k]) /\ t(more)[n] \in Nat
      BY <1>3, <1>4, <1>5
    <2>2. SumMore(t(more)) = Sum(t(logs)) + t(more)[n] /\ Sum(t(more)) = Sum(t(logs))
      BY ONLY <1>6b, <2>1
    <2>3. QED BY <1>4, <2>2
  <1>9. Sum(tf(more)) = Sum(tf(logs)) /\ SumMore(tf(more)) = Sum(tf(logs)) + log.tokens_payout_fee
    <2>1. (\A k \in S : tf(logs)[k] \in Nat /\ tf(more)[k] = tf(logs)[k]) /\ tf(more)[n] \in Nat
      BY <1>3, <1>4, <1>5
    <2>2. SumMore(tf(more)) = Sum(tf(logs)) + tf(more)[n] /\ Sum(tf(more)) = Sum(tf(logs))
      BY ONLY <1>6b, <2>1
    <2>3. QED BY <1>4, <2>2
  <1>10. Sum(cf(more)) = Sum(cf(logs)) /\ SumMore(cf(more)) = Sum(cf(logs)) + log.cycles_payout_fee
    <2>1. (\A k \in S : cf(logs)[k] \in Nat /\ cf(more)[k] = cf(logs)[k]) /\ cf(more)[n] \in Nat
      BY <1>3, <1>4, <1>5
    <2>2. SumMore(cf(more)) = Sum(cf(logs)) + cf(more)[n] /\ Sum(cf(more)) = Sum(cf(logs))
      BY ONLY <1>6b, <2>1
    <2>3. QED BY <1>4, <2>2
  <1>10a. Sum(rs(more)) = Sum(rs(logs)) /\ SumMore(rs(more)) = Sum(rs(logs)) + log.rate
    <2>1. (\A k \in S : rs(logs)[k] \in Nat /\ rs(more)[k] = rs(logs)[k]) /\ rs(more)[n] \in Nat
      BY <1>3, <1>4, <1>5
    <2>2. SumMore(rs(more)) = Sum(rs(logs)) + rs(more)[n] /\ Sum(rs(more)) = Sum(rs(logs))
      BY ONLY <1>6b, <2>1
    <2>3. QED BY <1>4, <2>2
  <1>10b. /\ Sum(tw(more)) = Sum(tw(logs))
          /\ SumMore(tw(more)) = Sum(tw(logs)) + log.tokens_payout_fee * log.rate
    <2>1. (\A k \in S : tw(logs)[k] \in Nat /\ tw(more)[k] = tw(logs)[k]) /\ tw(more)[n] \in Nat
      BY <1>3, <1>4, <1>5
    <2>2. SumMore(tw(more)) = Sum(tw(logs)) + tw(more)[n] /\ Sum(tw(more)) = Sum(tw(logs))
      BY ONLY <1>6b, <2>1
    <2>3. QED BY <1>4, <2>2
  <1>10c. Cardinality(S \cup {n}) = Cardinality(S) + 1
    BY <1>2, FS_AddElement
  <1> DEFINE all == Totals(id, logs)
  <1>11. /\ all = [trades |-> Cardinality(S), rates |-> Sum(rs(logs)),
                   cycles |-> Sum(c(logs)), tokens |-> Sum(t(logs)), tokens_fees |-> Sum(tf(logs)),
                   tokens_fees_worth |-> Sum(tw(logs)), cycles_fees |-> Sum(cf(logs))]
    BY <1>6 DEF S, Sum
  <1>12. ASSUME id \in {log.matcher, log.matchee}
         PROVE  Totals(id, more) = WithLog(all, log)
    <2>1. Totals(id, more) =
             [trades |-> Cardinality(S \cup {n}), rates |-> SumMore(rs(more)),
              cycles |-> SumMore(c(more)), tokens |-> SumMore(t(more)),
              tokens_fees |-> SumMore(tf(more)), tokens_fees_worth |-> SumMore(tw(more)),
              cycles_fees |-> SumMore(cf(more))]
      BY <1>1, <1>6, <1>12 DEF SumMore
    <2>2. WithLog(all, log) =
             [trades |-> Cardinality(S) + 1, rates |-> Sum(rs(logs)) + log.rate,
              cycles |-> Sum(c(logs)) + log.cycles, tokens |-> Sum(t(logs)) + log.tokens,
              tokens_fees |-> Sum(tf(logs)) + log.tokens_payout_fee,
              tokens_fees_worth |-> Sum(tw(logs)) + log.tokens_payout_fee * log.rate,
              cycles_fees |-> Sum(cf(logs)) + log.cycles_payout_fee]
      BY <1>11 DEF WithLog
    <2>3. QED BY <1>7, <1>8, <1>9, <1>10, <1>10a, <1>10b, <1>10c, <2>1, <2>2
  <1>13. ASSUME id \notin {log.matcher, log.matchee}
         PROVE  Totals(id, more) = all
    <2>1. Totals(id, more) =
             [trades |-> Cardinality(S), rates |-> Sum(rs(more)),
              cycles |-> Sum(c(more)), tokens |-> Sum(t(more)), tokens_fees |-> Sum(tf(more)),
              tokens_fees_worth |-> Sum(tw(more)), cycles_fees |-> Sum(cf(more))]
      BY <1>1, <1>6, <1>13 DEF Sum
    <2>2. QED BY <1>7, <1>8, <1>9, <1>10, <1>10a, <1>10b, <1>11, <2>1
  <1>14. QED BY <1>12, <1>13 DEF more

(* Whoever has no log has no totals.                                       *)
LEMMA TotalsOfNone ==
    ASSUME NEW logs \in Seq(TradeLog), NEW id,
           \A k \in DOMAIN logs : id \notin {logs[k].matcher, logs[k].matchee}
    PROVE  Totals(id, logs) = NoTotals
  <1>1. LogsOf(id, logs) = {}
    BY DEF LogsOf
  <1>2. QED BY <1>1, SumOfNone, FS_EmptySet DEF Totals, NoTotals

(* What the record of a position says of it.                               *)
LEMMA RecordFacts ==
    ASSUME NEW p, NEW totals
    PROVE  /\ p.quest.kind = "cycles" =>
                (AgreesWith(p, totals) <=> /\ Sold(p) = totals.cycles
                                           /\ p.fill = totals.tokens
                                           /\ p.fees = totals.tokens_fees)
           /\ p.quest.kind # "cycles" =>
                (AgreesWith(p, totals) <=> /\ Sold(p) = totals.tokens
                                           /\ p.volume = totals.cycles
                                           /\ p.fees = totals.cycles_fees)
           /\ PositionLog(p).fill_average_rate
                = IF Sold(p) = 0 THEN p.quest.rate ELSE p.volume \div Sold(p)
  BY DEF AgreesWith, PositionLog, Sold

(* The average of what keeps to the rate does so, too.                     *)
LEMMA AverageWithinLimit ==
    ASSUME NEW p, Sound(p)
    PROVE  WithinLimit(PositionLog(p).fill_average_rate, p.quest)
  <1> DEFINE average == PositionLog(p).fill_average_rate
             rate == p.quest.rate
             sold == Sold(p)
  <1>1. average = IF sold = 0 THEN rate ELSE p.volume \div sold
    BY RecordFacts
  <1>2. rate \in Nat \ {0} /\ sold \in Nat /\ p.volume \in Nat
    BY SoundFacts
  <1>3. VolumeWithinLimit(p)
    BY DEF Sound
  <1> HIDE DEF average, rate, sold
  <1>4. CASE sold = 0
    <2>1. average = rate
      BY <1>1, <1>4
    <2>2. QED BY <1>2, <2>1 DEF WithinLimit, rate, average
  <1>5. CASE sold # 0 /\ p.quest.kind = "cycles"
    <2>1. p.volume <= rate * sold
      BY <1>3, <1>5 DEF VolumeWithinLimit, rate, sold
    <2>2. rate * sold \in Nat /\ sold \in Nat \ {0} /\ sold <= sold
      BY <1>2, <1>5, Products
    <2>3. p.volume \div sold <= (rate * sold) \div sold
      BY ONLY <1>2, <2>1, <2>2, DivMonotonic, Zenon
    <2>4. (rate * sold) \div sold = rate
      BY <1>2, <2>2, DivExact
    <2>5. average <= rate
      BY <1>1, <1>5, <2>3, <2>4
    <2>6. QED BY <1>5, <2>5 DEF WithinLimit, rate, average
  <1>6. CASE sold # 0 /\ p.quest.kind # "cycles"
    <2>1. p.volume >= rate * sold
      BY <1>3, <1>6 DEF VolumeWithinLimit, rate, sold
    <2>2. rate * sold \in Nat /\ sold * rate \in Nat /\ sold * rate = rate * sold
          /\ sold \in Nat \ {0}
      BY <1>2, <1>6, Products
    <2>3. sold * rate <= p.volume
      BY <1>2, <2>1, <2>2
    <2>4. rate <= p.volume \div sold
      <3>1. rate \in Nat
        BY <1>2
      <3>2. QED BY ONLY <1>2, <2>2, <2>3, <3>1, DivIsGreatest, Zenon
    <2>5. average >= rate
      <3>1. average = p.volume \div sold
        BY <1>1, <1>6
      <3>2. p.volume \div sold \in Nat
        BY <1>2, <2>2, DivFacts
      <3>3. QED BY <1>2, <2>4, <3>1, <3>2
    <2>6. QED BY <1>6, <2>5 DEF WithinLimit, rate, average
  <1>7. QED BY <1>4, <1>5, <1>6

(* The log of a match, as it should be for one of its positions.           *)
TellsOf(log, p, tokens, rate) ==
    LET cycles == tokens_transform_cycles(tokens, rate)
    IN  /\ log.tokens = tokens
        /\ log.cycles = cycles
        /\ log.rate = rate
        /\ p.quest.kind = "cycles" => log.tokens_payout_fee = FeeTokens(FeeCycles(p, cycles), rate)
        /\ p.quest.kind # "cycles" => log.cycles_payout_fee = FeeCycles(p, cycles)

LEMMA AgreesWithLog ==
    ASSUME NEW p, Sound(p), NEW rate \in Nat \ {0}, WithinLimit(rate, p.quest),
           NEW tokens \in Nat, tokens <= TokensAt(p, rate),
           NEW totals \in TotalsRecord, AgreesWith(p, totals),
           NEW log, TellsOf(log, p, tokens, rate)
    PROVE  AgreesWith(SubtractTokens(p, tokens, rate), WithLog(totals, log))
  <1> DEFINE cycles == tokens_transform_cycles(tokens, rate)
             fee == FeeCycles(p, cycles)
             r == SubtractTokens(p, tokens, rate)
             after == WithLog(totals, log)
  <1>1. /\ p.quest.quantity \in Nat /\ p.left \in Nat /\ p.left <= p.quest.quantity
        /\ p.volume \in Nat /\ p.fill \in Nat /\ p.fees \in Nat
    BY SoundFacts
  <1>2. /\ totals.cycles \in Nat /\ totals.tokens \in Nat
        /\ totals.tokens_fees \in Nat /\ totals.cycles_fees \in Nat
    BY DEF TotalsRecord
  <1>3. /\ after.cycles = totals.cycles + log.cycles
        /\ after.tokens = totals.tokens + log.tokens
        /\ after.tokens_fees = totals.tokens_fees + log.tokens_payout_fee
        /\ after.cycles_fees = totals.cycles_fees + log.cycles_payout_fee
    BY DEF WithLog
  <1>4. CASE p.quest.kind = "cycles"
    <2>1. /\ cycles \in Nat /\ cycles <= p.left
          /\ r = [quest |-> p.quest, left |-> p.left - cycles, volume |-> p.volume + rate * cycles,
                  fill |-> p.fill + tokens, fees |-> p.fees + FeeTokens(fee, rate)]
      BY <1>4, CyclesSubtracted
    <2>2. log.tokens = tokens /\ log.cycles = cycles /\ log.tokens_payout_fee = FeeTokens(fee, rate)
      BY <1>4 DEF TellsOf
    <2>3. Sold(p) = totals.cycles /\ p.fill = totals.tokens /\ p.fees = totals.tokens_fees
      BY <1>4, RecordFacts
    <2> HIDE DEF cycles, fee, r, after
    <2>4. /\ r.quest = p.quest /\ r.left = p.left - cycles /\ r.fill = p.fill + tokens
          /\ r.fees = p.fees + FeeTokens(fee, rate)
      BY <2>1
    <2>5. Sold(r) = Sold(p) + cycles
      BY <1>1, <2>1, <2>4 DEF Sold
    <2>6. Sold(r) = after.cycles /\ r.fill = after.tokens /\ r.fees = after.tokens_fees
      BY <1>3, <2>2, <2>3, <2>4, <2>5
    <2>7. AgreesWith(r, after)
      BY <1>4, <2>4, <2>6, RecordFacts
    <2>8. QED BY <2>7 DEF r, after
  <1>5. CASE p.quest.kind # "cycles"
    <2>1. /\ cycles \in Nat /\ tokens <= p.left
          /\ r = [quest |-> p.quest, left |-> p.left - tokens, volume |-> p.volume + cycles,
                  fill |-> p.fill, fees |-> p.fees + fee]
      BY <1>5, TokensSubtracted
    <2>2. log.tokens = tokens /\ log.cycles = cycles /\ log.cycles_payout_fee = fee
      BY <1>5 DEF TellsOf
    <2>3. Sold(p) = totals.tokens /\ p.volume = totals.cycles /\ p.fees = totals.cycles_fees
      BY <1>5, RecordFacts
    <2> HIDE DEF cycles, fee, r, after
    <2>4. /\ r.quest = p.quest /\ r.left = p.left - tokens /\ r.volume = p.volume + cycles
          /\ r.fees = p.fees + fee
      BY <2>1
    <2>5. Sold(r) = Sold(p) + tokens
      BY <1>1, <2>1, <2>4 DEF Sold
    <2>6. Sold(r) = after.tokens /\ r.volume = after.cycles /\ r.fees = after.cycles_fees
      BY <1>3, <2>2, <2>3, <2>4, <2>5
    <2>7. AgreesWith(r, after)
      BY <1>5, <2>4, <2>6, RecordFacts
    <2>8. QED BY <2>7 DEF r, after
  <1>6. QED BY <1>4, <1>5

(* And what has been paid of what the tiers ask.                           *)
FeesFollow(kind, totals) ==
    LET paid == FeeUnit * Paid(kind, totals)
        asked == Asked(totals.cycles)
    IN  /\ paid <= asked
        /\ asked <= paid + (totals.trades + TiersOver(totals.cycles)) * Loss
                         + (IF kind = "cycles" THEN FeeUnit * totals.rates ELSE 0)
Accounts(p, totals) == AgreesWith(p, totals) /\ FeesFollow(p.quest.kind, totals)

LEMMA NothingIsAsked == ASSUME NEW kind PROVE FeesFollow(kind, NoTotals)
  <1>1. Asked(0) = 0
    <2>1. ASSUME NEW k \in 1 .. 5 PROVE AskedOf(0, k) = 0
      <3>1. InTier(0, k) = 0
        BY TierFacts DEF InTier, Lesser
      <3>2. QED BY <3>1, TierFacts DEF AskedOf
    <2>2. QED BY <2>1 DEF Asked
  <1>2. TiersOver(0) \in Nat
    BY DEF TiersOver, IsOver
  <1>3. TiersOver(0) * Loss \in Nat /\ FeeUnit * 0 = 0 /\ 0 + TiersOver(0) = TiersOver(0)
    BY <1>2, TierFacts, Products
  <1>4. /\ NoTotals.trades = 0 /\ NoTotals.rates = 0 /\ NoTotals.cycles = 0
        /\ Paid(kind, NoTotals) = 0
    BY DEF NoTotals, Paid
  <1>5. QED BY <1>1, <1>3, <1>4 DEF FeesFollow

LEMMA FeesFollowWithLog ==
    ASSUME NEW p, Sound(p), NEW rate \in Nat \ {0}, NEW tokens \in Nat,
           NEW totals \in TotalsRecord, Accounts(p, totals),
           NEW log, TellsOf(log, p, tokens, rate)
    PROVE  FeesFollow(p.quest.kind, WithLog(totals, log))
  <1> DEFINE cycles == tokens_transform_cycles(tokens, rate)
             fee == FeeCycles(p, cycles)
             kind == p.quest.kind
             after == WithLog(totals, log)
             paid == Paid(kind, totals)
             over == TiersOver(totals.cycles)
             overAfter == TiersOver(after.cycles)
             more == overAfter - over
             asked == Asked(totals.cycles)
             askedAfter == Asked(after.cycles)
  <1>1. /\ totals.trades \in Nat /\ totals.rates \in Nat /\ totals.cycles \in Nat
        /\ totals.tokens_fees_worth \in Nat /\ totals.cycles_fees \in Nat
    BY DEF TotalsRecord
  <1>2. cycles \in Nat /\ log.cycles = cycles /\ log.rate = rate
    BY Products DEF TellsOf, tokens_transform_cycles
  <1>3. /\ after.trades = totals.trades + 1 /\ after.rates = totals.rates + rate
        /\ after.cycles = totals.cycles + cycles
        /\ after.tokens_fees_worth = totals.tokens_fees_worth + log.tokens_payout_fee * rate
        /\ after.cycles_fees = totals.cycles_fees + log.cycles_payout_fee
    BY <1>2 DEF WithLog
  <1>4. fee = Fee(totals.cycles, cycles)
    <2>1. AgreesWith(p, totals)
      BY DEF Accounts
    <2>2. CASE kind = "cycles"
      BY <2>1, <2>2, RecordFacts DEF FeeCycles, Sold
    <2>3. CASE kind # "cycles"
      BY <2>1, <2>3, RecordFacts DEF FeeCycles
    <2>4. QED BY <2>2, <2>3
  <1>5. /\ paid \in Nat /\ FeeUnit * paid <= asked
        /\ asked <= FeeUnit * paid + (totals.trades + over) * Loss
                    + (IF kind = "cycles" THEN FeeUnit * totals.rates ELSE 0)
    BY <1>1 DEF Accounts, FeesFollow, Paid
  <1>6. kind = "cycles" => log.tokens_payout_fee = FeeTokens(fee, rate)
    BY DEF TellsOf
  <1>7. kind # "cycles" => log.cycles_payout_fee = fee
    BY DEF TellsOf
  <1>8. over \in Nat /\ overAfter \in Nat /\ FeeUnit \in Nat \ {0} /\ Loss \in Nat
    BY TierFacts DEF TiersOver, IsOver
  <1> HIDE DEF cycles, fee, after, paid, over, overAfter, asked, askedAfter, kind
  <1>9. /\ fee \in Nat /\ more \in Nat /\ asked \in Nat /\ askedAfter \in Nat
        /\ asked + FeeUnit * fee <= askedAfter
        /\ askedAfter <= asked + FeeUnit * fee + (Loss + more * Loss)
    <2>1. after.cycles = totals.cycles + cycles
      BY <1>3
    <2>2. QED BY <1>1, <1>2, <1>4, <2>1, FeeFollowsTiers DEF over, overAfter, asked, askedAfter
  <1>10. (after.trades + overAfter) * Loss = (totals.trades + over) * Loss + (Loss + more * Loss)
    <2>1. after.trades + overAfter = (totals.trades + over) + (1 + more)
      BY <1>1, <1>3, <1>8, <1>9
    <2>2. totals.trades + over \in Nat /\ 1 + more \in Nat
      BY <1>1, <1>8, <1>9
    <2> HIDE DEF more
    <2> DEFINE known == totals.trades + over
    <2> HIDE DEF known
    <2>3. known \in Nat /\ 1 + more \in Nat /\ Loss \in Nat /\ more \in Nat
      BY <1>8, <1>9, <2>2 DEF known
    <2>4. (known + (1 + more)) * Loss = known * Loss + (1 + more) * Loss
      BY ONLY <2>3, Products
    <2>5. (1 + more) * Loss = 1 * Loss + more * Loss
      BY ONLY <2>3, Products
    <2>6. 1 * Loss = Loss
      BY ONLY <2>3
    <2>7. known * Loss \in Nat /\ more * Loss \in Nat /\ (1 + more) * Loss \in Nat
      BY ONLY <2>3, Products
    <2>8. (known + (1 + more)) * Loss = known * Loss + (Loss + more * Loss)
      BY ONLY <2>3, <2>4, <2>5, <2>6, <2>7
    <2>9. QED BY ONLY <2>1, <2>8 DEF known
  <1>11. /\ FeeUnit * paid \in Nat /\ FeeUnit * fee \in Nat /\ (totals.trades + over) * Loss \in Nat
         /\ Loss + more * Loss \in Nat
    <2>1. totals.trades + over \in Nat
      BY <1>1, <1>8
    <2> HIDE DEF more
    <2>2. QED BY <1>5, <1>8, <1>9, <2>1, Products
  <1> HIDE DEF more
  <1>12. CASE kind = "cycles"
    <2> DEFINE t == fee \div rate
               worth == t * rate
    <2>1. t \in Nat /\ rate * t <= fee /\ fee < rate * t + rate /\ rate * t = worth /\ worth \in Nat
      BY <1>9, DivFacts, Products
    <2>2. log.tokens_payout_fee = t
      BY <1>6, <1>12 DEF FeeTokens, cycles_transform_tokens
    <2>3. Paid(kind, after) = paid + worth /\ after.rates = totals.rates + rate
      BY <1>3, <1>12, <2>2 DEF Paid, paid
    <2> HIDE DEF t, worth
    <2>4. /\ FeeUnit * (paid + worth) = FeeUnit * paid + FeeUnit * worth /\ FeeUnit * worth \in Nat
          /\ FeeUnit * after.rates = FeeUnit * totals.rates + FeeUnit * rate
          /\ FeeUnit * totals.rates \in Nat /\ FeeUnit * rate \in Nat
      BY <1>1, <1>5, <1>8, <2>1, <2>3, Products
    <2>5. FeeUnit * worth <= FeeUnit * fee
      BY <1>8, <1>9, <2>1, Products
    <2>6. FeeUnit * fee <= FeeUnit * worth + FeeUnit * rate
      <3>1. fee <= worth + rate /\ worth + rate \in Nat
        BY <1>9, <2>1
      <3>2. FeeUnit * fee <= FeeUnit * (worth + rate)
        BY <1>8, <1>9, <3>1, Products
      <3>3. FeeUnit * (worth + rate) = FeeUnit * worth + FeeUnit * rate
        BY <1>8, <2>1, Products
      <3>4. QED BY <3>2, <3>3
    <2>7. FeeUnit * (paid + worth) <= askedAfter
      BY <1>5, <1>9, <1>11, <2>4, <2>5
    <2>8. askedAfter <= FeeUnit * (paid + worth) + (after.trades + overAfter) * Loss + FeeUnit * after.rates
      BY <1>5, <1>9, <1>10, <1>11, <1>12, <2>4, <2>6
    <2>9. QED BY <1>12, <2>3, <2>7, <2>8 DEF FeesFollow, after, kind, askedAfter, overAfter
  <1>13. CASE kind # "cycles"
    <2>1. Paid(kind, after) = paid + fee
      BY <1>3, <1>7, <1>13 DEF Paid, paid
    <2>2. FeeUnit * (paid + fee) = FeeUnit * paid + FeeUnit * fee
      BY <1>5, <1>8, <1>9, Products
    <2>3. FeeUnit * (paid + fee) <= askedAfter
      BY <1>5, <1>9, <1>11, <2>2
    <2>4. askedAfter <= FeeUnit * (paid + fee) + (after.trades + overAfter) * Loss + 0
      BY <1>5, <1>9, <1>10, <1>11, <1>13, <2>2
    <2>5. QED BY <1>13, <2>1, <2>3, <2>4 DEF FeesFollow, after, kind, askedAfter, overAfter
  <1>14. QED BY <1>12, <1>13

LEMMA AccountsWithLog ==
    ASSUME NEW p, Sound(p), NEW rate \in Nat \ {0}, WithinLimit(rate, p.quest),
           NEW tokens \in Nat, tokens <= TokensAt(p, rate),
           NEW totals \in TotalsRecord, Accounts(p, totals),
           NEW log, TellsOf(log, p, tokens, rate)
    PROVE  Accounts(SubtractTokens(p, tokens, rate), WithLog(totals, log))
  <1>1. AgreesWith(SubtractTokens(p, tokens, rate), WithLog(totals, log))
    BY AgreesWithLog DEF Accounts
  <1>2. SubtractTokens(p, tokens, rate).quest = p.quest
    BY SubtractedIsSound
  <1>3. QED BY <1>1, <1>2, FeesFollowWithLog DEF Accounts

LEMMA AppendToBoth ==
    ASSUME NEW s \in Seq(TradeLog), NEW t \in Seq(TradeLog), NEW log \in TradeLog
    PROVE  s \o Append(t, log) = Append(s \o t, log) /\ s \o t \in Seq(TradeLog)
  <1>1. s \o Append(t, log) \in Seq(TradeLog) /\ Append(s \o t, log) \in Seq(TradeLog)
        /\ s \o t \in Seq(TradeLog)
    OBVIOUS
  <1>2. Len(s \o Append(t, log)) = Len(Append(s \o t, log))
    OBVIOUS
  <1>3. \A k \in 1 .. Len(Append(s \o t, log)) : (s \o Append(t, log))[k] = Append(s \o t, log)[k]
    OBVIOUS
  <1>4. QED BY ONLY <1>1, <1>2, <1>3, SeqEqual

LEMMA OtherKind ==
    ASSUME NEW kind \in Kind
    PROVE  Other(kind) \in Kind /\ Other(kind) # kind /\ (kind = "cycles" <=> Other(kind) # "cycles")
  BY DEF Other, Kind

(* The log of a match is right for both positions.                         *)
LEMMA NewLogFacts ==
    ASSUME NEW id \in Nat, NEW p, Sound(p), NEW matchee_id \in Nat, NEW q, Sound(q),
           q.quest.kind = Other(p.quest.kind), NEW rate \in Nat \ {0},
           WithinLimit(rate, p.quest), WithinLimit(rate, q.quest), NEW tokens \in Nat, tokens > 0,
           tokens <= TokensAt(p, rate), tokens <= TokensAt(q, rate)
    PROVE  LET log == NewLog(id, p, matchee_id, q, tokens, rate)
           IN  /\ log \in TradeLog /\ log.matcher = id /\ log.matchee = matchee_id /\ log.rate = rate
               /\ CoversItsFees(log)
               /\ TellsOf(log, p, tokens, rate) /\ TellsOf(log, q, tokens, rate)
  <1> DEFINE cycles == tokens_transform_cycles(tokens, rate)
             cyclesPosition == IF p.quest.kind = "cycles" THEN p ELSE q
             tokenPosition == IF p.quest.kind = "cycles" THEN q ELSE p
             feeTokens == FeeTokens(FeeCycles(cyclesPosition, cycles), rate)
             fee == FeeCycles(tokenPosition, cycles)
             log == NewLog(id, p, matchee_id, q, tokens, rate)
  <1>1. log = [matcher |-> id, matchee |-> matchee_id, tokens |-> tokens, cycles |-> cycles,
               rate |-> rate, tokens_payout_fee |-> feeTokens, cycles_payout_fee |-> fee]
    BY DEF NewLog
  <1>2. p.quest.kind \in Kind /\ q.quest.kind \in Kind
    BY SoundFacts
  <1>3. p.quest.kind = "cycles" <=> q.quest.kind # "cycles"
    BY <1>2, OtherKind
  <1>4. /\ Sound(cyclesPosition) /\ cyclesPosition.quest.kind = "cycles"
        /\ WithinLimit(rate, cyclesPosition.quest) /\ tokens <= TokensAt(cyclesPosition, rate)
    BY <1>3
  <1>5. /\ Sound(tokenPosition) /\ tokenPosition.quest.kind # "cycles"
        /\ WithinLimit(rate, tokenPosition.quest) /\ tokens <= TokensAt(tokenPosition, rate)
    BY <1>3
  <1>6. TellsOf(log, p, tokens, rate) /\ TellsOf(log, q, tokens, rate)
    BY <1>1, <1>3 DEF TellsOf
  <1> HIDE DEF cyclesPosition, tokenPosition, log
  <1>7. cycles \in Nat /\ feeTokens \in Nat /\ feeTokens <= tokens
    BY <1>4, CyclesSubtracted
  <1>8. fee \in Nat /\ fee <= cycles
    BY <1>5, TokensSubtracted
  <1> HIDE DEF cycles, feeTokens, fee
  <1>9. log \in TradeLog /\ log.matcher = id /\ log.matchee = matchee_id /\ log.rate = rate
    BY <1>1, <1>7, <1>8 DEF TradeLog
  <1>10. CoversItsFees(log)
    BY <1>1, <1>7, <1>8 DEF CoversItsFees
  <1>11. QED BY <1>6, <1>9, <1>10 DEF log

-----------------------------------------------------------------------------
(* The inductive invariant.                                                *)

LogOK(log) ==
    /\ log.matcher \in DOMAIN AllPositions /\ log.matchee \in DOMAIN AllPositions
    /\ CoversItsFees(log)
    /\ WithinLimit(log.rate, AllPositions[log.matcher].quest)
    /\ WithinLimit(log.rate, AllPositions[log.matchee].quest)
PositionOK(id) ==
    Sound(AllPositions[id]) /\ Accounts(AllPositions[id], Totals(id, trade_logs))
PositOK(q) == q.rate # 0 /\ Worth(NewPosition(q))

MatchingInv ==
    /\ TypeOK
    /\ \A k \in DOMAIN trade_logs : LogOK(trade_logs[k])
    /\ \A id \in DOMAIN AllPositions : PositionOK(id)
    /\ \A id \in DOMAIN positions : Worth(positions[id])
    /\ \A q \in posits : PositOK(q)
    /\ Uncrossed

-----------------------------------------------------------------------------
(* The loop of the matching.                                               *)

TradedIn(m, i) == \E k \in DOMAIN m.logs : m.logs[k].matchee = i

MatchState(ids) == [matcher : Position, matchees : [ids -> Position], logs : Seq(TradeLog),
                    ended : BOOLEAN, cut : BOOLEAN]

LogOfMatch(log, id, q, S) ==
    /\ log.matcher = id /\ log.matchee \in S
    /\ CoversItsFees(log)
    /\ WithinLimit(log.rate, q) /\ WithinLimit(log.rate, positions[log.matchee].quest)

MatcherOK(m, id, q) ==
    /\ m.matcher.quest = q
    /\ Sound(m.matcher)
    /\ Accounts(m.matcher, Totals(id, trade_logs \o m.logs))
    /\ Worth(m.matcher) \/ (m.logs # <<>> /\ IsFilled(m.matcher))

MatcheeOK(m, i) ==
    /\ m.matchees[i].quest = positions[i].quest
    /\ Sound(m.matchees[i])
    /\ Accounts(m.matchees[i], Totals(i, trade_logs \o m.logs))
    /\ Worth(m.matchees[i]) \/ (TradedIn(m, i) /\ IsFilled(m.matchees[i]))
    /\ TradedIn(m, i) \/ m.matchees[i] = positions[i]

(* What is compatible is used up, unless the loop has come to its end.     *)
ProgressOK(m, q, S) ==
    /\ m.ended => m.cut \/ (m.logs # <<>> /\ IsFilled(m.matcher))
    /\ ~m.ended =>
         /\ Worth(m.matcher)
         /\ \A i \in S : Compatible(positions[i], q.rate) => TradedIn(m, i) /\ IsFilled(m.matchees[i])

(* Of the state m after the matchees of S were looked at.                  *)
LoopInv(m, id, q, room, S) ==
    /\ m \in MatchState(IdsOf(Other(q.kind)))
    /\ Len(m.logs) <= room
    /\ \A k \in DOMAIN m.logs : LogOfMatch(m.logs[k], id, q, S)
    /\ MatcherOK(m, id, q)
    /\ \A i \in IdsOf(Other(q.kind)) : MatcheeOK(m, i)
    /\ ProgressOK(m, q, S)

(* What the positions and the posits that are matched are known to be.     *)
LEMMA BookFacts ==
    ASSUME MatchingInv
    PROVE  /\ transfer_fee \in [Kind -> LedgerFee]
           /\ trade_logs \in Seq(TradeLog)
           /\ positions_id_counter \in Nat
           /\ \A i \in DOMAIN positions :
                /\ i \in 0 .. positions_id_counter - 1 /\ i \in Nat /\ i # positions_id_counter
                /\ Sound(positions[i]) /\ Worth(positions[i])
                /\ Accounts(positions[i], Totals(i, trade_logs))
           /\ \A i \in DOMAIN void_positions :
                /\ i \in 0 .. positions_id_counter - 1 /\ i \in Nat /\ i # positions_id_counter
                /\ i \notin DOMAIN positions
                /\ Sound(void_positions[i])
                /\ Accounts(void_positions[i], Totals(i, trade_logs))
           /\ DOMAIN AllPositions = 0 .. positions_id_counter - 1
           /\ \A i \in DOMAIN positions : AllPositions[i] = positions[i]
           /\ \A i \in DOMAIN void_positions : AllPositions[i] = void_positions[i]
           /\ IsFiniteSet(DOMAIN positions)
  <1>1. TypeOK
    BY DEF MatchingInv
  <1>2. /\ DOMAIN positions \cap DOMAIN void_positions = {}
        /\ DOMAIN positions \cup DOMAIN void_positions = 0 .. positions_id_counter - 1
        /\ transfer_fee \in [Kind -> LedgerFee] /\ trade_logs \in Seq(TradeLog)
        /\ positions_id_counter \in Nat
    BY <1>1 DEF TypeOK
  <1>3. /\ DOMAIN AllPositions = 0 .. positions_id_counter - 1
        /\ \A i \in DOMAIN positions : AllPositions[i] = positions[i]
        /\ \A i \in DOMAIN void_positions : AllPositions[i] = void_positions[i]
    BY <1>2 DEF AllPositions, Merge
  <1>4. \A i \in 0 .. positions_id_counter - 1 : i \in Nat /\ i # positions_id_counter
    BY <1>2
  <1>5. \A i \in DOMAIN AllPositions : PositionOK(i)
    BY DEF MatchingInv
  <1>6. \A i \in DOMAIN positions : Worth(positions[i])
    BY DEF MatchingInv
  <1>7. IsFiniteSet(DOMAIN positions)
    <2>1. IsFiniteSet(0 .. positions_id_counter - 1)
      BY <1>2, FS_Interval
    <2>2. QED BY <1>2, <2>1, FS_Subset
  <1>8. \A i \in DOMAIN positions : i \in DOMAIN AllPositions
    BY <1>2, <1>3
  <1>9. \A i \in DOMAIN void_positions : i \in DOMAIN AllPositions /\ i \notin DOMAIN positions
    BY <1>2, <1>3
  <1>10. \A i \in DOMAIN positions : Sound(positions[i]) /\ Accounts(positions[i], Totals(i, trade_logs))
    BY <1>3, <1>5, <1>8 DEF PositionOK
  <1>11. \A i \in DOMAIN void_positions :
            Sound(void_positions[i]) /\ Accounts(void_positions[i], Totals(i, trade_logs))
    BY <1>3, <1>5, <1>9 DEF PositionOK
  <1>12. QED BY <1>2, <1>3, <1>4, <1>6, <1>7, <1>8, <1>9, <1>10, <1>11

LEMMA NewPositionFacts ==
    ASSUME NEW q \in Quest, PositOK(q)
    PROVE  /\ Sound(NewPosition(q)) /\ Worth(NewPosition(q)) /\ NewPosition(q).quest = q
           /\ Accounts(NewPosition(q), NoTotals)
  <1> DEFINE p == NewPosition(q)
  <1>1. p = [quest |-> q, left |-> q.quantity, volume |-> 0, fill |-> 0, fees |-> 0]
    BY DEF NewPosition
  <1>2. q.rate \in Nat /\ q.rate # 0 /\ q.quantity \in Nat
    BY DEF Quest, PositOK
  <1>3. Worth(p)
    BY DEF PositOK
  <1> HIDE DEF p
  <1>4. p \in Position /\ Sold(p) = 0
    BY <1>1, <1>2 DEF Position, Sold
  <1>5. q.rate * 0 = 0
    BY <1>2
  <1>6. VolumeWithinLimit(p)
    BY <1>1, <1>4, <1>5 DEF VolumeWithinLimit
  <1>7. Sound(p)
    BY <1>1, <1>2, <1>4, <1>6 DEF Sound
  <1>8. Accounts(p, NoTotals)
    <2>1. AgreesWith(p, NoTotals)
      BY <1>1, <1>4, RecordFacts DEF NoTotals
    <2>2. QED BY <2>1, NothingIsAsked DEF Accounts
  <1>9. QED BY <1>1, <1>3, <1>7, <1>8 DEF p

LEMMA NobodyElsesLogs ==
    ASSUME MatchingInv
    PROVE  Totals(positions_id_counter, trade_logs) = NoTotals
  <1>1. \A k \in DOMAIN trade_logs :
            positions_id_counter \notin {trade_logs[k].matcher, trade_logs[k].matchee}
    <2>1. \A k \in DOMAIN trade_logs : LogOK(trade_logs[k])
      BY DEF MatchingInv
    <2>2. positions_id_counter \notin DOMAIN AllPositions
      BY BookFacts
    <2>3. QED BY <2>1, <2>2 DEF LogOK
  <1>2. QED BY <1>1, BookFacts, TotalsOfNone

LEMMA LoopBegins ==
    ASSUME MatchingInv, NEW q \in posits, NEW room \in Nat
    PROVE  LoopInv(NoMatches(q), positions_id_counter, q, room, {})
  <1> DEFINE ids == IdsOf(Other(q.kind))
             m == NoMatches(q)
  <1>1. q \in Quest /\ PositOK(q) /\ positions \in [DOMAIN positions -> Position]
    BY DEF MatchingInv, TypeOK
  <1>2. /\ m.matcher = NewPosition(q) /\ m.matchees = [i \in ids |-> positions[i]]
        /\ m.logs = <<>> /\ m.ended = FALSE /\ m.cut = FALSE
        /\ m = [matcher |-> m.matcher, matchees |-> m.matchees, logs |-> m.logs, ended |-> m.ended,
                cut |-> m.cut]
    BY DEF NoMatches, Restrict
  <1> HIDE DEF m
  <1>3. ids \subseteq DOMAIN positions
    BY DEF IdsOf
  <1>4. /\ Sound(NewPosition(q)) /\ Worth(NewPosition(q)) /\ NewPosition(q).quest = q
        /\ Accounts(NewPosition(q), NoTotals)
    BY <1>1, NewPositionFacts
  <1>5. trade_logs \in Seq(TradeLog) /\ trade_logs \o m.logs = trade_logs
    BY <1>2, BookFacts
  <1>6. m \in MatchState(ids)
    <2>1. NewPosition(q) \in Position
      BY <1>4 DEF Sound
    <2>2. m.matchees \in [ids -> Position]
      BY <1>1, <1>2, <1>3
    <2>3. <<>> \in Seq(TradeLog)
      OBVIOUS
    <2>4. QED BY <1>2, <2>1, <2>2, <2>3 DEF MatchState
  <1>7. MatcherOK(m, positions_id_counter, q)
    BY <1>2, <1>4, <1>5, NobodyElsesLogs DEF MatcherOK
  <1>8. ASSUME NEW i \in ids PROVE MatcheeOK(m, i)
    <2>1. m.matchees[i] = positions[i]
      BY <1>2
    <2>2. Sound(positions[i]) /\ Worth(positions[i]) /\ Accounts(positions[i], Totals(i, trade_logs))
      BY <1>3, BookFacts
    <2>3. QED BY <1>5, <2>1, <2>2 DEF MatcheeOK
  <1>9. ProgressOK(m, q, {})
    BY <1>2, <1>4 DEF ProgressOK
  <1>10. Len(m.logs) <= room /\ DOMAIN m.logs = {}
    BY <1>2
  <1>11. QED BY <1>6, <1>7, <1>8, <1>9, <1>10 DEF LoopInv, m

(* The positions that a match takes place between.                         *)
LEMMA MatchPartners ==
    ASSUME MatchingInv, NEW q \in posits, NEW room \in Nat, NEW m,
           NEW S \in SUBSET IdsOf(Other(q.kind)), NEW x \in IdsOf(Other(q.kind)) \ S,
           LoopInv(m, positions_id_counter, q, room, S), ~m.ended
    PROVE  /\ Sound(m.matcher) /\ Worth(m.matcher) /\ m.matcher.quest = q
           /\ ~TradedIn(m, x) /\ m.matchees[x] = positions[x]
           /\ Sound(positions[x]) /\ Worth(positions[x])
           /\ positions[x].quest.kind = Other(q.kind)
           /\ x \in Nat /\ x # positions_id_counter
  <1>1. MatcherOK(m, positions_id_counter, q) /\ MatcheeOK(m, x) /\ ProgressOK(m, q, S)
    BY DEF LoopInv
  <1>2. ~TradedIn(m, x)
    BY DEF LoopInv, LogOfMatch, TradedIn
  <1>3. x \in DOMAIN positions /\ positions[x].quest.kind = Other(q.kind)
    BY DEF IdsOf
  <1>4. Sound(positions[x]) /\ Worth(positions[x]) /\ x \in Nat /\ x # positions_id_counter
    BY <1>3, BookFacts
  <1>5. QED BY <1>1, <1>2, <1>3, <1>4 DEF MatcherOK, MatcheeOK, ProgressOK

LEMMA LoopSkips ==
    ASSUME MatchingInv, NEW q \in posits, NEW room \in Nat, NEW m,
           NEW S \in SUBSET IdsOf(Other(q.kind)), NEW x \in IdsOf(Other(q.kind)) \ S,
           LoopInv(m, positions_id_counter, q, room, S),
           m.ended \/ ~Compatible(m.matchees[x], q.rate)
    PROVE  LoopInv(m, positions_id_counter, q, room, S \cup {x})
  <1>1. \A k \in DOMAIN m.logs : LogOfMatch(m.logs[k], positions_id_counter, q, S \cup {x})
    BY DEF LoopInv, LogOfMatch
  <1>2. ProgressOK(m, q, S \cup {x})
    <2>1. CASE m.ended
      BY <2>1 DEF LoopInv, ProgressOK
    <2>2. CASE ~m.ended
      <3>1. m.matchees[x] = positions[x]
        BY <2>2, MatchPartners
      <3>2. ~Compatible(positions[x], q.rate)
        BY <2>2, <3>1
      <3>3. QED BY <2>2, <3>2 DEF LoopInv, ProgressOK
    <2>3. QED BY <2>1, <2>2
  <1>3. QED BY <1>1, <1>2 DEF LoopInv

LEMMA LoopIsCut ==
    ASSUME MatchingInv, NEW q \in posits, NEW room \in Nat, NEW m,
           NEW S \in SUBSET IdsOf(Other(q.kind)), NEW x \in IdsOf(Other(q.kind)) \ S,
           LoopInv(m, positions_id_counter, q, room, S)
    PROVE  LoopInv([m EXCEPT !.ended = TRUE, !.cut = TRUE], positions_id_counter, q, room, S \cup {x})
  <1> DEFINE r == [m EXCEPT !.ended = TRUE, !.cut = TRUE]
             ids == IdsOf(Other(q.kind))
  <1>1. m \in MatchState(ids)
    BY DEF LoopInv
  <1>2. /\ r \in MatchState(ids)
        /\ r.matcher = m.matcher /\ r.matchees = m.matchees /\ r.logs = m.logs
        /\ r.ended = TRUE /\ r.cut = TRUE
    BY <1>1 DEF MatchState
  <1> HIDE DEF r
  <1>3. Len(r.logs) <= room
    BY <1>2 DEF LoopInv
  <1>4. \A k \in DOMAIN r.logs : LogOfMatch(r.logs[k], positions_id_counter, q, S \cup {x})
    BY <1>2 DEF LoopInv, LogOfMatch
  <1>5. MatcherOK(r, positions_id_counter, q)
    BY <1>2 DEF LoopInv, MatcherOK
  <1>6. \A i \in ids : MatcheeOK(r, i)
    <2>1. \A i \in ids : MatcheeOK(m, i)
      BY DEF LoopInv
    <2>2. \A i : TradedIn(r, i) <=> TradedIn(m, i)
      BY <1>2 DEF TradedIn
    <2>3. QED BY <1>2, <2>1, <2>2 DEF MatcheeOK
  <1>7. ProgressOK(r, q, S \cup {x})
    BY <1>2 DEF ProgressOK
  <1>8. QED BY <1>2, <1>3, <1>4, <1>5, <1>6, <1>7 DEF LoopInv, r

LEMMA LoopMatches ==
    ASSUME MatchingInv, NEW q \in posits, NEW room \in Nat, NEW m,
           NEW S \in SUBSET IdsOf(Other(q.kind)), NEW x \in IdsOf(Other(q.kind)) \ S,
           LoopInv(m, positions_id_counter, q, room, S), ~m.ended,
           Compatible(m.matchees[x], q.rate), Len(m.logs) < room
    PROVE  LET rate == TradeRate(m.matchees[x], m.matcher.quest.rate)
               tokens == PurchaseTokens(m.matcher, m.matchees[x], rate)
               matcher == SubtractTokens(m.matcher, tokens, rate)
               r == [m EXCEPT !.matcher = matcher,
                       !.matchees[x] = SubtractTokens(m.matchees[x], tokens, rate),
                       !.logs = Append(@, NewLog(positions_id_counter, m.matcher, x, m.matchees[x],
                                                 tokens, rate)),
                       !.ended = IsFilled(matcher)]
           IN  LoopInv(r, positions_id_counter, q, room, S \cup {x})
  <1> DEFINE id == positions_id_counter
             ids == IdsOf(Other(q.kind))
             p == m.matcher
             o == m.matchees[x]
             rate == TradeRate(o, p.quest.rate)
             tokens == PurchaseTokens(p, o, rate)
             p2 == SubtractTokens(p, tokens, rate)
             o2 == SubtractTokens(o, tokens, rate)
             log == NewLog(id, p, x, o, tokens, rate)
             r == [m EXCEPT !.matcher = p2, !.matchees[x] = o2, !.logs = Append(@, log),
                            !.ended = IsFilled(p2)]
             before == trade_logs \o m.logs
             after == trade_logs \o r.logs
  <1>1. /\ Sound(p) /\ Worth(p) /\ p.quest = q
        /\ ~TradedIn(m, x) /\ o = positions[x] /\ Sound(o) /\ Worth(o)
        /\ o.quest.kind = Other(p.quest.kind)
        /\ x \in Nat /\ x # id /\ id \in Nat
    BY MatchPartners, BookFacts
  <1>2. /\ transfer_fee \in [Kind -> LedgerFee] /\ trade_logs \in Seq(TradeLog)
        /\ \A i \in ids : i # id
    BY BookFacts DEF IdsOf
  <1>3. /\ m \in MatchState(ids) /\ m.logs \in Seq(TradeLog)
        /\ m.matchees \in [ids -> Position] /\ m.cut \in BOOLEAN
        /\ \A k \in DOMAIN m.logs : LogOfMatch(m.logs[k], id, q, S)
        /\ MatcherOK(m, id, q) /\ (\A i \in ids : MatcheeOK(m, i)) /\ ProgressOK(m, q, S)
    BY DEF LoopInv, MatchState
  <1> HIDE DEF id, ids
  <1>4. rate \in Nat \ {0} /\ WithinLimit(rate, p.quest) /\ WithinLimit(rate, o.quest)
    <2>1. Compatible(o, p.quest.rate)
      BY <1>1
    <2> HIDE DEF o, p
    <2>2. QED BY <1>1, <2>1, RateBetween
  <1>5. /\ tokens \in Nat /\ tokens > 0
        /\ tokens <= TokensAt(p, rate) /\ tokens <= TokensAt(o, rate)
        /\ tokens \in {TokensAt(p, rate), TokensAt(o, rate)}
    <2> HIDE DEF o, p, rate
    <2>1. QED BY <1>1, <1>4, PurchaseFacts
  <1>6. Sound(p2) /\ p2.quest = p.quest /\ Sound(o2) /\ o2.quest = o.quest
    <2> HIDE DEF o, p, rate, tokens
    <2>1. QED BY <1>1, <1>4, <1>5, SubtractedIsSound
  <1>7. IsFilled(p2) \/ IsFilled(o2)
    <2> HIDE DEF o, p, rate, tokens
    <2>1. IsFilled(SubtractTokens(p, TokensAt(p, rate), rate))
      BY <1>1, <1>2, <1>4, Exhausted
    <2>2. IsFilled(SubtractTokens(o, TokensAt(o, rate), rate))
      BY <1>1, <1>2, <1>4, Exhausted
    <2>3. QED BY <1>5, <2>1, <2>2
  <1>8. (Worth(p2) \/ IsFilled(p2)) /\ (Worth(o2) \/ IsFilled(o2))
    BY <1>2, <1>6, NotFilledIsWorth
  <1>9. /\ log \in TradeLog /\ log.matcher = id /\ log.matchee = x /\ log.rate = rate
        /\ CoversItsFees(log) /\ TellsOf(log, p, tokens, rate) /\ TellsOf(log, o, tokens, rate)
    <2> HIDE DEF o, p, rate, tokens
    <2>1. QED BY <1>1, <1>4, <1>5, NewLogFacts
  <1>10. r = [matcher |-> p2, matchees |-> [m.matchees EXCEPT ![x] = o2],
              logs |-> Append(m.logs, log), ended |-> IsFilled(p2), cut |-> m.cut]
    <2> DEFINE filled == IsFilled(p2)
               a == m.matcher
               b == m.matchees
               c == m.logs
               d == m.ended
               e == m.cut
    <2>1. m = [matcher |-> a, matchees |-> b, logs |-> c, ended |-> d, cut |-> e]
      BY <1>3 DEF MatchState
    <2>2. r = [m EXCEPT !.matcher = p2, !.matchees[x] = o2, !.logs = Append(@, log), !.ended = filled]
      OBVIOUS
    <2> HIDE DEF filled, o2, p2, log, r, a, b, c, d, e
    <2>3. r = [matcher |-> p2, matchees |-> [b EXCEPT ![x] = o2], logs |-> Append(c, log),
               ended |-> filled, cut |-> e]
      BY <2>1, <2>2
    <2>4. QED BY <2>3 DEF filled, b, c, e
  <1> HIDE DEF p, o, rate, tokens, p2, o2, log, r
  <1>11. /\ r.matcher = p2 /\ r.matchees = [m.matchees EXCEPT ![x] = o2]
         /\ r.logs = Append(m.logs, log) /\ (r.ended <=> IsFilled(p2)) /\ r.cut = m.cut
    BY <1>10
  <1>12. /\ r.matchees[x] = o2 /\ \A i \in ids \ {x} : r.matchees[i] = m.matchees[i]
         /\ r.matchees \in [ids -> Position]
    <2>1. o2 \in Position
      BY <1>6 DEF Sound
    <2>2. x \in ids
      BY DEF ids
    <2>3. QED BY <1>3, <1>11, <2>1, <2>2
  <1>13. r \in MatchState(ids)
    <2>1. p2 \in Position
      BY <1>6 DEF Sound
    <2>2. IsFilled(p2) \in BOOLEAN
      BY DEF IsFilled, BelowMinimum
    <2>3. Append(m.logs, log) \in Seq(TradeLog)
      BY <1>3, <1>9
    <2>4. [m.matchees EXCEPT ![x] = o2] \in [ids -> Position]
      BY <1>11, <1>12
    <2>5. QED BY <1>3, <1>10, <2>1, <2>2, <2>3, <2>4 DEF MatchState
  <1>14. /\ Len(r.logs) = Len(m.logs) + 1 /\ Len(m.logs) \in Nat
         /\ DOMAIN r.logs = DOMAIN m.logs \cup {Len(r.logs)}
         /\ \A k \in DOMAIN m.logs : r.logs[k] = m.logs[k]
         /\ r.logs[Len(r.logs)] = log /\ r.logs # <<>>
    BY <1>3, <1>9, <1>11
  <1>15. \A k \in DOMAIN r.logs : LogOfMatch(r.logs[k], id, q, S \cup {x})
    <2>1. LogOfMatch(log, id, q, S \cup {x})
      BY <1>1, <1>4, <1>9 DEF LogOfMatch
    <2>2. QED BY <1>3, <1>14, <2>1 DEF LogOfMatch
  <1>16. /\ TradedIn(r, x)
         /\ \A i : TradedIn(m, i) => TradedIn(r, i)
         /\ \A i : i # x /\ TradedIn(r, i) => TradedIn(m, i)
    BY <1>9, <1>14 DEF TradedIn
  <1>17. after = Append(before, log) /\ before \in Seq(TradeLog)
    <2>1. log \in TradeLog /\ m.logs \in Seq(TradeLog) /\ trade_logs \in Seq(TradeLog)
      BY <1>2, <1>3, <1>9
    <2>2. after = trade_logs \o Append(m.logs, log)
      BY <1>11
    <2> HIDE DEF log, after
    <2>3. QED BY ONLY <2>1, <2>2, AppendToBoth, Zenon DEF before
  <1> HIDE DEF after, before
  <1>18. /\ Totals(id, after) = WithLog(Totals(id, before), log)
         /\ Totals(x, after) = WithLog(Totals(x, before), log)
         /\ \A i \in ids \ {x} : Totals(i, after) = Totals(i, before)
         /\ Totals(id, before) \in TotalsRecord /\ Totals(x, before) \in TotalsRecord
    <2>1. id \in {log.matcher, log.matchee} /\ x \in {log.matcher, log.matchee}
      BY <1>9
    <2>2. \A i \in ids \ {x} : i \notin {log.matcher, log.matchee}
      BY <1>2, <1>9
    <2>3. QED BY <1>9, <1>17, <2>1, <2>2, TotalsWithLog, TotalsType
  <1>19. MatcherOK(r, id, q)
    <2>1. Accounts(p, Totals(id, before))
      BY <1>3 DEF MatcherOK, p, before
    <2>2. Accounts(p2, Totals(id, after))
      BY <1>1, <1>4, <1>5, <1>9, <1>18, <2>1, AccountsWithLog DEF p2
    <2>3. QED BY <1>1, <1>6, <1>8, <1>11, <1>14, <2>2 DEF MatcherOK, after
  <1>20. ASSUME NEW i \in ids PROVE MatcheeOK(r, i)
    <2>1. CASE i = x
      <3>1. Accounts(o, Totals(x, before))
        BY <1>3, <2>1 DEF MatcheeOK, o, before
      <3>2. Accounts(o2, Totals(x, after))
        BY <1>1, <1>4, <1>5, <1>9, <1>18, <3>1, AccountsWithLog DEF o2
      <3>3. QED BY <1>1, <1>6, <1>8, <1>12, <1>16, <2>1, <3>2 DEF MatcheeOK, after
    <2>2. CASE i # x
      <3>1. MatcheeOK(m, i)
        BY <1>3
      <3>2. r.matchees[i] = m.matchees[i] /\ Totals(i, after) = Totals(i, before)
        BY <1>12, <1>18, <2>2
      <3>3. QED BY <1>16, <2>2, <3>1, <3>2 DEF MatcheeOK, after, before
    <2>3. QED BY <2>1, <2>2
  <1>21. ProgressOK(r, q, S \cup {x})
    <2>1. r.ended => r.logs # <<>> /\ IsFilled(r.matcher)
      BY <1>11, <1>14
    <2>2. ASSUME ~r.ended
          PROVE  /\ Worth(r.matcher)
                 /\ \A i \in S \cup {x} : Compatible(positions[i], q.rate)
                        => TradedIn(r, i) /\ IsFilled(r.matchees[i])
      <3>1. ~IsFilled(p2)
        BY <1>11, <2>2
      <3>2. IsFilled(r.matchees[x]) /\ TradedIn(r, x)
        BY <1>7, <1>12, <1>16, <3>1
      <3>3. \A i \in S : Compatible(positions[i], q.rate)
                            => TradedIn(r, i) /\ IsFilled(r.matchees[i])
        <4>1. \A i \in S : i \in ids \ {x}
          BY DEF ids
        <4>2. \A i \in S : Compatible(positions[i], q.rate)
                              => TradedIn(m, i) /\ IsFilled(m.matchees[i])
          BY <1>3 DEF ProgressOK
        <4>3. QED BY <1>12, <1>16, <4>1, <4>2
      <3>4. QED BY <1>8, <1>11, <3>1, <3>2, <3>3
    <2>3. QED BY <2>1, <2>2 DEF ProgressOK
  <1>22. Len(r.logs) <= room
    BY <1>14
  <1>23. LoopInv(r, id, q, room, S \cup {x})
    BY <1>13, <1>15, <1>19, <1>20, <1>21, <1>22 DEF LoopInv, ids
  <1>24. QED BY <1>23 DEF r, log, o2, p2, tokens, rate, o, p, id

LEMMA MatchOneStep ==
    ASSUME MatchingInv, NEW q \in posits, NEW room \in Nat, NEW m,
           NEW S \in SUBSET IdsOf(Other(q.kind)), NEW x \in IdsOf(Other(q.kind)) \ S,
           LoopInv(m, positions_id_counter, q, room, S)
    PROVE  LoopInv(MatchOne(m, positions_id_counter, x, room), positions_id_counter, q, room,
                   S \cup {x})
  <1> DEFINE id == positions_id_counter
             o == m.matchees[x]
             rate == TradeRate(o, m.matcher.quest.rate)
             tokens == PurchaseTokens(m.matcher, o, rate)
             matcher == SubtractTokens(m.matcher, tokens, rate)
             r == [m EXCEPT !.matcher = matcher,
                            !.matchees[x] = SubtractTokens(o, tokens, rate),
                            !.logs = Append(@, NewLog(id, m.matcher, x, o, tokens, rate)),
                            !.ended = IsFilled(matcher)]
             cut == [m EXCEPT !.ended = TRUE, !.cut = TRUE]
  <1>1. m.matcher.quest.rate = q.rate
    BY DEF LoopInv, MatcherOK
  <1>2. MatchOne(m, id, x, room) =
          IF m.ended \/ ~Compatible(o, m.matcher.quest.rate) THEN m
          ELSE IF Len(m.logs) >= room THEN cut ELSE r
    BY DEF MatchOne
  <1>3. Len(m.logs) \in Nat
    BY DEF LoopInv, MatchState
  <1>4. CASE m.ended \/ ~Compatible(o, q.rate)
    <2>1. MatchOne(m, id, x, room) = m
      BY ONLY <1>1, <1>2, <1>4
    <2>2. QED BY <1>4, <2>1, LoopSkips
  <1>5. CASE ~(m.ended \/ ~Compatible(o, q.rate)) /\ Len(m.logs) >= room
    <2>1. MatchOne(m, id, x, room) = cut
      BY ONLY <1>1, <1>2, <1>5
    <2>2. LoopInv(cut, id, q, room, S \cup {x})
      BY LoopIsCut
    <2> HIDE DEF cut
    <2>3. QED BY ONLY <2>1, <2>2
  <1>6. CASE ~(m.ended \/ ~Compatible(o, q.rate)) /\ ~(Len(m.logs) >= room)
    <2>1. MatchOne(m, id, x, room) = r
      BY ONLY <1>1, <1>2, <1>6
    <2>2. ~m.ended /\ Compatible(o, q.rate) /\ Len(m.logs) < room
      BY <1>3, <1>6
    <2>3. LoopInv(r, id, q, room, S \cup {x})
      BY <2>2, LoopMatches
    <2>4. QED BY <2>1, <2>3
  <1>7. QED BY <1>4, <1>5, <1>6

LEMMA MaxFacts ==
    ASSUME NEW n \in Nat, NEW s \in SUBSET (0 .. n), s # {}
    PROVE  Max(s) \in s
  <1> DEFINE T == {n - x : x \in s}
  <1>1. T \in SUBSET Nat /\ T # {}
    <2>1. \A x \in s : x \in 0 .. n
      OBVIOUS
    <2>2. \A x \in 0 .. n : n - x \in Nat
      OBVIOUS
    <2>3. QED BY <2>1, <2>2
  <1>2. PICK t \in T : \A y \in T : t <= y
    BY <1>1, LeastNumber
  <1>3. PICK x \in s : t = n - x
    BY <1>2
  <1>4. \A y \in s : x >= y
    <2>1. SUFFICES ASSUME NEW y \in s PROVE x >= y
      OBVIOUS
    <2>2. n - y \in T /\ x \in 0 .. n /\ y \in 0 .. n
      OBVIOUS
    <2>3. t <= n - y
      BY <1>2, <2>2
    <2>4. QED BY <1>3, <2>2, <2>3
  <1>5. QED BY <1>4 DEF Max

(* The recursive function that the loop is defined by.                     *)
LoopStep(g, id, q, room, s) ==
    IF s = {} THEN NoMatches(q) ELSE MatchOne(g[s \ {Max(s)}], id, Max(s), room)
Loop(id, q, room, ids) == CHOOSE g : g = [s \in SUBSET ids |-> LoopStep(g, id, q, room, s)]

LEMMA MatchedIsLoop ==
    ASSUME NEW id, NEW q, NEW room
    PROVE  Matched(id, q, room)
             = Loop(id, q, room, IdsOf(Other(q.kind)))[IdsOf(Other(q.kind))]
  BY DEF Matched, MapThenFoldSet, Loop, LoopStep

LEMMA LoopRecursion ==
    ASSUME NEW id, NEW q, NEW room, NEW ids, IsFiniteSet(ids),
           \A s \in SUBSET ids : s # {} => Max(s) \in s
    PROVE  \A s \in SUBSET ids :
              Loop(id, q, room, ids)[s] = LoopStep(Loop(id, q, room, ids), id, q, room, s)
  <1> DEFINE Step(g, s) == LoopStep(g, id, q, room, s)
             Defined(g, k) == g = [s \in UpTo(ids, k) |-> Step(g, s)]
             T == {k \in Nat : \E g : Defined(g, k)}
  <1>1. IsFiniteSet(ids)
    OBVIOUS
  <1>2. 0 \in T
    <2> DEFINE g == [s \in UpTo(ids, 0) |-> NoMatches(q)]
    <2>1. ASSUME NEW s \in UpTo(ids, 0) PROVE s = {}
      BY <1>1, SubsetFacts DEF UpTo
    <2>2. Defined(g, 0)
      BY <2>1 DEF LoopStep
    <2>3. QED BY <2>2
  <1>3. ASSUME NEW k \in Nat, k \in T PROVE k + 1 \in T
    <2>1. PICK g : Defined(g, k)
      BY <1>3
    <2> DEFINE h == [s \in UpTo(ids, k + 1) |-> Step(g, s)]
    <2>2. ASSUME NEW s \in UpTo(ids, k + 1) PROVE Step(h, s) = Step(g, s)
      <3>1. CASE s = {}
        BY <3>1 DEF LoopStep
      <3>2. CASE s # {}
        <4> DEFINE t == s \ {Max(s)}
        <4>1. Max(s) \in s
          BY <3>2 DEF UpTo
        <4>2. t \in UpTo(ids, k) /\ t \in UpTo(ids, k + 1)
          BY <1>1, <4>1, SubsetFacts DEF UpTo
        <4>3. h[t] = Step(g, t) /\ g[t] = Step(g, t)
          BY <2>1, <4>2
        <4> HIDE DEF h
        <4>4. QED BY <3>2, <4>3 DEF LoopStep
      <3>3. QED BY <3>1, <3>2
    <2>3. Defined(h, k + 1)
      BY <2>2
    <2>4. \E f : Defined(f, k + 1)
      BY <2>3
    <2>5. QED BY <2>4
  <1> HIDE DEF T
  <1>4. Cardinality(ids) \in T
    BY <1>1, <1>2, <1>3, InductiveSet, FS_CardinalityType
  <1>5. PICK g : Defined(g, Cardinality(ids))
    BY <1>4 DEF T
  <1>6. UpTo(ids, Cardinality(ids)) = SUBSET ids
    BY <1>1, SubsetFacts DEF UpTo
  <1>7. g = [s \in SUBSET ids |-> Step(g, s)]
    BY <1>5, <1>6
  <1>8. Loop(id, q, room, ids) = [s \in SUBSET ids |-> Step(Loop(id, q, room, ids), s)]
    BY <1>7 DEF Loop
  <1>9. QED BY ONLY <1>8

(* After the loop, its invariant holds of all the matchees.                *)
LEMMA MatchedOK ==
    ASSUME MatchingInv, NEW q \in posits, NEW room \in Nat
    PROVE  LoopInv(Matched(positions_id_counter, q, room), positions_id_counter, q, room,
                   IdsOf(Other(q.kind)))
  <1> DEFINE id == positions_id_counter
             ids == IdsOf(Other(q.kind))
             g == Loop(id, q, room, ids)
             T == {k \in Nat : \A s \in UpTo(ids, k) : LoopInv(g[s], id, q, room, s)}
  <1>1. id \in Nat /\ ids \in SUBSET (0 .. id) /\ IsFiniteSet(ids)
    <2>1. id \in Nat /\ ids \subseteq DOMAIN positions /\ IsFiniteSet(DOMAIN positions)
          /\ \A i \in DOMAIN positions : i \in 0 .. id - 1
      BY BookFacts DEF IdsOf
    <2>2. 0 .. id - 1 \subseteq 0 .. id
      BY <2>1
    <2>3. QED BY <2>1, <2>2, FS_Subset
  <1>2. \A s \in SUBSET ids : g[s] = LoopStep(g, id, q, room, s)
    <2>1. \A s \in SUBSET ids : s # {} => Max(s) \in s
      BY <1>1, MaxFacts
    <2>2. QED BY <1>1, <2>1, LoopRecursion
  <1> HIDE DEF g
  <1>3. ASSUME NEW s \in UpTo(ids, 0) PROVE LoopInv(g[s], id, q, room, s)
    <2>1. s = {} /\ s \in SUBSET ids
      BY <1>1, SubsetFacts DEF UpTo
    <2>2. g[s] = NoMatches(q)
      BY <1>2, <2>1 DEF LoopStep
    <2>3. QED BY <2>1, <2>2, LoopBegins
  <1>4. ASSUME NEW k \in Nat, k \in T PROVE k + 1 \in T
    <2>1. SUFFICES ASSUME NEW s \in UpTo(ids, k + 1), s # {} PROVE LoopInv(g[s], id, q, room, s)
      <3>1. \A s \in UpTo(ids, k + 1) : s = {} => s \in UpTo(ids, 0)
        BY <1>1, SubsetFacts DEF UpTo
      <3>2. QED BY <1>3, <3>1
    <2> DEFINE x == Max(s)
               t == s \ {x}
    <2>2. x \in s /\ s \in SUBSET ids
      BY <1>1, <2>1, MaxFacts DEF UpTo
    <2>3. t \in UpTo(ids, k) /\ t \in SUBSET ids /\ x \in ids \ t /\ t \cup {x} = s
      BY <1>1, <2>2, SubsetFacts DEF UpTo
    <2>4. LoopInv(g[t], id, q, room, t)
      BY <1>4, <2>3
    <2>5. g[s] = MatchOne(g[t], id, x, room)
      BY <1>2, <2>1, <2>2 DEF LoopStep
    <2> HIDE DEF x, t
    <2>6. LoopInv(MatchOne(g[t], id, x, room), id, q, room, t \cup {x})
      BY <2>3, <2>4, MatchOneStep
    <2>7. QED BY <2>3, <2>5, <2>6
  <1>5. 0 \in T
    BY <1>3
  <1> HIDE DEF T
  <1>6. Cardinality(ids) \in T
    BY <1>1, <1>4, <1>5, InductiveSet, FS_CardinalityType
  <1>7. ids \in UpTo(ids, Cardinality(ids))
    BY <1>1, SubsetFacts DEF UpTo
  <1>8. LoopInv(g[ids], id, q, room, ids)
    BY <1>6, <1>7 DEF T
  <1>9. QED BY <1>8, MatchedIsLoop DEF g

-----------------------------------------------------------------------------
(* A trade.                                                                *)

(* Logs of others change nothing.                                          *)
LEMMA TotalsOfOthers ==
    ASSUME NEW s \in Seq(TradeLog), NEW t \in Seq(TradeLog), NEW i,
           \A k \in DOMAIN t : i \notin {t[k].matcher, t[k].matchee}
    PROVE  Totals(i, s \o t) = Totals(i, s)
  <1> DEFINE S == LogsOf(i, s)
             more == s \o t
  <1>1. /\ Len(s) \in Nat /\ DOMAIN s = 1 .. Len(s) /\ Len(t) \in Nat /\ DOMAIN t = 1 .. Len(t)
        /\ DOMAIN more = 1 .. Len(s) + Len(t) /\ more \in Seq(TradeLog)
        /\ \A k \in 1 .. Len(s) : more[k] = s[k]
        /\ \A k \in 1 .. Len(s) + Len(t) : k > Len(s) => more[k] = t[k - Len(s)]
    OBVIOUS
  <1> HIDE DEF more
  <1>2. LogsOf(i, more) = S
    <2>1. ASSUME NEW k \in DOMAIN more, k > Len(s)
          PROVE  i \notin {more[k].matcher, more[k].matchee}
      <3>1. k - Len(s) \in DOMAIN t /\ more[k] = t[k - Len(s)]
        BY <1>1, <2>1
      <3>2. QED BY <3>1
    <2>2. \A k \in DOMAIN more : k > Len(s) \/ (k \in DOMAIN s /\ more[k] = s[k])
      BY <1>1
    <2>3. \A k \in DOMAIN s : k \in DOMAIN more
      BY <1>1
    <2>4. QED BY <2>1, <2>2, <2>3, <1>1 DEF LogsOf
  <1>3. /\ IsFiniteSet(S)
        /\ \A k \in S : /\ k \in DOMAIN s /\ k \in DOMAIN more /\ more[k] = s[k]
                        /\ s[k].cycles \in Nat /\ s[k].tokens \in Nat
                        /\ s[k].tokens_payout_fee \in Nat /\ s[k].cycles_payout_fee \in Nat
                        /\ s[k].rate \in Nat /\ s[k].tokens_payout_fee * s[k].rate \in Nat
    <2>1. \A k \in S : k \in DOMAIN s
      BY DEF LogsOf
    <2>2. IsFiniteSet(S)
      BY LogsOfFacts
    <2> HIDE DEF S
    <2>3. \A k \in S : k \in DOMAIN more /\ more[k] = s[k]
      BY <1>1, <2>1
    <2>4. \A k \in DOMAIN s :
            /\ s[k].cycles \in Nat /\ s[k].tokens \in Nat
            /\ s[k].tokens_payout_fee \in Nat /\ s[k].cycles_payout_fee \in Nat
            /\ s[k].rate \in Nat /\ s[k].tokens_payout_fee * s[k].rate \in Nat
      BY LogTypes
    <2>5. QED BY ONLY <2>1, <2>2, <2>3, <2>4
  <1> HIDE DEF S
  <1>4. SumFunctionOnSet([k \in DOMAIN s |-> s[k].cycles], S)
          = SumFunctionOnSet([k \in DOMAIN more |-> more[k].cycles], S)
    BY <1>3, SumOfSame
  <1>5. SumFunctionOnSet([k \in DOMAIN s |-> s[k].tokens], S)
          = SumFunctionOnSet([k \in DOMAIN more |-> more[k].tokens], S)
    BY <1>3, SumOfSame
  <1>6. SumFunctionOnSet([k \in DOMAIN s |-> s[k].tokens_payout_fee], S)
          = SumFunctionOnSet([k \in DOMAIN more |-> more[k].tokens_payout_fee], S)
    BY <1>3, SumOfSame
  <1>7. SumFunctionOnSet([k \in DOMAIN s |-> s[k].cycles_payout_fee], S)
          = SumFunctionOnSet([k \in DOMAIN more |-> more[k].cycles_payout_fee], S)
    BY <1>3, SumOfSame
  <1>8. SumFunctionOnSet([k \in DOMAIN s |-> s[k].rate], S)
          = SumFunctionOnSet([k \in DOMAIN more |-> more[k].rate], S)
    BY <1>3, SumOfSame
  <1>9. SumFunctionOnSet([k \in DOMAIN s |-> s[k].tokens_payout_fee * s[k].rate], S)
          = SumFunctionOnSet([k \in DOMAIN more |-> more[k].tokens_payout_fee * more[k].rate], S)
    <2> DEFINE f == [k \in DOMAIN s |-> s[k].tokens_payout_fee * s[k].rate]
               h == [k \in DOMAIN more |-> more[k].tokens_payout_fee * more[k].rate]
    <2>1. ASSUME NEW k \in S PROVE f[k] \in Nat /\ h[k] = f[k]
      BY <1>3
    <2> HIDE DEF f, h
    <2>2. SumFunctionOnSet(f, S) = SumFunctionOnSet(h, S)
      BY ONLY <1>3, <2>1, SumOfSame
    <2>3. QED BY <2>2 DEF f, h
  <1>10. Totals(i, more) = Totals(i, s)
    BY <1>2, <1>4, <1>5, <1>6, <1>7, <1>8, <1>9 DEF Totals, S
  <1>11. QED BY <1>10 DEF more

(* What Trade computes before it writes the books.                         *)
Room(matches) == IF matches < MaxTradeLogs - queue THEN matches ELSE MaxTradeLogs - queue
MatchedAll(m) == Merge(Merge([i \in {positions_id_counter} |-> m.matcher], m.matchees), positions)
Traded(m) == {m.logs[k].matchee : k \in DOMAIN m.logs}
             \cup IF m.logs = <<>> THEN {} ELSE {positions_id_counter}
Filled(m) == {i \in Traded(m) : IsFilled(MatchedAll(m)[i])}

LEMMA TradeSteps ==
    ASSUME NEW q, NEW matches, Trade(q, matches)
    PROVE  LET m == Matched(positions_id_counter, q, Room(matches))
           IN  /\ posits' = posits \ {q}
               /\ positions_id_counter' = positions_id_counter + 1
               /\ trade_logs' = trade_logs \o m.logs
               /\ queue' = queue + Len(m.logs)
               /\ positions' = Restrict(MatchedAll(m), DOMAIN MatchedAll(m) \ Filled(m))
               /\ void_positions' = Merge(void_positions, Restrict(MatchedAll(m), Filled(m)))
               /\ cut_short' = IF m.cut THEN cut_short \cup {positions_id_counter} ELSE cut_short
               /\ transfer_fee' = transfer_fee
  BY DEF Trade, Room, MatchedAll, Traded, Filled, Open

(* The positions of both sides after the match.                            *)
LEMMA AllMatched ==
    ASSUME MatchingInv, NEW q \in posits, NEW room \in Nat, NEW m,
           LoopInv(m, positions_id_counter, q, room, IdsOf(Other(q.kind)))
    PROVE  /\ DOMAIN MatchedAll(m) = DOMAIN positions \cup {positions_id_counter}
           /\ MatchedAll(m)[positions_id_counter] = m.matcher
           /\ \A i \in IdsOf(Other(q.kind)) : MatchedAll(m)[i] = m.matchees[i]
           /\ \A i \in DOMAIN positions : i \in IdsOf(Other(q.kind)) \/ MatchedAll(m)[i] = positions[i]
           /\ Traded(m) \subseteq DOMAIN MatchedAll(m) /\ Filled(m) \subseteq DOMAIN MatchedAll(m)
  <1> DEFINE id == positions_id_counter
             ids == IdsOf(Other(q.kind))
             one == [i \in {id} |-> m.matcher]
             both == Merge(one, m.matchees)
  <1>1. DOMAIN m.matchees = ids
    BY DEF LoopInv, MatchState
  <1>2. ids \subseteq DOMAIN positions /\ id \notin DOMAIN positions
    BY BookFacts DEF IdsOf
  <1>3. DOMAIN one = {id} /\ one[id] = m.matcher
    OBVIOUS
  <1> HIDE DEF id, ids, one
  <1>4. /\ DOMAIN both = {id} \cup ids /\ both[id] = m.matcher
        /\ \A i \in ids : both[i] = m.matchees[i]
    BY <1>1, <1>2, <1>3 DEF Merge
  <1> HIDE DEF both
  <1>5. MatchedAll(m) = Merge(both, positions)
    BY DEF MatchedAll, both, one, id
  <1>6. /\ DOMAIN MatchedAll(m) = DOMAIN positions \cup {id}
        /\ MatchedAll(m)[id] = m.matcher
        /\ \A i \in ids : MatchedAll(m)[i] = m.matchees[i]
        /\ \A i \in DOMAIN positions \ ids : MatchedAll(m)[i] = positions[i]
    BY <1>2, <1>4, <1>5 DEF Merge
  <1>7. \A k \in DOMAIN m.logs : m.logs[k].matchee \in ids
    BY DEF LoopInv, LogOfMatch, ids
  <1>8. Traded(m) \subseteq DOMAIN MatchedAll(m)
    BY <1>2, <1>6, <1>7 DEF Traded, id
  <1>9. Filled(m) \subseteq DOMAIN MatchedAll(m)
    BY <1>8 DEF Filled
  <1>10. QED BY <1>6, <1>8, <1>9 DEF id, ids

(* What the match has made of them.                                        *)
MatchedPositionOK(m, i) ==
    /\ Sound(MatchedAll(m)[i])
    /\ Accounts(MatchedAll(m)[i], Totals(i, trade_logs \o m.logs))
    /\ i \notin Filled(m) => Worth(MatchedAll(m)[i])

LEMMA AllMatchedOK ==
    ASSUME MatchingInv, NEW q \in posits, NEW room \in Nat, NEW m,
           LoopInv(m, positions_id_counter, q, room, IdsOf(Other(q.kind)))
    PROVE  /\ MatchedPositionOK(m, positions_id_counter)
           /\ MatchedAll(m)[positions_id_counter].quest = q
           /\ \A i \in DOMAIN positions :
                /\ MatchedPositionOK(m, i)
                /\ MatchedAll(m)[i].quest = positions[i].quest
                /\ i \in Traded(m) \/ MatchedAll(m)[i] = positions[i]
           /\ \A i \in DOMAIN void_positions :
                Totals(i, trade_logs \o m.logs) = Totals(i, trade_logs)
           /\ m.cut \/ positions_id_counter \in Filled(m)
                    \/ \A i \in IdsOf(Other(q.kind)) :
                          Compatible(positions[i], q.rate) => i \in Filled(m)
  <1>1. /\ DOMAIN MatchedAll(m) = DOMAIN positions \cup {positions_id_counter}
        /\ MatchedAll(m)[positions_id_counter] = m.matcher
        /\ \A i \in IdsOf(Other(q.kind)) : MatchedAll(m)[i] = m.matchees[i]
        /\ \A i \in DOMAIN positions : i \in IdsOf(Other(q.kind)) \/ MatchedAll(m)[i] = positions[i]
    <2>1. DOMAIN MatchedAll(m) = DOMAIN positions \cup {positions_id_counter}
          /\ MatchedAll(m)[positions_id_counter] = m.matcher
      BY AllMatched, Zenon
    <2>2. \A i \in IdsOf(Other(q.kind)) : MatchedAll(m)[i] = m.matchees[i]
      BY AllMatched, Zenon
    <2>3. ASSUME NEW i \in DOMAIN positions, i \notin IdsOf(Other(q.kind))
          PROVE  MatchedAll(m)[i] = positions[i]
      BY <2>3, AllMatched, SMT
    <2>4. QED BY <2>1, <2>2, <2>3
  <1> DEFINE id == positions_id_counter
             ids == IdsOf(Other(q.kind))
             all == MatchedAll(m)
             logs == trade_logs \o m.logs
  <1>2. /\ MatcherOK(m, id, q) /\ (\A i \in ids : MatcheeOK(m, i)) /\ ProgressOK(m, q, ids)
        /\ m.logs \in Seq(TradeLog)
        /\ \A k \in DOMAIN m.logs : m.logs[k].matcher = id /\ m.logs[k].matchee \in ids
    BY DEF LoopInv, MatchState, LogOfMatch
  <1>3. trade_logs \in Seq(TradeLog) /\ ids \subseteq DOMAIN positions /\ id \notin DOMAIN positions
        /\ id \notin DOMAIN void_positions /\ \A i \in DOMAIN void_positions : i \notin DOMAIN positions
    BY BookFacts DEF IdsOf
  <1>4. \A i : i \in Traded(m) <=> TradedIn(m, i) \/ (i = id /\ m.logs # <<>>)
    BY DEF Traded, TradedIn
  <1>5. \A i : i \in Filled(m) <=> i \in Traded(m) /\ IsFilled(all[i])
    BY DEF Filled
  <1>6. MatchedPositionOK(m, id) /\ all[id].quest = q
    BY <1>1, <1>2, <1>4, <1>5 DEF MatcherOK, MatchedPositionOK
  <1>7. ASSUME NEW i \in ids
        PROVE  /\ MatchedPositionOK(m, i) /\ all[i].quest = positions[i].quest
               /\ i \in Traded(m) \/ all[i] = positions[i]
    BY <1>1, <1>2, <1>4, <1>5 DEF MatcheeOK, MatchedPositionOK
  <1>8. ASSUME NEW i, i \notin ids, i # id
        PROVE  Totals(i, logs) = Totals(i, trade_logs)
    <2>1. \A k \in DOMAIN m.logs : i \notin {m.logs[k].matcher, m.logs[k].matchee}
      BY <1>2, <1>8
    <2>2. QED BY <1>2, <1>3, <2>1, TotalsOfOthers
  <1>9. ASSUME NEW i \in DOMAIN positions, i \notin ids
        PROVE  /\ MatchedPositionOK(m, i) /\ all[i].quest = positions[i].quest
               /\ all[i] = positions[i]
    <2>1. all[i] = positions[i] /\ i # id
      BY <1>1, <1>3, <1>9
    <2>2. Sound(positions[i]) /\ Worth(positions[i]) /\ Accounts(positions[i], Totals(i, trade_logs))
      BY BookFacts
    <2>3. QED BY <1>8, <1>9, <2>1, <2>2 DEF MatchedPositionOK
  <1>10. \A i \in DOMAIN void_positions : Totals(i, logs) = Totals(i, trade_logs)
    BY <1>3, <1>8
  <1>11. m.cut \/ id \in Filled(m) \/ \A i \in ids : Compatible(positions[i], q.rate) => i \in Filled(m)
    <2>1. CASE m.ended
      BY <1>1, <1>2, <1>4, <1>5, <2>1 DEF ProgressOK
    <2>2. CASE ~m.ended
      BY <1>1, <1>2, <1>4, <1>5, <2>2 DEF ProgressOK
    <2>3. QED BY <2>1, <2>2
  <1>12. QED BY <1>6, <1>7, <1>9, <1>10, <1>11

(* Merged and restricted, as Trade and VoidPosition write the books.       *)
LEMMA MergeFacts ==
    ASSUME NEW f, NEW g
    PROVE  /\ DOMAIN Merge(f, g) = DOMAIN f \cup DOMAIN g
           /\ Merge(f, g) \in [DOMAIN f \cup DOMAIN g -> {Merge(f, g)[i] : i \in DOMAIN f \cup DOMAIN g}]
           /\ \A i \in DOMAIN f : Merge(f, g)[i] = f[i]
           /\ \A i \in DOMAIN g : i \notin DOMAIN f => Merge(f, g)[i] = g[i]
  BY DEF Merge

LEMMA RestrictFacts ==
    ASSUME NEW f, NEW S
    PROVE  /\ DOMAIN Restrict(f, S) = S
           /\ Restrict(f, S) \in [S -> {f[i] : i \in S}]
           /\ \A i \in S : Restrict(f, S)[i] = f[i]
  BY DEF Restrict

-----------------------------------------------------------------------------
(* What the steps keep.                                                    *)

LEMMA InitMatching == Init => MatchingInv
  <1> SUFFICES ASSUME Init PROVE MatchingInv
    OBVIOUS
  <1>1. /\ positions = <<>> /\ void_positions = <<>> /\ trade_logs = <<>> /\ queue = 0
        /\ positions_id_counter = 0 /\ posits = {} /\ transfer_fee \in [Kind -> LedgerFee]
        /\ cut_short = {}
    BY DEF Init
  <1>2. /\ DOMAIN positions = {} /\ DOMAIN void_positions = {} /\ DOMAIN trade_logs = {}
        /\ 0 .. positions_id_counter - 1 = {}
    BY <1>1
  <1>3. /\ positions \in [DOMAIN positions -> Position]
        /\ void_positions \in [DOMAIN void_positions -> Position]
    BY <1>1, <1>2
  <1>4. trade_logs \in Seq(TradeLog) /\ Len(trade_logs) = 0
    BY <1>1
  <1>5. TypeOK
    BY <1>1, <1>2, <1>3, <1>4, MatchingAssumption DEF TypeOK
  <1>6. DOMAIN AllPositions = {}
    BY <1>2 DEF AllPositions, Merge
  <1>7. Uncrossed
    BY <1>2 DEF Uncrossed, IdsOf
  <1>8. QED BY <1>1, <1>2, <1>5, <1>6, <1>7 DEF MatchingInv

(* The steps that leave the books alone.                                   *)
LEMMA BooksStand ==
    ASSUME MatchingInv,
           UNCHANGED <<positions, void_positions, trade_logs, positions_id_counter, cut_short>>,
           queue' \in 0 .. MaxTradeLogs, queue' <= Len(trade_logs),
           transfer_fee' \in [Kind -> LedgerFee],
           \A q \in posits' : q \in Quest /\ PositOK(q)
    PROVE  MatchingInv'
  <1>1. TypeOK'
    BY DEF MatchingInv, TypeOK
  <1>2. AllPositions' = AllPositions
    BY DEF AllPositions
  <1>3. (\A k \in DOMAIN trade_logs : LogOK(trade_logs[k]))'
    BY <1>2 DEF MatchingInv, LogOK
  <1>4. (\A id \in DOMAIN AllPositions : PositionOK(id))'
    BY <1>2 DEF MatchingInv, PositionOK
  <1>5. (\A id \in DOMAIN positions : Worth(positions[id]))'
    BY DEF MatchingInv
  <1>6. Uncrossed'
    BY DEF MatchingInv, Uncrossed, IdsOf
  <1>7. QED BY <1>1, <1>3, <1>4, <1>5, <1>6 DEF MatchingInv

(* What is posited is worth a match.                                       *)
LEMMA TradeCallKeeps ==
    ASSUME MatchingInv, NEW kind \in Kind, NEW rate \in Rate, NEW quantity \in Quantity[kind],
           TradeCall([kind |-> kind, rate |-> rate, quantity |-> quantity])
    PROVE  MatchingInv'
  <1> DEFINE q == [kind |-> kind, rate |-> rate, quantity |-> quantity]
  <1>1. /\ q.rate # 0 /\ ~IsLessThanMinimumPosition(q) /\ posits' = posits \cup {q}
        /\ UNCHANGED <<positions, void_positions, trade_logs, queue, positions_id_counter,
                       transfer_fee, cut_short>>
    BY DEF TradeCall
  <1>2. q \in Quest /\ q.kind = kind /\ q.rate = rate /\ q.quantity = quantity
        /\ rate \in Nat /\ quantity \in Nat
    BY MatchingAssumption DEF Quest
  <1>3. TypeOK
    BY DEF MatchingInv
  <1>4. transfer_fee \in [Kind -> LedgerFee]
    BY <1>3 DEF TypeOK
  <1> HIDE DEF q
  <1>5. NewPosition(q).left = quantity /\ NewPosition(q).quest = q
    BY <1>2 DEF NewPosition
  <1>6. PositOK(q)
    <2>1. minimum_match("token") \in Nat /\ minimum_match("token") >= FeeUnit /\ FeeUnit \in Nat
      BY <1>4, MinimumFacts, TradeFeeAssumption DEF Kind
    <2>2. CASE kind = "cycles"
      <3>1. TokensAt(NewPosition(q), q.rate) = cycles_transform_tokens(quantity, rate)
        BY <1>2, <1>5, <2>2 DEF TokensAt
      <3>2. ~(cycles_transform_tokens(quantity, rate) < minimum_match("token"))
        BY <1>1, <1>2, <2>2 DEF IsLessThanMinimumPosition
      <3>3. cycles_transform_tokens(quantity, rate) \in Nat
        BY <1>1, <1>2, DivFacts DEF cycles_transform_tokens
      <3>4. QED BY <1>1, <1>5, <2>1, <3>1, <3>2, <3>3 DEF PositOK, Worth
    <2>3. CASE kind # "cycles"
      <3>1. TokensAt(NewPosition(q), q.rate) = quantity
        BY <1>2, <1>5, <2>3 DEF TokensAt
      <3>2. ~(quantity < minimum_match("token"))
        BY <1>1, <1>2, <2>3 DEF IsLessThanMinimumPosition
      <3>3. QED BY <1>1, <1>2, <1>5, <2>1, <3>1, <3>2 DEF PositOK, Worth
    <2>4. QED BY <2>2, <2>3
  <1>7. \A x \in posits' : x \in Quest /\ PositOK(x)
    BY <1>1, <1>2, <1>3, <1>6 DEF MatchingInv, TypeOK
  <1>8. queue' \in 0 .. MaxTradeLogs /\ queue' <= Len(trade_logs) /\ transfer_fee' \in [Kind -> LedgerFee]
    BY <1>1, <1>3 DEF TypeOK
  <1>9. QED BY <1>1, <1>7, <1>8, BooksStand

LEMMA TradeRefusedKeeps ==
    ASSUME MatchingInv, NEW q \in posits, TradeRefused(q)
    PROVE  MatchingInv'
  <1>1. \A x \in posits' : x \in Quest /\ PositOK(x)
    BY DEF TradeRefused, MatchingInv, TypeOK
  <1>2. queue' \in 0 .. MaxTradeLogs /\ queue' <= Len(trade_logs) /\ transfer_fee' \in [Kind -> LedgerFee]
    BY DEF TradeRefused, MatchingInv, TypeOK
  <1>3. QED BY <1>1, <1>2, BooksStand DEF TradeRefused

LEMMA LogLeavesKeeps ==
    ASSUME MatchingInv, LogLeaves
    PROVE  MatchingInv'
  <1>1. \A x \in posits' : x \in Quest /\ PositOK(x)
    BY DEF LogLeaves, MatchingInv, TypeOK
  <1>2. queue' \in 0 .. MaxTradeLogs /\ queue' <= Len(trade_logs) /\ transfer_fee' \in [Kind -> LedgerFee]
    <2>1. trade_logs \in Seq(TradeLog) /\ Len(trade_logs) \in Nat /\ MaxTradeLogs \in Nat
      BY MatchingAssumption DEF MatchingInv, TypeOK
    <2>2. QED BY <2>1 DEF LogLeaves, MatchingInv, TypeOK
  <1>3. QED BY <1>1, <1>2, BooksStand DEF LogLeaves

LEMMA FeeChangesKeeps ==
    ASSUME MatchingInv, NEW kind \in Kind, NEW fee \in LedgerFee, FeeChanges(kind, fee)
    PROVE  MatchingInv'
  <1>1. \A x \in posits' : x \in Quest /\ PositOK(x)
    BY DEF FeeChanges, MatchingInv, TypeOK
  <1>2. queue' \in 0 .. MaxTradeLogs /\ queue' <= Len(trade_logs) /\ transfer_fee' \in [Kind -> LedgerFee]
    BY DEF FeeChanges, MatchingInv, TypeOK
  <1>3. QED BY <1>1, <1>2, BooksStand DEF FeeChanges

(* A position that is voided stays what it was.                            *)
LEMMA VoidPositionKeeps ==
    ASSUME MatchingInv, NEW id \in DOMAIN positions, VoidPosition(id)
    PROVE  MatchingInv'
  <1>1. /\ void_positions' = Merge(void_positions, Restrict(positions, {id}))
        /\ positions' = Restrict(positions, DOMAIN positions \ {id})
        /\ UNCHANGED <<trade_logs, queue, positions_id_counter, posits, transfer_fee, cut_short>>
    BY DEF VoidPosition
  <1>2. TypeOK
    BY DEF MatchingInv
  <1>3. /\ DOMAIN positions \cap DOMAIN void_positions = {}
        /\ DOMAIN positions \cup DOMAIN void_positions = 0 .. positions_id_counter - 1
        /\ \A i \in DOMAIN positions : positions[i] \in Position
        /\ \A i \in DOMAIN void_positions : void_positions[i] \in Position
    BY <1>2 DEF TypeOK
  <1>4. /\ DOMAIN positions' = DOMAIN positions \ {id}
        /\ \A i \in DOMAIN positions' : positions'[i] = positions[i]
        /\ positions' \in [DOMAIN positions' -> Position]
    BY <1>1, <1>3, RestrictFacts
  <1>5. /\ DOMAIN void_positions' = DOMAIN void_positions \cup {id}
        /\ \A i \in DOMAIN void_positions : void_positions'[i] = void_positions[i]
        /\ void_positions'[id] = positions[id]
    <2> DEFINE one == Restrict(positions, {id})
    <2>1. DOMAIN one = {id} /\ one[id] = positions[id]
      BY RestrictFacts
    <2>2. id \notin DOMAIN void_positions /\ void_positions' = Merge(void_positions, one)
      BY <1>1, <1>3
    <2> HIDE DEF one
    <2>3. QED BY <2>1, <2>2 DEF Merge
  <1>6. void_positions' \in [DOMAIN void_positions' -> Position]
    <2>1. \A i \in DOMAIN void_positions' : void_positions'[i] \in Position
      BY <1>3, <1>5
    <2>2. QED BY <1>1, <2>1, MergeFacts
  <1>7. TypeOK'
    <2>1. /\ DOMAIN positions' \cap DOMAIN void_positions' = {}
          /\ DOMAIN positions' \cup DOMAIN void_positions' = 0 .. positions_id_counter - 1
      BY <1>3, <1>4, <1>5
    <2>2. QED BY <1>1, <1>2, <1>4, <1>6, <2>1 DEF TypeOK
  <1>8. /\ DOMAIN AllPositions' = DOMAIN AllPositions
        /\ \A i \in DOMAIN AllPositions : AllPositions'[i] = AllPositions[i]
    BY <1>3, <1>4, <1>5 DEF AllPositions, Merge
  <1>9. (\A k \in DOMAIN trade_logs : LogOK(trade_logs[k]))'
    BY <1>1, <1>8 DEF MatchingInv, LogOK
  <1>10. (\A i \in DOMAIN AllPositions : PositionOK(i))'
    BY <1>1, <1>8 DEF MatchingInv, PositionOK
  <1>11. (\A i \in DOMAIN positions : Worth(positions[i]))'
    BY <1>4 DEF MatchingInv
  <1>12. Uncrossed'
    BY <1>1, <1>4 DEF MatchingInv, Uncrossed, IdsOf
  <1>13. (\A q \in posits : PositOK(q))'
    BY <1>1 DEF MatchingInv
  <1>14. QED BY <1>7, <1>9, <1>10, <1>11, <1>12, <1>13 DEF MatchingInv

(* The books that a trade writes, of what the match has made.              *)
BooksWritten(m, q, room) ==
    /\ LoopInv(m, positions_id_counter, q, room, IdsOf(Other(q.kind)))
    /\ room \in Nat /\ room <= MaxTradeLogs - queue
    /\ DOMAIN MatchedAll(m) = DOMAIN positions \cup {positions_id_counter}
    /\ Filled(m) \subseteq DOMAIN MatchedAll(m)
    /\ DOMAIN positions' = DOMAIN MatchedAll(m) \ Filled(m)
    /\ positions' \in [DOMAIN positions' -> Position]
    /\ \A i \in DOMAIN positions' : positions'[i] = MatchedAll(m)[i]
    /\ DOMAIN void_positions' = DOMAIN void_positions \cup Filled(m)
    /\ void_positions' \in [DOMAIN void_positions' -> Position]
    /\ DOMAIN AllPositions' = 0 .. positions_id_counter
    /\ \A i \in DOMAIN MatchedAll(m) : AllPositions'[i] = MatchedAll(m)[i]
    /\ \A i \in DOMAIN void_positions : AllPositions'[i] = void_positions[i]

LEMMA TradeBooks ==
    ASSUME MatchingInv, NEW q \in posits, NEW matches \in MaxMatches, Trade(q, matches)
    PROVE  BooksWritten(Matched(positions_id_counter, q, Room(matches)), q, Room(matches))
  <1> DEFINE m == Matched(positions_id_counter, q, Room(matches))
             id == positions_id_counter
             room == Room(matches)
             all == MatchedAll(m)
             filled == Filled(m)
             fills == Restrict(all, filled)
  <1>1. room \in Nat /\ room <= MaxTradeLogs - queue
    <2>1. matches \in Nat /\ MaxTradeLogs \in Nat
      BY MatchingAssumption
    <2>2. queue \in 0 .. MaxTradeLogs
      BY DEF MatchingInv, TypeOK
    <2>3. QED BY <2>1, <2>2 DEF Room
  <1> HIDE DEF room
  <1>2. LoopInv(m, id, q, room, IdsOf(Other(q.kind)))
    BY <1>1, MatchedOK, Zenon DEF room
  <1>3. DOMAIN all = DOMAIN positions \cup {id} /\ filled \subseteq DOMAIN all
    BY <1>1, <1>2, AllMatched, Zenon
  <1>4. /\ \A i \in DOMAIN positions : Sound(all[i])
        /\ Sound(all[id])
    BY <1>1, <1>2, AllMatchedOK, Zenon DEF MatchedPositionOK
  <1>5. /\ positions' = Restrict(all, DOMAIN all \ filled)
        /\ void_positions' = Merge(void_positions, fills)
    BY TradeSteps DEF room
  <1> HIDE DEF all, filled, m
  <1>6. \A i \in DOMAIN all : all[i] \in Position
    BY <1>3, <1>4 DEF Sound
  <1>7. /\ DOMAIN positions' = DOMAIN all \ filled
        /\ \A i \in DOMAIN positions' : positions'[i] = all[i]
        /\ positions' \in [DOMAIN positions' -> Position]
    BY <1>5, <1>6 DEF Restrict
  <1>8. DOMAIN fills = filled /\ \A i \in filled : fills[i] = all[i]
    BY DEF Restrict
  <1> HIDE DEF fills
  <1>9. /\ id \in Nat
        /\ \A i \in DOMAIN void_positions : i \notin DOMAIN positions /\ i # id
        /\ \A i \in DOMAIN void_positions : void_positions[i] \in Position
        /\ DOMAIN positions \cup DOMAIN void_positions = 0 .. id - 1
    BY BookFacts DEF MatchingInv, TypeOK
  <1>10. /\ DOMAIN void_positions' = DOMAIN void_positions \cup filled
         /\ \A i \in DOMAIN void_positions : void_positions'[i] = void_positions[i]
         /\ \A i \in filled : void_positions'[i] = all[i]
    BY <1>3, <1>5, <1>8, <1>9 DEF Merge
  <1>11. void_positions' \in [DOMAIN void_positions' -> Position]
    <2>1. \A i \in DOMAIN void_positions' : void_positions'[i] \in Position
      BY <1>3, <1>6, <1>9, <1>10
    <2>2. QED BY <1>5, <2>1, MergeFacts
  <1>12. DOMAIN positions' \cup DOMAIN void_positions' = 0 .. id
    BY <1>3, <1>7, <1>9, <1>10
  <1>13. /\ DOMAIN AllPositions' = 0 .. id
         /\ \A i \in DOMAIN all : AllPositions'[i] = all[i]
         /\ \A i \in DOMAIN void_positions : AllPositions'[i] = void_positions[i]
    BY <1>3, <1>7, <1>9, <1>10, <1>12 DEF AllPositions, Merge
  <1>14. QED
    <2>1. BooksWritten(m, q, room)
      BY <1>1, <1>2, <1>3, <1>7, <1>10, <1>11, <1>13 DEF BooksWritten, all, filled, id
    <2>2. QED BY <2>1 DEF m, room

LEMMA TradeKeepsTypes ==
    ASSUME MatchingInv, NEW q \in posits, NEW matches \in MaxMatches, Trade(q, matches)
    PROVE  TypeOK'
  <1> DEFINE m == Matched(positions_id_counter, q, Room(matches))
             id == positions_id_counter
             ids == IdsOf(Other(q.kind))
  <1>0. BooksWritten(m, q, Room(matches))
    BY TradeBooks, Zenon
  <1>1. /\ posits' = posits \ {q} /\ positions_id_counter' = id + 1
        /\ trade_logs' = trade_logs \o m.logs /\ queue' = queue + Len(m.logs)
        /\ cut_short' = IF m.cut THEN cut_short \cup {id} ELSE cut_short
        /\ transfer_fee' = transfer_fee
    BY TradeSteps
  <1> HIDE DEF m
  <1>2. /\ LoopInv(m, id, q, Room(matches), ids)
        /\ Room(matches) \in Nat /\ Room(matches) <= MaxTradeLogs - queue
        /\ DOMAIN MatchedAll(m) = DOMAIN positions \cup {id}
        /\ Filled(m) \subseteq DOMAIN MatchedAll(m)
        /\ DOMAIN positions' = DOMAIN MatchedAll(m) \ Filled(m)
        /\ positions' \in [DOMAIN positions' -> Position]
        /\ DOMAIN void_positions' = DOMAIN void_positions \cup Filled(m)
        /\ void_positions' \in [DOMAIN void_positions' -> Position]
    BY <1>0 DEF BooksWritten
  <1>3. m.logs \in Seq(TradeLog) /\ Len(m.logs) <= Room(matches)
    BY <1>2 DEF LoopInv, MatchState
  <1>4. TypeOK
    BY DEF MatchingInv
  <1>5. /\ DOMAIN positions' \cap DOMAIN void_positions' = {}
        /\ DOMAIN positions' \cup DOMAIN void_positions' = 0 .. positions_id_counter' - 1
    <2>1. /\ id \in Nat
          /\ DOMAIN positions \cap DOMAIN void_positions = {}
          /\ DOMAIN positions \cup DOMAIN void_positions = 0 .. id - 1
      BY <1>4 DEF TypeOK
    <2>2. id \notin DOMAIN void_positions
      BY <2>1
    <2>3. DOMAIN positions' \cup DOMAIN void_positions' = 0 .. id
      BY <1>2, <2>1
    <2>4. QED BY <1>2, <1>1, <2>1, <2>2, <2>3
  <1>6. /\ trade_logs' \in Seq(TradeLog) /\ queue' \in 0 .. MaxTradeLogs
        /\ queue' <= Len(trade_logs')
    <2>1. /\ trade_logs \in Seq(TradeLog) /\ queue \in 0 .. MaxTradeLogs /\ queue <= Len(trade_logs)
          /\ MaxTradeLogs \in Nat
      BY <1>4, MatchingAssumption DEF TypeOK
    <2>2. trade_logs' \in Seq(TradeLog) /\ Len(trade_logs') = Len(trade_logs) + Len(m.logs)
      BY <1>1, <1>3, <2>1
    <2>3. Len(m.logs) \in Nat /\ Len(trade_logs) \in Nat
      BY <1>3, <2>1
    <2>4. QED BY <1>2, <1>1, <1>3, <2>1, <2>2, <2>3
  <1>7. /\ positions_id_counter' \in Nat /\ posits' \subseteq Quest
        /\ transfer_fee' \in [Kind -> LedgerFee]
        /\ cut_short' \subseteq 0 .. positions_id_counter' - 1
    BY <1>1, <1>4 DEF TypeOK
  <1>8. QED BY <1>2, <1>5, <1>6, <1>7 DEF TypeOK

LEMMA TradeKeepsRecords ==
    ASSUME MatchingInv, NEW q \in posits, NEW matches \in MaxMatches, Trade(q, matches)
    PROVE  /\ (\A k \in DOMAIN trade_logs : LogOK(trade_logs[k]))'
           /\ (\A i \in DOMAIN AllPositions : PositionOK(i))'
           /\ (\A i \in DOMAIN positions : Worth(positions[i]))'
           /\ (\A x \in posits : PositOK(x))'
  <1> DEFINE m == Matched(positions_id_counter, q, Room(matches))
             id == positions_id_counter
             ids == IdsOf(Other(q.kind))
             all == MatchedAll(m)
  <1>0. BooksWritten(m, q, Room(matches))
    BY TradeBooks, Zenon
  <1>1. posits' = posits \ {q} /\ trade_logs' = trade_logs \o m.logs
    BY TradeSteps
  <1> HIDE DEF m
  <1>2. /\ LoopInv(m, id, q, Room(matches), ids) /\ Room(matches) \in Nat
        /\ DOMAIN all = DOMAIN positions \cup {id}
        /\ DOMAIN positions' = DOMAIN all \ Filled(m)
        /\ \A i \in DOMAIN positions' : positions'[i] = all[i]
        /\ DOMAIN AllPositions' = 0 .. id
        /\ \A i \in DOMAIN all : AllPositions'[i] = all[i]
        /\ \A i \in DOMAIN void_positions : AllPositions'[i] = void_positions[i]
    BY <1>0 DEF BooksWritten
  <1>3. /\ MatchedPositionOK(m, id) /\ all[id].quest = q
        /\ \A i \in DOMAIN positions :
              MatchedPositionOK(m, i) /\ all[i].quest = positions[i].quest
        /\ \A i \in DOMAIN void_positions :
              Totals(i, trade_logs \o m.logs) = Totals(i, trade_logs)
    BY <1>2, AllMatchedOK, Zenon
  <1> HIDE DEF all, id, ids
  <1>4. /\ trade_logs \in Seq(TradeLog) /\ id \in Nat
        /\ \A i \in DOMAIN void_positions :
              Sound(void_positions[i]) /\ Accounts(void_positions[i], Totals(i, trade_logs))
        /\ DOMAIN AllPositions = 0 .. id - 1
        /\ DOMAIN positions \cup DOMAIN void_positions = 0 .. id - 1
        /\ \A i \in DOMAIN positions : AllPositions[i] = positions[i]
        /\ \A i \in DOMAIN void_positions : AllPositions[i] = void_positions[i]
    BY BookFacts DEF MatchingInv, TypeOK, id
  <1>5. \A i \in DOMAIN AllPositions :
            i \in DOMAIN AllPositions' /\ AllPositions'[i].quest = AllPositions[i].quest
    BY <1>2, <1>3, <1>4
  <1>6. ASSUME NEW k \in DOMAIN trade_logs' PROVE LogOK(trade_logs[k])'
    <2>1. m.logs \in Seq(TradeLog) /\ \A j \in DOMAIN m.logs : LogOfMatch(m.logs[j], id, q, ids)
      BY <1>2 DEF LoopInv, MatchState
    <2>2. CASE k \in DOMAIN trade_logs
      <3>1. trade_logs'[k] = trade_logs[k]
        BY <1>1, <1>4, <2>1, <2>2
      <3>2. LogOK(trade_logs[k])
        BY <2>2 DEF MatchingInv
      <3>3. QED BY <1>5, <3>1, <3>2 DEF LogOK
    <2>3. CASE k \notin DOMAIN trade_logs
      <3>1. k - Len(trade_logs) \in DOMAIN m.logs /\ trade_logs'[k] = m.logs[k - Len(trade_logs)]
        BY <1>1, <1>4, <2>1, <2>3
      <3>2. PICK j \in DOMAIN m.logs : trade_logs'[k] = m.logs[j]
        BY <3>1
      <3>3. LogOfMatch(m.logs[j], id, q, ids)
        BY <2>1
      <3>4. m.logs[j].matcher = id /\ m.logs[j].matchee \in DOMAIN positions
        BY <3>3 DEF LogOfMatch, ids, IdsOf
      <3>5. id \in DOMAIN AllPositions' /\ AllPositions'[id].quest = q
        BY <1>2, <1>3, <1>4
      <3>6. /\ m.logs[j].matchee \in DOMAIN AllPositions'
            /\ AllPositions'[m.logs[j].matchee].quest = positions[m.logs[j].matchee].quest
        BY <1>4, <1>5, <3>4
      <3>7. QED BY <3>2, <3>3, <3>4, <3>5, <3>6 DEF LogOK, LogOfMatch
    <2>4. QED BY <2>2, <2>3
  <1>7. ASSUME NEW i \in DOMAIN AllPositions' PROVE PositionOK(i)'
    <2>1. i \in DOMAIN all \/ i \in DOMAIN void_positions
      BY <1>2, <1>4
    <2>2. CASE i \in DOMAIN all
      <3>1. MatchedPositionOK(m, i) /\ AllPositions'[i] = all[i]
        BY <1>2, <1>3, <2>2
      <3>2. QED BY <1>1, <3>1 DEF PositionOK, MatchedPositionOK, all
    <2>3. CASE i \in DOMAIN void_positions
      BY <1>2, <1>1, <1>3, <1>4, <2>3 DEF PositionOK
    <2>4. QED BY <2>1, <2>2, <2>3
  <1>8. ASSUME NEW i \in DOMAIN positions' PROVE Worth(positions'[i])
    <2>1. i \in DOMAIN all /\ i \notin Filled(m) /\ positions'[i] = all[i]
      BY <1>2
    <2>2. MatchedPositionOK(m, i)
      BY <1>2, <1>3, <2>1
    <2>3. QED BY <2>1, <2>2 DEF MatchedPositionOK, all
  <1>9. \A x \in posits' : PositOK(x)
    BY <1>1 DEF MatchingInv
  <1>10. QED BY <1>6, <1>7, <1>8, <1>9

(* The new position crosses what is open only when it was cut short.       *)
LEMMA TradeKeepsUncrossed ==
    ASSUME MatchingInv, NEW q \in posits, NEW matches \in MaxMatches, Trade(q, matches)
    PROVE  Uncrossed'
  <1> DEFINE m == Matched(positions_id_counter, q, Room(matches))
             id == positions_id_counter
             all == MatchedAll(m)
  <1>0. BooksWritten(m, q, Room(matches))
    BY TradeBooks, Zenon
  <1>1. cut_short' = IF m.cut THEN cut_short \cup {id} ELSE cut_short
    BY TradeSteps
  <1> HIDE DEF m
  <1>2. /\ LoopInv(m, id, q, Room(matches), IdsOf(Other(q.kind))) /\ Room(matches) \in Nat
        /\ DOMAIN all = DOMAIN positions \cup {id}
        /\ DOMAIN positions' = DOMAIN all \ Filled(m)
        /\ \A i \in DOMAIN positions' : positions'[i] = all[i]
    BY <1>0 DEF BooksWritten
  <1>3. /\ all[id].quest = q
        /\ \A i \in DOMAIN positions : all[i].quest = positions[i].quest
        /\ m.cut \/ id \in Filled(m)
                 \/ \A i \in IdsOf(Other(q.kind)) : Compatible(positions[i], q.rate) => i \in Filled(m)
    BY <1>2, AllMatchedOK, Zenon
  <1>4. id \in Nat /\ \A i \in DOMAIN positions : i \in Nat /\ i < id
    BY BookFacts
  <1> HIDE DEF id, all
  <1>5. \A i \in DOMAIN positions' :
          /\ i \notin Filled(m)
          /\ \/ i = id /\ positions'[i].quest = q
             \/ i \in DOMAIN positions /\ positions'[i].quest = positions[i].quest
    BY <1>2, <1>3
  <1>6. SUFFICES ASSUME NEW a \in DOMAIN positions', NEW b \in DOMAIN positions',
                        positions'[a].quest.kind = "cycles", positions'[b].quest.kind = "token",
                        positions'[a].quest.rate >= positions'[b].quest.rate
                 PROVE  (IF a > b THEN a ELSE b) \in cut_short'
    BY DEF Uncrossed, IdsOf
  <1>7. CASE a = id
    <2>1. q = positions'[a].quest /\ b # id
      BY <1>2, <1>3, <1>6, <1>7
    <2>2. b \in DOMAIN positions /\ positions[b].quest = positions'[b].quest /\ b \notin Filled(m)
      BY <1>5, <2>1
    <2>3. b \in IdsOf(Other(q.kind)) /\ Compatible(positions[b], q.rate)
      <3>1. positions[b].quest.kind = "token" /\ q.kind = "cycles"
            /\ positions[b].quest.rate <= q.rate
        <4>1. positions[b].quest.rate \in Nat /\ q.rate \in Nat
          BY <2>2, BookFacts, SoundFacts DEF MatchingInv, TypeOK, Quest
        <4>2. QED BY <1>6, <2>1, <2>2, <4>1
      <3>2. QED BY <2>2, <3>1 DEF IdsOf, Other, Compatible
    <2>4. m.cut /\ id \in cut_short'
      BY <1>1, <1>3, <1>5, <1>7, <2>2, <2>3
    <2>5. QED BY <1>4, <1>7, <2>2, <2>4
  <1>8. CASE b = id
    <2>1. q = positions'[b].quest /\ a # id
      BY <1>2, <1>3, <1>6, <1>8
    <2>2. a \in DOMAIN positions /\ positions[a].quest = positions'[a].quest /\ a \notin Filled(m)
      BY <1>5, <2>1
    <2>3. a \in IdsOf(Other(q.kind)) /\ Compatible(positions[a], q.rate)
      <3>1. positions[a].quest.kind = "cycles" /\ q.kind = "token"
            /\ positions[a].quest.rate >= q.rate
        BY <1>6, <2>1, <2>2
      <3>2. QED BY <2>2, <3>1 DEF IdsOf, Other, Compatible
    <2>4. m.cut /\ id \in cut_short'
      BY <1>1, <1>3, <1>5, <1>8, <2>2, <2>3
    <2>5. ~(a > b)
      BY <1>4, <1>8, <2>2
    <2>6. QED BY <1>8, <2>4, <2>5
  <1>9. CASE a # id /\ b # id
    <2>1. /\ a \in DOMAIN positions /\ positions[a].quest = positions'[a].quest
          /\ b \in DOMAIN positions /\ positions[b].quest = positions'[b].quest
      BY <1>5, <1>9
    <2>2. a \in IdsOf("cycles") /\ b \in IdsOf("token")
      BY <1>6, <2>1 DEF IdsOf
    <2>3. Uncrossed
      BY DEF MatchingInv
    <2>4. (IF a > b THEN a ELSE b) \in cut_short
      BY <1>6, <2>1, <2>2, <2>3 DEF Uncrossed
    <2>5. QED BY <1>1, <2>4
  <1>10. QED BY <1>7, <1>8, <1>9

(* What a trade has changed and left in the book is not filled.            *)
LEMMA TradeLeavesNoDust ==
    ASSUME MatchingInv, NEW q \in posits, NEW matches \in MaxMatches, Trade(q, matches),
           NEW i \in DOMAIN positions, i \in DOMAIN positions',
           positions'[i].left # positions[i].left
    PROVE  ~BelowMinimum(positions'[i])
  <1> DEFINE m == Matched(positions_id_counter, q, Room(matches))
  <1>0. BooksWritten(m, q, Room(matches))
    BY TradeBooks, Zenon
  <1> HIDE DEF m
  <1>1. /\ LoopInv(m, positions_id_counter, q, Room(matches), IdsOf(Other(q.kind)))
        /\ Room(matches) \in Nat
        /\ DOMAIN positions' = DOMAIN MatchedAll(m) \ Filled(m)
        /\ \A j \in DOMAIN positions' : positions'[j] = MatchedAll(m)[j]
    BY <1>0 DEF BooksWritten
  <1>2. i \in Traded(m) \/ MatchedAll(m)[i] = positions[i]
    BY <1>1, AllMatchedOK, Zenon
  <1>3. i \notin Filled(m) /\ positions'[i] = MatchedAll(m)[i]
    BY <1>1
  <1>4. i \in Traded(m)
    BY <1>2, <1>3
  <1>5. QED BY <1>3, <1>4 DEF Filled, IsFilled

-----------------------------------------------------------------------------
(* The theorems.                                                           *)

LEMMA MatchingStep == MatchingInv /\ [Next]_vars => MatchingInv'
  <1> SUFFICES ASSUME MatchingInv, [Next]_vars PROVE MatchingInv'
    OBVIOUS
  <1>1. ASSUME NEW kind \in Kind, NEW rate \in Rate, NEW quantity \in Quantity[kind],
               TradeCall([kind |-> kind, rate |-> rate, quantity |-> quantity])
        PROVE  MatchingInv'
    BY <1>1, TradeCallKeeps
  <1>2. ASSUME NEW q \in posits, TradeRefused(q) PROVE MatchingInv'
    BY <1>2, TradeRefusedKeeps
  <1>3. ASSUME NEW q \in posits, NEW matches \in MaxMatches, Trade(q, matches) PROVE MatchingInv'
    BY <1>3, TradeKeepsTypes, TradeKeepsRecords, TradeKeepsUncrossed DEF MatchingInv
  <1>4. ASSUME NEW id \in DOMAIN positions, VoidPosition(id) PROVE MatchingInv'
    BY <1>4, VoidPositionKeeps
  <1>5. ASSUME LogLeaves PROVE MatchingInv'
    BY <1>5, LogLeavesKeeps
  <1>6. ASSUME NEW kind \in Kind, NEW fee \in LedgerFee, FeeChanges(kind, fee) PROVE MatchingInv'
    BY <1>6, FeeChangesKeeps
  <1>7. ASSUME UNCHANGED vars PROVE MatchingInv'
    <2>1. \A x \in posits' : x \in Quest /\ PositOK(x)
      BY <1>7 DEF vars, MatchingInv, TypeOK
    <2>2. /\ queue' \in 0 .. MaxTradeLogs /\ queue' <= Len(trade_logs)
          /\ transfer_fee' \in [Kind -> LedgerFee]
      BY <1>7 DEF vars, MatchingInv, TypeOK
    <2>3. QED BY <1>7, <2>1, <2>2, BooksStand DEF vars
  <1>8. QED BY <1>1, <1>2, <1>3, <1>4, <1>5, <1>6, <1>7 DEF Next

(* Of every state of the books: the logs name known positions, cover their *)
(* fees and keep to the limits of both sides, every record is sound and    *)
(* agrees with its logs, what is open or posited is worth a match, and the *)
(* books are uncrossed.                                                    *)
THEOREM MatchingInvariant == Spec => []MatchingInv
  BY InitMatching, MatchingStep, PTL DEF Spec

(* The record of every position agrees with its trades to the last unit,   *)
(* and no trade's fees exceed what they are taken from.                    *)
THEOREM AgreesWithTrades == Spec => []PositionsAgreeWithTrades
  <1>1. MatchingInv => PositionsAgreeWithTrades
    BY DEF MatchingInv, PositionsAgreeWithTrades, LogOK, PositionOK, Accounts
  <1>2. QED BY <1>1, MatchingInvariant, PTL

(* What the trades of a position pay is what the tiers ask of its volume,  *)
(* but for the rounding, however the volume is split into trades.          *)
THEOREM FeesAreOfTheTiers == Spec => []FeesOfTiers
  <1>1. MatchingInv => FeesOfTiers
    <2> SUFFICES ASSUME MatchingInv, NEW id \in DOMAIN AllPositions
                 PROVE  LET totals == Totals(id, trade_logs)
                            kind == AllPositions[id].quest.kind
                            paid == FeeUnit * Paid(kind, totals)
                        IN  /\ paid <= Asked(totals.cycles)
                            /\ Asked(totals.cycles) <= paid + Rounding(kind, totals)
      BY DEF FeesOfTiers
    <2> DEFINE totals == Totals(id, trade_logs)
               kind == AllPositions[id].quest.kind
               paid == FeeUnit * Paid(kind, totals)
               asked == Asked(totals.cycles)
               over == TiersOver(totals.cycles)
               tokens == IF kind = "cycles" THEN FeeUnit * totals.rates ELSE 0
    <2>1. FeesFollow(kind, totals)
      BY DEF MatchingInv, PositionOK, Accounts
    <2>2. paid <= asked /\ asked <= paid + (totals.trades + over) * Loss + tokens
      BY <2>1 DEF FeesFollow
    <2>3. totals \in TotalsRecord
      BY BookFacts, TotalsType
    <2>4. /\ totals.trades \in Nat /\ totals.rates \in Nat /\ totals.cycles \in Nat
          /\ totals.tokens_fees_worth \in Nat /\ totals.cycles_fees \in Nat
      BY <2>3 DEF TotalsRecord
    <2>5. over \in Nat /\ over <= 4 /\ Loss \in Nat /\ FeeUnit \in Nat
      BY TierFacts DEF TiersOver, IsOver
    <2>6. paid \in Nat /\ tokens \in Nat
      BY <2>4, <2>5, Products DEF Paid
    <2>7. asked \in Nat
      BY <2>4, FeeFollowsTiers
    <2>8. Rounding(kind, totals) = (totals.trades + 4) * Loss + tokens
      BY DEF Rounding, Loss
    <2> HIDE DEF totals, kind, paid, asked, over, tokens
    <2>9. /\ totals.trades + over <= totals.trades + 4
          /\ totals.trades + over \in Nat /\ totals.trades + 4 \in Nat
      BY <2>4, <2>5
    <2>10. /\ (totals.trades + over) * Loss <= (totals.trades + 4) * Loss
           /\ (totals.trades + over) * Loss \in Nat /\ (totals.trades + 4) * Loss \in Nat
      BY <2>5, <2>9, Products
    <2>11. asked <= paid + Rounding(kind, totals)
      BY <2>2, <2>6, <2>7, <2>8, <2>10
    <2>12. QED BY <2>2, <2>11 DEF totals, kind, paid, asked
  <1>2. QED BY <1>1, MatchingInvariant, PTL

(* Nobody trades beyond the rate they asked for, nor on average.           *)
THEOREM NobodyBeyondTheRate == Spec => []LimitsRespected
  <1>1. MatchingInv => LimitsRespected
    <2> SUFFICES ASSUME MatchingInv PROVE LimitsRespected
      OBVIOUS
    <2>1. \A id \in DOMAIN AllPositions :
            WithinLimit(PositionLog(AllPositions[id]).fill_average_rate, AllPositions[id].quest)
      BY AverageWithinLimit DEF MatchingInv, PositionOK
    <2>2. QED BY <2>1 DEF MatchingInv, LimitsRespected, LogOK
  <1>2. QED BY <1>1, MatchingInvariant, PTL

(* The books overlap only where a match was cut short.                     *)
THEOREM BooksAreUncrossed == Spec => []Uncrossed
  <1>1. MatchingInv => Uncrossed
    BY DEF MatchingInv
  <1>2. QED BY <1>1, MatchingInvariant, PTL

(* What a trade leaves in the book is worth another match.                 *)
THEOREM NoDust == Spec => DustLeavesTheBook
  <1> DEFINE NoDustIsLeft ==
               \A id \in DOMAIN positions \cap DOMAIN positions' :
                  positions'[id].left # positions[id].left => ~BelowMinimum(positions'[id])
  <1>1. MatchingInv /\ [Next]_vars => [NoDustIsLeft]_vars
    <2> SUFFICES ASSUME MatchingInv, Next PROVE NoDustIsLeft
      BY DEF vars
    <2> SUFFICES ASSUME NEW i \in DOMAIN positions, i \in DOMAIN positions',
                        positions'[i].left # positions[i].left
                 PROVE  ~BelowMinimum(positions'[i])
      OBVIOUS
    <2>1. ASSUME NEW q \in posits, NEW matches \in MaxMatches, Trade(q, matches)
          PROVE  ~BelowMinimum(positions'[i])
      BY <2>1, TradeLeavesNoDust
    <2>2. ASSUME NEW id \in DOMAIN positions, VoidPosition(id) PROVE FALSE
      BY <2>2 DEF VoidPosition, Restrict
    <2>3. ASSUME UNCHANGED positions PROVE FALSE
      BY <2>3
    <2>4. QED
      BY <2>1, <2>2, <2>3 DEF Next, TradeCall, TradeRefused, LogLeaves, FeeChanges
  <1>2. QED BY <1>1, MatchingInvariant, PTL DEF Spec, DustLeavesTheBook

-----------------------------------------------------------------------------
(* The pages of the positions and of the trades.                           *)

LEMMA GreatestNumber ==
    ASSUME NEW S \in SUBSET Nat, IsFiniteSet(S), S # {}
    PROVE  \E x \in S : \A y \in S : y <= x
  <1> DEFINE above(i) == {j \in S : j > i}
             T == {Cardinality(above(i)) : i \in S}
  <1>1. \A i \in S : IsFiniteSet(above(i)) /\ Cardinality(above(i)) \in Nat
    <2>1. \A i \in S : above(i) \subseteq S
      OBVIOUS
    <2>2. QED BY <2>1, Fewer
  <1>2. T \in SUBSET Nat /\ T # {}
    BY <1>1
  <1>3. PICK t \in T : \A u \in T : t <= u
    BY ONLY <1>2, LeastNumber
  <1>4. PICK x \in S : t = Cardinality(above(x))
    BY <1>3
  <1>5. ASSUME NEW y \in S, y > x PROVE FALSE
    <2>1. above(y) \subseteq above(x) /\ y \in above(x) /\ y \notin above(y)
      <3>1. x \in Nat /\ y \in Nat /\ \A k \in S : k \in Nat
        OBVIOUS
      <3>2. (\A k \in S : k > y => k > x) /\ ~(y > y)
        BY <1>5, <3>1
      <3>3. QED BY <1>5, <3>2
    <2>2. Cardinality(above(y)) < Cardinality(above(x))
      BY <1>1, <2>1, Fewer
    <2>3. Cardinality(above(y)) \in T
      OBVIOUS
    <2>4. t <= Cardinality(above(y)) /\ Cardinality(above(y)) \in Nat /\ Cardinality(above(x)) \in Nat
      BY <1>1, <1>3, <2>3
    <2> HIDE DEF above
    <2>5. QED BY <1>4, <2>2, <2>4
  <1>6. QED BY <1>5

(* The n greatest of a set, and the n least.                               *)
LEMMA GreatestFacts ==
    ASSUME NEW S, IsFiniteSet(S), S \subseteq Nat, NEW n \in Nat
    PROVE  NoGap(Greatest(S, n), S, n)
  <1> DEFINE G == Greatest(S, n)
             above(i) == {j \in S : j > i}
  <1>1. G \subseteq S /\ \A i \in S : i \in G <=> Cardinality(above(i)) < n
    BY DEF Greatest
  <1> HIDE DEF G
  <1>2. \A i \in S : above(i) \subseteq S
    OBVIOUS
  <1>3. \A i \in S : IsFiniteSet(above(i)) /\ Cardinality(above(i)) \in Nat
    BY <1>2, Fewer
  <1>4. ASSUME NEW i \in S \ G, NEW j \in G PROVE i < j
    <2>1. SUFFICES ASSUME j < i PROVE FALSE
      BY <1>1
    <2>2. above(i) \subseteq above(j)
      <3>1. i \in Nat /\ j \in Nat /\ \A k \in S : k \in Nat
        BY <1>1
      <3>2. \A k \in S : k > i => k > j
        BY <2>1, <3>1
      <3>3. QED BY <3>2
    <2>3. Cardinality(above(i)) <= Cardinality(above(j))
      BY <1>1, <1>3, <2>2, Fewer
    <2>4. QED BY <1>1, <1>3, <2>3
  <1>5. IsFiniteSet(G) /\ Cardinality(G) \in Nat
    BY <1>1, Fewer
  <1>6. Cardinality(G) <= n
    <2>1. CASE G = {}
      BY <2>1, FS_EmptySet
    <2>2. CASE G # {}
      <3>1. PICK m \in G : \A j \in G : m <= j
        <4>1. G \in SUBSET Nat
          BY <1>1
        <4>2. QED BY ONLY <2>2, <4>1, LeastNumber
      <3>2. G \subseteq above(m) \cup {m}
        BY <1>1, <3>1
      <3>3. Cardinality(above(m)) < n /\ Cardinality(above(m)) \in Nat /\ IsFiniteSet(above(m))
        BY <1>1, <1>3
      <3> HIDE DEF above
      <3>4. /\ IsFiniteSet(above(m) \cup {m}) /\ Cardinality(above(m) \cup {m}) \in Nat
            /\ Cardinality(above(m) \cup {m}) <= Cardinality(above(m)) + 1
        BY <3>3, OneMore
      <3>5. Cardinality(G) <= Cardinality(above(m) \cup {m})
        BY <3>2, <3>4, Fewer
      <3>6. QED BY <1>5, <3>3, <3>4, <3>5
    <2>3. QED BY <2>1, <2>2
  <1>7. Cardinality(G) < n => G = S
    <2>1. SUFFICES ASSUME G # S PROVE Cardinality(G) >= n
      BY <1>5
    <2>2. PICK x \in S \ G : \A j \in S \ G : j <= x
      <3>1. S \ G # {} /\ IsFiniteSet(S \ G) /\ S \ G \in SUBSET Nat
        BY <1>1, <2>1, FS_Subset
      <3>2. QED BY ONLY <3>1, GreatestNumber
    <2>3. above(x) \subseteq G
      <3>1. x \in Nat /\ \A k \in S : k \in Nat
        OBVIOUS
      <3>2. ASSUME NEW j \in S, j > x PROVE j \in G
        BY <2>2, <3>1, <3>2
      <3>3. QED BY <3>2
    <2>4. Cardinality(above(x)) >= n
      BY <1>1, <1>3, <2>2
    <2>5. Cardinality(above(x)) <= Cardinality(G)
      BY <1>5, <2>3, Fewer
    <2>6. QED BY <1>3, <1>5, <2>2, <2>4, <2>5
  <1>8. QED BY <1>1, <1>4, <1>6, <1>7 DEF NoGap, G

LEMMA LeastFacts ==
    ASSUME NEW S, IsFiniteSet(S), S \subseteq Nat, NEW n \in Nat
    PROVE  /\ Least(S, n) \subseteq S
           /\ Cardinality(Least(S, n)) <= n
           /\ Cardinality(Least(S, n)) < n => Least(S, n) = S
           /\ \A i \in S \ Least(S, n), j \in Least(S, n) : j < i
  <1> DEFINE L == Least(S, n)
             below(i) == {j \in S : j < i}
  <1>1. L \subseteq S /\ \A i \in S : i \in L <=> Cardinality(below(i)) < n
    BY DEF Least
  <1> HIDE DEF L
  <1>2. \A i \in S : below(i) \subseteq S
    OBVIOUS
  <1>3. \A i \in S : IsFiniteSet(below(i)) /\ Cardinality(below(i)) \in Nat
    BY <1>2, Fewer
  <1>4. ASSUME NEW i \in S \ L, NEW j \in L PROVE j < i
    <2>1. SUFFICES ASSUME i < j PROVE FALSE
      BY <1>1
    <2>2. below(i) \subseteq below(j)
      <3>1. i \in Nat /\ j \in Nat /\ \A k \in S : k \in Nat
        BY <1>1
      <3>2. \A k \in S : k < i => k < j
        BY <2>1, <3>1
      <3>3. QED BY <3>2
    <2>3. Cardinality(below(i)) <= Cardinality(below(j))
      BY <1>1, <1>3, <2>2, Fewer
    <2>4. QED BY <1>1, <1>3, <2>3
  <1>5. IsFiniteSet(L) /\ Cardinality(L) \in Nat
    BY <1>1, Fewer
  <1>6. Cardinality(L) <= n
    <2>1. CASE L = {}
      BY <2>1, FS_EmptySet
    <2>2. CASE L # {}
      <3>1. PICK m \in L : \A j \in L : j <= m
        <4>1. L \in SUBSET Nat
          BY <1>1
        <4>2. QED BY ONLY <1>5, <2>2, <4>1, GreatestNumber
      <3>2. L \subseteq below(m) \cup {m}
        BY <1>1, <3>1
      <3>3. Cardinality(below(m)) < n /\ Cardinality(below(m)) \in Nat /\ IsFiniteSet(below(m))
        BY <1>1, <1>3
      <3> HIDE DEF below
      <3>4. /\ IsFiniteSet(below(m) \cup {m}) /\ Cardinality(below(m) \cup {m}) \in Nat
            /\ Cardinality(below(m) \cup {m}) <= Cardinality(below(m)) + 1
        BY <3>3, OneMore
      <3>5. Cardinality(L) <= Cardinality(below(m) \cup {m})
        BY <3>2, <3>4, Fewer
      <3>6. QED BY <1>5, <3>3, <3>4, <3>5
    <2>3. QED BY <2>1, <2>2
  <1>7. Cardinality(L) < n => L = S
    <2>1. SUFFICES ASSUME L # S PROVE Cardinality(L) >= n
      BY <1>5
    <2>2. PICK x \in S \ L : \A j \in S \ L : x <= j
      <3>1. S \ L # {} /\ S \ L \in SUBSET Nat
        BY <1>1, <2>1
      <3>2. QED BY ONLY <3>1, LeastNumber
    <2>3. below(x) \subseteq L
      <3>1. x \in Nat /\ \A k \in S : k \in Nat
        OBVIOUS
      <3>2. ASSUME NEW j \in S, j < x PROVE j \in L
        BY <2>2, <3>1, <3>2
      <3>3. QED BY <3>2
    <2>4. Cardinality(below(x)) >= n
      BY <1>1, <1>3, <2>2
    <2>5. Cardinality(below(x)) <= Cardinality(L)
      BY <1>5, <2>3, Fewer
    <2>6. QED BY <1>3, <1>5, <2>2, <2>4, <2>5
  <1>8. QED BY <1>1, <1>4, <1>6, <1>7 DEF L

(* The newest of what two sides give are the newest of the two.            *)
LEMMA PagesOfBoth ==
    ASSUME NEW S, NEW R, IsFiniteSet(S), IsFiniteSet(R), S \cup R \subseteq Nat, NEW n \in Nat,
           NEW P, NoGap(P, S, n), NEW Q, NoGap(Q, R, n), NEW G, NoGap(G, P \cup Q, n)
    PROVE  NoGap(G, S \cup R, n)
  <1>1. /\ P \subseteq S /\ Q \subseteq R /\ G \subseteq P \cup Q /\ Cardinality(G) <= n
        /\ Cardinality(P) < n => P = S
        /\ Cardinality(Q) < n => Q = R
        /\ Cardinality(G) < n => G = P \cup Q
        /\ \A i \in S \ P, j \in P : i < j
        /\ \A i \in R \ Q, j \in Q : i < j
        /\ \A i \in (P \cup Q) \ G, j \in G : i < j
    BY DEF NoGap
  <1>2. /\ IsFiniteSet(P) /\ IsFiniteSet(Q) /\ IsFiniteSet(G)
        /\ Cardinality(P) \in Nat /\ Cardinality(Q) \in Nat /\ Cardinality(G) \in Nat
    <2>1. IsFiniteSet(P \cup Q)
      BY <1>1, FS_Union, FS_Subset
    <2>2. QED BY <1>1, <2>1, Fewer
  <1>3. ASSUME Cardinality(G) < n PROVE G = S \cup R
    <2>1. P \subseteq G /\ Q \subseteq G
      BY <1>1, <1>3
    <2>2. Cardinality(P) <= Cardinality(G) /\ Cardinality(Q) <= Cardinality(G)
      BY <1>2, <2>1, Fewer
    <2>3. QED BY <1>1, <1>2, <1>3, <2>2
  <1>4. ASSUME NEW i \in (S \cup R) \ G, NEW j \in G PROVE i < j
    <2>1. SUFFICES ASSUME j < i PROVE FALSE
      BY <1>1
    <2>2. i \notin P \cup Q
      BY <1>1, <1>4, <2>1
    <2>3. ASSUME NEW T, T \subseteq P \cup Q, Cardinality(T) \in Nat, Cardinality(T) >= n, \A k \in T : i < k
          PROVE  FALSE
      <3>1. T \subseteq G
        BY <1>1, <2>1, <2>3
      <3>2. T # G
        BY <1>1, <2>1, <2>3
      <3>3. Cardinality(T) < Cardinality(G)
        BY <1>2, <3>1, <3>2, Fewer
      <3>4. QED BY <1>1, <1>2, <2>3, <3>3
    <2>4. CASE i \in S
      BY <1>1, <1>2, <2>2, <2>3, <2>4
    <2>5. CASE i \in R
      BY <1>1, <1>2, <2>2, <2>3, <2>5
    <2>6. QED BY <2>4, <2>5
  <1>5. QED BY <1>1, <1>3, <1>4 DEF NoGap

(* The newest of a longer page are the newest of all.                      *)
LEMMA PageOfAPage ==
    ASSUME NEW S, IsFiniteSet(S), S \subseteq Nat, NEW n \in Nat, NEW m \in Nat, n <= m,
           NEW P, NoGap(P, S, m), NEW G, NoGap(G, P, n)
    PROVE  NoGap(G, S, n)
  <1>1. /\ P \subseteq S /\ G \subseteq P /\ Cardinality(G) <= n
        /\ Cardinality(P) < m => P = S
        /\ Cardinality(G) < n => G = P
        /\ \A i \in S \ P, j \in P : i < j
        /\ \A i \in P \ G, j \in G : i < j
    BY DEF NoGap
  <1>2. Cardinality(G) \in Nat
    BY <1>1, Fewer
  <1>3. Cardinality(G) < n => G = S
    BY <1>1, <1>2
  <1>4. \A i \in S \ G, j \in G : i < j
    BY <1>1
  <1>5. QED BY <1>1, <1>3, <1>4 DEF NoGap

(* The pages of two sides, before a place and of one positor or of all.    *)
LEMMA PagesOfTwoSides ==
    ASSUME NEW A, NEW B, IsFiniteSet(A), IsFiniteSet(B), A \cup B \subseteq Nat,
           NEW before, NEW positor
    PROVE  LET both == PageOfSide(A, before, positor) \cup PageOfSide(B, before, positor)
               all == OfPositor(Before(A \cup B, before), positor)
           IN  /\ both \subseteq all /\ IsFiniteSet(all) /\ all \subseteq Nat
               /\ \A G : NoGap(G, both, PageSize) => NoGap(G, all, PageSize)
  <1> DEFINE S == OfPositor(Before(A, before), positor)
             R == OfPositor(Before(B, before), positor)
             P == PageOfSide(A, before, positor)
             Q == PageOfSide(B, before, positor)
             all == OfPositor(Before(A \cup B, before), positor)
  <1>1. S \subseteq A /\ R \subseteq B /\ all = S \cup R
    BY DEF OfPositor, Before
  <1>2. P = Greatest(S, PageSize) /\ Q = Greatest(R, PageSize)
    BY DEF PageOfSide
  <1> HIDE DEF S, R, P, Q, all
  <1>3. PageSize \in Nat
    BY BookViewsAssumption
  <1>4. IsFiniteSet(S) /\ IsFiniteSet(R) /\ S \subseteq Nat /\ R \subseteq Nat
    BY <1>1, FS_Subset
  <1>5. NoGap(P, S, PageSize) /\ NoGap(Q, R, PageSize)
    BY <1>2, <1>3, <1>4, GreatestFacts
  <1>6. P \subseteq S /\ Q \subseteq R
    BY <1>5 DEF NoGap
  <1>7. IsFiniteSet(all) /\ all \subseteq Nat
    BY <1>1, <1>4, FS_Union
  <1>8. ASSUME NEW G, NoGap(G, P \cup Q, PageSize) PROVE NoGap(G, all, PageSize)
    <2>1. S \cup R \subseteq Nat
      BY <1>4
    <2>2. NoGap(G, S \cup R, PageSize)
      BY ONLY <1>3, <1>4, <1>5, <1>8, <2>1, PagesOfBoth
    <2>3. QED BY <1>1, <2>2
  <1>9. QED BY <1>1, <1>6, <1>7, <1>8 DEF P, Q, all

LEMMA PositionPages == MatchingInv => PositionPagesComplete
  <1> SUFFICES ASSUME MatchingInv PROVE PositionPagesComplete
    OBVIOUS
  <1>1. PageSize \in Nat /\ PageSize + 1 \in Nat /\ PageSize + 2 \in Nat /\ PageSize <= PageSize + 1
    BY BookViewsAssumption
  <1>2. /\ IdsOf("cycles") \cup IdsOf("token") = DOMAIN positions
        /\ VoidIdsOf("cycles") \cup VoidIdsOf("token") = DOMAIN void_positions
    <2>1. /\ \A i \in DOMAIN positions : positions[i].quest.kind \in Kind
          /\ \A i \in DOMAIN void_positions : void_positions[i].quest.kind \in Kind
      BY BookFacts, SoundFacts
    <2>2. QED BY <2>1 DEF IdsOf, VoidIdsOf, Kind
  <1>3. /\ DOMAIN positions \subseteq Nat /\ IsFiniteSet(DOMAIN positions)
        /\ DOMAIN void_positions \subseteq Nat /\ IsFiniteSet(DOMAIN void_positions)
    <2>1. /\ \A i \in DOMAIN positions \cup DOMAIN void_positions : i \in 0 .. positions_id_counter - 1
          /\ positions_id_counter \in Nat
      BY BookFacts
    <2>2. IsFiniteSet(0 .. positions_id_counter - 1)
      BY <2>1, FS_Interval
    <2>3. QED BY <2>1, <2>2, FS_Subset
  <1>4. /\ IsFiniteSet(IdsOf("cycles")) /\ IsFiniteSet(IdsOf("token"))
        /\ IsFiniteSet(VoidIdsOf("cycles")) /\ IsFiniteSet(VoidIdsOf("token"))
    BY <1>2, <1>3, FS_Subset
  <1>5. ASSUME NEW positor, NEW before
        PROVE  NoGap(ViewCurrentPositions(before, positor),
                     OfPositor(Before(DOMAIN positions, before), positor), PageSize)
    <2> DEFINE P == PageOfSide(IdsOf("cycles"), before, positor)
                    \cup PageOfSide(IdsOf("token"), before, positor)
               all == OfPositor(Before(DOMAIN positions, before), positor)
    <2>1. /\ P \subseteq all /\ IsFiniteSet(all) /\ all \subseteq Nat
          /\ \A G : NoGap(G, P, PageSize) => NoGap(G, all, PageSize)
      BY <1>2, <1>3, <1>4, PagesOfTwoSides
    <2>2. ViewCurrentPositions(before, positor) = Greatest(P, PageSize)
      BY DEF ViewCurrentPositions, Kind
    <2> HIDE DEF P, all
    <2>3. IsFiniteSet(P) /\ P \subseteq Nat
      BY <2>1, FS_Subset
    <2>4. NoGap(Greatest(P, PageSize), P, PageSize)
      BY <1>1, <2>3, GreatestFacts
    <2>5. QED BY <2>1, <2>2, <2>4 DEF all
  <1>6. ASSUME NEW positor, NEW before
        PROVE  /\ NoGap(Greatest(ViewVoidPositionsPending(before, positor), PageSize),
                        OfPositor(Before(DOMAIN void_positions, before), positor), PageSize)
               /\ ViewVoidPositionsPending(before, positor)
                    \subseteq OfPositor(Before(DOMAIN void_positions, before), positor)
    <2> DEFINE P == PageOfSide(VoidIdsOf("cycles"), before, positor)
                    \cup PageOfSide(VoidIdsOf("token"), before, positor)
               all == OfPositor(Before(DOMAIN void_positions, before), positor)
               page == ViewVoidPositionsPending(before, positor)
    <2>1. /\ P \subseteq all /\ IsFiniteSet(all) /\ all \subseteq Nat
          /\ \A G : NoGap(G, P, PageSize) => NoGap(G, all, PageSize)
      BY <1>2, <1>3, <1>4, PagesOfTwoSides
    <2>2. page = Greatest(P, PageSize + 1)
      BY DEF ViewVoidPositionsPending, Kind
    <2> HIDE DEF P, all, page
    <2>3. IsFiniteSet(P) /\ P \subseteq Nat
      BY <2>1, FS_Subset
    <2>4. NoGap(page, P, PageSize + 1)
      BY <1>1, <2>2, <2>3, GreatestFacts
    <2>5. page \subseteq P
      BY <2>4 DEF NoGap
    <2>6. IsFiniteSet(page) /\ page \subseteq Nat
      BY <2>3, <2>5, FS_Subset
    <2>7. NoGap(Greatest(page, PageSize), page, PageSize)
      BY <1>1, <2>6, GreatestFacts
    <2>8. NoGap(Greatest(page, PageSize), P, PageSize)
      BY ONLY <1>1, <2>3, <2>4, <2>7, PageOfAPage
    <2>9. QED BY <2>1, <2>5, <2>8 DEF all, page
  <1>7. ASSUME NEW position, NEW before
        PROVE  NoGap(ViewPositionPendingTrades(before, position),
                     TradesOf(Before(InQueue, before), position), PageSize + 2)
    <2> DEFINE S == TradesOf(Before(InQueue, before), position)
    <2>1. S \subseteq 0 .. Len(trade_logs) - 1
      BY DEF TradesOf, Before, InQueue
    <2>2. Len(trade_logs) \in Nat
      BY BookFacts
    <2>3. IsFiniteSet(0 .. Len(trade_logs) - 1)
      BY <2>2, FS_Interval
    <2> HIDE DEF S
    <2>4. IsFiniteSet(S) /\ S \subseteq Nat
      <3>1. \A x \in 0 .. Len(trade_logs) - 1 : x \in Nat
        BY <2>2
      <3>2. QED BY <2>1, <2>3, <3>1, FS_Subset
    <2>5. NoGap(Greatest(S, PageSize + 2), S, PageSize + 2)
      BY <1>1, <2>4, GreatestFacts
    <2>6. QED BY <2>5 DEF ViewPositionPendingTrades, S
  <1>8. QED BY <1>5, <1>6, <1>7 DEF PositionPagesComplete

-----------------------------------------------------------------------------
(* The pages of the book.                                                  *)

LEMMA MaxOf ==
    ASSUME NEW S, IsFiniteSet(S), S \subseteq Nat, S # {}
    PROVE  Max(S) \in S /\ \A y \in S : y <= Max(S)
  <1>1. PICK x \in S : \A y \in S : y <= x
    <2>1. S \in SUBSET Nat
      OBVIOUS
    <2>2. QED BY ONLY <2>1, IsFiniteSet(S), S # {}, GreatestNumber
  <1>2. \A y \in S : x >= y
    BY <1>1
  <1>3. Max(S) \in S /\ \A y \in S : Max(S) >= y
    BY <1>2 DEF Max
  <1>4. QED BY <1>3

LEMMA RatesFacts ==
    ASSUME MatchingInv, NEW kind \in Kind
    PROVE  /\ IsFiniteSet(IdsOf(kind)) /\ IdsOf(kind) \subseteq DOMAIN positions
           /\ IsFiniteSet(RatesOf(kind)) /\ RatesOf(kind) \subseteq Nat
           /\ \A i \in IdsOf(kind) : Lefts[i] \in Nat /\ positions[i].quest.rate \in RatesOf(kind)
  <1>1. IsFiniteSet(IdsOf(kind)) /\ IdsOf(kind) \subseteq DOMAIN positions
    BY BookFacts, FS_Subset DEF IdsOf
  <1>2. \A i \in IdsOf(kind) : /\ Lefts[i] \in Nat
                               /\ positions[i].quest.rate \in Nat
                               /\ positions[i].quest.rate \in RatesOf(kind)
    BY <1>1, BookFacts, SoundFacts DEF Lefts, RatesOf
  <1>3. IsFiniteSet(RatesOf(kind))
    <2> DEFINE f == [i \in IdsOf(kind) |-> positions[i].quest.rate]
    <2>1. f \in Surjection(IdsOf(kind), RatesOf(kind))
      BY DEF RatesOf, Surjection
    <2>2. QED BY <1>1, <2>1, FS_Surjection
  <1>4. QED BY <1>1, <1>2, <1>3 DEF RatesOf

(* The rates that a reader has not had.                                    *)
Unread(kind, start) == {rate \in RatesOf(kind) : After(rate, start)}

LEMMA PageOfBook ==
    ASSUME MatchingInv, NEW kind \in Kind, NEW start
    PROVE  LET page == ViewPositionBook(kind, start)
               rates == DOMAIN page.positions_quantities
               all == Unread(kind, start)
           IN  /\ rates \subseteq all /\ IsFiniteSet(rates) /\ IsFiniteSet(all) /\ all \subseteq RatesOf(kind)
               /\ Cardinality(rates) <= MaxQuantities
               /\ Cardinality(rates) < MaxQuantities => rates = all
               /\ page.is_last_chunk <=> rates = all
               /\ all # {} => rates # {}
               /\ \A rate \in rates, other \in all \ rates : rate < other
               /\ \A rate \in rates : page.positions_quantities[rate] = QuantityAt(kind, rate)
  <1> DEFINE page == ViewPositionBook(kind, start)
             all == Unread(kind, start)
             rates == Least(all, MaxQuantities)
  <1>1. /\ DOMAIN page.positions_quantities = rates
        /\ \A rate \in rates : page.positions_quantities[rate] = QuantityAt(kind, rate)
        /\ page.is_last_chunk <=> (rates = {} \/ Max(rates) = Max(all))
    BY DEF ViewPositionBook, Unread
  <1>2. all \subseteq RatesOf(kind) /\ IsFiniteSet(all) /\ all \subseteq Nat
    BY RatesFacts, FS_Subset DEF Unread
  <1> HIDE DEF page, all
  <1>3. MaxQuantities \in Nat /\ MaxQuantities > 0
    BY BookViewsAssumption
  <1>4. /\ rates \subseteq all
        /\ Cardinality(rates) <= MaxQuantities
        /\ Cardinality(rates) < MaxQuantities => rates = all
        /\ \A i \in all \ rates, j \in rates : j < i
    BY <1>2, <1>3, LeastFacts
  <1> HIDE DEF rates
  <1>5. IsFiniteSet(rates) /\ rates \subseteq Nat
    BY <1>2, <1>4, FS_Subset
  <1>6. rates = {} => all = {}
    <2>1. Cardinality({}) = 0
      BY FS_EmptySet
    <2>2. QED BY <1>3, <1>4, <2>1
  <1>7. ASSUME rates # {}, rates # all PROVE Max(rates) # Max(all)
    <2>1. all # {}
      BY <1>4, <1>7
    <2>2. PICK x \in all : x \notin rates
      BY <1>4, <1>7
    <2>3. Max(rates) \in rates /\ Max(rates) < x
      BY <1>4, <1>5, <1>7, <2>2, MaxOf
    <2>4. x <= Max(all) /\ Max(all) \in Nat
      BY <1>2, <2>1, MaxOf
    <2>5. Max(rates) \in Nat /\ x \in Nat
      BY <1>2, <1>5, <2>3
    <2>6. QED BY <2>3, <2>4, <2>5
  <1>8. (rates = {} \/ Max(rates) = Max(all)) <=> rates = all
    BY <1>6, <1>7
  <1>9. QED BY <1>1, <1>2, <1>4, <1>5, <1>6, <1>8 DEF page, all

LEMMA BookPages == MatchingInv => BookPagesGoOn
  <1> SUFFICES ASSUME MatchingInv, NEW kind \in Kind, NEW start \in RatesOf(kind) \cup {None}
               PROVE  LET page == ViewPositionBook(kind, start)
                          rates == DOMAIN page.positions_quantities
                          unread == {rate \in RatesOf(kind) : start \in Nat => rate > start}
                      IN /\ rates \subseteq unread
                         /\ Cardinality(rates) <= MaxQuantities
                         /\ page.is_last_chunk <=> rates = unread
                         /\ ~page.is_last_chunk => Cardinality(rates) = MaxQuantities
                         /\ \A rate \in rates, other \in unread \ rates : rate < other
    BY DEF BookPagesGoOn
  <1> DEFINE unread == {rate \in RatesOf(kind) : start \in Nat => rate > start}
             rates == DOMAIN ViewPositionBook(kind, start).positions_quantities
             last == ViewPositionBook(kind, start).is_last_chunk
  <1>1. unread = Unread(kind, start)
    <2>1. start \in Nat <=> start # None
      BY RatesFacts, BookViewsAssumption
    <2>2. \A rate : (start \in Nat => rate > start) <=> After(rate, start)
      BY <2>1 DEF After
    <2>3. QED BY <2>2 DEF Unread
  <1>2. /\ rates \subseteq Unread(kind, start) /\ IsFiniteSet(rates)
        /\ Cardinality(rates) <= MaxQuantities
        /\ Cardinality(rates) < MaxQuantities => rates = Unread(kind, start)
        /\ last <=> rates = Unread(kind, start)
        /\ \A rate \in rates, other \in Unread(kind, start) \ rates : rate < other
    BY PageOfBook
  <1>3. Cardinality(rates) \in Nat /\ MaxQuantities \in Nat
    BY <1>2, FS_CardinalityType, BookViewsAssumption
  <1> HIDE DEF unread, rates, last
  <1>4. ~last => Cardinality(rates) = MaxQuantities
    BY <1>2, <1>3
  <1>5. QED BY <1>1, <1>2, <1>4 DEF unread, rates, last

(* Reading the whole book: what has been read is the lowest rates.         *)
ReadOK(kind, read) ==
    /\ read = [quantities |-> read.quantities, ended |-> read.ended]
    /\ read.ended \in BOOLEAN
    /\ DOMAIN read.quantities \subseteq RatesOf(kind)
    /\ \A rate \in DOMAIN read.quantities :
         /\ read.quantities[rate] = QuantityAt(kind, rate)
         /\ \A other \in RatesOf(kind) \ DOMAIN read.quantities : rate < other
    /\ read.ended => DOMAIN read.quantities = RatesOf(kind)

LEMMA ReadingOn ==
    ASSUME MatchingInv, NEW kind \in Kind, NEW read, ReadOK(kind, read)
    PROVE  LET next == ReadOn(kind, read)
           IN  /\ ReadOK(kind, next)
               /\ DOMAIN read.quantities \subseteq DOMAIN next.quantities
               /\ ~next.ended => DOMAIN read.quantities # DOMAIN next.quantities
  <1> DEFINE next == ReadOn(kind, read)
             old == DOMAIN read.quantities
             start == IF old = {} THEN None ELSE Max(old)
             page == ViewPositionBook(kind, start)
             rates == DOMAIN page.positions_quantities
  <1>1. CASE read.ended
    BY <1>1 DEF ReadOn
  <1>2. CASE ~read.ended
    <2>1. next = [quantities |-> Merge(read.quantities, page.positions_quantities),
                  ended |-> page.is_last_chunk]
      BY <1>2 DEF ReadOn
    <2>2. /\ next.quantities = Merge(read.quantities, page.positions_quantities)
          /\ next.ended = page.is_last_chunk
          /\ next = [quantities |-> next.quantities, ended |-> next.ended]
      BY <2>1
    <2>3. page.is_last_chunk \in BOOLEAN
      BY DEF ViewPositionBook
    <2>4. /\ old \subseteq RatesOf(kind)
          /\ \A rate \in old : /\ read.quantities[rate] = QuantityAt(kind, rate)
                               /\ \A other \in RatesOf(kind) \ old : rate < other
      BY DEF ReadOK
    <2>5. Unread(kind, start) = RatesOf(kind) \ old
      <3>1. RatesOf(kind) \subseteq Nat /\ IsFiniteSet(old) /\ old \subseteq Nat
        BY <2>4, RatesFacts, FS_Subset
      <3>2. CASE old = {}
        BY <3>2 DEF Unread, After
      <3>3. CASE old # {}
        <4>1. Max(old) \in old /\ \A y \in old : y <= Max(old)
          BY <3>1, <3>3, MaxOf
        <4>2. start = Max(old) /\ start \in Nat /\ start # None
          BY <3>1, <3>3, <4>1, BookViewsAssumption
        <4>3. \A rate \in RatesOf(kind) : rate > start <=> rate \notin old
          BY <2>4, <3>1, <4>1, <4>2
        <4> HIDE DEF start
        <4>4. QED BY <4>2, <4>3 DEF Unread, After
      <3>4. QED BY <3>2, <3>3
    <2> HIDE DEF page, next, start, old
    <2>6. /\ rates \subseteq RatesOf(kind) \ old
          /\ page.is_last_chunk <=> rates = RatesOf(kind) \ old
          /\ RatesOf(kind) \ old # {} => rates # {}
          /\ \A rate \in rates, other \in (RatesOf(kind) \ old) \ rates : rate < other
          /\ \A rate \in rates : page.positions_quantities[rate] = QuantityAt(kind, rate)
      BY <2>5, PageOfBook DEF page
    <2>7. DOMAIN next.quantities = old \cup rates
      BY <2>2 DEF old, Merge
    <2>8. \A rate \in DOMAIN next.quantities : next.quantities[rate] = QuantityAt(kind, rate)
      <3>1. ASSUME NEW rate \in old \cup rates
            PROVE  next.quantities[rate]
                     = IF rate \in old THEN read.quantities[rate] ELSE page.positions_quantities[rate]
        BY <2>2 DEF old, Merge
      <3>2. QED BY <2>4, <2>6, <2>7, <3>1
    <2> HIDE DEF rates
    <2>9. \A rate \in old \cup rates, other \in RatesOf(kind) \ (old \cup rates) : rate < other
      BY <2>4, <2>6
    <2>10. next.ended => DOMAIN next.quantities = RatesOf(kind)
      BY <2>2, <2>4, <2>6, <2>7
    <2>11. ReadOK(kind, next)
      BY <2>2, <2>3, <2>4, <2>6, <2>7, <2>8, <2>9, <2>10 DEF ReadOK
    <2>12. ~next.ended => rates # {}
      BY <2>2, <2>6
    <2>13. old \subseteq DOMAIN next.quantities /\ (~next.ended => old # DOMAIN next.quantities)
      BY <2>6, <2>7, <2>12
    <2>14. QED BY <2>11, <2>13 DEF next, old
  <1>3. QED BY <1>1, <1>2

(* The recursive function that the loop is defined by.                     *)
NothingRead == [quantities |-> <<>>, ended |-> FALSE]
ReadStep(g, kind, n) == IF n = 0 THEN NothingRead ELSE ReadOn(kind, g[n - 1])
Reads(kind, N) == CHOOSE g : g = [n \in 0 .. N |-> ReadStep(g, kind, n)]

LEMMA WholeBookIsReads ==
    ASSUME NEW kind
    PROVE  WholeBook(kind) = Reads(kind, Pages(kind))[Pages(kind)]
  BY DEF WholeBook, Reads, ReadStep, NothingRead

LEMMA ReadsRecursion ==
    ASSUME NEW kind, NEW N \in Nat
    PROVE  \A n \in 0 .. N : Reads(kind, N)[n] = ReadStep(Reads(kind, N), kind, n)
  <1> DEFINE Step(g, n) == ReadStep(g, kind, n)
             Defined(g, k) == g = [n \in 0 .. k |-> Step(g, n)]
             T == {k \in Nat : \E g : Defined(g, k)}
  <1>1. 0 \in T
    <2> DEFINE g == [n \in 0 .. 0 |-> NothingRead]
    <2>1. \A n \in 0 .. 0 : n = 0
      OBVIOUS
    <2>2. Defined(g, 0)
      BY <2>1 DEF ReadStep
    <2>3. QED BY <2>2
  <1>2. ASSUME NEW k \in Nat, k \in T PROVE k + 1 \in T
    <2>1. PICK g : Defined(g, k)
      BY <1>2
    <2> DEFINE h == [n \in 0 .. k + 1 |-> Step(g, n)]
    <2>2. ASSUME NEW n \in 0 .. k + 1 PROVE Step(h, n) = Step(g, n)
      <3>1. CASE n = 0
        BY <3>1 DEF ReadStep
      <3>2. CASE n # 0
        <4>1. n - 1 \in 0 .. k /\ n - 1 \in 0 .. k + 1
          BY <3>2
        <4>2. h[n - 1] = Step(g, n - 1) /\ g[n - 1] = Step(g, n - 1)
          BY <2>1, <4>1
        <4> HIDE DEF h
        <4>3. QED BY <3>2, <4>2 DEF ReadStep
      <3>3. QED BY <3>1, <3>2
    <2>3. Defined(h, k + 1)
      BY <2>2
    <2>4. \E f : Defined(f, k + 1)
      BY <2>3
    <2>5. QED BY <2>4
  <1> HIDE DEF T
  <1>3. N \in T
    BY <1>1, <1>2, InductiveSet
  <1>4. PICK g : Defined(g, N)
    BY <1>3 DEF T
  <1>5. Reads(kind, N) = [n \in 0 .. N |-> Step(Reads(kind, N), n)]
    BY <1>4 DEF Reads
  <1>6. QED BY ONLY <1>5

LEMMA WholeBookFacts ==
    ASSUME MatchingInv, NEW kind \in Kind
    PROVE  /\ ReadOK(kind, WholeBook(kind))
           /\ WholeBook(kind).ended
           /\ DOMAIN WholeBook(kind).quantities = RatesOf(kind)
  <1> DEFINE rates == RatesOf(kind)
             N == Pages(kind)
             g == Reads(kind, N)
             read(n) == DOMAIN g[n].quantities
             Fact(n) == ReadOK(kind, g[n]) /\ (~g[n].ended => Cardinality(read(n)) >= n)
             T == {n \in Nat : n <= N => Fact(n)}
  <1>1. IsFiniteSet(rates) /\ Cardinality(rates) \in Nat /\ N = Cardinality(rates) + 1 /\ N \in Nat
    BY RatesFacts, FS_CardinalityType DEF Pages
  <1>2. \A n \in 0 .. N : g[n] = ReadStep(g, kind, n)
    BY <1>1, ReadsRecursion
  <1> HIDE DEF g, N
  <1>3. 0 \in T
    <2>1. g[0] = NothingRead
      BY <1>1, <1>2 DEF ReadStep
    <2>2. read(0) = {} /\ Cardinality({}) = 0
      BY <2>1, FS_EmptySet DEF NothingRead
    <2>3. ReadOK(kind, g[0])
      BY <2>1, <2>2 DEF NothingRead, ReadOK
    <2>4. QED BY <2>2, <2>3
  <1>4. ASSUME NEW n \in Nat, n \in T PROVE n + 1 \in T
    <2>1. SUFFICES ASSUME n + 1 <= N PROVE Fact(n + 1)
      OBVIOUS
    <2>2. n + 1 \in 0 .. N /\ n <= N
      BY <1>1, <2>1
    <2>3. Fact(n)
      BY <1>4, <2>2
    <2>4. g[n + 1] = ReadOn(kind, g[n])
      BY <1>2, <2>2 DEF ReadStep
    <2>5. /\ ReadOK(kind, g[n + 1])
          /\ read(n) \subseteq read(n + 1)
          /\ ~g[n + 1].ended => read(n) # read(n + 1)
      BY <2>3, <2>4, ReadingOn
    <2>6. ~g[n + 1].ended => ~g[n].ended
      BY <2>4 DEF ReadOn
    <2>7. read(n + 1) \subseteq rates
      BY <2>5 DEF ReadOK
    <2>8. IsFiniteSet(read(n + 1)) /\ Cardinality(read(n + 1)) \in Nat
      BY <1>1, <2>7, Fewer
    <2>9. Cardinality(read(n)) \in Nat
          /\ (~g[n + 1].ended => Cardinality(read(n)) < Cardinality(read(n + 1)))
      BY <2>5, <2>8, Fewer
    <2> HIDE DEF read
    <2>10. QED BY <2>3, <2>5, <2>6, <2>8, <2>9
  <1> HIDE DEF T
  <1>5. N \in T
    BY <1>1, <1>3, <1>4, InductiveSet
  <1>6. Fact(N)
    BY <1>1, <1>5 DEF T
  <1>7. read(N) \subseteq rates
    BY <1>6 DEF ReadOK
  <1>8. Cardinality(read(N)) \in Nat /\ Cardinality(read(N)) <= Cardinality(rates)
    BY <1>1, <1>7, Fewer
  <1>9. g[N].ended
    BY <1>1, <1>6, <1>8
  <1>10. g[N] = WholeBook(kind)
    BY WholeBookIsReads DEF g, N
  <1>11. QED BY <1>6, <1>9, <1>10 DEF ReadOK

LEMMA WholeBooks == MatchingInv => BookIsWhole
  <1> SUFFICES ASSUME MatchingInv, NEW kind \in Kind
               PROVE  /\ WholeBook(kind).ended
                      /\ DOMAIN WholeBook(kind).quantities = RatesOf(kind)
                      /\ SumFunctionOnSet(WholeBook(kind).quantities, DOMAIN WholeBook(kind).quantities)
                            = SumFunctionOnSet(Lefts, IdsOf(kind))
    BY DEF BookIsWhole
  <1> DEFINE key == [i \in DOMAIN positions |-> positions[i].quest.rate]
             book == WholeBook(kind)
             S == IdsOf(kind)
             R == RatesOf(kind)
  <1>1. /\ ReadOK(kind, book) /\ book.ended /\ DOMAIN book.quantities = R
    BY WholeBookFacts
  <1>2. /\ IsFiniteSet(S) /\ S \subseteq DOMAIN positions /\ IsFiniteSet(R)
        /\ \A i \in S : Lefts[i] \in Nat /\ key[i] \in R /\ key[i] = positions[i].quest.rate
    BY RatesFacts
  <1>3. \A r \in R : book.quantities[r] = QuantityAt(kind, r)
    BY <1>1 DEF ReadOK
  <1>4. \A r \in R : AtRate(kind, r) = KeyIn(S, key, {r})
    BY <1>2 DEF AtRate, KeyIn
  <1>5. KeyIn(S, key, R) = S
    BY <1>2 DEF KeyIn
  <1> HIDE DEF key, book, S, R
  <1>6. \A r \in R : book.quantities[r] = SumFunctionOnSet(Lefts, KeyIn(S, key, {r}))
    BY <1>3, <1>4 DEF QuantityAt
  <1>7. SumFunctionOnSet(book.quantities, R) = SumFunctionOnSet(Lefts, KeyIn(S, key, R))
    <2>1. IsFiniteSet(S) /\ IsFiniteSet(R) /\ \A i \in S : Lefts[i] \in Nat
      BY <1>2
    <2>2. SumsByKey(book.quantities, R, Lefts, S, key)
      BY <1>6 DEF SumsByKey
    <2>3. QED BY ONLY <2>1, <2>2, SumOfParts
  <1>8. QED BY <1>1, <1>5, <1>7 DEF book, S, R

(* The best prices, for the aggregators.                                   *)
LEMMA BestPrices == MatchingInv /\ Uncrossed => DepthIsOfTheBest
  <1> SUFFICES ASSUME MatchingInv, Uncrossed, NEW depth \in Depth
               PROVE  LET bids == DOMAIN Bids(depth)
                          asks == DOMAIN Asks(depth)
                      IN /\ \A rate \in RatesOf("cycles") \ bids :
                              Cardinality(bids) = depth /\ (\A bid \in bids : bid > rate)
                         /\ \A rate \in RatesOf("token") \ asks :
                              /\ Cardinality(asks) \in {depth, MaxQuantities}
                              /\ \A ask \in asks : ask < rate
                         /\ cut_short = {} => \A bid \in bids, ask \in asks : bid < ask
    BY DEF DepthIsOfTheBest
  <1> DEFINE bids == DOMAIN Bids(depth)
             asks == DOMAIN Asks(depth)
             page == DOMAIN ViewPositionBook("token", None).positions_quantities
             B == RatesOf("cycles")
             A == RatesOf("token")
  <1>1. depth \in Nat /\ MaxQuantities \in Nat /\ "cycles" \in Kind /\ "token" \in Kind
    BY BookViewsAssumption DEF Kind
  <1>2. IsFiniteSet(B) /\ B \subseteq Nat /\ IsFiniteSet(A) /\ A \subseteq Nat
    BY <1>1, RatesFacts
  <1>3. bids = Greatest(B, depth)
    BY <1>1, WholeBookFacts DEF Bids, Restrict
  <1>4. asks = Least(page, depth)
    BY DEF Asks, Restrict
  <1>5. Unread("token", None) = A
    BY DEF Unread, After
  <1>6. /\ page \subseteq A /\ IsFiniteSet(page)
        /\ Cardinality(page) <= MaxQuantities
        /\ Cardinality(page) < MaxQuantities => page = A
        /\ \A rate \in page, other \in A \ page : rate < other
    BY <1>1, <1>5, PageOfBook
  <1> HIDE DEF bids, asks, page
  <1>7. NoGap(bids, B, depth)
    BY <1>1, <1>2, <1>3, GreatestFacts
  <1>8. /\ bids \subseteq B /\ IsFiniteSet(bids) /\ Cardinality(bids) \in Nat
        /\ Cardinality(bids) <= depth
        /\ Cardinality(bids) < depth => bids = B
        /\ \A i \in B \ bids, j \in bids : i < j
    BY <1>2, <1>7, Fewer DEF NoGap
  <1>9. page \subseteq Nat /\ Cardinality(page) \in Nat
    BY <1>2, <1>6, FS_CardinalityType
  <1>10. /\ asks \subseteq page
         /\ Cardinality(asks) <= depth
         /\ Cardinality(asks) < depth => asks = page
         /\ \A i \in page \ asks, j \in asks : j < i
    BY <1>1, <1>4, <1>6, <1>9, LeastFacts
  <1>11. Cardinality(asks) \in Nat
    BY <1>6, <1>10, Fewer
  <1>12. ASSUME NEW rate \in B \ bids
         PROVE  Cardinality(bids) = depth /\ (\A bid \in bids : bid > rate)
    <2>1. Cardinality(bids) = depth
      BY <1>1, <1>8, <1>12
    <2>2. \A bid \in bids : bid > rate
      BY <1>8, <1>12
    <2>3. QED BY <2>1, <2>2
  <1>13. ASSUME NEW rate \in A \ asks
         PROVE  Cardinality(asks) \in {depth, MaxQuantities} /\ (\A ask \in asks : ask < rate)
    <2>1. \A ask \in asks : ask < rate
      BY <1>6, <1>10, <1>13
    <2>2. CASE Cardinality(asks) < depth
      <3>1. asks = page
        BY <1>10, <2>2
      <3>2. page # A
        BY <3>1, <1>13
      <3>3. QED BY <1>1, <1>6, <1>9, <2>1, <3>1, <3>2
    <2>3. CASE ~(Cardinality(asks) < depth)
      BY <1>1, <1>10, <1>11, <2>1, <2>3
    <2>4. QED BY <2>2, <2>3
  <1>14. ASSUME cut_short = {}, NEW bid \in bids, NEW ask \in asks PROVE bid < ask
    <2>1. bid \in B /\ ask \in A /\ bid \in Nat /\ ask \in Nat
      BY <1>2, <1>6, <1>8, <1>10
    <2>2. PICK a \in IdsOf("cycles") : positions[a].quest.rate = bid
      BY <2>1 DEF RatesOf
    <2>3. PICK b \in IdsOf("token") : positions[b].quest.rate = ask
      BY <2>1 DEF RatesOf
    <2>4. ~(bid >= ask)
      BY <1>14, <2>2, <2>3 DEF Uncrossed
    <2>5. QED BY <2>1, <2>4
  <1>15. QED BY <1>12, <1>13, <1>14 DEF bids, asks

(* The books that are shown are the books, on every page.                  *)
THEOREM BooksShown == Spec => []BooksAreShown
  <1>1. MatchingInv /\ Uncrossed => BooksAreShown
    BY BookPages, WholeBooks, BestPrices, PositionPages DEF BooksAreShown
  <1>2. QED BY <1>1, MatchingInvariant, BooksAreUncrossed, PTL
=============================================================================
