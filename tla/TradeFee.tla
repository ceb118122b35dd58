------------------------------ MODULE TradeFee ------------------------------
(***************************************************************************)
(* The fee of a trade in cycles.  Each position pays by tiers: the more    *)
(* cycles it has traded, the lower the fee of what it trades next.  A      *)
(* trade that crosses from one tier into another pays each part by its own *)
(* tier.                                                                   *)
(***************************************************************************)
EXTENDS Naturals

CONSTANTS
    FeeUnit,      \* the ten thousandths
    TierVolume,   \* volume_cycles of each of the five tiers; the last has no end
    TierFee       \* trade_fee_ten_thousandths

Tier == 1 .. 5

ASSUME TradeFeeAssumption ==
    /\ FeeUnit \in Nat \ {0}
    /\ TierVolume \in [Tier -> Nat] /\ TierFee \in [Tier -> 0 .. FeeUnit]
    /\ \A k \in 1 .. 4 : TierVolume[k] <= TierVolume[k + 1] /\ TierFee[k + 1] <= TierFee[1]

Lesser(a, b) == IF a < b THEN a ELSE b

(* The loop's body: of the rest of the trade, the part that lies in tier k *)
(* pays that tier's fee.                                                   *)
PartWhole(rest, at, k) == rest \* mutant: the whole trade pays the tier it starts in
PartOfTier(rest, at, k) == Lesser(rest, TierVolume[k] - at)

Charge(part, k) == (part \div FeeUnit) * TierFee[k]

PayTier(traded, trade, acc, k) ==
    LET at == traded + (trade - acc.rest)
        part == PartOfTier(acc.rest, at, k)
    IN  IF at + 1 <= TierVolume[k]
        THEN [rest |-> acc.rest - part, fee |-> acc.fee + Charge(part, k)]
        ELSE acc

(* calculate_trade_fee, for a position that has traded so many cycles.     *)
Fee(traded, trade) ==
    LET Pay(acc, k) == PayTier(traded, trade, acc, k)
    IN  Pay(Pay(Pay(Pay(Pay([rest |-> trade, fee |-> 0], 1), 2), 3), 4), 5).fee

-----------------------------------------------------------------------------
(* What the tiers ask of the first so many cycles of a position, in parts  *)
(* of a cycle, if nothing is rounded.                                      *)
TierStart(k) == IF k = 1 THEN 0 ELSE TierVolume[k - 1]
InTier(volume, k) == Lesser(volume, TierVolume[k]) - Lesser(volume, TierStart(k))
AskedOf(volume, k) == InTier(volume, k) * TierFee[k]
Asked(volume) ==
    AskedOf(volume, 1) + AskedOf(volume, 2) + AskedOf(volume, 3) + AskedOf(volume, 4) + AskedOf(volume, 5)

=============================================================================
