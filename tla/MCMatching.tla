----------------------------- MODULE MCMatching -----------------------------
EXTENDS BookViews, TLC

MCTierVolume == <<12, 24, 36, 48, 100000>>
MCTierFee == <<3, 2, 2, 1, 1>>
MCQuantity == [kind \in Kind |-> IF kind = "cycles" THEN {15, 40} ELSE {5, 11}]
MCPositor == [i \in 0 .. MaxPositions - 1 |-> i % 2]

(* What the tiers ask of the n-th cycle of a position, and of the first n  *)
(* together: Asked is the sum of it.                                       *)
TierOf(n) == CHOOSE k \in Tier :
    n <= TierVolume[k] /\ \A j \in Tier : j < k => n > TierVolume[j]
AskedOfEach(n) ==
    LET sum[i \in 0 .. n] == IF i = 0 THEN 0 ELSE sum[i - 1] + TierFee[TierOf(i)]
    IN  sum[n]
ASSUME AskedIsOfEach == \A n \in 0 .. 100 : Asked(n) = AskedOfEach(n)
=============================================================================
