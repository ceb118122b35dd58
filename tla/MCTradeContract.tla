-------------------------- MODULE MCTradeContract --------------------------
EXTENDS TradeContract, TLC

CONSTANTS c1, u1, u2, p1, p2

Symmetry == Permutations({u1, u2}) \cup Permutations({p1, p2})
=============================================================================
