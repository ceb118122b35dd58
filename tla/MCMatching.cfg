SPECIFICATION Spec
CONSTANTS
    FeeUnit = 3
    FeeTimes = 1
    TierVolume <- MCTierVolume
    TierFee <- MCTierFee
    LedgerFee = {0, 2}
    Quantity <- MCQuantity
    Rate = {2, 3, 5}
    MaxPositions = 3
    MaxTradeLogs = 2
    MaxMatches = {1, 9}
    Positor <- MCPositor
    MaxQuantities = 1
    PageSize = 1
    Depth = {1, 2}
    None = None
INVARIANTS
    PositionsAgreeWithTrades
    FeesOfTiers
    LimitsRespected
    Uncrossed
    BooksAreShown
PROPERTIES
    DustLeavesTheBook
CHECK_DEADLOCK FALSE
