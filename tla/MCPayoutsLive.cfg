SPECIFICATION FairSpec
CONSTANTS
    CyclesPositions = {0}
    TokenPositions = {}
    MaxTrades = 1
    r1 = r1
    r2 = r2
    p1 = p1
    p2 = p2
    Run <- Runs
    Proc = {p1}
    Anyone = Anyone
    Nobody = Nobody
    None = None
    VoidPayoutsChunk = 1
    VoidUpdatesChunk = 1
    CyclesLegsChunk = 1
    TokenLegsChunk = 1
    Fees = {1}
    Mount <- MountOf
    CtsFee <- CtsFeeOf
PROPERTY
    EveryDebtCloses
