SPECIFICATION Spec
CONSTANTS
    CyclesPositions = {0}
    TokenPositions = {}
    MaxTrades = 2
    r1 = r1
    r2 = r2
    p1 = p1
    p2 = p2
    Run = {r1}
    Proc = {p1}
    Anyone = Anyone
    Nobody = Nobody
    None = None
    VoidPayoutsChunk = 1
    VoidUpdatesChunk = 1
    CyclesLegsChunk = 2
    TokenLegsChunk = 1
    Fees = {1, 9}
    Mount <- MountOf
    CtsFee <- CtsFeeOf
INVARIANTS
    RecordAgreesWithLedger
    TradesStoredInOrder
PROPERTY
    ImplementsPromise
