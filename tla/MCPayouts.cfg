SPECIFICATION Spec
CONSTANTS
    CyclesPositions = {0}
    TokenPositions = {1}
    MaxTrades = 1
    r1 = r1
    r2 = r2
    p1 = p1
    p2 = p2
    Run <- Runs
    Proc <- Procs
    Anyone = Anyone
    Nobody = Nobody
    None = None
    VoidPayoutsChunk = 1
    VoidUpdatesChunk = 1
    CyclesLegsChunk = 1
    TokenLegsChunk = 1
    Fees = {1}
    Mount <- MountOf
    CtsFee <- CtsFeeOf
SYMMETRY Symmetry
INVARIANTS
    DebitedOnce
    LocksExact
    RemovedWhenSettled
    NoLostWakeup
