SPECIFICATION Spec
CONSTANTS
    c1 = c1
    u1 = u1
    u2 = u2
    p1 = p1
    p2 = p2
    None = None
    User = {u1, u2}
    MaxPositions = 3
    MaxVoidPositions = 3
    Margin = 1
    MaxTradeLogs = 1
    MaxLocks = 2
    MaxBuffer = 2
    Proc = {p1}
    MaxLogs = 3
    FlushAt = 1
    ChunkSize = 2
    Capacity = 3
    Canister = {c1}
SYMMETRY Symmetry
INVARIANTS
    EveryPositIsAPosition
    LocksAreCalls
    CapacityRespected
