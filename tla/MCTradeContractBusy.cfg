SPECIFICATION FairSpec
CONSTANTS
    c1 = c1
    u1 = u1
    u2 = u2
    p1 = p1
    p2 = p2
    None = None
    User = {u1}
    MaxPositions = 9
    MaxVoidPositions = 9
    Margin = 1
    MaxTradeLogs = 1
    MaxLocks = 1
    MaxBuffer = 1
    Proc = {p1}
    MaxLogs = 1
    FlushAt = 1
    ChunkSize = 2
    Capacity = 3
    Canister = {c1}
PROPERTIES
    FullBufferIsFlushed
