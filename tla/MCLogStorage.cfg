SPECIFICATION Spec
CONSTANTS
    c1 = c1
    c2 = c2
    c3 = c3
    f1 = f1
    f2 = f2
    u1 = u1
    u2 = u2
    None = None
    k1 = k1
    k2 = k2
    Key = {k1, k2}
    IndexKeys <- Keys
    PageSize = 2
    MaxPending = 2
    MaxLogs = 4
    FlushAt = 2
    ChunkSize = 2
    Capacity = 3
    Canister <- Canisters
    Flusher = {f1, f2}
    Updater = {u1}
SYMMETRY Symmetry
INVARIANTS
    StoredWhereListed
    UpdateFindsLog
    NoCanisterLost
    LogPagesComplete
PROPERTY
    ImplementsRecordLog
