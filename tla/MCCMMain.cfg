SPECIFICATION Spec
CONSTANTS
    t1 = t1
    t2 = t2
    s1 = s1
    Canister = {t1, t2, s1}
    StorageCanister = {s1}
    Code = {m1, m2}
    NoCode = NoCode
    Absent = Absent
    NoCanister = NoCanister
    Upgrade = {u1, u2}
    Ledger = {l1, l2}
    Call = {p1, p2}
    TakeLimit = 1
CONSTRAINT Bound
SYMMETRY Symmetry
INVARIANTS
    CanisterNotLost
    RecordedIsInstalled
    StoppedIsReported
PROPERTIES
    ReplacedWhileStopped
