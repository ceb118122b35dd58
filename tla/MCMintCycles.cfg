\* Two users, two ICP transfers.
SPECIFICATION MintFairSpec
CONSTANTS
    None = None
    Account = {a1}
    User = {u1, u2}
    Copy = {1, 2}
    BANK_TRANSFER_FEE = 1
    TX_WINDOW = 0
    PERMITTED_DRIFT = 0
    MAX_LEN_OF_THE_DEDUP_MAP = 1
    MAX_USERS_MINT_CYCLES = 2
    Cycles = {}
    OutCall = {}
    MintAmount = {0, 4}
    MaxIcpBlocks = 2
    MaxBlocks = 2
    MaxTime = 1
INVARIANTS
    MintedOnce
    IcpAccounted
    RetryArmed
PROPERTIES
    MintEnds
CHECK_DEADLOCK FALSE
