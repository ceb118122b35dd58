\* Four blocks of two accounts: the dedup window is three ticks wide.
SPECIFICATION BankSpec
CONSTANTS
    None = None
    Account = {a1, a2}
    BANK_TRANSFER_FEE = 1
    TX_WINDOW = 1
    PERMITTED_DRIFT = 1
    MAX_LEN_OF_THE_DEDUP_MAP = 2
    Cycles = {1, 4}
    OutCall = {o1, o2}
    MaxBlocks = 4
    MaxTime = 4
    ICRC3_GET_BLOCKS_CHUNK_SIZE = 2
    LOGS_CHUNK_SIZE = 1
    U64 = 8
    BlocksQuest <- MCBlocksQuest
INVARIANTS
    Backed
    BlocksReplayToBalances
    NoDuplicateTransfer
    PagesComplete
    TipIsCertified
    DuplicateIsTheQuest
SYMMETRY Symmetry
CHECK_DEADLOCK FALSE
