\* One run at a time, three canisters, two rates.
SPECIFICATION FairSpec
CONSTANTS
    Bank = Bank
    ledger = ledger
    tc = tc
    Sns <- MCSns
    TopLevel <- MCTopLevel
    Tcs <- MCTcs
    FUEL_TOPUP_TRIGGER_THRESHOLD = 2
    FUEL_TOPUP_TO_MINIMUM_BALANCE = 4
    BANK_TRANSFER_FEE = 1
    ICP_TRANSFER_FEE = 1
    MINIMUM_BURN_ICP = 2
    COMPLETE_MINT_CYCLES_MAX_TRIES = 2
    U128 = 64
    None = None
    Run = {1}
    Rate = {2, 3}
    Level = {1, 3}
    MaxDrains = 1
    MaxFailures = 2
    MaxIcp = 9
PROPERTIES
    EnoughIsMinted
    LowIsFuelled
