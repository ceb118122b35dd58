SPECIFICATION Spec
CONSTANTS
    TradeCycles = {2, 7, 11}
    Rates = {1, 2, 3}
    Steps = {1, 4}
    MaxTrades = 4
    SegmentLength = 3
    MaxCandles = 1
    MaxAmount = 30
    Window = 4
INVARIANTS
    CandlesTellTheTrades
    VolumeOfWindow
CHECK_DEADLOCK FALSE
