SPECIFICATION Spec
CONSTANTS
    Models = {"Model POC V2", "Model Spatial Box", "Causal Dalton VA"}
    Strikes = {1}
    StartingCapital = 25
    LotCostDivisor = 10
    MaxStrikeLots = 3
    MinCash = 1
    Friction = 1
    Asks = {4, 17}
    Bids = {1, 9}
    EntryOpen = 1
    PocClose = 2
    DaltonOpen = 2
    DaltonClose = 3
    Cutoff = 4
    SquareOff = 7
    LastMinute = 8
    BoxHold = 2
    BoxCooldown = 1
    MaxTrades = 3
CHECK_DEADLOCK FALSE
INVARIANTS
    OneDirection
    WithinLimits
    BooksBalance
    SquaredOff
PROPERTIES
    KeepsAccount
