SPECIFICATION Spec
CONSTANTS
    Models = {"Model POC V2", "Model Spatial Box", "Causal Dalton VA"}
    Strikes = {1}
    StartingCapital = 21
    LotCostDivisor = 10
    MaxStrikeLots = 3
    MinCash = 1
    Friction = 1
    Asks = {4}
    Bids = {1, 9}
    EntryOpen = 1
    PocClose = 2
    DaltonOpen = 2
    DaltonClose = 3
    Cutoff = 4
    SquareOff = 5
    LastMinute = 6
    BoxHold = 2
    BoxCooldown = 1
    MaxTrades = 3
    MaxTroubles = 1
CHECK_DEADLOCK FALSE
INVARIANTS
    SquaredOff
PROPERTIES
    ReversalCompletes
    ReplicaOfCpp
