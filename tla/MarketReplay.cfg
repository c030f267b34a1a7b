SPECIFICATION ReplaySpec
CONSTANTS
    Spot = spot
    Symbols = {spot, option}
    TimeframeList <- Frames
    Rows = 3
    Tapes <- Recordings
    Cleared = {spot}
    Opening = 0
    End = 3
    SliceLength = 1
    BatchSize = 2
    EntryTime = 1
    SquareTime = 2
    StopMultiple = 2
    OldPrice = 3
CHECK_DEADLOCK FALSE
INVARIANTS
    EveryRowOnce
    BarsAreTape
    EntryOnTape
    LegsFollowTape
