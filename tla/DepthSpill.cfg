SPECIFICATION FairSpec
CONSTANTS
    Rows = {r1, r2, r3}
    Filler = filler
    BatchSize = 2
    DrainLimit = 2
    Allowed <- AllFaults
INVARIANTS
    RowsAccounted
    DuplicatesHaveCause
PROPERTIES
    RowsArrive
