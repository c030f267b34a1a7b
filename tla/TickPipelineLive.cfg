SPECIFICATION FairSpec
CONSTANTS
    NTicks = 3
    MaxSegments = 3
    SegmentLines = 1
    FlushEvery = 2
    CheckEvery = 2
    CutAnywhere = FALSE
    BatchSize = 2
    QuotaMax = 4
    QuotaLow = 4
    MaxFaults <- StreamerFaults
    MaxTogether = 2
CHECK_DEADLOCK FALSE
INVARIANTS
    OpenSegmentsKept
PROPERTIES
    Delivery
