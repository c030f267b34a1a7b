SPECIFICATION Spec
CONSTANTS
    NTicks = 3
    MaxSegments = 3
    SegmentLines = 2
    FlushEvery = 2
    CheckEvery = 2
    CutAnywhere = TRUE
    BatchSize = 2
    QuotaMax = 8
    QuotaLow = 8
    MaxFaults <- KillsAndWipe
    MaxTogether = 2
CHECK_DEADLOCK FALSE
INVARIANTS
    CrashSafe
    NothingSkipped
    BoundedDuplication
PROPERTIES
    SealedSegments
