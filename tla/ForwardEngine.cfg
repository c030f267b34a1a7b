SPECIFICATION EngineSpec
CONSTANTS
    Primary = {p1}
    Secondary = {s1}
    MaxStarts = 2
    MaxEntries = 2
    MaxErrors = 2
    BatchSize = 1
    MaxMessages = 1
CHECK_DEADLOCK FALSE
INVARIANTS
    RecordKept
    OneEntryOpen
    RawAccounted
PROPERTIES
    LegsSettle
