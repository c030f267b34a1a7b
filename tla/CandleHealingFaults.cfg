SPECIFICATION Spec
CONSTANTS
    NTicks = 4
    NMinutes = 3
    MinuteOf <- TwoOneOne
    Span = 2
    MaxLost = 1
    MaxDelayed = 1
    MaxRestarts = 1
    MaxGiveUps = 1
    MaxBoots = 1
CHECK_DEADLOCK FALSE
INVARIANTS
    WorksOnIndexed
