SPECIFICATION FairSpec
CONSTANTS
    NTicks = 5
    NMinutes = 3
    MinuteOf <- TwoTwoOne
    Span = 2
    MaxLost = 1
    MaxDelayed = 0
    MaxRestarts = 1
    MaxGiveUps = 0
    MaxBoots = 0
CHECK_DEADLOCK FALSE
INVARIANTS
    OwnTicksOnly
    HealedStaysOfficial
PROPERTIES
    AnnouncedIsHealed
