SPECIFICATION FairFeedSpec
CONSTANTS
    Limit = 3
    MaxAttempts = 3
INVARIANTS
    NeverUnwatched
    ToldReconnects
PROPERTIES
    GapIsBroken
