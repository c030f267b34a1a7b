SPECIFICATION Spec
CONSTANTS
    Windows = 3
    Hour = 2
    Otm = 2
    Bars <- FewBars
    Centre <- TwoCentres
    Date = {d1, d2, d3}
    Excluded = {d3}
    MaxRows = 3
    LastMinute = 9
    MaxSessions = 2
CHECK_DEADLOCK FALSE
INVARIANTS
    WindowsOnce
    HeldWithinWindow
    ReportIsFinal
    LedgersAgree
