SPECIFICATION Spec
CONSTANTS
    nifty = nifty
    sensex = sensex
    Underlying = {nifty, sensex}
    LastDay = 3
    Expiries <- MCExpiries
    Trading <- MCTrading
    MaxTroubles = 2
    Service = {tester}
CHECK_DEADLOCK FALSE
INVARIANTS
    OneCollector
    ReadyAtOpen
    SubscribesCurrent
PROPERTIES
    ServiceBack
