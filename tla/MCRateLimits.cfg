CONSTANTS
    c1 = c1
    Calls <- MCCalls
    Sizes <- MCSizes
    IpLimit = 3
    IpWindow = 2
    TenLimit = 2
    TenBytes = 4
    TenWindow = 2
    DayLimit = 3
    DayWindow = 4
SPECIFICATION LimitFairSpec
INVARIANTS
    RateInv
PROPERTIES
    RetrierPasses
