CONSTANTS
    h1 = h1
    h2 = h2
    h3 = h3
    h4 = h4
    Handlers <- MCHandlers
    Threads = 2
    PoolSize = 1
    SessionCapacity = 1
    EventCapacity = 1
SPECIFICATION PoolFairSpec
INVARIANTS
    PoolInv
    OnlyConnectionsStall
PROPERTIES
    EveryCallReturns
    FlusherRecovers
CHECK_DEADLOCK FALSE
