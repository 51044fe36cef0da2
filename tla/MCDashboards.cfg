CONSTANTS
    pA = pA
    v1 = v1
    w1 = w1
    a1 = a1
    All = All
    None = None
    Projects <- MCProjects
    Viewers <- MCViewers
    Workers <- MCWorkers
    Admins <- MCAdmins
    Ttl = 2
    MaxCommits = 2
SPECIFICATION FairSpec
INVARIANTS
    TypeOK
PROPERTIES
    OnlyInsertsAreLate
    StaleEnds
