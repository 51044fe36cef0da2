CONSTANTS
    s1 = s1
    s2 = s2
    s3 = s3
    s4 = s4
    projA = projA
    projB = projB
    Sessions <- MCSessions
    Projects <- MCProjects
    NoProject = NoProject
    ProjectOf <- MCProjectOf
    ChannelCapacity = 2
    BatchSize = 2
    MaxCrashes = 1
SPECIFICATION FairSpec
INVARIANTS
    SessionInv
PROPERTIES
    SendReturns
    SessionsDrain
