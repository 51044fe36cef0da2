CONSTANTS
    ann = ann
    bob = bob
    shop = shop
    api = api
    NoUser = NoUser
    All = All
    NoProject = NoProject
    NoView = NoView
    Users <- MCUsers
    Admins <- MCAdmins
    MustChange0 <- MCMustChange
    Projects <- MCProjects
    Allowed <- MCAllowed
    Paths <- MCPaths
    MaxTasks = 2
    MaxLate = 2
    MaxSaved = 1
    MaxClicks = 3
    MaxFaults = 1
SPECIFICATION FairSpec
INVARIANTS
    IInv
    ShieldHolds
    IdentityMatches
PROPERTIES
    Settles
CHECK_DEADLOCK FALSE
