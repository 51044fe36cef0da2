CONSTANTS
    shop = shop
    api = api
    crash = crash
    slow = slow
    NoIssue = NoIssue
    NoProject = NoProject
    All = All
    Issues <- MCIssues
    Projects <- MCProjects
    Home <- MCHome
    Framed <- MCFramed
    Orders <- MCOrders
    Searches <- MCSearches
    Limits <- MCLimits
    Order0 <- MCOrder0
    Limit0 = 1
    MaxTasks = 2
    MaxClicks = 3
    MaxFaults = 1
SPECIFICATION FairSpec
INVARIANTS
    TraceIsBody
    ViewsHold
PROPERTIES
    PageComes
CHECK_DEADLOCK FALSE
