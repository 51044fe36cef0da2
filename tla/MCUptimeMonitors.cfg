CONSTANTS
    web = web
    api = api
    Ids <- MCIds
    Starts <- MCStarts
    Checks <- MCChecks
    Histories <- MCHistories
    MaxTasks = 2
    MaxPings = 1
    MaxClicks = 3
    MaxFaults = 1
SPECIFICATION FairSpec
INVARIANTS
    PageFollowsUser
    OutagesAreRuns
PROPERTIES
    FetchingEnds
CHECK_DEADLOCK FALSE
