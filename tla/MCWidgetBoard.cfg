CONSTANTS
    sales = sales
    NoId = NoId
    Hole = Hole
    Ids <- MCIds
    MaxTasks = 2
    MaxEntries = 2
    MaxMade = 4
    MaxClicks = 3
    MaxFaults = 1
SPECIFICATION FairSpec
INVARIANTS
    BoardMatches
    SavedIsBoard
    ChartsHaveCards
PROPERTIES
    BoardFills
CHECK_DEADLOCK FALSE
