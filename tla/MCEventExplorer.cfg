CONSTANTS
    shop = shop
    blog = blog
    error = error
    custom = custom
    Any = Any
    Projects <- MCProjects
    ProjectOf <- MCProjectOf
    Types <- MCTypes
    TypeOf <- MCTypeOf
    Limits <- MCLimits
    Start = 3
    MaxEvents = 4
    MaxTasks = 2
    MaxClicks = 4
    MaxFaults = 1
SPECIFICATION Spec
INVARIANTS
    NextPageOffered
CHECK_DEADLOCK FALSE
