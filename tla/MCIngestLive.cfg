CONSTANTS
    env1 = env1
    env2 = env2
    cap1 = cap1
    projA = projA
    projB = projB
    user = user
    Envelopes <- MCLiveEnvelopes
    Captures <- MCCaptures
    Projects <- MCProjects
    UserFps <- MCUserFps
    ProjectOf <- MCProjectOf
    UserFpOf <- MCUserFpOf
    ItemCount <- MCItemCount
    ChannelCapacity = 1
    BatchSize = 2
    ThrottleLimit = 0
    MaxCrashes = 1
SPECIFICATION FairSpec
PROPERTIES
    TakenIsSettled
    RequestIsAnswered
