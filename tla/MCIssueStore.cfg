CONSTANTS
    e1 = e1
    e2 = e2
    e3 = e3
    a1 = a1
    crash = crash
    ann = ann
    bob = bob
    eve = eve
    home = home
    subnet = subnet
    blob = blob
    props = props
    Errors <- MCErrors
    Analytics <- MCAnalytics
    Fps <- MCFps
    FpOf <- MCFpOf
    UserOf <- MCUserOf
    IpOf <- MCIpOf
    MaskIp <- MCMaskIp
    PayloadOf <- MCPayloadOf
    NoUser = NoUser
    Redacted = Redacted
    NoFp = NoFp
    BreakerLimit = 2
    MaxBatch = 2
    MaxRestarts = 1
    StatementMayFail = TRUE
SPECIFICATION Spec
INVARIANTS
    StoreInv
PROPERTIES
    SuppressedGainsNoRow
    OneRowPerUser
    SurplusNeverShrinks
