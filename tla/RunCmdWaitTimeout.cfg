SPECIFICATION FairSpec
CONSTANTS
    c1 = c1
    c2 = c2
    Client = {c1, c2}
    Output <- MCOutput
    ProtSize = 6
    BufSize = 8
    U32 = 16
    Limit = 1
    ClockMod = 4
    MayWrap = TRUE
    Concurrent = FALSE
    MayKill = FALSE
    MayStall = TRUE
    CreateMayFail = TRUE
    PopenMayFail = TRUE
PROPERTIES
    AbortJustified
    InstanceReleased
    ClientReturns
CHECK_DEADLOCK FALSE
