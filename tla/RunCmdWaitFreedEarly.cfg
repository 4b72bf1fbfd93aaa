SPECIFICATION Spec
CONSTANTS
    c1 = c1
    c2 = c2
    Client = {c1, c2}
    Output <- MCOutput
    ProtSize = 6
    BufSize = 8
    U32 = 16
    Limit = 0
    ClockMod = 1
    MayWrap = TRUE
    Concurrent = FALSE
    MayKill = FALSE
    MayStall = TRUE
    CreateMayFail = FALSE
    PopenMayFail = FALSE
INVARIANTS
    AllOutputSent
CHECK_DEADLOCK FALSE
