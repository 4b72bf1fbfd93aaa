SPECIFICATION FairSpec
CONSTANTS
    Contents <- MCContents
    MaxPkg = 2
    U32 = 5
    MaxSession = 2
    MayLose = TRUE
    OpenMayFail = TRUE
    RecvTimeout = TRUE
    Unfixed = Unfixed
INVARIANTS
    TypeOK
    NullFpOnlyAfterFailedInit
    PushArrives
PROPERTIES
    PushesFile
    PushEnds
CHECK_DEADLOCK FALSE
