SPECIFICATION FairSpec
CONSTANTS
    Contents <- MCContents
    ProtSize = 2
    U32 = 5
    MaxSession = 3
    MayLose = TRUE
    RecvTimeout = TRUE
    NoFile = NoFile
    NullPtr = NullPtr
    Unfixed = Unfixed
INVARIANTS
    TypeOK
    LateInOrder
    CopiesInBounds
PROPERTIES
    CopiesFile
    PullEnds
CHECK_DEADLOCK FALSE
