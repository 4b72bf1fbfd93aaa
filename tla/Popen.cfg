SPECIFICATION FairSpec
CONSTANTS
    Net = "net"
    Worker = "worker"
    Fd <- MCFd
    MaxRound <- MCMaxRound
    MayFail = TRUE
    Null = Null
    Free = Free
    NoPid = NoPid
INVARIANTS
    TableMatches
    PcloseFindsChild
    NothingLeft

    
CHECK_DEADLOCK FALSE
