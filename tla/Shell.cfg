SPECIFICATION FairSpec
CONSTANTS
    Dirs = {"d1", "d2"}
    Home = "d1"
    Lines <- MCLines
    Output <- MCOutput
    Help <- MCHelp
    Logs <- MCLogs
    ProtSize = 2
    BufSize = 5
    MaxSession = 2
    MaxCmd = 1
    PopenMayFail = TRUE
    Endless <- MCEndless
    RecvTimeout = TRUE
    Unfixed = Unfixed
INVARIANTS
    TypeOK
    PromptTellsDirectory
PROPERTIES
    ShowsOutput
    ShellReturns
CHECK_DEADLOCK FALSE
