SPECIFICATION FairSpec
CONSTANTS
    MaxRuns = 2
    MaxCommands = 3
    CreateMayFail = TRUE
    Istest = FALSE
    Script <- NoScript
INVARIANTS
    SafeTeardown
    MainExitDestroys
    ViewSettles
PROPERTIES
    ExitDestroys
    EofEnds
    StopReported
CHECK_DEADLOCK FALSE
