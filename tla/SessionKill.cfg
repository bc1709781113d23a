SPECIFICATION FairSpec
CONSTANTS
    MaxRuns = 1
    MaxCommands = 2
    CreateMayFail = FALSE
    Istest = FALSE
    Script <- NoScript
PROPERTIES
    WantedKillHappens
CHECK_DEADLOCK FALSE
