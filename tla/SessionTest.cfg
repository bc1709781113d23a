SPECIFICATION TestSpec
CONSTANTS
    MaxRuns = 1
    MaxCommands = 3
    CreateMayFail = FALSE
    Istest = TRUE
    Script <- ScriptNone
PROPERTIES
    TestScriptEnds
CHECK_DEADLOCK FALSE
