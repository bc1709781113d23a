SPECIFICATION StartSpec
CONSTANTS
    ENV_ENTRIES = 5
    ENVS_SIZE = 8
    Chars <- Letters
    NUL = "NUL"
    Texts <- Words
    NullText <- Missing
    Argvs <- MCArgvs
    Scripts <- MCScripts
    Meant <- MCMeant
    Outputs <- MCOutputs
    Environs <- MCEnvirons
    Directories <- MCDirectories
    WITH_LO_TESTS = TRUE
INVARIANTS
    ArgsLogged
    ScriptExecuted
    StreamsReadBack
PROPERTIES
    ImplementsList
    CommandsPause
CHECK_DEADLOCK FALSE
