SPECIFICATION Spec
CONSTANTS
    Chars <- Typed
    SPACE = " "
    TAB = "TAB"
    NUL = "NUL"
    BufSize = 3
    Terminals <- MCTerminals
    Hint <- HintFor
    plen = 1
    Completions <- Offered
    HistoryMaxLens = {1, 2}
    HistoryFile <- Saved
INVARIANTS
    SpaceForNulterm
CHECK_DEADLOCK FALSE
