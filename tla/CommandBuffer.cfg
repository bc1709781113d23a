SPECIFICATION Spec
CONSTANTS
    Chars <- MCChars
    CR = "CR"
    NL = "NL"
    ExitLine <- MCExitLine
    Chunks <- MCChunks
    MaxInput = 8
INVARIANTS
    InOrder
PROPERTIES
    LinesAreExecuted
CHECK_DEADLOCK FALSE
