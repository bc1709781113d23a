SPECIFICATION FairSpec
CONSTANTS
    MaxThread = 2
    MaxFrame = 1
INVARIANTS
    OneResult
    RightThread
    StopShown
PROPERTIES
    Responded
