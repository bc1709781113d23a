SPECIFICATION Spec
CONSTANTS
    MaxTargets = 2
    MaxBreaks = 2
    MaxWatches = 1
INVARIANTS
    ClientKnows
    ToldExist
PROPERTY DeletedWhenAsked
CHECK_DEADLOCK FALSE
