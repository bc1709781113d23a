SPECIFICATION Spec
CONSTANTS
    Lines <- MCLines
    Targets <- MCTargets
    Leftovers <- MCLeftovers
    WorkingDir <- MCWorkingDir
    OnDisk <- MCOnDisk
    NAME_MAX = 8
    MAX_ARGS = 8
    FRAMES_MAX = 2
INVARIANTS
    ArgsAsTyped
    AnswersTheQuestion
    ShownWhole
    NamesFollowEnumerations
CHECK_DEADLOCK FALSE
