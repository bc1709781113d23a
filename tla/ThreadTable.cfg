SPECIFICATION FairSpec
CONSTANTS
    Callers = {listener}
    Launcher = nobody
    Ids <- FourIds
    THREADS_MAX = 2
INVARIANTS
    MissedOnlyIfFull
PROPERTIES
    ExitedMeansFinished
    ClientConverges
    ImplementsRegistry
