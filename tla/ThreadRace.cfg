SPECIFICATION Spec
CONSTANTS
    Callers = {mainthread, listener}
    Launcher = mainthread
    Ids <- TwoIds
    THREADS_MAX = 2
PROPERTIES
    ExitedMeansFinished
