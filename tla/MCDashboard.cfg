\* A machine that may change once in a frame, so that a mean is over one or two
\* slices of time; a reading of each frame may fail, and keys are typed meanwhile.
CONSTANTS
    Machines <- TheMachines
    Keys <- TheKeys
    HISTORY = 2
    TOP_OVERVIEW = 1
    TOP_LIST = 2
    MaxSlices = 1
    MaxFailures = 1
    MaxKeys = 2
SPECIFICATION Spec
INVARIANTS
    LastingPressureIsReported
    ShownWasTrue
PROPERTIES
    LogKeepsLatest
    QuitIsObeyed
