\* Two tasks, with and without callback, under two clients that start and stop the
\* scheduler as they like; tasks are added before, between and while it runs.
CONSTANTS
    c1 = c1
    c2 = c2
    Clients = {c1, c2}
    TaskKinds <- ThreeKinds
    IdlePoll = 2
    MaxTasks = 2
    MaxClock = 3
SPECIFICATION FairSpec
INVARIANTS
    PhaseKept
    NoBacklog
    AtRestAfterStop
    TerminatesOnlyOnOverlap
PROPERTIES
    DueTaskIsServed
    StopReturns
