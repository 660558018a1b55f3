\* Tasks are added while a callback runs.
CONSTANTS
    c1 = c1
    Clients = {c1}
    TaskKinds <- TwoKinds
    IdlePoll = 2
    MaxTasks = 2
    MaxClock = 4
SPECIFICATION Spec
INVARIANT NoDrift
