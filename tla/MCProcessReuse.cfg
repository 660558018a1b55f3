\* The id of a process that exited is given to a younger one.
CONSTANTS
    Pids = {1, 2}
    ticks_per_sec_ = 3
    Modulus = 16
    MaxTicks = 4
    MaxBirths = 3
SPECIFICATION Spec
INVARIANT NoPhantomUsage
