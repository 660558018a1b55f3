\* Three processes that run, fork, exit and are adopted between the reads; their
\* ids are given out again.
CONSTANTS
    Pids = {1, 2, 3}
    ticks_per_sec_ = 1
    Modulus = 16
    MaxTicks = 3
    MaxBirths = 3
SPECIFICATION Spec
INVARIANTS
    UsageIsTrue
    WholeIsInterval
    BaselinesAreListed
    TreeIsForest
    ParentsAreOlder
