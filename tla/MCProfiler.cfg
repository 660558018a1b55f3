\* A workload of up to four ticks, sampled every two.  Nothing happens any more
\* when profile_command has returned.
CHECK_DEADLOCK FALSE
CONSTANTS
    Cpus = {0}
    Topologies <- OneCpu
    Modulus = 16
    MaxTicks = 6
    SampleInterval = 2
    MaxWorkload = 4
SPECIFICATION FairSpec
INVARIANTS
    SamplesLieEndToEnd
    NoSharedUse
PROPERTY ProfileReturns
