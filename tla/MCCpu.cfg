\* Two CPUs that are plugged and unplugged, and reads that fail.
CONSTANTS
    Cpus = {0, 1}
    Topologies <- AnyOfTwo
    Modulus = 16
    MaxTicks = 4
SPECIFICATION Spec
INVARIANTS
    AggregateIsTrue
    CoresAreTrue
