\* A CPU goes offline and the lines move up.
CONSTANTS
    Cpus = {0, 1}
    Topologies <- AnyOfTwo
    Modulus = 16
    MaxTicks = 4
SPECIFICATION Spec
INVARIANT DeltasNonNegative
