\* Two devices that work, vanish and return, and a clock that is set, under both
\* collectors.
CONSTANTS
    a = a
    b = b
    Devices = {a, b}
    Modulus = 16
    MaxWork = 1
    MaxTime = 2
SYMMETRY DeviceSymmetry
SPECIFICATION Spec
INVARIANTS
    RateIsTrue
    OneInterval
