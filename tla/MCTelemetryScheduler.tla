------------------------- MODULE MCTelemetryScheduler -------------------------
(* Instances of TelemetryScheduler for TLC. *)
EXTENDS TelemetryScheduler

T(i, cb) == [interval |-> i, callback |-> cb]

\* Two rates and a task without a callback.
ThreeKinds == {T(1, TRUE), T(2, TRUE), T(2, FALSE)}
TwoKinds == {T(1, TRUE), T(3, TRUE)}
===============================================================================
