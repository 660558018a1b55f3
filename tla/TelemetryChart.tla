---------------------------- MODULE TelemetryChart ----------------------------
(***************************************************************************)
(* The buffers of the Qt interface that keep their latest elements:        *)
(* sysscope::ui::qt::TelemetryChart                                        *)
(* (src/src/ui/qt/chart/telemetry_chart.cpp), whose line is drawn from     *)
(* buffer_ each time, and the ring buffer of TelemetryModel.               *)
(***************************************************************************)
EXTENDS Integers, Sequences

CONSTANT MAX_POINTS     \* 60

Smaller(a, b) == IF a <= b THEN a ELSE b

\* A slip: the size is compared before the element is added.
PushBoundedLate(buffer, x, capacity) ==
    IF Len(buffer) > capacity THEN Tail(Append(buffer, x)) ELSE Append(buffer, x)

\* push_back, then pop_front beyond the capacity.
PushBounded(buffer, x, capacity) ==
    IF Len(buffer) + 1 > capacity THEN Tail(Append(buffer, x)) ELSE Append(buffer, x)

\* What a bounded buffer stands for: the latest elements of all that there were.
Latest(count, all) ==
    LET kept == Smaller(count, Len(all))
    IN  [i \in 1 .. kept |-> all[Len(all) - kept + i]]

append_sample(buffer, value) == PushBounded(buffer, value, MAX_POINTS)

\* All values are taken over and the oldest removed until the rest fits.
update_series(values) == Latest(MAX_POINTS, values)
===============================================================================
