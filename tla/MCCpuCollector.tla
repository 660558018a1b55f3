---------------------------- MODULE MCCpuCollector ----------------------------
(* Instances of CpuCollector for TLC. *)
EXTENDS CpuCollector

\* Two CPUs, either of which may be offline.
AnyOfTwo == {<<0, 1>>, <<0>>, <<1>>}
===============================================================================
