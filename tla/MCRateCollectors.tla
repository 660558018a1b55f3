--------------------------- MODULE MCRateCollectors ---------------------------
(* Instances of RateCollectors for TLC. *)
EXTENDS RateCollectors, TLC

DeviceSymmetry == Permutations(Devices)
===============================================================================
