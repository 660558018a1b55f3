-------------------------- MODULE MCProcessCollector --------------------------
(* Instances of ProcessCollector for TLC. *)
EXTENDS ProcessCollector
===============================================================================
