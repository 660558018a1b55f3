------------------------- MODULE MCApplicationProfiler -------------------------
(* Instances of ApplicationProfiler for TLC. *)
EXTENDS ApplicationProfiler

OneCpu == {<<0>>}
===============================================================================
