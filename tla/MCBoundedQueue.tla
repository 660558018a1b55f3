---------------------------- MODULE MCBoundedQueue ----------------------------
(* Instances of BoundedQueue for TLC. *)
EXTENDS BoundedQueue
===============================================================================
