--------------------------- MODULE MCPeriodicWork ---------------------------
(* Instances of PeriodicWork for TLC. *)
EXTENDS PeriodicWork
=============================================================================
