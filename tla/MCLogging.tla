----------------------------- MODULE MCLogging -----------------------------
(* Instance of Logging for TLC. *)
EXTENDS Logging
=============================================================================
