------------------------------ MODULE MCTicker ------------------------------
(* Instance of Ticker for TLC. *)
EXTENDS Ticker
=============================================================================
