------------------------ MODULE MCMessageDistribute ------------------------
(* Instance of MessageDistribute for TLC. *)
EXTENDS MessageDistribute
=============================================================================
