------------------------- MODULE MCMasterConnection -------------------------
(* Small instances of MasterConnection. *)
EXTENDS MasterConnection

=============================================================================
