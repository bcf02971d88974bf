--------------------------- MODULE MCConfigAgent ---------------------------
(* A small instance of ConfigAgent. *)
EXTENDS ConfigAgent

=============================================================================
