------------------------------ MODULE MCChannel ------------------------------
(* The lines of Channel on small boards; the configurations give the constants. *)
EXTENDS Channel
=============================================================================
