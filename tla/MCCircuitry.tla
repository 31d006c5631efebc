----------------------------- MODULE MCCircuitry -----------------------------
(* One circuit and one line, as Circuit.cfg sets them. *)
EXTENDS Circuitry
=============================================================================
