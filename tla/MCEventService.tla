---------------------------- MODULE MCEventService ----------------------------
(* The event service with few events; the configurations choose the rest. *)
EXTENDS EventService, TLC

OneCaller  == {"main"}
TwoCallers == {"main", "user"}

AnyBlock == Permutations(Blocks)
=============================================================================
