------------------------------ MODULE MCTraffic ------------------------------
(* CTraffic's thread with a few callers and members, as CallBacks.cfg sets them. *)
EXTENDS Traffic
=============================================================================
