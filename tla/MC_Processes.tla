---------------------------- MODULE MC_Processes ----------------------------
(* Values for model checking Processes. *)
EXTENDS Processes
=============================================================================
