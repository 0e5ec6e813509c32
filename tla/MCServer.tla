------------------------------ MODULE MCServer ------------------------------
(* The server process among others on a small instance. *)
EXTENDS Instances
============================================================================
