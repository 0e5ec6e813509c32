-------------------------- MODULE MCProfileHandlers -------------------------
(* The profile handlers on small instances. *)
EXTENDS ProfileHandlers, TLC

Symmetry == Permutations(ProfileIds) \cup Permutations(ProfileRequests)
============================================================================
