---------------------------- MODULE MCTwoFactor ----------------------------
(* Two-factor authentication on small instances. *)
EXTENDS TwoFactor, TLC

Symmetry == Permutations(Requests) \cup Permutations(Batches)
============================================================================
