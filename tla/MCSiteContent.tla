---------------------------- MODULE MCSiteContent ---------------------------
(* Links, profiles and users together on small instances. *)
EXTENDS SiteContent, TLC

Symmetry == Permutations(Requests)
============================================================================
