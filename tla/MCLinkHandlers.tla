--------------------------- MODULE MCLinkHandlers ---------------------------
(* The link handlers on small instances. *)
EXTENDS LinkHandlers, TLC

Symmetry == Permutations(LinkIds) \cup Permutations(Requests)
============================================================================
