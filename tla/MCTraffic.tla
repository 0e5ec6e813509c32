----------------------------- MODULE MCTraffic ------------------------------
(* The public side of a site on small instances. *)
EXTENDS Traffic, TLC

\* Every visitor has an Android tablet.
Tablets == [v \in Visitors |-> {"android", "tablet"}]

Symmetry == Permutations(Requests) \cup Permutations(Visitors) \cup Permutations(Users)
              \cup Permutations(ShortIds) \cup Permutations(Links)
============================================================================
