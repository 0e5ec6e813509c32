--------------------------- MODULE MCInstallation ---------------------------
(* Setup, backups and restores on small instances. *)
EXTENDS Installation, TLC

Symmetry == Permutations(Ids) \cup Permutations(Forms) \cup Permutations(Commands)
============================================================================
