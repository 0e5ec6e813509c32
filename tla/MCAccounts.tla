----------------------------- MODULE MCAccounts -----------------------------
(* Accounts and tokens on small instances. *)
EXTENDS Accounts, TLC

Symmetry == Permutations(Users) \cup Permutations(Requests) \cup Permutations(Tokens)
              \cup Permutations(Passwords) \cup Permutations(Names)
============================================================================
