----------------------------- MODULE MCAccounts -----------------------------
(* Small instances of the credential lifecycle for TLC. *)
EXTENDS AccountsProperties, TLC

Symmetry == Permutations(Machines) \cup Permutations(Requests)
              \cup Permutations(Handles) \cup Permutations(Invites)
=============================================================================
