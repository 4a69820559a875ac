------------------------------ MODULE MCKeyRing ------------------------------
(* A small instance of the key ring for TLC. *)
EXTENDS KeyRingProperties, TLC

Symmetry == Permutations(Procs)
=============================================================================
