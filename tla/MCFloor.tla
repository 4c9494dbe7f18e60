------------------------------ MODULE MCFloor ------------------------------
(* Small instances of Floor.                                               *)
EXTENDS Floor, TLC

Symmetry == Permutations(User)
=============================================================================
