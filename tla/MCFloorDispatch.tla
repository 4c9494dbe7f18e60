-------------------------- MODULE MCFloorDispatch --------------------------
(* Small instances of FloorDispatch.                                       *)
EXTENDS FloorDispatch, TLC

Symmetry == Permutations(User)
=============================================================================
