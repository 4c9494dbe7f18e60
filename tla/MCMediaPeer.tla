----------------------------- MODULE MCMediaPeer -----------------------------
(* Small instances of MediaPeer.                                           *)
EXTENDS MediaPeer, TLC

Symmetry == Permutations(Endpoint) \cup Permutations(Addr)
=============================================================================
