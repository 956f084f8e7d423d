-------------------------- MODULE MCCustomResources --------------------------
(***************************************************************************)
(* CustomResources for TLC: two keys, two names, one engine.              *)
(***************************************************************************)
EXTENDS CustomResources, TLC

Symmetry == Permutations(Name)
=============================================================================
