------------------------------ MODULE MCNxTree ------------------------------
(* NxTree with a handful of windows, for TLC.                              *)
EXTENDS NxTree, TLC

CONSTANTS c1, c2

ClientSymmetry == Permutations({c1, c2})
=============================================================================
