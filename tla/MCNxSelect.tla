----------------------------- MODULE MCNxSelect -----------------------------
(* NxSelect with three clients, for TLC.                                     *)
EXTENDS NxSelect

CONSTANTS c1, c2, c3
=============================================================================
