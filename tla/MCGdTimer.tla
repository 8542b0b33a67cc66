------------------------------ MODULE MCGdTimer ------------------------------
(* GdTimer with two ticks to a millisecond and three milliseconds to a      *)
(* second, for TLC.                                                         *)
EXTENDS GdTimer
==============================================================================
