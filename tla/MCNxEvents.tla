----------------------------- MODULE MCNxEvents -----------------------------
(* NxEvents with one or two threads and a few events, for TLC.             *)
EXTENDS NxEvents

CONSTANTS t1, t2

(* 1 and 3 are exposures of two parts of a window, 4 of a larger part that *)
(* holds both, 5 of the whole window.                                      *)
Exposures == {<<4, 1>>, <<4, 3>>, <<5, 1>>, <<5, 3>>, <<5, 4>>}

(* 1 and 2 are positions of the mouse over one window.                     *)
Positions == {<<2, 1>>}
=============================================================================
