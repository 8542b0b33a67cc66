---------------------------- MODULE MCNxWindows ----------------------------
(* NxWindows on a screen of one or two cells, for TLC.                     *)
EXTENDS NxWindows

CONSTANT c1

(* Masks for the run about the focus, and for the one about all pointers.  *)
KeyMasks == {{}, {"KEY_DOWN"}}
AllMasks == {{}, Events}
=============================================================================
