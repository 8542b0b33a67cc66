------------------------------ MODULE MCNxClip ------------------------------
(* NxClip on a screen of two cells, with window 3 painted in each way, for    *)
(* TLC.                                                                       *)
EXTENDS NxClip

CONSTANT c1

Choices == {{}, {"NOBACKGROUND"}, {"BUFFERED"}, {"NOBACKGROUND", "BUFFERED"}}
=============================================================================
