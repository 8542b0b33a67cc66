---------------------------- MODULE MCNxKeyboard ----------------------------
(* NxKeyboard with one window beside the root on two cells, for TLC.                    *)
EXTENDS NxKeyboard, TLC

CONSTANTS c1, c2

ClientSymmetry == Permutations({c1, c2})

KeyMasks == {{}, {"KEY_DOWN"}}
=============================================================================
