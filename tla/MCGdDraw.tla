------------------------------ MODULE MCGdDraw ------------------------------
(* GdDraw on a screen of five by four pixels with a cursor of two by two,    *)
(* for TLC.  Lines, areas and the cursor reach beyond the edges.             *)
EXTENDS GdDraw

R(l, t, r, b) == [left |-> l, top |-> t, right |-> r, bottom |-> b]

(* Nothing; a window; a window with a corner, its middle or a corner of each *)
(* side covered by others.                                                   *)
SomeRegions == {<<>>, <<R(0, 0, 4, 4)>>, <<R(1, 0, 5, 1), R(1, 1, 3, 3)>>,
                <<R(0, 0, 5, 1), R(0, 1, 2, 2), R(3, 1, 5, 2), R(0, 2, 5, 4)>>,
                <<R(2, 0, 5, 2), R(0, 2, 5, 3), R(0, 3, 2, 4)>>}

SomeMasks     == {{<<0, 0>>, <<1, 0>>, <<0, 1>>}, {<<1, 1>>}}
SomePositions == {<<-1, 0>>, <<1, 1>>, <<2, 3>>, <<4, 2>>}
Points        == {<<-1, 1>>, <<0, 0>>, <<4, 2>>, <<2, 3>>, <<2, -1>>}
SomeLines     == {p \o q : p \in Points, q \in Points}
SomeAreas     == {<<0, 0, 5, 4>>, <<1, 1, 2, 1>>, <<2, -1, 3, 3>>, <<2, 2, 2, 2>>, <<0, 1, 1, 3>>}
SomeBlits     == {<<0, 0, 4, 3, 1, 1>>, <<1, 1, 4, 3, 0, 0>>, <<0, 0, 2, 3, -1, 1>>,
                  <<0, 0, 5, 3, 0, 2>>}

NegativeOne == -1
=============================================================================
