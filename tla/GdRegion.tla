------------------------------- MODULE GdRegion -------------------------------
(***************************************************************************)
(* The regions of the drawing engine: areas of the screen kept as arrays   *)
(* of rectangles in bands.  Windows are clipped with them (srvclip2.c),    *)
(* clients make their own through the GrNewRegion requests, and everything *)
(* that looks at one (comparing, testing, clipping) relies on the form of  *)
(* the array that the operations keep up: bands from top to bottom, the    *)
(* rectangles of a band from left to right with room between them, and no  *)
(* two bands that could be one.                                            *)
(*                                                                         *)
(* An operation is an operator on values; the variables are two regions of *)
(* a client.  The array is taken to have room for what is put in it.  Each *)
(* loop is a function of the number of turns, of which there are no more   *)
(* than rectangles that it goes over.                                      *)
(***************************************************************************)
EXTENDS Integers, Sequences, FiniteSetsExt

CONSTANTS
    Width, Height,  \* bound: the area that the regions of clients lie in
    AskedSize,      \* bound: side of the squares they add to regions
    MaxRects        \* bound: rectangles in the second region

ASSUME RegionAssumption == {Width, Height, AskedSize, MaxRects} \subseteq Nat

VARIABLES
    rgn,    \* the regions: their rects and extents
    area    \* history: the points that the requests so far make them of

vars == <<rgn, area>>

Ids == {1, 2}

Rect(l, t, r, b) == [left |-> l, top |-> t, right |-> r, bottom |-> b]

Columns == 0 .. Width
Rows    == 0 .. Height

(* The rectangles a client asks for; an empty one is not asked for.        *)
Rects ==
    {r \in [left : Columns, top : Rows, right : Columns, bottom : Rows] :
        r.left < r.right /\ r.top < r.bottom}

Asked == {r \in Rects : r.right - r.left = AskedSize /\ r.bottom - r.top = AskedSize}

InRect(r, x, y)      == r.left <= x /\ x < r.right /\ r.top <= y /\ y < r.bottom
Covered(rects, x, y) == \E i \in DOMAIN rects : InRect(rects[i], x, y)

Cells          == (0 .. Width - 1) \X (0 .. Height - 1)
PointsOf(rect) == {p \in Cells : InRect(rect, p[1], p[2])}

Lower(a, b)   == IF a < b THEN a ELSE b
Greater(a, b) == IF a > b THEN a ELSE b

EMPTY_REGION == [rects |-> <<>>, extents |-> Rect(0, 0, 0, 0)]

(* A region of one rectangle, on the caller's stack.                       *)
Single(rect) == [rects |-> <<rect>>, extents |-> rect]

EXTENTCHECK(a, b) ==
    a.right > b.left /\ a.left < b.right /\ a.bottom > b.top /\ a.top < b.bottom

REGION_SetExtents(rects) ==
    IF rects = <<>> THEN Rect(0, 0, 0, 0)
    ELSE Rect(Min({rects[i].left : i \in DOMAIN rects}), rects[1].top,
              Max({rects[i].right : i \in DOMAIN rects}), rects[Len(rects)].bottom)

Moved(r, dx, dy) == Rect(r.left + dx, r.top + dy, r.right + dx, r.bottom + dy)

GdOffsetRegion(reg, dx, dy) ==
    IF reg.rects = <<>> THEN reg
    ELSE [rects   |-> [i \in DOMAIN reg.rects |-> Moved(reg.rects[i], dx, dy)],
          extents |-> Moved(reg.extents, dx, dy)]

-----------------------------------------------------------------------------
(* The band that begins with the i-th rectangle: where it ends, and its    *)
(* rectangles.                                                             *)
BandEnd(rects, i) ==
    Min({n \in i + 1 .. Len(rects) + 1 : n = Len(rects) + 1 \/ rects[n].top # rects[i].top})

Band(rects, i) == [k \in 1 .. BandEnd(rects, i) - i |-> rects[i + k - 1]]

(* A plausible bug: bands are joined without a look at the gap between.    *)
JoinedAnyway(rects, prevStart, curStart) ==
    LET n == curStart - prevStart
    IN  /\ n # 0 /\ BandEnd(rects, curStart + 1) = curStart + 1 + n
        /\ \A k \in 1 .. n : /\ rects[prevStart + k].left = rects[curStart + k].left
                             /\ rects[prevStart + k].right = rects[curStart + k].right

Joined(rects, prevStart, curStart) ==
    LET n == curStart - prevStart
    IN  /\ n # 0 /\ BandEnd(rects, curStart + 1) = curStart + 1 + n
        /\ rects[prevStart + 1].bottom = rects[curStart + 1].top
        /\ \A k \in 1 .. n : /\ rects[prevStart + k].left = rects[curStart + k].left
                             /\ rects[prevStart + k].right = rects[curStart + k].right

(* The band behind prevStart reaches down over the one behind curStart.    *)
Join(rects, prevStart, curStart) ==
    LET n == curStart - prevStart
    IN  [k \in 1 .. Len(rects) - n |->
            CASE k <= prevStart -> rects[k]
              [] prevStart < k /\ k <= curStart ->
                    [rects[k] EXCEPT !.bottom = rects[curStart + 1].bottom]
              [] k > curStart -> rects[k + n]]

(* REGION_Coalesce joins the band that starts behind prevBand with the one *)
(* behind curStart, if they are the same but for their height, and returns *)
(* where the last band starts.  Several bands have come only at the end of *)
(* REGION_RegionOp, which makes no use of the answer.                      *)
REGION_Coalesce(out, curStart) ==
    IF Joined(out.rects, out.prevBand, curStart)
    THEN [out EXCEPT !.rects = Join(@, out.prevBand, curStart)]
    ELSE [out EXCEPT !.prevBand = curStart]

(* Rectangles put behind the others, and coalesced if there are any.       *)
Added(out, rects) ==
    IF rects = <<>> THEN out
    ELSE REGION_Coalesce([out EXCEPT !.rects = @ \o rects], Len(out.rects))

(* Rectangles made of the spans of a band, between two heights.            *)
Spans(band, top, bottom) ==
    [k \in DOMAIN band |-> Rect(band[k].left, top, band[k].right, bottom)]

-----------------------------------------------------------------------------
(* A plausible bug: rectangles that only touch are left apart.             *)
MergeOverlapping(rects, r) ==
    IF rects # <<>> /\ rects[Len(rects)].right > r.left
    THEN [rects EXCEPT ![Len(rects)].right = Greater(@, r.right)]
    ELSE Append(rects, r)

(* MERGERECT: a rectangle is merged into the one before if it reaches it.  *)
Merge(rects, r) ==
    IF rects # <<>> /\ rects[Len(rects)].right >= r.left
    THEN [rects EXCEPT ![Len(rects)].right = Greater(@, r.right)]
    ELSE Append(rects, r)

(* REGION_UnionO: the rectangles of both bands from left to right.         *)
UnionTurn(s, b1, b2) ==
    IF s.i <= Len(b1) /\ (s.j > Len(b2) \/ b1[s.i].left < b2[s.j].left)
    THEN [s EXCEPT !.i = @ + 1, !.out = Merge(@, b1[s.i])]
    ELSE [s EXCEPT !.j = @ + 1, !.out = Merge(@, b2[s.j])]

REGION_UnionO(b1, b2) ==
    LET N == Len(b1) + Len(b2)
        turn[n \in 0 .. N] ==
            IF n = 0 THEN [i |-> 1, j |-> 1, out |-> <<>>] ELSE UnionTurn(turn[n - 1], b1, b2)
    IN  turn[N].out

(* REGION_IntersectO: the overlap of two rectangles, then on in the band,  *)
(* or the bands, where the rectangle ends first.                           *)
IntersectTurn(s, b1, b2) ==
    LET a     == b1[s.i]
        b     == b2[s.j]
        left  == Greater(a.left, b.left)
        right == Lower(a.right, b.right)
    IN  IF s.i > Len(b1) \/ s.j > Len(b2) THEN s
        ELSE [i   |-> IF a.right = right THEN s.i + 1 ELSE s.i,
              j   |-> IF b.right = right THEN s.j + 1 ELSE s.j,
              out |-> IF left < right THEN Append(s.out, Rect(left, a.top, right, a.bottom))
                      ELSE s.out]

REGION_IntersectO(b1, b2) ==
    LET N == Len(b1) + Len(b2)
        turn[n \in 0 .. N] ==
            IF n = 0 THEN [i |-> 1, j |-> 1, out |-> <<>>] ELSE IntersectTurn(turn[n - 1], b1, b2)
    IN  turn[N].out

(* REGION_SubtractO: what is left of the minuends b1, the i-th of them     *)
(* from left on, once the subtrahends b2 are taken out.                    *)
SubtractTurn(s, b1, b2) ==
    LET a         == b1[s.i]
        b         == b2[s.j]
        piece(to) == Append(s.out, Rect(s.left, a.top, to, a.bottom))
        next(out) == [i |-> s.i + 1, j |-> s.j, out |-> out,
                      left |-> IF s.i < Len(b1) THEN b1[s.i + 1].left ELSE s.left]
        cut       == IF b.left > s.left THEN piece(b.left) ELSE s.out
    IN  CASE s.i > Len(b1) -> s
          [] s.i <= Len(b1) /\ s.j > Len(b2) -> next(piece(a.right))
          [] s.i <= Len(b1) /\ s.j <= Len(b2) ->
                IF b.right <= s.left THEN [s EXCEPT !.j = @ + 1]
                ELSE IF b.left >= a.right THEN next(piece(a.right))
                ELSE IF b.right >= a.right THEN next(cut)
                ELSE [s EXCEPT !.j = @ + 1, !.left = b.right, !.out = cut]

REGION_SubtractO(b1, b2) ==
    LET N == Len(b1) + Len(b2)
        turn[n \in 0 .. N] ==
            IF n = 0 THEN [i |-> 1, j |-> 1, left |-> b1[1].left, out |-> <<>>]
            ELSE SubtractTurn(turn[n - 1], b1, b2)
    IN  turn[N].out

-----------------------------------------------------------------------------
(* What an operation makes of a band that both regions have, and of one    *)
(* that only the first or only the second has.                             *)
OverlapFunc(op, b1, b2) ==
    CASE op = "union"     -> REGION_UnionO(b1, b2)
      [] op = "intersect" -> REGION_IntersectO(b1, b2)
      [] op = "subtract"  -> REGION_SubtractO(b1, b2)

NonOverlap1Func(op, b) == IF op \in {"union", "subtract"} THEN b ELSE <<>>
NonOverlap2Func(op, b) == IF op = "union" THEN b ELSE <<>>

(* The spans of a band of which only the part below ybot is new, and not   *)
(* more than down to the band of the other region.                         *)
Alone(band, ybot, other) ==
    LET top    == Greater(band[1].top, ybot)
        bottom == Lower(band[1].bottom, other)
    IN  IF band = <<>> \/ top = bottom THEN <<>> ELSE Spans(band, top, bottom)

(* One turn of REGION_RegionOp's loop over a band of each region: first    *)
(* the part that only the higher one has, then the part that both have; a  *)
(* band that ends there is left behind.                                    *)
RegionTurn(op, r1, r2, s) ==
    LET h1   == r1[s.i]
        h2   == r2[s.j]
        b1   == Band(r1, s.i)
        b2   == Band(r2, s.j)
        ytop == Greater(h1.top, h2.top)
        ybot == Lower(h1.bottom, h2.bottom)
        only == CASE h1.top < h2.top -> Alone(NonOverlap1Func(op, b1), s.ybot, h2.top)
                  [] h2.top < h1.top -> Alone(NonOverlap2Func(op, b2), s.ybot, h1.top)
                  [] h1.top = h2.top -> <<>>
        both == IF ybot > ytop
                THEN OverlapFunc(op, Spans(b1, ytop, ybot), Spans(b2, ytop, ybot)) ELSE <<>>
    IN  IF s.i > Len(r1) \/ s.j > Len(r2) THEN s
        ELSE [i    |-> IF h1.bottom = ybot THEN BandEnd(r1, s.i) ELSE s.i,
              j    |-> IF h2.bottom = ybot THEN BandEnd(r2, s.j) ELSE s.j,
              ybot |-> ybot,
              out  |-> Added(Added(s.out, only), both)]

(* The bands from the i-th rectangle on, the first of them from ybot on.   *)
LeftOver(rects, i, ybot) ==
    [k \in 1 .. Len(rects) + 1 - i |->
        [rects[i + k - 1] EXCEPT !.top = Greater(@, ybot)]]

(* In the end the bands of the region that is left over are added.         *)
REGION_RegionOp(op, reg1, reg2) ==
    LET r1    == reg1.rects
        r2    == reg2.rects
        N     == Len(r1) + Len(r2)
        start == [i |-> 1, j |-> 1, ybot |-> Lower(reg1.extents.top, reg2.extents.top),
                  out |-> [rects |-> <<>>, prevBand |-> 0]]
        turn[n \in 0 .. N] == IF n = 0 THEN start ELSE RegionTurn(op, r1, r2, turn[n - 1])
        s     == turn[N]
        rest  == IF s.i <= Len(r1) THEN NonOverlap1Func(op, LeftOver(r1, s.i, s.ybot))
                 ELSE NonOverlap2Func(op, LeftOver(r2, s.j, s.ybot))
    IN  Added(s.out, rest).rects

-----------------------------------------------------------------------------
Apart(reg1, reg2) ==
    \/ reg1.rects = <<>> \/ reg2.rects = <<>>
    \/ ~EXTENTCHECK(reg1.extents, reg2.extents)

GdIntersectRegion(reg1, reg2) ==
    LET rects == IF Apart(reg1, reg2) THEN <<>> ELSE REGION_RegionOp("intersect", reg1, reg2)
    IN  [rects |-> rects, extents |-> REGION_SetExtents(rects)]

Subsumes(reg1, reg2) ==
    /\ Len(reg1.rects) = 1
    /\ reg1.extents.left <= reg2.extents.left /\ reg1.extents.right >= reg2.extents.right
    /\ reg1.extents.top <= reg2.extents.top /\ reg1.extents.bottom >= reg2.extents.bottom

(* "same" is whether the operands are one region and not just equal ones.  *)
GdUnionRegion(reg1, reg2, same) ==
    IF same \/ reg1.rects = <<>> THEN reg2
    ELSE IF reg2.rects = <<>> \/ Subsumes(reg1, reg2) THEN reg1
    ELSE IF Subsumes(reg2, reg1) THEN reg2
    ELSE [rects |-> REGION_RegionOp("union", reg1, reg2),
          extents |-> Rect(Lower(reg1.extents.left, reg2.extents.left),
                           Lower(reg1.extents.top, reg2.extents.top),
                           Greater(reg1.extents.right, reg2.extents.right),
                           Greater(reg1.extents.bottom, reg2.extents.bottom))]

GdSubtractRegion(regM, regS) ==
    IF Apart(regM, regS) THEN regM
    ELSE LET rects == REGION_RegionOp("subtract", regM, regS)
         IN  [rects |-> rects, extents |-> REGION_SetExtents(rects)]

GdXorRegion(a, b) == GdUnionRegion(GdSubtractRegion(a, b), GdSubtractRegion(b, a), FALSE)

GdUnionRectWithRegion(reg, rect) == GdUnionRegion(reg, Single(rect), FALSE)

(* GdAllocBitmapRegion: the runs of set bits, row by row, each added at    *)
(* its first bit.                                                          *)
RunEnd(bits, x, y) == Min({e \in x + 1 .. Width : <<e, y>> \notin bits})

RunAdded(reg, bits, x, y) ==
    IF <<x, y>> \in bits /\ <<x - 1, y>> \notin bits
    THEN GdUnionRectWithRegion(reg, Rect(x, y, RunEnd(bits, x, y), y + 1)) ELSE reg

RowAdded(reg, bits, y) ==
    LET upto[x \in 0 .. Width] == IF x = 0 THEN reg ELSE RunAdded(upto[x - 1], bits, x - 1, y)
    IN  upto[Width]

GdAllocBitmapRegion(bits) ==
    LET upto[y \in 0 .. Height] ==
            IF y = 0 THEN EMPTY_REGION ELSE RowAdded(upto[y - 1], bits, y - 1)
    IN  upto[Height]

-----------------------------------------------------------------------------
GdPtInRegion(reg, x, y) ==
    /\ reg.rects # <<>> /\ InRect(reg.extents, x, y)
    /\ Covered(reg.rects, x, y)

(* GdRectInRegion's walk over the array: ry is how far down rect is known. *)
ScanTurn(s, rects, rect) ==
    LET cur     == rects[s.i]
        below   == cur.top > s.ry
        y       == Greater(s.ry, cur.top)
        beside  == cur.left > rect.left
        missed  == s.partOut \/ below \/ beside
        touches == s.partIn \/ cur.left < rect.right
        Break(partIn, ry) == [s EXCEPT !.i = Len(rects) + 1, !.partIn = partIn, !.ry = ry]
    IN  IF s.i > Len(rects) THEN s
        ELSE IF cur.bottom <= s.ry THEN [s EXCEPT !.i = @ + 1]
        ELSE IF below /\ (s.partIn \/ cur.top >= rect.bottom) THEN Break(s.partIn, s.ry)
        ELSE IF cur.right <= rect.left
             THEN [s EXCEPT !.i = @ + 1, !.ry = y, !.partOut = @ \/ below]
        ELSE IF beside /\ s.partIn THEN Break(s.partIn, y)
        ELSE IF cur.left < rect.right /\ missed THEN Break(TRUE, y)
        ELSE IF cur.right < rect.right THEN Break(touches, y)
        ELSE IF cur.bottom >= rect.bottom THEN Break(touches, cur.bottom)
        ELSE [i |-> s.i + 1, ry |-> cur.bottom, partIn |-> touches, partOut |-> missed]

Scan(rects, rect) ==
    LET N == Len(rects)
        turn[n \in 0 .. N] ==
            IF n = 0 THEN [i |-> 1, ry |-> rect.top, partIn |-> FALSE, partOut |-> FALSE]
            ELSE ScanTurn(turn[n - 1], rects, rect)
    IN  turn[N]

(* A plausible bug: having begun counts as having come to the bottom.      *)
RectBegunInRegion(reg, rect) ==
    IF reg.rects = <<>> \/ ~EXTENTCHECK(reg.extents, rect) THEN "OUT"
    ELSE LET end == Scan(reg.rects, rect)
         IN  IF ~end.partIn THEN "OUT" ELSE IF end.ry = rect.top THEN "PARTIN" ELSE "ALLIN"

GdRectInRegion(reg, rect) ==
    IF reg.rects = <<>> \/ ~EXTENTCHECK(reg.extents, rect) THEN "OUT"
    ELSE LET end == Scan(reg.rects, rect)
         IN  IF ~end.partIn THEN "OUT" ELSE IF end.ry < rect.bottom THEN "PARTIN" ELSE "ALLIN"

GdEqualRegion(reg1, reg2) ==
    /\ Len(reg1.rects) = Len(reg2.rects)
    /\ \/ reg1.rects = <<>>
       \/ reg1.extents = reg2.extents /\ reg1.rects = reg2.rects

-----------------------------------------------------------------------------
Init ==
    /\ rgn = [i \in Ids |-> EMPTY_REGION]
    /\ area = [i \in Ids |-> {}]

(* The second region is kept small (BOUND: MaxRects).                      *)
Becomes(dst, reg, points) ==
    /\ dst = 2 => Len(reg.rects) <= MaxRects
    /\ rgn' = [rgn EXCEPT ![dst] = reg]
    /\ area' = [area EXCEPT ![dst] = points]

(* A new region in the place of a destroyed one.                           *)
GrNewRegion(dst) == Becomes(dst, EMPTY_REGION, {})

(* BOUND: only before there is any other region.                           *)
GrNewBitmapRegion(bits) ==
    /\ \A i \in Ids : area[i] = {}
    /\ Becomes(1, GdAllocBitmapRegion(bits), bits)

GrUnionRectWithRegion(dst, rect) ==
    Becomes(dst, GdUnionRectWithRegion(rgn[dst], rect), area[dst] \cup PointsOf(rect))

GrUnionRegion(dst, a, b) ==
    Becomes(dst, GdUnionRegion(rgn[a], rgn[b], a = b), area[a] \cup area[b])

(* The array of the result is sized by the operands after the result has   *)
(* been emptied; with one region for all three there is no room for any    *)
(* rectangle, and no client is assumed to ask for that here and below.     *)
GrIntersectRegion(dst, a, b) ==
    /\ dst = a => dst # b
    /\ Becomes(dst, GdIntersectRegion(rgn[a], rgn[b]), area[a] \cap area[b])

GrSubtractRegion(dst, a, b) ==
    /\ dst = a => dst # b
    /\ Becomes(dst, GdSubtractRegion(rgn[a], rgn[b]), area[a] \ area[b])

GrXorRegion(dst, a, b) ==
    Becomes(dst, GdXorRegion(rgn[a], rgn[b]), (area[a] \ area[b]) \cup (area[b] \ area[a]))

(* BOUND: a region is not moved out of the area.                           *)
GrOffsetRegion(dst, dx, dy) ==
    LET moved == {<<p[1] + dx, p[2] + dy>> : p \in area[dst]}
    IN  /\ moved \subseteq Cells
        /\ Becomes(dst, GdOffsetRegion(rgn[dst], dx, dy), moved)

(* BOUND: the second region is only made by copying the first.             *)
Next ==
    \/ \E bits \in SUBSET Cells : GrNewBitmapRegion(bits)
    \/ GrNewRegion(1)
    \/ GrUnionRegion(2, 1, 1)
    \/ \E rect \in Asked : GrUnionRectWithRegion(1, rect)
    \/ \E d \in {-1, 1} : GrOffsetRegion(1, d, 0) \/ GrOffsetRegion(1, 0, d)
    \/ \E a, b \in Ids :
          \/ GrUnionRegion(1, a, b)
          \/ GrIntersectRegion(1, a, b)
          \/ GrSubtractRegion(1, a, b)
          \/ GrXorRegion(1, a, b)

Spec == Init /\ [][Next]_vars

-----------------------------------------------------------------------------
(* After any sequence of requests a region covers exactly the points that  *)
(* union, intersection, difference and the rest make it of, whatever its   *)
(* bands were split into or joined to on the way.                          *)
AreaExact ==
    \A i \in Ids : {p \in Cells : Covered(rgn[i].rects, p[1], p[2])} = area[i]

(* Each next rectangle is in the same band further right, with room        *)
(* between, or in a band below.                                            *)
Banded(rects) ==
    \A i, j \in DOMAIN rects : i < j =>
        \/ /\ rects[i].top = rects[j].top /\ rects[i].bottom = rects[j].bottom
           /\ rects[i].right < rects[j].left
        \/ rects[i].bottom <= rects[j].top

Row(rects, y) == {x \in Columns : Covered(rects, x, y)}

(* No band could reach further down than it does: the next row is another. *)
Joinless(rects) ==
    \A i \in DOMAIN rects : Row(rects, rects[i].bottom - 1) # Row(rects, rects[i].bottom)

(* The array keeps the form its users rely on: no empty rectangle; bands;  *)
(* no two bands that could be one; extents that are the box of the region. *)
BandsKept ==
    \A i \in Ids :
        /\ \A k \in DOMAIN rgn[i].rects : rgn[i].rects[k] \in Rects
        /\ Banded(rgn[i].rects)
        /\ Joinless(rgn[i].rects)
        /\ area[i] # {} =>
              rgn[i].extents = Rect(Min({p[1] : p \in area[i]}), Min({p[2] : p \in area[i]}),
                                    Max({p[1] : p \in area[i]}) + 1, Max({p[2] : p \in area[i]}) + 1)

(* What is asked about a region is answered about its points:              *)
(* GdRectInRegion tells rectangles that are inside, outside and neither    *)
(* apart, GdPtInRegion knows its points, and GdEqualRegion says that two   *)
(* regions made in whatever ways are equal just when they are.             *)
AnswersExact ==
    /\ GdEqualRegion(rgn[1], rgn[2]) <=> area[1] = area[2]
    /\ {p \in Cells : GdPtInRegion(rgn[1], p[1], p[2])} = area[1]
    /\ area[2] = {} =>
          \A rect \in Rects :
              GdRectInRegion(rgn[1], rect) =
                  CASE PointsOf(rect) \cap area[1] = {} -> "OUT"
                    [] PointsOf(rect) \subseteq area[1] -> "ALLIN"
                    [] OTHER -> "PARTIN"
===============================================================================
