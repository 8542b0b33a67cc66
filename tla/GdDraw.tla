-------------------------------- MODULE GdDraw --------------------------------
(***************************************************************************)
(* Drawing on the screen under a software cursor (src/engine/devdraw.c,    *)
(* devblit.c, devmouse.c).  The cursor is drawn into the frame buffer, over*)
(* pixels that are saved; each drawing routine takes it away where it is   *)
(* about to draw or read (GdCheckCursor), and puts it back in the end      *)
(* (GdFixCursor).  Each action is one whole call of the engine.            *)
(*                                                                         *)
(* The content of a pixel is what it shows: what was drawn there last, the *)
(* cursor, or something that was overwritten since ("old").  Lines are     *)
(* solid, and so are fills.                                                *)
(***************************************************************************)
EXTENDS GdClip

CONSTANTS
    CursorMasks,    \* bound: the shapes of cursors, sets of offsets <<dx, dy>>
    CursorSize,     \* bound: width and height of all cursors
    Positions,      \* bound: the places of the cursor, <<x, y>>
    Lines,          \* bound: the lines drawn, <<x1, y1, x2, y2>>
    Areas,          \* bound: the areas drawn or read, <<x, y, width, height>>
    Blits,          \* bound: the areas copied, <<dstx, dsty, width, height, srcx, srcy>>
    MaxVisible      \* bound: how often the cursor is shown without being hidden

(* A shape lies within its width and height.                               *)
ASSUME CursorAssumption ==
    /\ CursorSize \in Nat \ {0}
    /\ CursorMasks \subseteq SUBSET ((0 .. CursorSize - 1) \X (0 .. CursorSize - 1))
    /\ Positions \subseteq Int \X Int
    /\ MaxVisible \in Nat

(* What is drawn has coordinates that an MWCOORD holds, and what is read   *)
(* or copied holds some part of the screen.                                *)
Coords == MinCoord .. MaxCoord

ASSUME ShapesAssumption ==
    /\ Lines \subseteq Coords \X Coords \X Coords \X Coords
    /\ \A a \in Areas :
          /\ a \in Coords \X Coords \X Nat \X Nat
          /\ a[3] > 0 /\ a[4] > 0 /\ a[1] + a[3] <= MaxCoord + 1 /\ a[2] + a[4] <= MaxCoord + 1
    /\ \A b \in Blits :
          /\ b \in Coords \X Coords \X Nat \X Nat \X Coords \X Coords
          /\ b[3] > 0 /\ b[4] > 0 /\ b[1] + b[3] <= MaxCoord + 1 /\ b[2] + b[4] <= MaxCoord + 1
          /\ b[5] < XVirtRes /\ b[5] + b[3] > 0 /\ b[6] < YVirtRes /\ b[6] + b[4] > 0

(* The rectangles of a region come in bands from top to bottom, and in a   *)
(* band from left to right (GdRegion.BandsKept).                           *)
ASSUME OrderAssumption ==
    \A reg \in Regions : \A i, j \in DOMAIN reg :
        i < j => reg[i].bottom <= reg[j].top \/ reg[i].right <= reg[j].left

Pixels == (0 .. XVirtRes - 1) \X (0 .. YVirtRes - 1)

VARIABLES
    pix,            \* the frame buffer
    saved,          \* cursavbits, by pixel
    curvisible,
    curneedsrestore,
    cursor          \* curminx, curminy and the mask

vars == <<clipVars, pix, saved, curvisible, curneedsrestore, cursor>>

(* The state a call works on, with how often it drew each pixel.           *)
Dev == [cache |-> cache, pix |-> pix, saved |-> saved, visible |-> curvisible,
        restore |-> curneedsrestore, cursor |-> cursor, drawn |-> [p \in Pixels |-> 0]]

Become(d) ==
    /\ cache' = d.cache /\ pix' = d.pix /\ saved' = d.saved
    /\ curvisible' = d.visible /\ curneedsrestore' = d.restore /\ cursor' = d.cursor
    /\ UNCHANGED clipregion

-----------------------------------------------------------------------------
Under(c) == {<<c.x + m[1], c.y + m[2]>> : m \in c.mask} \cap Pixels

GdShowCursor(d) ==
    IF d.visible # 0 THEN [d EXCEPT !.visible = @ + 1]
    ELSE [d EXCEPT !.visible = 1,
                   !.saved = [p \in Under(d.cursor) |-> d.pix[p]],
                   !.pix = [p \in Pixels |-> IF p \in Under(d.cursor) THEN "cursor" ELSE @[p]]]

(* The saved pixels are not looked at again before the next show unless    *)
(* the cursor was shown more than once.                                    *)
GdHideCursor(d) ==
    IF d.visible <= 0 THEN [d EXCEPT !.visible = @ - 1]
    ELSE [d EXCEPT !.visible = @ - 1,
                   !.pix = [p \in Pixels |-> IF p \in DOMAIN d.saved THEN d.saved[p] ELSE @[p]],
                   !.saved = IF d.visible = 1 THEN [p \in {} |-> "app"] ELSE @]

Meets(c, x1, y1, x2, y2) ==
    /\ Min({x1, x2}) <= c.x + CursorSize - 1 /\ Max({x1, x2}) >= c.x
    /\ Min({y1, y2}) <= c.y + CursorSize - 1 /\ Max({y1, y2}) >= c.y

GdCheckCursor(d, x1, y1, x2, y2) ==
    IF d.visible > 0 /\ Meets(d.cursor, x1, y1, x2, y2)
    THEN [GdHideCursor(d) EXCEPT !.restore = TRUE]
    ELSE d

(* A plausible bug: the cursor stays to be restored.                       *)
FixForever(d) == IF d.restore THEN GdShowCursor(d) ELSE d

GdFixCursor(d) == IF d.restore THEN [GdShowCursor(d) EXCEPT !.restore = FALSE] ELSE d

(* A point of P drawn while the cursor is over it will be undone.          *)
Draw(d, P) ==
    [d EXCEPT !.pix = [p \in Pixels |-> IF p \in P THEN "app" ELSE @[p]],
              !.saved = [p \in DOMAIN @ |-> IF p \in P THEN "old" ELSE @[p]],
              !.drawn = [p \in Pixels |-> IF p \in P THEN @[p] + 1 ELSE @[p]]]

-----------------------------------------------------------------------------
(* GdClipPoint as the drawing routines call it.                            *)
Test(d, x, y) ==
    LET e == [d EXCEPT !.cache = ClipPoint(clipregion, @, x, y)]
    IN  IF e.cache.result THEN GdCheckCursor(e, x, y, x, y) ELSE e

GdClipArea(d, x1, y1, x2, y2) ==
    LET e == IF InCache(d.cache, x1, y1) THEN d ELSE Test(d, x1, y1)
    IN  IF ~InCache(e.cache, x2, y2) THEN [dev |-> e, clip |-> "PARTIAL"]
        ELSE IF ~e.cache.result THEN [dev |-> e, clip |-> "INVISIBLE"]
        ELSE [dev |-> GdCheckCursor(e, x1, y1, x2, y2), clip |-> "VISIBLE"]

Plot(d, x, y) == LET e == Test(d, x, y) IN IF e.cache.result THEN Draw(e, {<<x, y>>}) ELSE e

GdPoint(d, x, y) == LET e == Plot(d, x, y) IN IF e.cache.result THEN GdFixCursor(e) ELSE e

(* The loops of drawrow and drawcol go from one edge of the cache's box to *)
(* the next; s is the state with the coordinate come to.  A box holds the  *)
(* point tested, so that there are no more turns than pixels.              *)
RowTurn(s, x2, y) ==
    LET e    == Test(s.dev, s.at, y)
        stop == Min({e.cache.maxx, x2})
    IN  IF s.at > x2 THEN s
        ELSE [dev |-> IF e.cache.result THEN Draw(e, (s.at .. stop) \X {y}) ELSE e,
              at  |-> stop + 1]

RowFrom(d, x1, x2, y) ==
    LET N == Max({x2 - x1 + 1, 0})
        turn[n \in 0 .. N] == IF n = 0 THEN [dev |-> d, at |-> x1] ELSE RowTurn(turn[n - 1], x2, y)
    IN  turn[N].dev

drawrow(d, x1, x2, y) ==
    LET l == Max({Min({x1, x2}), 0})
        r == Min({Max({x1, x2}), XVirtRes - 1})
    IN  RowFrom(GdCheckCursor(d, l, y, r, y), l, r, y)

ColTurn(s, x, y2) ==
    LET e    == Test(s.dev, x, s.at)
        stop == Min({e.cache.maxy, y2})
    IN  IF s.at > y2 THEN s
        ELSE [dev |-> IF e.cache.result THEN Draw(e, {x} \X (s.at .. stop)) ELSE e,
              at  |-> stop + 1]

ColFrom(d, x, y1, y2) ==
    LET N == Max({y2 - y1 + 1, 0})
        turn[n \in 0 .. N] == IF n = 0 THEN [dev |-> d, at |-> y1] ELSE ColTurn(turn[n - 1], x, y2)
    IN  turn[N].dev

drawcol(d, x, y1, y2) ==
    LET t == Max({Min({y1, y2}), 0})
        b == Min({Max({y1, y2}), YVirtRes - 1})
    IN  ColFrom(GdCheckCursor(d, x, t, x, b), x, t, b)

(* One end moved for a line drawn up to but not including its last point.  *)
Ends(a, b, last) ==
    IF last THEN <<a, b>> ELSE IF a > b THEN <<b + 1, a>> ELSE <<a, b - 1>>

Toward(a, b) == IF b > a THEN 1 ELSE -1
Dist(a, b)   == Max({a - b, b - a})

(* A step of a line: along the longer axis by (ux, uy), adding minor to    *)
(* the remainder, which when it comes to major moves the point by (vx, vy) *)
(* too.  There are major steps.                                            *)
Step(s, u, slope) ==
    LET over == s.rem + slope.minor >= slope.major
        nx   == s.x + u[1] + (IF over THEN u[3] ELSE 0)
        ny   == s.y + u[2] + (IF over THEN u[4] ELSE 0)
    IN  [dev |-> Plot(s.dev, nx, ny), x |-> nx, y |-> ny,
         rem |-> s.rem + slope.minor - (IF over THEN slope.major ELSE 0)]

Steps(d, x, y, u, slope) ==
    LET start  == [dev |-> Plot(d, x, y), x |-> x, y |-> y, rem |-> slope.major \div 2]
        step[n \in 0 .. slope.major] == IF n = 0 THEN start ELSE Step(step[n - 1], u, slope)
    IN  step[slope.major].dev

(* The last point of a line that is neither horizontal nor vertical is     *)
(* drawn whatever last says: the loop looks for it before it steps.        *)
GdLine(d, x1, y1, x2, y2, last) ==
    LET ex == Ends(x1, x2, last)
        ey == Ends(y1, y2, last)
        a  == GdClipArea(d, x1, y1, x2, y2)
        dx == Dist(x1, x2)
        dy == Dist(y1, y2)
        u  == IF dx >= dy THEN <<Toward(x1, x2), 0, 0, Toward(y1, y2)>>
              ELSE <<0, Toward(y1, y2), Toward(x1, x2), 0>>
    IN  IF y1 = y2 THEN GdFixCursor(drawrow(d, ex[1], ex[2], y1))
        ELSE IF x1 = x2 THEN GdFixCursor(drawcol(d, x1, ey[1], ey[2]))
        ELSE IF a.clip = "INVISIBLE" THEN a.dev
        ELSE GdFixCursor(Steps(a.dev, x1, y1, u,
                               [major |-> Max({dx, dy}), minor |-> Min({dx, dy})]))

(* A plausible bug: the columns begin and end in the corners.              *)
RectTwice(d, x, y, w, h) ==
    LET rows == drawrow(drawrow(d, x, x + w - 1, y), x, x + w - 1, y + h - 1)
    IN  GdFixCursor(drawcol(drawcol(rows, x, y, y + h - 1), x + w - 1, y, y + h - 1))

(* A rectangle less than three rows high returns before GdFixCursor.       *)
GdRect(d, x, y, w, h) ==
    LET top  == drawrow(d, x, x + w - 1, y)
        rows == IF h > 1 THEN drawrow(top, x, x + w - 1, y + h - 1) ELSE top
        left == drawcol(rows, x, y + 1, y + h - 2)
    IN  IF h < 3 THEN rows
        ELSE GdFixCursor(IF w > 1 THEN drawcol(left, x + w - 1, y + 1, y + h - 2) ELSE left)

Rows(d, x1, x2, y, h) ==
    LET rows[n \in 0 .. h] == IF n = 0 THEN d ELSE drawrow(rows[n - 1], x1, x2, y + n - 1)
    IN  rows[h]

GdFillRect(d, x, y, w, h) ==
    LET a == GdClipArea(d, x, y, x + w - 1, y + h - 1)
    IN  CASE a.clip = "VISIBLE" -> GdFixCursor(Draw(a.dev, (x .. x + w - 1) \X (y .. y + h - 1)))
          [] a.clip = "INVISIBLE" -> a.dev
          [] a.clip = "PARTIAL" -> GdFixCursor(Rows(a.dev, x, x + w - 1, y, h))

(* A plausible bug: the size is taken for the far corner.                  *)
ReadingSize(d, x, y, w, h) == GdCheckCursor(d, x, y, w, h)

(* GdReadArea: the state in which the pixels are read.                     *)
Reading(d, x, y, w, h) == GdCheckCursor(d, x, y, x + w - 1, y + h - 1)

GdReadArea(d, x, y, w, h) == GdFixCursor(Reading(d, x, y, w, h))

(* convblit: the pixels of P, each from (dx, dy) further on, all at once.  *)
Copy(d, P, dx, dy) ==
    [d EXCEPT !.pix = [p \in Pixels |-> IF p \in P THEN @[<<p[1] + dx, p[2] + dy>>] ELSE @[p]],
              !.saved = [p \in DOMAIN @ |-> IF p \in P THEN "old" ELSE @[p]]]

(* A plausible bug: the rectangles from the last to the first.             *)
CopyUpwards(d, P, dx, dy) ==
    LET L == Len(clipregion)
        copied[n \in 0 .. L] ==
            IF n = 0 THEN d
            ELSE Copy(copied[n - 1], {p \in P : InRect(clipregion[L + 1 - n], p[1], p[2])}, dx, dy)
    IN  copied[L]

(* The loop over the rectangles of the clip region.                        *)
CopyRects(d, P, dx, dy) ==
    LET L == Len(clipregion)
        copied[n \in 0 .. L] ==
            IF n = 0 THEN d
            ELSE Copy(copied[n - 1], {p \in P : InRect(clipregion[n], p[1], p[2])}, dx, dy)
    IN  copied[L]

(* A plausible bug: the cursor is looked for where the bits go only.       *)
BlitDestinationOnly(d, x, y, w, h, sx, sy) ==
    LET P == (x .. x + w - 1) \X (y .. y + h - 1)
        a == GdClipArea(d, x, y, x + w - 1, y + h - 1)
    IN  CASE a.clip = "INVISIBLE" -> a.dev
          [] a.clip = "VISIBLE" -> GdFixCursor(Copy(a.dev, P, sx - x, sy - y))
          [] a.clip = "PARTIAL" ->
                GdFixCursor(CopyRects(GdCheckCursor(a.dev, x, y, x + w - 1, y + h - 1),
                                      P, sx - x, sy - y))

(* GdConvBlitInternal, from the screen to the screen.                      *)
ConvBlit(d, x, y, w, h, sx, sy) ==
    LET P == (x .. x + w - 1) \X (y .. y + h - 1)
        a == GdClipArea(d, x, y, x + w - 1, y + h - 1)
        s == GdCheckCursor(a.dev, sx, sy, sx + w - 1, sy + h - 1)
    IN  CASE a.clip = "INVISIBLE" -> a.dev
          [] a.clip = "VISIBLE" -> GdFixCursor(Copy(s, P, sx - x, sy - y))
          [] a.clip = "PARTIAL" ->
                GdFixCursor(CopyRects(GdCheckCursor(s, x, y, x + w - 1, y + h - 1),
                                      P, sx - x, sy - y))

(* GdBlit: the source is cut to the screen, of which it holds some part.   *)
GdBlit(d, x, y, w, h, sx, sy) ==
    LET cx == Max({0, -sx})
        cy == Max({0, -sy})
    IN  ConvBlit(d, x + cx, y + cy,
                 Min({w - cx, XVirtRes - (sx + cx)}), Min({h - cy, YVirtRes - (sy + cy)}),
                 sx + cx, sy + cy)

(* The cursor's place is changed before it is hidden: it is restored from  *)
(* where it was saved.                                                     *)
GdMoveCursor(d, p) ==
    IF p = <<d.cursor.x, d.cursor.y>> THEN d
    ELSE GdShowCursor(GdHideCursor([d EXCEPT !.cursor.x = p[1], !.cursor.y = p[2]]))

GdSetCursor(d, mask) ==
    GdShowCursor([GdHideCursor(d) EXCEPT !.cursor.mask = mask])

-----------------------------------------------------------------------------
Init ==
    /\ ClipInit
    /\ curneedsrestore = FALSE
    /\ \E p \in Positions, m \in CursorMasks : cursor = [x |-> p[1], y |-> p[2], mask |-> m]
    /\ curvisible = 1
    /\ saved = [p \in Under(cursor) |-> "app"]
    /\ pix = [p \in Pixels |-> IF p \in Under(cursor) THEN "cursor" ELSE "app"]

SetClipRegion(reg) ==
    GdSetClipRegion(reg) /\ UNCHANGED <<pix, saved, curvisible, curneedsrestore, cursor>>

(* A window moved by copying its bits: the cursor is hidden around it.     *)
MoveBits(b, a) ==
    Become(GdShowCursor(GdFillRect(GdBlit(GdHideCursor(Dev), b[1], b[2], b[3], b[4], b[5], b[6]),
                                   a[1], a[2], a[3], a[4])))

(* GrInjectPointerEvent: shown or hidden whatever it was, then moved.  What*)
(* GdFixCursor is still to do counts as shown.                             *)
Inject(show, p) ==
    /\ LET shown == curvisible + (IF curneedsrestore THEN 1 ELSE 0)
       IN  IF show THEN shown < MaxVisible ELSE curvisible >= 0
    /\ Become(GdMoveCursor(IF show THEN GdShowCursor(Dev) ELSE GdHideCursor(Dev), p))

ShortRect(a) == a[4] < 3 /\ Become(GdRect(Dev, a[1], a[2], a[3], a[4]))

Next ==
    \/ \E reg \in Regions : SetClipRegion(reg)
    \/ \E l \in Lines :
          \/ Become(GdPoint(Dev, l[1], l[2]))
          \/ \E last \in BOOLEAN : Become(GdLine(Dev, l[1], l[2], l[3], l[4], last))
    \/ \E a \in Areas :
          \/ ShortRect(a)
          \/ a[4] >= 3 /\ Become(GdRect(Dev, a[1], a[2], a[3], a[4]))
          \/ Become(GdFillRect(Dev, a[1], a[2], a[3], a[4]))
          \/ Become(GdReadArea(Dev, a[1], a[2], a[3], a[4]))
    \/ \E b \in Blits :
          \/ Become(GdBlit(Dev, b[1], b[2], b[3], b[4], b[5], b[6]))
          \/ \E a \in Areas : MoveBits(b, a)
    \/ \E p \in Positions :
          \/ Become(GdMoveCursor(Dev, p))
          \/ \E show \in BOOLEAN : Inject(show, p)
    \/ \E m \in CursorMasks : Become(GdSetCursor(Dev, m))

Spec == Init /\ [][Next]_vars

-----------------------------------------------------------------------------
(* While the cursor is shown it is on the screen whole, and what it hides  *)
(* is what was drawn there last; while it is not, nothing of it is left.   *)
(* No drawing or moving in any order leaves a trail.                       *)
ScreenIntact ==
    LET under == IF curvisible > 0 THEN Under(cursor) ELSE {}
    IN  /\ pix = [p \in Pixels |-> IF p \in under THEN "cursor" ELSE "app"]
        /\ saved = [p \in under |-> "app"]

(* What GdReadArea returns is never the cursor's pixels.                   *)
ReadsApp ==
    \A a \in Areas : \A p \in Pixels :
        p[1] \in a[1] .. a[1] + a[3] - 1 /\ p[2] \in a[2] .. a[2] + a[4] - 1 =>
            Reading(Dev, a[1], a[2], a[3], a[4]).pix[p] = "app"

(* Every call puts back the cursor it took away, except GdRect for a       *)
(* rectangle less than three rows high, after which the cursor is gone,    *)
(* even if it is moved, until something else is drawn.                     *)
CursorComesBack ==
    [][curneedsrestore' /\ ~curneedsrestore => \E a \in Areas : ShortRect(a)]_vars

(* The pixels of P that the clip region lets through, each drawn once.     *)
Clipped(P) == [p \in Pixels |-> IF p \in P /\ InRegion(clipregion, p[1], p[2]) THEN 1 ELSE 0]

Filled(a)  == (a[1] .. a[1] + a[3] - 1) \X (a[2] .. a[2] + a[4] - 1)
Outline(a) == {p \in Filled(a) : \/ p[1] \in {a[1], a[1] + a[3] - 1}
                                 \/ p[2] \in {a[2], a[2] + a[4] - 1}}

(* The points next to the ideal line from one end to the other, halves     *)
(* rounded onwards.                                                        *)
Ideal(l) ==
    LET dx == l[3] - l[1]
        dy == l[4] - l[2]
        n  == Max({Dist(l[1], l[3]), Dist(l[2], l[4])})
        Near(i, d) == IF n = 0 THEN 0 ELSE Toward(0, d) * ((i * Dist(0, d) + n \div 2) \div n)
    IN  {<<l[1] + Near(i, dx), l[2] + Near(i, dy)>> : i \in 0 .. n}

(* Whatever the clip region and the cache hold, each drawing routine draws *)
(* exactly the pixels of its shape that are visible, each once "in case    *)
(* the rectangle is being drawn using XOR": a rectangle its outline or     *)
(* area, a line the pixels nearest to it, without its last point if it is  *)
(* horizontal or vertical and that is asked for.  (One without length is   *)
(* then drawn with the point before it.)                                   *)
DrawsExactly ==
    /\ \A a \in Areas :
          /\ GdRect(Dev, a[1], a[2], a[3], a[4]).drawn = Clipped(Outline(a))
          /\ GdFillRect(Dev, a[1], a[2], a[3], a[4]).drawn = Clipped(Filled(a))
    /\ \A l \in Lines :
          LET omitted == IF l[1] = l[3] \/ l[2] = l[4] THEN {<<l[3], l[4]>>} ELSE {}
          IN  /\ GdLine(Dev, l[1], l[2], l[3], l[4], TRUE).drawn = Clipped(Ideal(l))
              /\ <<l[1], l[2]>> # <<l[3], l[4]>> =>
                    GdLine(Dev, l[1], l[2], l[3], l[4], FALSE).drawn = Clipped(Ideal(l) \ omitted)

(* A blit within the screen copies what was there before it, at least when *)
(* it does not go down or to the right: the rectangles of the clip region  *)
(* are copied one after the other, top to bottom and left to right.        *)
BlitsUpOrLeft ==
    \A b \in Blits :
        b[1] <= b[5] /\ b[2] <= b[6] =>
            LET d == [Dev EXCEPT !.visible = 0, !.restore = FALSE, !.pix = [p \in Pixels |-> p],
                                 !.saved = [p \in {} |-> <<0, 0>>]]
                at(p) == <<p[1] + b[5] - b[1], p[2] + b[6] - b[2]>>
            IN  GdBlit(d, b[1], b[2], b[3], b[4], b[5], b[6]).pix =
                    [p \in Pixels |-> IF /\ p \in Filled(b) /\ at(p) \in Pixels
                                         /\ InRegion(clipregion, p[1], p[2])
                                      THEN at(p) ELSE p]

=============================================================================
