-------------------------------- MODULE GdClip --------------------------------
(***************************************************************************)
(* The clip region of the drawing engine and its cache                     *)
(* (src/engine/devclip2.c).  A region is a list of rectangles.  The cache  *)
(* is a box of points that are all inside, or all outside, of the region:  *)
(* the drawing routines test one point and go on to the edge of the box.   *)
(***************************************************************************)
EXTENDS FiniteSetsExt, Sequences

CONSTANTS
    XVirtRes, YVirtRes,     \* the size of the screen
    MinCoord, MaxCoord,     \* MIN_MWCOORD, MAX_MWCOORD
    Regions                 \* bound: the regions set

Rects == {r \in [left : Nat, top : Nat, right : Nat, bottom : Nat] :
             r.left < r.right /\ r.right <= XVirtRes /\ r.top < r.bottom /\ r.bottom <= YVirtRes}

(* Regions come from GsSetClipWindow and the size of pixmaps, which do not *)
(* reach beyond the device; GdSetClipRegion itself does not see to it.     *)
ASSUME ClipAssumption ==
    /\ XVirtRes \in Nat \ {0} /\ YVirtRes \in Nat \ {0}
    /\ MinCoord \in Int /\ MaxCoord \in Int
    /\ MinCoord < 0 /\ XVirtRes <= MaxCoord /\ YVirtRes <= MaxCoord
    /\ Regions \subseteq Seq(Rects)

VARIABLES
    clipregion,
    cache       \* clipminx .. clipmaxy and clipresult

clipVars == <<clipregion, cache>>

-----------------------------------------------------------------------------
InRect(r, x, y) == r.left <= x /\ x < r.right /\ r.top <= y /\ y < r.bottom

InRegion(reg, x, y) == \E i \in DOMAIN reg : InRect(reg[i], x, y)

InCache(c, x, y) == c.minx <= x /\ x <= c.maxx /\ c.miny <= y /\ y <= c.maxy

Box(minx, miny, maxx, maxy, result) ==
    [minx |-> minx, miny |-> miny, maxx |-> maxx, maxy |-> maxy, result |-> result]

RectBox(r) == Box(r.left, r.top, r.right - 1, r.bottom - 1, TRUE)

(* GdSetClipRegion: nothing may be drawn, or the first rectangle.          *)
DefaultCache(reg) ==
    IF reg = <<>> THEN Box(MinCoord, MinCoord, MaxCoord, MaxCoord, FALSE) ELSE RectBox(reg[1])

OnScreen(x, y) == x \in 0 .. XVirtRes - 1 /\ y \in 0 .. YVirtRes - 1

(* The half plane beyond the edge of the screen that the point is behind.  *)
HalfPlane(x, y) ==
    IF x < 0 THEN Box(MinCoord, MinCoord, -1, MaxCoord, FALSE)
    ELSE IF y < 0 THEN Box(MinCoord, MinCoord, MaxCoord, -1, FALSE)
    ELSE IF x >= XVirtRes THEN Box(XVirtRes, MinCoord, MaxCoord, MaxCoord, FALSE)
    ELSE Box(MinCoord, YVirtRes, MaxCoord, MaxCoord, FALSE)

(* A plausible bug: the box reaches to the right and bottom edges of the   *)
(* rectangles left of the point and above it.                              *)
TouchingBox(reg, x, y) ==
    LET R == {reg[i] : i \in DOMAIN reg}
    IN  Box(Max({MinCoord} \cup {r.right - 1 : r \in {q \in R : x >= q.right}}),
            Max({MinCoord} \cup {r.bottom - 1 : r \in {q \in R : y >= q.bottom}}),
            Min({MaxCoord} \cup {r.left - 1 : r \in {q \in R : x < q.left}}),
            Min({MaxCoord} \cup {r.top - 1 : r \in {q \in R : y < q.top}}),
            FALSE)

(* Around a point outside of every rectangle: up to the nearest edge of    *)
(* any of them on each side.                                               *)
OutsideBox(reg, x, y) ==
    LET R == {reg[i] : i \in DOMAIN reg}
    IN  Box(Max({MinCoord} \cup {r.right : r \in {q \in R : x >= q.right}}),
            Max({MinCoord} \cup {r.bottom : r \in {q \in R : y >= q.bottom}}),
            Min({MaxCoord} \cup {r.left - 1 : r \in {q \in R : x < q.left}}),
            Min({MaxCoord} \cup {r.top - 1 : r \in {q \in R : y < q.top}}),
            FALSE)

(* GdClipPoint: the cache it leaves, which holds the point; its result is  *)
(* whether the point may be drawn.  Without rectangles that is the whole   *)
(* screen, if it is ever come to: GdSetClipRegion's cache has every point. *)
ClipPoint(reg, c, x, y) ==
    IF InCache(c, x, y) THEN c
    ELSE IF ~OnScreen(x, y) THEN HalfPlane(x, y)
    ELSE IF reg = <<>> THEN Box(0, 0, XVirtRes - 1, YVirtRes - 1, TRUE)
    ELSE IF InRegion(reg, x, y)
         THEN RectBox(reg[Min({i \in DOMAIN reg : InRect(reg[i], x, y)})])
         ELSE OutsideBox(reg, x, y)

-----------------------------------------------------------------------------
ClipInit ==
    \E reg \in Regions : clipregion = reg /\ cache = DefaultCache(reg)

GdSetClipRegion(reg) ==
    /\ reg \in Regions
    /\ clipregion' = reg
    /\ cache' = DefaultCache(reg)

GdClipPoint(x, y) ==
    /\ cache' = ClipPoint(clipregion, cache, x, y)
    /\ UNCHANGED clipregion

(* The drawing routines do nothing to the cache but test points.           *)
ClipNext ==
    \/ \E reg \in Regions : GdSetClipRegion(reg)
    \/ \E x, y \in MinCoord .. MaxCoord : GdClipPoint(x, y)

ClipSpec == ClipInit /\ [][ClipNext]_clipVars

-----------------------------------------------------------------------------
(* Every point of the cache's box, not only the one that was tested, has   *)
(* the cached result: rows, columns and areas are drawn or skipped on the  *)
(* strength of a single test.                                              *)
CacheSound ==
    \A x, y \in MinCoord .. MaxCoord :
        InCache(cache, x, y) => (cache.result <=> InRegion(clipregion, x, y))
=============================================================================
