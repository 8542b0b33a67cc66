---------------------------- MODULE GdDrawProofs ----------------------------
(***************************************************************************)
(* Drawing under a software cursor is right for screens, clip regions,     *)
(* cursors and shapes of any size. The inductive invariant has two parts.  *)
(* The cache of the clip region is right for its whole box (CacheCorrect;  *)
(* the first section). The screen is intact, and the cursor is shown, or   *)
(* still to be shown, at most once: a call that hides the cursor may only  *)
(* come to show it again over pixels it has not covered. Each drawing      *)
(* routine has a lemma ("Call") that it keeps both, restores the cursor,   *)
(* and adds one to the count of exactly the visible pixels of its shape;   *)
(* the loops have one for each turn and one for all of them.  The last     *)
(* section is about what a blit copies.                                    *)
(***************************************************************************)
EXTENDS GdDraw, WellFoundedInduction, TLAPS

Less == {p \in Nat \X Nat : p[1] < p[2]}

(* The order by which the least of a set of numbers is found.              *)
LEMMA LessWellFounded == IsWellFoundedOn(Less, Nat)
<1>1. IsWellFoundedOn(OpToRel(<, Nat), Nat)
  BY NatLessThanWellFounded
<1>2. Less \cap (Nat \X Nat) \subseteq OpToRel(<, Nat)
  BY DEF Less, OpToRel
<1> QED
  BY <1>1, <1>2, IsWellFoundedOnSubrelation

(* A set of natural numbers has a least one.                               *)
LEMMA SmallestOfNats ==
    ASSUME NEW T, T \subseteq Nat, T # {}
    PROVE  \E m \in T : \A k \in T : m <= k
<1>1. PICK m \in T : \A k \in T : ~ (<<k, m>> \in Less)
  BY LessWellFounded, WFMin
<1>2. ASSUME NEW k \in T PROVE m <= k
  <2>1. k \in Nat /\ m \in Nat
    OBVIOUS
  <2>2. CASE k < m
    <3>1. <<k, m>> \in Less
      BY <2>1, <2>2 DEF Less
    <3> QED
      BY <1>1, <3>1
  <2> QED
    BY <2>1, <2>2
<1> QED
  BY <1>2

(* What Min returns of a set of integers with a lower bound, and Max of    *)
(* one with an upper bound.                                                *)
LEMMA MinIsLeast ==
    ASSUME NEW S, S \subseteq Int, S # {}, NEW b \in Int, \A s \in S : b <= s
    PROVE  Min(S) \in S /\ \A s \in S : Min(S) <= s
<1> DEFINE T == {s - b : s \in S}
<1>1. T \subseteq Nat /\ T # {}
  <2>1. \A s \in S : s \in Int /\ s - b \in Nat
    OBVIOUS
  <2>2. T # {}
    OBVIOUS
  <2> QED
    BY <2>1, <2>2
<1>2. PICK m \in T : \A k \in T : m <= k
  BY <1>1, SmallestOfNats
<1>3. PICK n \in S : m = n - b
  BY <1>2
<1>4. \A s \in S : n <= s
  <2> TAKE s \in S
  <2>1. s - b \in T
    OBVIOUS
  <2>2. n - b <= s - b
    BY <1>2, <1>3, <2>1
  <2> QED
    BY <2>2
<1> QED
  BY <1>3, <1>4 DEF Min

(* The greatest of a set of integers that is bounded.                      *)
LEMMA MaxIsGreatest ==
    ASSUME NEW S, S \subseteq Int, S # {}, NEW b \in Int, \A s \in S : s <= b
    PROVE  Max(S) \in S /\ \A s \in S : s <= Max(S)
<1> DEFINE T == {b - s : s \in S}
<1>1. T \subseteq Nat /\ T # {}
  <2>1. \A s \in S : s \in Int /\ b - s \in Nat
    OBVIOUS
  <2>2. T # {}
    OBVIOUS
  <2> QED
    BY <2>1, <2>2
<1>2. PICK m \in T : \A k \in T : m <= k
  BY <1>1, SmallestOfNats
<1>3. PICK n \in S : m = b - n
  BY <1>2
<1>4. \A s \in S : s <= n
  <2> TAKE s \in S
  <2>1. b - s \in T
    OBVIOUS
  <2>2. b - n <= b - s
    BY <1>2, <1>3, <2>1
  <2> QED
    BY <2>2
<1>5. \A s \in S : n >= s
  BY <1>4
<1>6. Max(S) \in S /\ \A s \in S : Max(S) >= s
  BY <1>3, <1>5 DEF Max
<1> QED
  BY <1>6
-----------------------------------------------------------------------------
Boxes == [minx : Int, miny : Int, maxx : Int, maxy : Int, result : BOOLEAN]

Sound(reg, c) ==
    \A x, y \in MinCoord .. MaxCoord :
        InCache(c, x, y) => (c.result <=> InRegion(reg, x, y))

(* The box that is left agrees with the region at each of its points.      *)
SoundBox(reg, c) == c \in Boxes /\ Sound(reg, c)

(* Without rectangles the cache never changes.                             *)
EmptyKept(reg, c) == reg = <<>> => c = Box(MinCoord, MinCoord, MaxCoord, MaxCoord, FALSE)

ClipInv ==
    /\ clipregion \in Regions
    /\ SoundBox(clipregion, cache)
    /\ EmptyKept(clipregion, cache)

(* The rectangles of a region lie within the screen.                       *)
LEMMA RectOfRegion ==
    ASSUME NEW reg \in Regions, NEW i \in DOMAIN reg
    PROVE  /\ reg[i] \in Rects
           /\ reg[i].left \in Nat /\ reg[i].right \in Nat
           /\ reg[i].top \in Nat /\ reg[i].bottom \in Nat
           /\ reg[i].right <= XVirtRes /\ reg[i].bottom <= YVirtRes
<1>1. reg \in Seq(Rects)
  BY ClipAssumption
<1>2. reg[i] \in Rects
  BY <1>1
<1> QED
  BY <1>2 DEF Rects

(* The box made of a rectangle is inside the region.                       *)
LEMMA RectBoxSound ==
    ASSUME NEW reg \in Regions, NEW i \in DOMAIN reg
    PROVE  SoundBox(reg, RectBox(reg[i]))
<1>1. RectBox(reg[i]) \in Boxes
  BY RectOfRegion DEF RectBox, Box, Boxes
<1>2. ASSUME NEW x \in MinCoord .. MaxCoord, NEW y \in MinCoord .. MaxCoord,
             InCache(RectBox(reg[i]), x, y)
      PROVE  InRegion(reg, x, y)
  <2>1. x \in Int /\ y \in Int
    BY ClipAssumption
  <2>2. InRect(reg[i], x, y)
    BY <1>2, <2>1, RectOfRegion DEF InCache, RectBox, Box, InRect
  <2> QED
    BY <2>2 DEF InRegion
<1>3. RectBox(reg[i]).result = TRUE
  BY DEF RectBox, Box
<1> QED
  BY <1>1, <1>2, <1>3 DEF SoundBox, Sound

(* GdSetClipRegion's cache is right for its region.                        *)
LEMMA DefaultSound ==
    ASSUME NEW reg \in Regions
    PROVE  SoundBox(reg, DefaultCache(reg))
<1>1. reg \in Seq(Rects)
  BY ClipAssumption
<1>2. CASE reg = <<>>
  <2>1. DefaultCache(reg) = Box(MinCoord, MinCoord, MaxCoord, MaxCoord, FALSE)
    BY <1>2 DEF DefaultCache
  <2>2. Box(MinCoord, MinCoord, MaxCoord, MaxCoord, FALSE) \in Boxes
    BY ClipAssumption DEF Box, Boxes
  <2>3. \A x, y : ~InRegion(reg, x, y)
    BY <1>2 DEF InRegion
  <2> QED
    BY <2>1, <2>2, <2>3 DEF SoundBox, Sound, Box
<1>3. CASE reg # <<>>
  <2>1. 1 \in DOMAIN reg
    BY <1>1, <1>3
  <2>2. DefaultCache(reg) = RectBox(reg[1])
    BY <1>3 DEF DefaultCache
  <2> QED
    BY <2>1, <2>2, RectBoxSound
<1> QED
  BY <1>2, <1>3

(* Beyond an edge of the screen no point is in the region.                 *)
LEMMA HalfPlaneSound ==
    ASSUME NEW reg \in Regions, NEW x \in Int, NEW y \in Int, ~OnScreen(x, y)
    PROVE  SoundBox(reg, HalfPlane(x, y))
<1> DEFINE c == HalfPlane(x, y)
<1>1. \/ c = Box(MinCoord, MinCoord, -1, MaxCoord, FALSE)
      \/ c = Box(MinCoord, MinCoord, MaxCoord, -1, FALSE)
      \/ c = Box(XVirtRes, MinCoord, MaxCoord, MaxCoord, FALSE)
      \/ c = Box(MinCoord, YVirtRes, MaxCoord, MaxCoord, FALSE)
  BY DEF HalfPlane
<1> HIDE DEF c
<1>2. c \in Boxes /\ c.result = FALSE
  <2>1. /\ MinCoord \in Int /\ MaxCoord \in Int /\ XVirtRes \in Int /\ YVirtRes \in Int
        /\ -1 \in Int
    BY ClipAssumption
  <2>2. CASE c = Box(MinCoord, MinCoord, -1, MaxCoord, FALSE)
    BY <2>1, <2>2 DEF Box, Boxes
  <2>3. CASE c = Box(MinCoord, MinCoord, MaxCoord, -1, FALSE)
    BY <2>1, <2>3 DEF Box, Boxes
  <2>4. CASE c = Box(XVirtRes, MinCoord, MaxCoord, MaxCoord, FALSE)
    BY <2>1, <2>4 DEF Box, Boxes
  <2>5. CASE c = Box(MinCoord, YVirtRes, MaxCoord, MaxCoord, FALSE)
    BY <2>1, <2>5 DEF Box, Boxes
  <2> QED
    BY <1>1, <2>2, <2>3, <2>4, <2>5
<1>3. ASSUME NEW px \in MinCoord .. MaxCoord, NEW py \in MinCoord .. MaxCoord,
             InCache(c, px, py), NEW i \in DOMAIN reg
      PROVE  ~InRect(reg[i], px, py)
  <2>1. px \in Int /\ py \in Int /\ XVirtRes \in Int /\ YVirtRes \in Int
    BY ClipAssumption
  <2>2. px <= -1 \/ py <= -1 \/ px >= XVirtRes \/ py >= YVirtRes
    BY <1>1, <1>3, <2>1, ClipAssumption DEF InCache, Box
  <2> QED
    BY <2>1, <2>2, RectOfRegion DEF InRect
<1>4. SoundBox(reg, c)
  BY <1>2, <1>3 DEF SoundBox, Sound, InRegion
<1> QED
  BY <1>4 DEF c

(* Up to the nearest edges around a point outside no point is in the       *)
(* region.                                                                 *)
LEMMA OutsideSound ==
    ASSUME NEW reg \in Regions, NEW x \in Int, NEW y \in Int, ~InRegion(reg, x, y)
    PROVE  SoundBox(reg, OutsideBox(reg, x, y))
<1> DEFINE R      == {reg[i] : i \in DOMAIN reg}
           left   == {MinCoord} \cup {r.right : r \in {q \in R : x >= q.right}}
           above  == {MinCoord} \cup {r.bottom : r \in {q \in R : y >= q.bottom}}
           right  == {MaxCoord} \cup {r.left - 1 : r \in {q \in R : x < q.left}}
           below  == {MaxCoord} \cup {r.top - 1 : r \in {q \in R : y < q.top}}
<1>1. /\ MinCoord \in Int /\ MaxCoord \in Int /\ XVirtRes \in Int /\ YVirtRes \in Int
      /\ MinCoord <= XVirtRes /\ MinCoord <= YVirtRes /\ -1 <= MaxCoord
  BY ClipAssumption
<1>2. \A r \in R : /\ r.left \in Nat /\ r.right \in Nat /\ r.top \in Nat /\ r.bottom \in Nat
                   /\ r.right <= XVirtRes /\ r.bottom <= YVirtRes
  BY RectOfRegion
<1>3. Max(left) \in left /\ \A s \in left : s <= Max(left)
  <2>1. left \subseteq Int /\ left # {} /\ \A s \in left : s <= XVirtRes
    BY <1>1, <1>2
  <2> HIDE DEF left
  <2> QED
    BY <1>1, <2>1, MaxIsGreatest
<1>4. Max(above) \in above /\ \A s \in above : s <= Max(above)
  <2>1. above \subseteq Int /\ above # {} /\ \A s \in above : s <= YVirtRes
    BY <1>1, <1>2
  <2> HIDE DEF above
  <2> QED
    BY <1>1, <2>1, MaxIsGreatest
<1>5. Min(right) \in right /\ \A s \in right : Min(right) <= s
  <2>1. right \subseteq Int /\ right # {} /\ -1 \in Int /\ \A s \in right : -1 <= s
    BY <1>1, <1>2
  <2> HIDE DEF right
  <2> QED
    BY <1>1, <2>1, MinIsLeast
<1>6. Min(below) \in below /\ \A s \in below : Min(below) <= s
  <2>1. below \subseteq Int /\ below # {} /\ -1 \in Int /\ \A s \in below : -1 <= s
    BY <1>1, <1>2
  <2> HIDE DEF below
  <2> QED
    BY <1>1, <2>1, MinIsLeast
<1>7. left \subseteq Int /\ above \subseteq Int /\ right \subseteq Int /\ below \subseteq Int
  BY <1>1, <1>2
<1>8. OutsideBox(reg, x, y) = Box(Max(left), Max(above), Min(right), Min(below), FALSE)
  BY DEF OutsideBox
<1> HIDE DEF left, above, right, below
<1>9. /\ Max(left) \in Int /\ Max(above) \in Int /\ Min(right) \in Int /\ Min(below) \in Int
  BY <1>3, <1>4, <1>5, <1>6, <1>7
<1>10. ASSUME NEW px \in MinCoord .. MaxCoord, NEW py \in MinCoord .. MaxCoord,
              InCache(OutsideBox(reg, x, y), px, py), NEW i \in DOMAIN reg
       PROVE  ~InRect(reg[i], px, py)
  <2> DEFINE r == reg[i]
  <2>1. r \in R /\ r.left \in Nat /\ r.right \in Nat /\ r.top \in Nat /\ r.bottom \in Nat
    BY RectOfRegion
  <2>2. ~InRect(r, x, y)
    BY DEF InRegion
  <2>3. px \in Int /\ py \in Int
    BY <1>1
  <2>4. Max(left) <= px /\ px <= Min(right) /\ Max(above) <= py /\ py <= Min(below)
    BY <1>8, <1>10 DEF InCache, Box
  <2> HIDE DEF r
  <2>5. CASE x < r.left
    <3>1. r.left - 1 \in right
      BY <2>1, <2>5 DEF right
    <3>2. px <= r.left - 1
      BY <1>5, <1>9, <2>1, <2>3, <2>4, <3>1
    <3> QED
      BY <2>1, <2>3, <3>2 DEF InRect, r
  <2>6. CASE x >= r.right
    <3>1. r.right \in left
      BY <2>1, <2>6 DEF left
    <3>2. r.right <= px
      BY <1>3, <1>9, <2>1, <2>3, <2>4, <3>1
    <3> QED
      BY <2>1, <2>3, <3>2 DEF InRect, r
  <2>7. CASE y < r.top
    <3>1. r.top - 1 \in below
      BY <2>1, <2>7 DEF below
    <3>2. py <= r.top - 1
      BY <1>6, <1>9, <2>1, <2>3, <2>4, <3>1
    <3> QED
      BY <2>1, <2>3, <3>2 DEF InRect, r
  <2>8. CASE y >= r.bottom
    <3>1. r.bottom \in above
      BY <2>1, <2>8 DEF above
    <3>2. r.bottom <= py
      BY <1>4, <1>9, <2>1, <2>3, <2>4, <3>1
    <3> QED
      BY <2>1, <2>3, <3>2 DEF InRect, r
  <2> QED
    BY <2>1, <2>2, <2>5, <2>6, <2>7, <2>8 DEF InRect
<1>11. OutsideBox(reg, x, y) \in Boxes /\ OutsideBox(reg, x, y).result = FALSE
  BY <1>8, <1>9 DEF Box, Boxes
<1> QED
  BY <1>10, <1>11 DEF SoundBox, Sound, InRegion

(* Whatever the cache was, a test leaves a sound one.                      *)
LEMMA ClipPointSound ==
    ASSUME NEW reg \in Regions, NEW c, SoundBox(reg, c), EmptyKept(reg, c),
           NEW x \in MinCoord .. MaxCoord, NEW y \in MinCoord .. MaxCoord
    PROVE  SoundBox(reg, ClipPoint(reg, c, x, y)) /\ EmptyKept(reg, ClipPoint(reg, c, x, y))
<1>0. x \in Int /\ y \in Int /\ MinCoord \in Int /\ MaxCoord \in Int
  BY ClipAssumption
<1>5. CASE reg = <<>>
  <2>1. c = Box(MinCoord, MinCoord, MaxCoord, MaxCoord, FALSE)
    BY <1>5 DEF EmptyKept
  <2>2. InCache(c, x, y)
    BY <1>0, <2>1 DEF InCache, Box
  <2> QED
    BY <2>2 DEF ClipPoint
<1> SUFFICES ASSUME reg # <<>>
             PROVE  SoundBox(reg, ClipPoint(reg, c, x, y))
  BY <1>5 DEF EmptyKept
<1> DEFINE I == {i \in DOMAIN reg : InRect(reg[i], x, y)}
<1>1. CASE InCache(c, x, y)
  BY <1>1 DEF ClipPoint
<1>2. CASE ~InCache(c, x, y) /\ ~OnScreen(x, y)
  BY <1>0, <1>2, HalfPlaneSound DEF ClipPoint
<1>3. CASE ~InCache(c, x, y) /\ OnScreen(x, y) /\ InRegion(reg, x, y)
  <2>1. reg \in Seq(Rects)
    BY ClipAssumption
  <2>2. I \subseteq Int /\ I # {} /\ \A i \in I : 1 <= i
    BY <1>3, <2>1 DEF InRegion
  <2>3. Min(I) \in I
    <3> HIDE DEF I
    <3> QED
      BY <2>2, MinIsLeast, 1 \in Int
  <2>4. Min(I) \in DOMAIN reg
    BY <2>3
  <2>5. ClipPoint(reg, c, x, y) = RectBox(reg[Min(I)])
    BY <1>3 DEF ClipPoint
  <2> QED
    BY <2>4, <2>5, RectBoxSound
<1>4. CASE ~InCache(c, x, y) /\ OnScreen(x, y) /\ ~InRegion(reg, x, y)
  BY <1>0, <1>4, OutsideSound DEF ClipPoint
<1> QED
  BY <1>1, <1>2, <1>3, <1>4
-----------------------------------------------------------------------------
(* The cache is right to begin with.                                       *)
LEMMA ClipInvStarts == ClipInit => ClipInv
BY DefaultSound DEF ClipInit, ClipInv, EmptyKept, DefaultCache

(* Setting a region and testing a point keep the cache right.              *)
LEMMA ClipInvStep == ClipInv /\ [ClipNext]_clipVars => ClipInv'
<1> SUFFICES ASSUME ClipInv, [ClipNext]_clipVars
             PROVE  ClipInv'
  OBVIOUS
<1>1. ASSUME NEW reg \in Regions, GdSetClipRegion(reg)
      PROVE  ClipInv'
  <2>1. clipregion' = reg /\ cache' = DefaultCache(reg)
    BY <1>1 DEF GdSetClipRegion
  <2>2. SoundBox(clipregion', cache')
    BY <2>1, DefaultSound
  <2>3. EmptyKept(clipregion', cache')
    BY <2>1 DEF EmptyKept, DefaultCache
  <2> QED
    BY <2>1, <2>2, <2>3 DEF ClipInv, SoundBox, Sound, EmptyKept, InCache, InRegion, InRect
<1>2. ASSUME NEW x \in MinCoord .. MaxCoord, NEW y \in MinCoord .. MaxCoord, GdClipPoint(x, y)
      PROVE  ClipInv'
  <2>1. clipregion' = clipregion /\ cache' = ClipPoint(clipregion, cache, x, y)
    BY <1>2 DEF GdClipPoint
  <2>2. /\ clipregion \in Regions
        /\ SoundBox(clipregion, cache) /\ EmptyKept(clipregion, cache)
    BY DEF ClipInv
  <2>3. SoundBox(clipregion', cache') /\ EmptyKept(clipregion', cache')
    BY <2>1, <2>2, ClipPointSound
  <2> QED
    BY <2>1, <2>2, <2>3 DEF ClipInv, SoundBox, Sound, EmptyKept, InCache, InRegion, InRect
<1>3. CASE UNCHANGED clipVars
  BY <1>3 DEF ClipInv, SoundBox, EmptyKept, Sound, InCache, InRegion, InRect, clipVars
<1> QED
  BY <1>1, <1>2, <1>3 DEF ClipNext

(* After any sequence of regions set and points tested, by any drawing     *)
(* routine, the cached result of GdClipPoint is right for its whole box.   *)
THEOREM CacheCorrect == ClipSpec => []CacheSound
<1>1. ClipInv => CacheSound
  BY DEF ClipInv, SoundBox, Sound, CacheSound
<1> QED
  BY <1>1, ClipInvStarts, ClipInvStep, PTL DEF ClipSpec
-----------------------------------------------------------------------------
(* The state a call works on, and showing and hiding the cursor.           *)

Contents == {"app", "cursor", "old"}

Cursors == [x : Int, y : Int, mask : CursorMasks]

(* The pixels under a cursor that is not known.                            *)
Savings == UNION {[A -> Contents] : A \in SUBSET Pixels}

Frames == [Pixels -> Contents]
Counts == [Pixels -> Nat]

Devs == [cache : Boxes, pix : Frames, saved : Savings, visible : Int,
         restore : BOOLEAN, cursor : Cursors, drawn : Counts]

(* How often the cursor is shown, or still to be shown.                    *)
Count(d) == d.visible + (IF d.restore THEN 1 ELSE 0)

Shown(d) == IF d.visible > 0 THEN Under(d.cursor) ELSE {}

Intact(d) ==
    /\ d.pix = [p \in Pixels |-> IF p \in Shown(d) THEN "cursor" ELSE "app"]
    /\ d.saved = [p \in Shown(d) |-> "app"]

CacheGood(c) == SoundBox(clipregion, c) /\ EmptyKept(clipregion, c)

(* What holds of the state a call works on; n is 1, or 0 around a blit that*)
(* the cursor was hidden for.                                              *)
Good(d, n) ==
    /\ d \in Devs
    /\ CacheGood(d.cache)
    /\ MaxVisible <= 1 => Count(d) <= n /\ Intact(d)

(* While it draws, a call may hide the cursor and does not show it.        *)
Since(d, e) == e.cursor = d.cursor /\ e.visible <= d.visible

(* Drawing or reading a point of P does not meet the cursor.               *)
Apart(d, P) == MaxVisible <= 1 => d.visible <= 0 \/ Under(d.cursor) \cap P = {}

(* Each field of the state a call works on may take any value of its type. *)
LEMMA DevChanged ==
    ASSUME NEW d \in Devs
    PROVE  /\ \A c \in Boxes    : [d EXCEPT !.cache = c] \in Devs
           /\ \A q \in Frames   : [d EXCEPT !.pix = q] \in Devs
           /\ \A s \in Savings  : [d EXCEPT !.saved = s] \in Devs
           /\ \A v \in Int      : [d EXCEPT !.visible = v] \in Devs
           /\ \A b \in BOOLEAN  : [d EXCEPT !.restore = b] \in Devs
           /\ \A c \in Cursors  : [d EXCEPT !.cursor = c] \in Devs
           /\ \A k \in Counts   : [d EXCEPT !.drawn = k] \in Devs
BY DEF Devs

(* GdShowCursor saves and covers the pixels, unless the cursor is shown    *)
(* already.                                                                *)
LEMMA ShowGood ==
    ASSUME NEW n \in Int, n <= 1, NEW d, Good(d, n - 1)
    PROVE  /\ Good(GdShowCursor(d), n)
           /\ GdShowCursor(d).restore = d.restore
<1> DEFINE e == GdShowCursor(d)
<1>1. d \in Devs /\ Under(d.cursor) \subseteq Pixels
  BY DEF Good, Under
<1>2. CASE d.visible # 0
  <2>1. e = [d EXCEPT !.visible = @ + 1]
    BY <1>2 DEF GdShowCursor
  <2>2. e \in Devs
    BY <1>1, <2>1 DEF Devs
  <2>3. /\ e.cache = d.cache /\ e.pix = d.pix /\ e.saved = d.saved /\ e.restore = d.restore
        /\ e.cursor = d.cursor /\ e.visible = d.visible + 1
    BY <1>1, <2>1 DEF Devs
  <2>4. d.visible \in Int /\ d.restore \in BOOLEAN
    BY <1>1 DEF Devs
  <2> HIDE DEF e
  <2>5. ASSUME MaxVisible <= 1
        PROVE  Count(e) <= n /\ Intact(e)
    <3>1. Count(d) <= n - 1 /\ Intact(d)
      BY <2>5 DEF Good
    <3>2. d.visible <= n - 1
      BY <2>4, <3>1 DEF Count
    <3>3. Shown(d) = {} /\ Shown(e) = {}
      BY <1>2, <2>3, <2>4, <3>2 DEF Shown
    <3>4. Count(e) <= n
      BY <2>3, <2>4, <3>1 DEF Count
    <3> QED
      BY <2>3, <3>1, <3>3, <3>4 DEF Intact
  <2> QED
    BY <2>2, <2>3, <2>5 DEF Good, e
<1>3. CASE d.visible = 0
  <2> DEFINE S == [p \in Under(d.cursor) |-> d.pix[p]]
             Q == [p \in Pixels |-> IF p \in Under(d.cursor) THEN "cursor" ELSE d.pix[p]]
  <2>1. e = [d EXCEPT !.visible = 1, !.saved = S, !.pix = Q]
    BY <1>1, <1>3 DEF GdShowCursor, Devs
  <2>2. S \in [Under(d.cursor) -> Contents] /\ Q \in Frames
    BY <1>1 DEF Devs, Frames, Contents
  <2> HIDE DEF S, Q, e
  <2>3. S \in Savings
    BY <1>1, <2>2 DEF Savings
  <2>4. e \in Devs
    <3>1. [d EXCEPT !.visible = 1] \in Devs
      BY <1>1, DevChanged
    <3>2. [d EXCEPT !.visible = 1, !.saved = S] \in Devs
      BY <2>3, <3>1, DevChanged
    <3> QED
      BY <2>1, <2>2, <3>2, DevChanged
  <2>5. /\ e.cache = d.cache /\ e.pix = Q /\ e.saved = S /\ e.restore = d.restore
        /\ e.cursor = d.cursor /\ e.visible = 1
    BY <1>1, <2>1 DEF Devs
  <2>6. d.restore \in BOOLEAN
    BY <1>1 DEF Devs
  <2>7. ASSUME MaxVisible <= 1
        PROVE  Count(e) <= n /\ Intact(e)
    <3>1. Count(d) <= n - 1 /\ Intact(d)
      BY <2>7 DEF Good
    <3>2. Count(e) <= n
      BY <1>3, <2>5, <2>6, <3>1 DEF Count
    <3>3. Shown(d) = {} /\ Shown(e) = Under(d.cursor)
      BY <1>3, <2>5 DEF Shown
    <3>4. d.pix = [p \in Pixels |-> "app"]
      BY <3>1, <3>3 DEF Intact
    <3>5. e.pix = [p \in Pixels |-> IF p \in Under(d.cursor) THEN "cursor" ELSE "app"]
      BY <2>5, <3>4 DEF Q
    <3>6. e.saved = [p \in Under(d.cursor) |-> "app"]
      BY <1>1, <2>5, <3>4 DEF S
    <3> QED
      BY <3>2, <3>3, <3>5, <3>6 DEF Intact
  <2> QED
    BY <2>4, <2>5, <2>7 DEF Good, e
<1> QED
  BY <1>2, <1>3

(* The lesser of two integers.                                             *)
LEMMA MinTwo ==
    ASSUME NEW a \in Int, NEW b \in Int
    PROVE  Min({a, b}) = IF a <= b THEN a ELSE b
<1> DEFINE m == IF a <= b THEN a ELSE b
<1>1. m \in Int /\ \A s \in {a, b} : m <= s
  OBVIOUS
<1>2. {a, b} \subseteq Int /\ {a, b} # {}
  OBVIOUS
<1>3. Min({a, b}) \in {a, b} /\ \A s \in {a, b} : Min({a, b}) <= s
  <2> HIDE DEF m
  <2> QED
    BY <1>1, <1>2, MinIsLeast
<1> QED
  BY <1>3

(* The greater of two integers.                                            *)
LEMMA MaxTwo ==
    ASSUME NEW a \in Int, NEW b \in Int
    PROVE  Max({a, b}) = IF a >= b THEN a ELSE b
<1> DEFINE m == IF a >= b THEN a ELSE b
<1>1. m \in Int /\ \A s \in {a, b} : s <= m
  OBVIOUS
<1>2. {a, b} \subseteq Int /\ {a, b} # {}
  OBVIOUS
<1>3. Max({a, b}) \in {a, b} /\ \A s \in {a, b} : s <= Max({a, b})
  <2> HIDE DEF m
  <2> QED
    BY <1>1, <1>2, MaxIsGreatest
<1> QED
  BY <1>3

(* The cursor is hidden from where it was shown, wherever it is by then.   *)
LEMMA HideGood ==
    ASSUME NEW n \in Int, n <= 1, NEW d, Good(d, n), NEW c \in Cursors
    PROVE  LET e == GdHideCursor([d EXCEPT !.cursor = c])
           IN  /\ Good(e, n - 1)
               /\ e.restore = d.restore /\ e.cursor = c /\ e.visible = d.visible - 1
               /\ e.cache = d.cache /\ e.drawn = d.drawn
<1> DEFINE f == [d EXCEPT !.cursor = c]
           e == GdHideCursor(f)
           Q == [p \in Pixels |-> IF p \in DOMAIN d.saved THEN d.saved[p] ELSE d.pix[p]]
           S == IF d.visible = 1 THEN [p \in {} |-> "app"] ELSE d.saved
<1>1. d \in Devs /\ f \in Devs
  BY DevChanged DEF Good
<1>2. /\ f.cache = d.cache /\ f.pix = d.pix /\ f.saved = d.saved /\ f.visible = d.visible
      /\ f.restore = d.restore /\ f.cursor = c /\ f.drawn = d.drawn
  BY <1>1 DEF Devs
<1>3. /\ d.visible \in Int /\ d.restore \in BOOLEAN /\ d.saved \in Savings /\ d.pix \in Frames
  BY <1>1 DEF Devs
<1> HIDE DEF f
<1>4. CASE d.visible <= 0
  <2>1. e = [f EXCEPT !.visible = f.visible - 1]
    BY <1>2, <1>4 DEF GdHideCursor
  <2> HIDE DEF e
  <2>2. e \in Devs
    BY <1>1, <1>2, <1>3, <2>1, DevChanged
  <2>3. /\ e.cache = d.cache /\ e.pix = d.pix /\ e.saved = d.saved /\ e.restore = d.restore
        /\ e.cursor = c /\ e.visible = d.visible - 1 /\ e.drawn = d.drawn
    BY <1>1, <1>2, <2>1 DEF Devs
  <2>4. ASSUME MaxVisible <= 1
        PROVE  Count(e) <= n - 1 /\ Intact(e)
    <3>1. Count(d) <= n /\ Intact(d)
      BY <2>4 DEF Good
    <3>2. Shown(d) = {} /\ Shown(e) = {}
      BY <1>3, <1>4, <2>3 DEF Shown
    <3>3. Count(e) <= n - 1
      BY <1>3, <2>3, <3>1 DEF Count
    <3> QED
      BY <2>3, <3>1, <3>2, <3>3 DEF Intact
  <2> QED
    BY <2>2, <2>3, <2>4 DEF Good, e, f
<1>5. CASE d.visible > 0
  <2>1. e = [f EXCEPT !.visible = f.visible - 1, !.pix = Q, !.saved = S]
    BY <1>1, <1>2, <1>3, <1>5 DEF GdHideCursor, Devs
  <2>2. Q \in Frames
    BY <1>3 DEF Frames, Savings, Contents
  <2>3. S \in Savings
    <3>1. [p \in {} |-> "app"] \in [{} -> Contents]
      BY DEF Contents
    <3> QED
      BY <1>3, <3>1 DEF Savings
  <2> HIDE DEF e, Q, S
  <2>4. e \in Devs
    <3>1. [f EXCEPT !.visible = f.visible - 1] \in Devs
      BY <1>1, <1>2, <1>3, DevChanged
    <3>2. [f EXCEPT !.visible = f.visible - 1, !.pix = Q] \in Devs
      BY <2>2, <3>1, DevChanged
    <3> QED
      BY <2>1, <2>3, <3>2, DevChanged
  <2>5. /\ e.cache = d.cache /\ e.pix = Q /\ e.saved = S /\ e.restore = d.restore
        /\ e.cursor = c /\ e.visible = d.visible - 1 /\ e.drawn = d.drawn
    BY <1>1, <1>2, <2>1 DEF Devs
  <2>6. ASSUME MaxVisible <= 1
        PROVE  Count(e) <= n - 1 /\ Intact(e)
    <3>1. Count(d) <= n /\ Intact(d)
      BY <2>6 DEF Good
    <3>2. d.visible = 1
      BY <1>3, <1>5, <3>1 DEF Count
    <3>3. Shown(d) = Under(d.cursor) /\ Shown(e) = {}
      BY <1>3, <1>5, <2>5, <3>2 DEF Shown
    <3>4. Count(e) <= n - 1
      BY <1>3, <2>5, <3>1 DEF Count
    <3>5. e.saved = [p \in {} |-> "app"]
      BY <2>5, <3>2 DEF S
    <3>6. e.pix = [p \in Pixels |-> "app"]
      <4>1. d.saved = [p \in Under(d.cursor) |-> "app"]
        BY <3>1, <3>3 DEF Intact
      <4>2. d.pix = [p \in Pixels |-> IF p \in Under(d.cursor) THEN "cursor" ELSE "app"]
        BY <3>1, <3>3 DEF Intact
      <4> QED
        BY <2>5, <4>1, <4>2 DEF Q
    <3> QED
      BY <3>3, <3>4, <3>5, <3>6 DEF Intact
  <2> QED
    BY <2>4, <2>5, <2>6 DEF Good, e, f
<1> QED
  BY <1>3, <1>4, <1>5

Span(x1, y1, x2, y2) ==
    (Min({x1, x2}) .. Max({x1, x2})) \X (Min({y1, y2}) .. Max({y1, y2}))

(* A pixel under a cursor is within the cursor's size.                     *)
LEMMA UnderShape ==
    ASSUME NEW c \in Cursors, NEW p \in Under(c)
    PROVE  /\ c.x <= p[1] /\ p[1] <= c.x + CursorSize - 1
           /\ c.y <= p[2] /\ p[2] <= c.y + CursorSize - 1
           /\ c.x \in Int /\ c.y \in Int /\ p \in Int \X Int
<1>1. PICK m \in c.mask : p = <<c.x + m[1], c.y + m[2]>>
  BY DEF Under
<1>2. m \in (0 .. CursorSize - 1) \X (0 .. CursorSize - 1)
  BY CursorAssumption DEF Cursors
<1>3. c.x \in Int /\ c.y \in Int
  BY DEF Cursors
<1> QED
  BY <1>1, <1>2, <1>3, CursorAssumption

(* After GdCheckCursor the cursor is not where the call will draw or read. *)
LEMMA CheckGood ==
    ASSUME NEW n \in Int, n <= 1, NEW d, Good(d, n),
           NEW x1 \in Int, NEW y1 \in Int, NEW x2 \in Int, NEW y2 \in Int
    PROVE  LET e == GdCheckCursor(d, x1, y1, x2, y2)
           IN  /\ Good(e, n)
               /\ Since(d, e)
               /\ Apart(e, Span(x1, y1, x2, y2))
               /\ e.cache = d.cache /\ e.drawn = d.drawn
<1>1. d \in Devs /\ d.cursor \in Cursors /\ d.visible \in Int /\ d.restore \in BOOLEAN
  BY DEF Good, Devs
<1>2. CASE d.visible > 0 /\ Meets(d.cursor, x1, y1, x2, y2)
  <2> DEFINE h == GdHideCursor(d)
             e == [h EXCEPT !.restore = TRUE]
  <2>1. GdCheckCursor(d, x1, y1, x2, y2) = e
    BY <1>2 DEF GdCheckCursor
  <2>2. [d EXCEPT !.cursor = d.cursor] = d
    BY <1>1 DEF Devs
  <2>3. /\ Good(h, n - 1)
        /\ h.restore = d.restore /\ h.cursor = d.cursor /\ h.visible = d.visible - 1
        /\ h.cache = d.cache /\ h.drawn = d.drawn
    BY <1>1, <2>2, HideGood
  <2> HIDE DEF h
  <2>4. h \in Devs /\ e \in Devs
    BY <2>3, DevChanged DEF Good
  <2>5. /\ e.cache = h.cache /\ e.drawn = h.drawn /\ e.pix = h.pix /\ e.saved = h.saved
        /\ e.cursor = h.cursor /\ e.visible = h.visible /\ e.restore = TRUE
    BY <2>4 DEF Devs
  <2> HIDE DEF e
  <2>6. ASSUME MaxVisible <= 1
        PROVE  Count(e) <= n /\ Intact(e) /\ e.visible <= 0
    <3>1. Count(h) <= n - 1 /\ Intact(h) /\ Count(d) <= n
      BY <2>3, <2>6 DEF Good
    <3>2. Count(e) <= n /\ e.visible <= 0
      BY <1>1, <1>2, <2>3, <2>5, <3>1 DEF Count
    <3>3. Shown(e) = Shown(h)
      BY <2>5 DEF Shown
    <3> QED
      BY <2>5, <3>1, <3>2, <3>3 DEF Intact
  <2>7. Good(e, n)
    BY <2>3, <2>4, <2>5, <2>6 DEF Good
  <2>8. Since(d, e)
    BY <1>1, <2>3, <2>5 DEF Since
  <2> QED
    BY <2>1, <2>3, <2>5, <2>6, <2>7, <2>8 DEF Apart
<1>3. CASE d.visible <= 0 \/ ~Meets(d.cursor, x1, y1, x2, y2)
  <2>1. GdCheckCursor(d, x1, y1, x2, y2) = d
    BY <1>1, <1>3 DEF GdCheckCursor
  <2>2. ASSUME ~Meets(d.cursor, x1, y1, x2, y2), NEW p \in Under(d.cursor),
               p \in Span(x1, y1, x2, y2)
        PROVE  FALSE
    <3> DEFINE l == Min({x1, x2})
               r == Max({x1, x2})
               t == Min({y1, y2})
               b == Max({y1, y2})
    <3>1. l \in Int /\ r \in Int /\ t \in Int /\ b \in Int
      BY MinTwo, MaxTwo
    <3>2. p[1] \in l .. r /\ p[2] \in t .. b
      BY <2>2 DEF Span
    <3>3. ~(/\ l <= d.cursor.x + CursorSize - 1 /\ r >= d.cursor.x
            /\ t <= d.cursor.y + CursorSize - 1 /\ b >= d.cursor.y)
      BY <2>2 DEF Meets
    <3> HIDE DEF l, r, t, b
    <3> QED
      BY <1>1, <2>2, <3>1, <3>2, <3>3, UnderShape, CursorAssumption
  <2>3. Apart(d, Span(x1, y1, x2, y2))
    BY <1>3, <2>2 DEF Apart
  <2>4. Since(d, d)
    BY <1>1 DEF Since
  <2> QED
    BY <2>1, <2>3, <2>4
<1> QED
  BY <1>1, <1>2, <1>3

(* A cursor that is out of the way stays so while a call goes on.          *)
LEMMA ApartSince ==
    ASSUME NEW d \in Devs, NEW e \in Devs, Since(d, e), NEW P, Apart(d, P)
    PROVE  Apart(e, P)
<1>1. d.visible \in Int /\ e.visible \in Int
  BY DEF Devs
<1> QED
  BY <1>1 DEF Since, Apart

(* The parts of a call follow each other.                                  *)
LEMMA SinceTransitive ==
    ASSUME NEW d \in Devs, NEW e \in Devs, NEW f \in Devs, Since(d, e), Since(e, f)
    PROVE  Since(d, f)
<1>1. d.visible \in Int /\ e.visible \in Int /\ f.visible \in Int
  BY DEF Devs
<1> QED
  BY <1>1 DEF Since

(* GdFixCursor shows the cursor that was to be restored, and draws         *)
(* nothing.                                                                *)
LEMMA FixGood ==
    ASSUME NEW n \in Int, n <= 1, NEW d, Good(d, n)
    PROVE  /\ Good(GdFixCursor(d), n)
           /\ GdFixCursor(d).restore = FALSE
           /\ GdFixCursor(d).drawn = d.drawn
<1>1. d \in Devs /\ d.visible \in Int /\ d.restore \in BOOLEAN
  BY DEF Good, Devs
<1>2. CASE d.restore
  <2> DEFINE g == [d EXCEPT !.restore = FALSE]
             s == GdShowCursor(d)
             e == [s EXCEPT !.restore = FALSE]
  <2>1. GdFixCursor(d) = e
    BY <1>2 DEF GdFixCursor
  <2>2. g \in Devs
    BY <1>1, DevChanged
  <2>3. /\ g.cache = d.cache /\ g.drawn = d.drawn /\ g.pix = d.pix /\ g.saved = d.saved
        /\ g.cursor = d.cursor /\ g.visible = d.visible /\ g.restore = FALSE
    BY <1>1 DEF Devs
  <2>4. e = GdShowCursor(g)
    <3> DEFINE S == [p \in Under(d.cursor) |-> d.pix[p]]
               Q == [p \in Pixels |-> IF p \in Under(d.cursor) THEN "cursor" ELSE d.pix[p]]
    <3>1. CASE d.visible # 0
      <4>1. s = [d EXCEPT !.visible = d.visible + 1]
        BY <3>1 DEF GdShowCursor
      <4>2. GdShowCursor(g) = [g EXCEPT !.visible = d.visible + 1]
        BY <2>3, <3>1 DEF GdShowCursor
      <4> QED
        BY <1>1, <4>1, <4>2 DEF Devs
    <3>2. CASE d.visible = 0
      <4>1. s = [d EXCEPT !.visible = 1, !.saved = S, !.pix = Q]
        BY <1>1, <3>2 DEF GdShowCursor, Devs
      <4>2. GdShowCursor(g) = [g EXCEPT !.visible = 1, !.saved = S, !.pix = Q]
        BY <1>1, <2>2, <2>3, <3>2 DEF GdShowCursor, Devs
      <4> HIDE DEF S, Q
      <4> QED
        BY <1>1, <4>1, <4>2 DEF Devs
    <3> QED
      BY <3>1, <3>2
  <2>5. Good(g, n - 1)
    <3> HIDE DEF g
    <3>1. Count(g) = Count(d) - 1 /\ Shown(g) = Shown(d)
      BY <1>1, <1>2, <2>3 DEF Count, Shown
    <3>2. Count(d) \in Int
      BY <1>1 DEF Count
    <3> QED
      BY <2>2, <2>3, <3>1, <3>2 DEF Good, Intact
  <2>6. s \in Devs
    <3>1. CASE d.visible # 0
      BY <1>1, <3>1, DevChanged DEF GdShowCursor
    <3>2. CASE d.visible = 0
      <4> DEFINE S == [p \in Under(d.cursor) |-> d.pix[p]]
                 Q == [p \in Pixels |-> IF p \in Under(d.cursor) THEN "cursor" ELSE d.pix[p]]
      <4>1. s = [d EXCEPT !.visible = 1, !.saved = S, !.pix = Q]
        BY <1>1, <3>2 DEF GdShowCursor, Devs
      <4>2. S \in [Under(d.cursor) -> Contents] /\ Q \in Frames
        BY <1>1 DEF Under, Frames, Contents, Devs
      <4> HIDE DEF S, Q
      <4>3. S \in Savings /\ Q \in Frames
        BY <4>2 DEF Savings, Under
      <4>4. [d EXCEPT !.visible = 1] \in Devs
        BY <1>1, DevChanged
      <4>5. [d EXCEPT !.visible = 1, !.saved = S] \in Devs
        BY <4>3, <4>4, DevChanged
      <4> QED
        BY <4>1, <4>3, <4>5, DevChanged
    <3> QED
      BY <3>1, <3>2
  <2>7. e.restore = FALSE
    <3> HIDE DEF s
    <3> QED
      BY <2>6 DEF Devs
  <2>8. Good(e, n)
    <3> HIDE DEF e, g
    <3> QED
      BY <2>4, <2>5, ShowGood
  <2>9. e.drawn = d.drawn
    <3>1. GdShowCursor(g).drawn = g.drawn
      BY <2>2 DEF GdShowCursor, Devs
    <3> QED
      BY <2>3, <2>4, <3>1
  <2> QED
    BY <2>1, <2>7, <2>8, <2>9
<1>3. CASE ~d.restore
  BY <1>1, <1>3 DEF GdFixCursor
<1> QED
  BY <1>1, <1>2, <1>3

(* What is drawn away from the cursor is on the screen.                    *)
LEMMA DrawGood ==
    ASSUME NEW n \in Int, n <= 1, NEW d, Good(d, n), NEW P, Apart(d, P)
    PROVE  LET e == Draw(d, P)
           IN  /\ Good(e, n)
               /\ Since(d, e)
               /\ e.cache = d.cache
               /\ e.drawn = [p \in Pixels |-> IF p \in P THEN d.drawn[p] + 1 ELSE d.drawn[p]]
<1> DEFINE Q == [p \in Pixels |-> IF p \in P THEN "app" ELSE d.pix[p]]
           S == [p \in DOMAIN d.saved |-> IF p \in P THEN "old" ELSE d.saved[p]]
           K == [p \in Pixels |-> IF p \in P THEN d.drawn[p] + 1 ELSE d.drawn[p]]
           e == Draw(d, P)
<1>1. /\ d \in Devs /\ d.visible \in Int /\ d.restore \in BOOLEAN
      /\ d.pix \in Frames /\ d.saved \in Savings /\ d.drawn \in Counts
  BY DEF Good, Devs
<1>2. e = [d EXCEPT !.pix = Q, !.saved = S, !.drawn = K]
  BY <1>1 DEF Draw, Devs
<1>3. Q \in Frames
  BY <1>1 DEF Frames, Contents
<1>4. S \in Savings
  <2>1. PICK A \in SUBSET Pixels : d.saved \in [A -> Contents]
    BY <1>1 DEF Savings
  <2>2. S \in [A -> Contents]
    BY <2>1 DEF Contents
  <2> QED
    BY <2>2 DEF Savings
<1>5. K \in Counts
  BY <1>1 DEF Counts
<1> HIDE DEF e, Q, S, K
<1>6. e \in Devs
  <2>1. [d EXCEPT !.pix = Q] \in Devs
    BY <1>1, <1>3, DevChanged
  <2>2. [d EXCEPT !.pix = Q, !.saved = S] \in Devs
    BY <1>4, <2>1, DevChanged
  <2> QED
    BY <1>2, <1>5, <2>2, DevChanged
<1>7. /\ e.cache = d.cache /\ e.pix = Q /\ e.saved = S /\ e.restore = d.restore
      /\ e.cursor = d.cursor /\ e.visible = d.visible /\ e.drawn = K
  BY <1>1, <1>2 DEF Devs
<1>8. ASSUME MaxVisible <= 1
      PROVE  Count(e) <= n /\ Intact(e)
  <2>1. Count(d) <= n /\ Intact(d)
    BY <1>8 DEF Good
  <2>2. Count(e) = Count(d) /\ Shown(e) = Shown(d)
    BY <1>7 DEF Count, Shown
  <2>3. Shown(d) \cap P = {}
    BY <1>1, <1>8 DEF Shown, Apart
  <2>4. Q = d.pix
    BY <2>1, <2>3 DEF Q, Intact
  <2>5. S = d.saved
    BY <2>1, <2>3 DEF S, Intact
  <2> QED
    BY <1>7, <2>1, <2>2, <2>4, <2>5 DEF Intact
<1>9. Good(e, n) /\ Since(d, e)
  BY <1>1, <1>6, <1>7, <1>8 DEF Good, Since
<1> QED
  BY <1>7, <1>9 DEF e, K

(* The box that GdClipPoint leaves holds the point that was tested.        *)
LEMMA ClipPointHolds ==
    ASSUME NEW reg \in Regions, NEW c, NEW x \in Coords, NEW y \in Coords
    PROVE  InCache(ClipPoint(reg, c, x, y), x, y)
<1>1. /\ MinCoord \in Int /\ MaxCoord \in Int /\ XVirtRes \in Nat /\ YVirtRes \in Nat
      /\ MinCoord < 0 /\ x \in Int /\ y \in Int /\ MinCoord <= x /\ x <= MaxCoord
      /\ MinCoord <= y /\ y <= MaxCoord
  BY ClipAssumption DEF Coords
<1>2. CASE InCache(c, x, y)
  BY <1>2 DEF ClipPoint
<1>3. CASE ~InCache(c, x, y) /\ ~OnScreen(x, y)
  <2>1. ClipPoint(reg, c, x, y) = HalfPlane(x, y)
    BY <1>3 DEF ClipPoint
  <2> QED
    BY <1>1, <1>3, <2>1 DEF HalfPlane, InCache, Box, OnScreen
<1>4. CASE ~InCache(c, x, y) /\ OnScreen(x, y) /\ reg = <<>>
  BY <1>1, <1>4 DEF ClipPoint, InCache, Box, OnScreen
<1>5. CASE ~InCache(c, x, y) /\ OnScreen(x, y) /\ reg # <<>> /\ InRegion(reg, x, y)
  <2> DEFINE I == {i \in DOMAIN reg : InRect(reg[i], x, y)}
  <2>1. reg \in Seq(Rects)
    BY ClipAssumption
  <2>2. I \subseteq Int /\ I # {} /\ \A i \in I : 1 <= i
    BY <1>5, <2>1 DEF InRegion
  <2>3. Min(I) \in I
    <3> HIDE DEF I
    <3> QED
      BY <2>2, MinIsLeast, 1 \in Int
  <2>4. Min(I) \in DOMAIN reg /\ InRect(reg[Min(I)], x, y)
    BY <2>3
  <2>5. ClipPoint(reg, c, x, y) = RectBox(reg[Min(I)])
    BY <1>5 DEF ClipPoint
  <2> HIDE DEF I
  <2> QED
    BY <1>1, <2>4, <2>5, RectOfRegion DEF RectBox, Box, InCache, InRect
<1>6. CASE ~InCache(c, x, y) /\ OnScreen(x, y) /\ reg # <<>> /\ ~InRegion(reg, x, y)
  <2> DEFINE R      == {reg[i] : i \in DOMAIN reg}
             left   == {MinCoord} \cup {r.right : r \in {q \in R : x >= q.right}}
             above  == {MinCoord} \cup {r.bottom : r \in {q \in R : y >= q.bottom}}
             right  == {MaxCoord} \cup {r.left - 1 : r \in {q \in R : x < q.left}}
             below  == {MaxCoord} \cup {r.top - 1 : r \in {q \in R : y < q.top}}
  <2>1. \A r \in R : r.left \in Nat /\ r.right \in Nat /\ r.top \in Nat /\ r.bottom \in Nat
    BY RectOfRegion
  <2>2. left # {} /\ left \subseteq Int /\ \A s \in left : s <= x
    BY <1>1, <2>1
  <2>3. above # {} /\ above \subseteq Int /\ \A s \in above : s <= y
    BY <1>1, <2>1
  <2>4. right # {} /\ right \subseteq Int /\ \A s \in right : x <= s
    BY <1>1, <2>1
  <2>5. below # {} /\ below \subseteq Int /\ \A s \in below : y <= s
    BY <1>1, <2>1
  <2>6. ClipPoint(reg, c, x, y) = Box(Max(left), Max(above), Min(right), Min(below), FALSE)
    BY <1>6 DEF ClipPoint, OutsideBox
  <2> HIDE DEF left, above, right, below
  <2>7. Max(left) \in left /\ Max(above) \in above /\ Min(right) \in right /\ Min(below) \in below
    BY <1>1, <2>2, <2>3, <2>4, <2>5, MinIsLeast, MaxIsGreatest
  <2>8. Max(left) <= x /\ Max(above) <= y /\ x <= Min(right) /\ y <= Min(below)
    BY <2>2, <2>3, <2>4, <2>5, <2>7
  <2> QED
    BY <2>6, <2>8 DEF InCache, Box
<1> QED
  BY <1>2, <1>3, <1>4, <1>5, <1>6
-----------------------------------------------------------------------------
(* Loops, and testing and drawing a point.                                 *)

Looped(f, N, a, G) == f = [n \in 0 .. N |-> IF n = 0 THEN a ELSE G[<<f[n - 1], n>>]]

(* A loop of at most N turns, the k-th from s to G[<<s, k>>].               *)
LEMMA LoopExists ==
    ASSUME NEW N \in Nat, NEW a, NEW G
    PROVE  \E f : Looped(f, N, a, G)
<1> USE DEF Looped
<1> DEFINE Upto(m) == \E f : f = [n \in 0 .. m |-> IF n = 0 THEN a ELSE G[<<f[n - 1], n>>]]
           T == {m \in 0 .. N : ~Upto(m)}
<1>1. CASE T = {}
  BY <1>1, SMTT(30)
<1>2. CASE T # {}
  <2>1. T \subseteq Nat
    OBVIOUS
  <2>2. PICK m \in T : \A k \in T : m <= k
    <3> HIDE DEF T
    <3> QED
      BY <1>2, <2>1, SmallestOfNats
  <2>3. m \in 0 .. N /\ ~Upto(m)
    OBVIOUS
  <2>4. CASE m = 0
    <3> DEFINE f == [n \in 0 .. 0 |-> a]
    <3>1. f = [n \in 0 .. 0 |-> IF n = 0 THEN a ELSE G[<<f[n - 1], n>>]]
      OBVIOUS
    <3> QED
      BY <2>3, <2>4, <3>1
  <2>5. CASE m > 0
    <3>1. m - 1 \in 0 .. N /\ ~(m - 1 \in T)
      BY <2>2, <2>3, <2>5
    <3>2. Upto(m - 1)
      BY <3>1
    <3>3. PICK f : f = [n \in 0 .. m - 1 |-> IF n = 0 THEN a ELSE G[<<f[n - 1], n>>]]
      BY <3>2
    <3> DEFINE g == [n \in 0 .. m |-> IF n = 0 THEN a ELSE G[<<f[n - 1], n>>]]
    <3>4. ASSUME NEW n \in 0 .. m, n # 0
          PROVE  g[n - 1] = f[n - 1]
      BY <2>3, <3>3, <3>4
    <3>5. g = [n \in 0 .. m |-> IF n = 0 THEN a ELSE G[<<g[n - 1], n>>]]
      BY <3>4
    <3> HIDE DEF g
    <3> QED
      BY <2>3, <3>5
  <2> QED
    BY <2>3, <2>4, <2>5
<1> QED
  BY <1>1, <1>2

(* What each turn of a loop keeps holds after all of them.                 *)
LEMMA LoopKeeps ==
    ASSUME NEW N \in Nat, NEW f, NEW T, f[0] \in T[0],
           \A k \in 1 .. N : f[k - 1] \in T[k - 1] => f[k] \in T[k]
    PROVE  \A k \in 0 .. N : f[k] \in T[k]
<1> DEFINE C == {k \in 0 .. N : ~(f[k] \in T[k])}
<1>1. CASE C # {}
  <2>1. C \subseteq Nat
    OBVIOUS
  <2>2. PICK m \in C : \A k \in C : m <= k
    <3> HIDE DEF C
    <3> QED
      BY <1>1, <2>1, SmallestOfNats
  <2>3. m \in 1 .. N
    OBVIOUS
  <2>4. m - 1 \in 0 .. N /\ ~(m - 1 \in C)
    BY <2>2, <2>3
  <2>5. f[m - 1] \in T[m - 1]
    BY <2>4
  <2> QED
    BY <2>2, <2>3, <2>5
<1> QED
  BY <1>1

(* If each turn goes on from a state of T and comes to one, so does the    *)
(* loop.                                                                   *)
LEMMA LoopRuns ==
    ASSUME NEW N \in Nat, NEW S, NEW T, \A k \in 0 .. N : T[k] \subseteq S,
           NEW a \in T[0], NEW G, \A k \in 1 .. N : \A s \in T[k - 1] : G[<<s, k>>] \in T[k]
    PROVE  \E f : Looped(f, N, a, G) /\ \A k \in 0 .. N : f[k] \in T[k]
<1>1. PICK f : Looped(f, N, a, G)
  BY LoopExists
<1>2. f[0] = a /\ \A k \in 1 .. N : f[k] = G[<<f[k - 1], k>>]
  BY <1>1 DEF Looped
<1>3. \A k \in 0 .. N : f[k] \in T[k]
  BY <1>2, LoopKeeps
<1> QED
  BY <1>1, <1>3

(* The pixels of P that may be drawn have been drawn once more.            *)
Painted(d, P) == [p \in Pixels |-> d.drawn[p] + Clipped(P)[p]]

(* A cache that is right may take the place of another.                    *)
LEMMA CacheChanged ==
    ASSUME NEW n \in Int, NEW d, Good(d, n), NEW c, CacheGood(c)
    PROVE  LET e == [d EXCEPT !.cache = c]
           IN  /\ Good(e, n) /\ Since(d, e)
               /\ e.cache = c /\ e.drawn = d.drawn /\ e.restore = d.restore
<1> DEFINE e == [d EXCEPT !.cache = c]
<1>1. d \in Devs /\ c \in Boxes /\ d.visible \in Int
  BY DEF Good, CacheGood, SoundBox, Devs
<1>2. e \in Devs
  BY <1>1, DevChanged
<1>3. /\ e.cache = c /\ e.pix = d.pix /\ e.saved = d.saved /\ e.restore = d.restore
      /\ e.cursor = d.cursor /\ e.visible = d.visible /\ e.drawn = d.drawn
  BY <1>1 DEF Devs
<1> HIDE DEF e
<1>4. Good(e, n)
  BY <1>2, <1>3 DEF Good, Count, Intact, Shown
<1>5. Since(d, e)
  BY <1>1, <1>3 DEF Since
<1> QED
  BY <1>3, <1>4, <1>5 DEF e

(* GdClipPoint leaves a cache that is right; a visible point has no cursor *)
(* over it then.                                                           *)
LEMMA TestGood ==
    ASSUME clipregion \in Regions, NEW n \in Int, n <= 1, NEW d, Good(d, n),
           NEW x \in Coords, NEW y \in Coords
    PROVE  LET e == Test(d, x, y)
           IN  /\ Good(e, n) /\ Since(d, e) /\ e.drawn = d.drawn
               /\ InCache(e.cache, x, y)
               /\ e.cache.result => Apart(e, {<<x, y>>})
               /\ ~e.cache.result => e.restore = d.restore
<1> DEFINE c == ClipPoint(clipregion, d.cache, x, y)
           f == [d EXCEPT !.cache = c]
           e == GdCheckCursor(f, x, y, x, y)
<1>1. x \in Int /\ y \in Int /\ d \in Devs
  BY ClipAssumption DEF Coords, Good
<1>2. CacheGood(c)
  BY ClipPointSound DEF Good, CacheGood, Coords
<1>3. InCache(c, x, y)
  BY ClipPointHolds
<1> HIDE DEF c
<1>4. /\ Good(f, n) /\ Since(d, f)
      /\ f.cache = c /\ f.drawn = d.drawn /\ f.restore = d.restore
  BY <1>2, CacheChanged
<1>5. Test(d, x, y) = IF f.cache.result THEN e ELSE f
  <2>1. [d EXCEPT !.cache = ClipPoint(clipregion, d.cache, x, y)] = f
    BY DEF c
  <2> QED
    BY <1>1, <2>1 DEF Test, Devs
<1> HIDE DEF f
<1>6. /\ Good(e, n) /\ Since(f, e) /\ Apart(e, Span(x, y, x, y))
      /\ e.cache = f.cache /\ e.drawn = f.drawn
  BY <1>1, <1>4, CheckGood
<1> HIDE DEF e
<1>7. Span(x, y, x, y) = {<<x, y>>}
  <2>1. Min({x, x}) = x /\ Max({x, x}) = x /\ Min({y, y}) = y /\ Max({y, y}) = y
    BY <1>1, MinTwo, MaxTwo
  <2>2. x .. x = {x} /\ y .. y = {y}
    BY <1>1
  <2>3. Span(x, y, x, y) = {x} \X {y}
    BY <2>1, <2>2, Zenon DEF Span
  <2> QED
    BY <2>3
<1>8. d \in Devs /\ f \in Devs /\ e \in Devs
  BY <1>4, <1>6 DEF Good
<1>9. Since(d, e)
  BY <1>4, <1>6, <1>8, SinceTransitive
<1> QED
  BY <1>3, <1>4, <1>5, <1>6, <1>7, <1>9

(* The result for a point is right for each point of the cache's box.      *)
LEMMA GoodAnswers ==
    ASSUME NEW n, NEW d, Good(d, n), NEW x \in Coords, NEW y \in Coords, InCache(d.cache, x, y)
    PROVE  d.cache.result <=> InRegion(clipregion, x, y)
BY DEF Good, CacheGood, SoundBox, Sound, Coords

(* A pixel has coordinates.                                                *)
LEMMA PixelCoords ==
    ASSUME NEW p \in Pixels
    PROVE  p[1] \in Coords /\ p[2] \in Coords /\ p = <<p[1], p[2]>>
BY ClipAssumption DEF Pixels, Coords

(* A part of the cache's box drawn, or not, as the result says.            *)
LEMMA DrawPainted ==
    ASSUME clipregion \in Regions, NEW n \in Int, n <= 1, NEW d, Good(d, n),
           NEW P, \A p \in P \cap Pixels : InCache(d.cache, p[1], p[2])
    PROVE  /\ d.cache.result => Draw(d, P).drawn = Painted(d, P)
           /\ ~d.cache.result => d.drawn = Painted(d, P)
<1>1. d \in Devs /\ d.drawn \in [Pixels -> Nat]
  BY DEF Good, Devs, Counts
<1>2. \A p \in P \cap Pixels : d.cache.result <=> InRegion(clipregion, p[1], p[2])
  BY PixelCoords, GoodAnswers
<1>3. d.cache.result => Draw(d, P).drawn = Painted(d, P)
  <2>1. Draw(d, P).drawn = [p \in Pixels |-> IF p \in P THEN d.drawn[p] + 1 ELSE d.drawn[p]]
    BY <1>1 DEF Draw, Devs
  <2> QED
    BY <1>1, <1>2, <2>1 DEF Painted, Clipped
<1>4. ~d.cache.result => d.drawn = Painted(d, P)
  BY <1>1, <1>2 DEF Painted, Clipped
<1> QED
  BY <1>3, <1>4

(* A point is drawn if the clip region lets it through.                    *)
LEMMA PlotGood ==
    ASSUME clipregion \in Regions, NEW n \in Int, n <= 1, NEW d, Good(d, n),
           NEW x \in Coords, NEW y \in Coords
    PROVE  LET e == Plot(d, x, y)
           IN  /\ Good(e, n) /\ Since(d, e)
               /\ e.drawn = Painted(d, {<<x, y>>})
               /\ ~e.cache.result => e.restore = d.restore
<1> DEFINE f == Test(d, x, y)
           e == Draw(f, {<<x, y>>})
<1>1. /\ Good(f, n) /\ Since(d, f) /\ f.drawn = d.drawn
      /\ InCache(f.cache, x, y)
      /\ f.cache.result => Apart(f, {<<x, y>>})
      /\ ~f.cache.result => f.restore = d.restore
  BY TestGood
<1>2. Plot(d, x, y) = IF f.cache.result THEN e ELSE f
  BY DEF Plot
<1> HIDE DEF f
<1>3. /\ f.cache.result => e.drawn = Painted(f, {<<x, y>>})
      /\ ~f.cache.result => f.drawn = Painted(f, {<<x, y>>})
  BY <1>1, DrawPainted
<1>4. Painted(f, {<<x, y>>}) = Painted(d, {<<x, y>>})
  BY <1>1 DEF Painted
<1>5. ASSUME f.cache.result
      PROVE  Good(e, n) /\ Since(f, e) /\ e.cache = f.cache
  BY <1>1, <1>5, DrawGood
<1> HIDE DEF e
<1>6. f.cache.result => Since(d, e)
  BY <1>1, <1>5, SinceTransitive DEF Good
<1> QED
  BY <1>1, <1>2, <1>3, <1>4, <1>5, <1>6
-----------------------------------------------------------------------------
(* Rows and columns.                                                       *)

(* Two shapes without a common point are drawn one after the other.        *)
LEMMA PaintedTwice ==
    ASSUME NEW d \in Devs, NEW e, NEW f, NEW P, NEW Q, P \cap Q = {},
           e.drawn = Painted(d, P), f.drawn = Painted(e, Q)
    PROVE  f.drawn = Painted(d, P \cup Q)
<1>1. d.drawn \in [Pixels -> Nat]
  BY DEF Devs, Counts
<1>2. \A p \in Pixels : e.drawn[p] + Clipped(Q)[p] = d.drawn[p] + Clipped(P \cup Q)[p]
  BY <1>1 DEF Painted, Clipped
<1> QED
  BY <1>2 DEF Painted

(* A cursor out of the way of a shape is out of the way of its parts.      *)
LEMMA ApartPart ==
    ASSUME NEW d, NEW P, Apart(d, P), NEW Q, Q \subseteq P
    PROVE  Apart(d, Q)
BY DEF Apart

(* The loop of drawrow from l to r, after k turns at most: it has come to  *)
(* the end or k points on, and what is behind it is drawn.                 *)
RowDone(d, n, l, r, y, k) ==
    {s \in [dev : Devs, at : Int] :
        /\ Good(s.dev, n) /\ Since(d, s.dev)
        /\ l <= s.at /\ (s.at <= r + 1 \/ s.at = l) /\ (s.at > r \/ s.at >= l + k)
        /\ s.dev.drawn = Painted(d, (l .. s.at - 1) \X {y})}

(* A turn of drawrow's loop draws or skips the row up to the edge of the   *)
(* box.                                                                    *)
LEMMA RowTurnGood ==
    ASSUME clipregion \in Regions, NEW n \in Int, n <= 1, NEW d \in Devs,
           NEW l \in Nat, NEW r \in Int, r < XVirtRes, NEW y \in Coords,
           Apart(d, (l .. r) \X {y}),
           NEW k \in Nat \ {0}, NEW s \in RowDone(d, n, l, r, y, k - 1)
    PROVE  RowTurn(s, r, y) \in RowDone(d, n, l, r, y, k)
<1> DEFINE e    == Test(s.dev, s.at, y)
           stop == Min({e.cache.maxx, r})
           P    == (s.at .. stop) \X {y}
           t    == IF e.cache.result THEN Draw(e, P) ELSE e
<1>1. /\ s \in [dev : Devs, at : Int] /\ s.dev \in Devs /\ s.at \in Int
      /\ Good(s.dev, n) /\ Since(d, s.dev)
      /\ l <= s.at /\ (s.at <= r + 1 \/ s.at = l) /\ (s.at > r \/ s.at >= l + (k - 1))
      /\ s.dev.drawn = Painted(d, (l .. s.at - 1) \X {y})
  BY DEF RowDone
<1>2. CASE s.at > r
  <2>1. RowTurn(s, r, y) = s
    BY <1>2 DEF RowTurn
  <2> QED
    BY <1>1, <1>2, <2>1 DEF RowDone
<1>3. CASE s.at <= r
  <2>1. RowTurn(s, r, y) = [dev |-> t, at |-> stop + 1]
    <3>1. ~(s.at > r)
      BY <1>1, <1>3
    <3> QED
      BY <3>1, Zenon DEF RowTurn
  <2>2. s.at \in Coords
    BY <1>1, <1>3, ClipAssumption DEF Coords
  <2>3. /\ Good(e, n) /\ Since(s.dev, e) /\ e.drawn = s.dev.drawn
        /\ InCache(e.cache, s.at, y)
    BY <1>1, <2>2, TestGood, ZenonT(40)
  <2>4. e \in Devs /\ Since(d, e)
    BY <1>1, <2>3, SinceTransitive DEF Good
  <2>5. e.cache \in Boxes
    BY <2>4 DEF Devs
  <2> HIDE DEF e
  <2>6. /\ stop \in Int /\ s.at <= stop /\ stop <= r /\ stop <= e.cache.maxx
    <3>1. e.cache.maxx \in Int /\ s.at <= e.cache.maxx
      BY <2>3, <2>5 DEF Boxes, InCache
    <3>2. stop = IF e.cache.maxx <= r THEN e.cache.maxx ELSE r
      BY <3>1, MinTwo
    <3> QED
      BY <1>1, <1>3, <3>1, <3>2
  <2> HIDE DEF stop
  <2>7. \A p \in P \cap Pixels : InCache(e.cache, p[1], p[2])
    <3>1. e.cache.minx \in Int /\ e.cache.maxx \in Int
      BY <2>5 DEF Boxes
    <3> QED
      BY <1>1, <2>3, <2>6, <3>1 DEF InCache
  <2>8. Apart(e, P)
    <3>1. Apart(e, (l .. r) \X {y})
      BY <2>4, ApartSince
    <3>2. P \subseteq (l .. r) \X {y}
      BY <1>1, <2>6
    <3> HIDE DEF P
    <3> QED
      BY <3>1, <3>2, ApartPart
  <2>9. Good(t, n) /\ Since(e, t) /\ t.drawn = Painted(e, P)
    <3> HIDE DEF P
    <3>1. CASE e.cache.result
      BY <2>3, <2>7, <2>8, <3>1, DrawGood, DrawPainted
    <3>2. CASE ~e.cache.result
      <4>1. Since(e, e)
        BY <2>4 DEF Since, Devs
      <4> QED
        BY <2>3, <2>7, <3>2, <4>1, DrawPainted
    <3> QED
      BY <3>1, <3>2
  <2> HIDE DEF t
  <2>10. t \in Devs /\ Since(d, t)
    BY <2>4, <2>9, SinceTransitive DEF Good
  <2>11. t.drawn = Painted(d, (l .. stop) \X {y})
    <3>1. ((l .. s.at - 1) \X {y}) \cap P = {}
      BY <1>1, <2>6
    <3>2. ((l .. s.at - 1) \X {y}) \cup P = (l .. stop) \X {y}
      <4>1. (l .. s.at - 1) \cup (s.at .. stop) = l .. stop
        BY <1>1, <2>6
      <4> QED
        BY <4>1
    <3>3. e.drawn = Painted(d, (l .. s.at - 1) \X {y})
      BY <1>1, <2>3
    <3> HIDE DEF P
    <3>4. t.drawn = Painted(d, ((l .. s.at - 1) \X {y}) \cup P)
      BY <2>9, <3>1, <3>3, PaintedTwice
    <3> QED
      BY <3>2, <3>4
  <2> DEFINE q == [dev |-> t, at |-> stop + 1]
  <2>12. /\ q \in [dev : Devs, at : Int] /\ q.dev = t /\ q.at = stop + 1
         /\ q.at - 1 = stop
    BY <2>6, <2>10
  <2>13. l <= q.at /\ q.at <= r + 1 /\ (q.at > r \/ q.at >= l + k)
    BY <1>1, <1>3, <2>6, <2>12
  <2> HIDE DEF q
  <2>14. q \in RowDone(d, n, l, r, y, k)
    BY <2>9, <2>10, <2>11, <2>12, <2>13 DEF RowDone
  <2> QED
    BY <2>1, <2>14 DEF q
<1> QED
  BY <1>1, <1>2, <1>3

(* The loop of drawrow draws the visible part of the row, once.            *)
LEMMA RowFromGood ==
    ASSUME clipregion \in Regions, NEW n \in Int, n <= 1, NEW d, Good(d, n),
           NEW l \in Nat, NEW r \in Int, r < XVirtRes, NEW y \in Coords,
           Apart(d, (l .. r) \X {y})
    PROVE  LET e == RowFrom(d, l, r, y)
           IN  Good(e, n) /\ Since(d, e) /\ e.drawn = Painted(d, (l .. r) \X {y})
<1> DEFINE N == Max({r - l + 1, 0})
           S == [dev : Devs, at : Int]
           T == [k \in 0 .. N |-> RowDone(d, n, l, r, y, k)]
           a == [dev |-> d, at |-> l]
           G == [q \in S \X (1 .. N) |-> RowTurn(q[1], r, y)]
           turn == CHOOSE f :
                       f = [k \in 0 .. N |-> IF k = 0 THEN a ELSE RowTurn(f[k - 1], r, y)]
<1>1. d \in Devs
  BY DEF Good
<1>2. N \in Nat /\ (N = r - l + 1 \/ (r < l /\ N = 0))
  <2>1. r - l + 1 \in Int /\ 0 \in Int
    OBVIOUS
  <2>2. N = IF r - l + 1 >= 0 THEN r - l + 1 ELSE 0
    BY <2>1, MaxTwo
  <2> HIDE DEF N
  <2> QED
    BY <2>1, <2>2
<1>3. RowFrom(d, l, r, y) = turn[N].dev
  BY DEF RowFrom
<1> HIDE DEF N
<1>4. a \in RowDone(d, n, l, r, y, 0)
  <2>1. a \in S /\ a.dev = d /\ a.at = l
    BY <1>1
  <2>2. Since(d, d)
    BY <1>1 DEF Since, Devs
  <2>3. d.drawn = Painted(d, (l .. l - 1) \X {y})
    <3>1. (l .. l - 1) \X {y} = {}
      OBVIOUS
    <3>2. d.drawn \in [Pixels -> Nat]
      BY <1>1 DEF Devs, Counts
    <3> QED
      BY <3>1, <3>2 DEF Painted, Clipped
  <2> HIDE DEF a
  <2>4. /\ l <= a.at /\ a.at = l /\ a.at >= l + 0
        /\ a.dev.drawn = Painted(d, (l .. a.at - 1) \X {y})
    BY <2>1, <2>3
  <2> QED
    BY <2>1, <2>2, <2>4 DEF RowDone
<1>5. \A k \in 1 .. N : \A s \in RowDone(d, n, l, r, y, k - 1) :
          RowTurn(s, r, y) \in RowDone(d, n, l, r, y, k)
  BY <1>1, RowTurnGood
<1>6. \A k \in 0 .. N : RowDone(d, n, l, r, y, k) \subseteq S
  BY DEF RowDone
<1>7. /\ T[0] = RowDone(d, n, l, r, y, 0) /\ T[N] = RowDone(d, n, l, r, y, N)
      /\ \A k \in 0 .. N : T[k] \subseteq S
      /\ \A k \in 1 .. N : /\ k - 1 \in 0 .. N
                           /\ T[k - 1] = RowDone(d, n, l, r, y, k - 1)
                           /\ T[k] = RowDone(d, n, l, r, y, k)
  BY <1>2, <1>6
<1> HIDE DEF T
<1>8. \A k \in 1 .. N : \A s \in T[k - 1] : s \in S /\ G[<<s, k>>] = RowTurn(s, r, y)
  BY <1>7
<1>9. \A k \in 1 .. N : \A s \in T[k - 1] : RowTurn(s, r, y) \in T[k]
  BY <1>5, <1>7
<1> HIDE DEF a, S, G
<1>10. \E f : Looped(f, N, a, G) /\ \A k \in 0 .. N : f[k] \in T[k]
  <2>1. a \in T[0] /\ \A k \in 0 .. N : T[k] \subseteq S
    BY <1>4, <1>7
  <2>2. \A k \in 1 .. N : \A s \in T[k - 1] : G[<<s, k>>] \in T[k]
    BY <1>8, <1>9
  <2> QED
    BY <1>2, <2>1, <2>2, LoopRuns
<1>11. \E f : f = [k \in 0 .. N |-> IF k = 0 THEN a ELSE RowTurn(f[k - 1], r, y)]
  <2>1. PICK f : Looped(f, N, a, G) /\ \A k \in 0 .. N : f[k] \in T[k]
    BY <1>10
  <2>2. ASSUME NEW k \in 1 .. N
        PROVE  G[<<f[k - 1], k>>] = RowTurn(f[k - 1], r, y)
    BY <1>7, <1>8, <2>1
  <2>3. f = [k \in 0 .. N |-> IF k = 0 THEN a ELSE G[<<f[k - 1], k>>]]
    BY <2>1 DEF Looped
  <2>4. \A k \in 0 .. N : k = 0 \/ k \in 1 .. N
    BY <1>2
  <2>5. f = [k \in 0 .. N |-> IF k = 0 THEN a ELSE RowTurn(f[k - 1], r, y)]
    BY <2>2, <2>3, <2>4
  <2> QED
    BY <2>5
<1>12. turn = [k \in 0 .. N |-> IF k = 0 THEN a ELSE RowTurn(turn[k - 1], r, y)]
  BY <1>11, Zenon
<1> HIDE DEF turn
<1>13. turn[0] = a /\ \A k \in 1 .. N : turn[k] = RowTurn(turn[k - 1], r, y)
  BY <1>2, <1>12
<1>14. \A k \in 0 .. N : turn[k] \in T[k]
  <2>1. turn[0] \in T[0]
    BY <1>4, <1>7, <1>13
  <2>2. \A k \in 1 .. N : turn[k - 1] \in T[k - 1] => turn[k] \in T[k]
    BY <1>9, <1>13
  <2> QED
    BY <1>2, <2>1, <2>2, LoopKeeps
<1>15. turn[N] \in RowDone(d, n, l, r, y, N)
  BY <1>2, <1>7, <1>14
<1>16. /\ Good(turn[N].dev, n) /\ Since(d, turn[N].dev) /\ turn[N].at \in Int
       /\ l <= turn[N].at /\ (turn[N].at <= r + 1 \/ turn[N].at = l)
       /\ (turn[N].at > r \/ turn[N].at >= l + N)
       /\ turn[N].dev.drawn = Painted(d, (l .. turn[N].at - 1) \X {y})
  BY <1>15 DEF RowDone
<1>17. l .. turn[N].at - 1 = l .. r
  BY <1>2, <1>16
<1> QED
  BY <1>3, <1>16, <1>17

(* The loop of drawcol from t to b, after k turns at most: it has come to  *)
(* the end or k points on, and what is behind it is drawn.                 *)
ColDone(d, n, x, t, b, k) ==
    {s \in [dev : Devs, at : Int] :
        /\ Good(s.dev, n) /\ Since(d, s.dev)
        /\ t <= s.at /\ (s.at <= b + 1 \/ s.at = t) /\ (s.at > b \/ s.at >= t + k)
        /\ s.dev.drawn = Painted(d, {x} \X (t .. s.at - 1))}

(* A turn of drawcol's loop draws or skips the column up to the edge of    *)
(* the box.                                                                *)
LEMMA ColTurnGood ==
    ASSUME clipregion \in Regions, NEW n \in Int, n <= 1, NEW d \in Devs,
           NEW t \in Nat, NEW b \in Int, b < YVirtRes, NEW x \in Coords,
           Apart(d, {x} \X (t .. b)),
           NEW k \in Nat \ {0}, NEW s \in ColDone(d, n, x, t, b, k - 1)
    PROVE  ColTurn(s, x, b) \in ColDone(d, n, x, t, b, k)
<1> DEFINE e    == Test(s.dev, x, s.at)
           stop == Min({e.cache.maxy, b})
           P    == {x} \X (s.at .. stop)
           f    == IF e.cache.result THEN Draw(e, P) ELSE e
<1>1. /\ s \in [dev : Devs, at : Int] /\ s.dev \in Devs /\ s.at \in Int
      /\ Good(s.dev, n) /\ Since(d, s.dev)
      /\ t <= s.at /\ (s.at <= b + 1 \/ s.at = t) /\ (s.at > b \/ s.at >= t + (k - 1))
      /\ s.dev.drawn = Painted(d, {x} \X (t .. s.at - 1))
  BY DEF ColDone
<1>2. CASE s.at > b
  <2>1. ColTurn(s, x, b) = s
    BY <1>2 DEF ColTurn
  <2> QED
    BY <1>1, <1>2, <2>1 DEF ColDone
<1>3. CASE s.at <= b
  <2>1. ColTurn(s, x, b) = [dev |-> f, at |-> stop + 1]
    <3>1. ~(s.at > b)
      BY <1>1, <1>3
    <3> QED
      BY <3>1, Zenon DEF ColTurn
  <2>2. s.at \in Coords
    BY <1>1, <1>3, ClipAssumption DEF Coords
  <2>3. /\ Good(e, n) /\ Since(s.dev, e) /\ e.drawn = s.dev.drawn
        /\ InCache(e.cache, x, s.at)
    BY <1>1, <2>2, TestGood, ZenonT(40)
  <2>4. e \in Devs /\ Since(d, e)
    BY <1>1, <2>3, SinceTransitive DEF Good
  <2>5. e.cache \in Boxes
    BY <2>4 DEF Devs
  <2> HIDE DEF e
  <2>6. /\ stop \in Int /\ s.at <= stop /\ stop <= b /\ stop <= e.cache.maxy
    <3>1. e.cache.maxy \in Int /\ s.at <= e.cache.maxy
      BY <2>3, <2>5 DEF Boxes, InCache
    <3>2. stop = IF e.cache.maxy <= b THEN e.cache.maxy ELSE b
      BY <3>1, MinTwo
    <3> QED
      BY <1>1, <1>3, <3>1, <3>2
  <2> HIDE DEF stop
  <2>7. \A p \in P \cap Pixels : InCache(e.cache, p[1], p[2])
    <3>1. e.cache.miny \in Int /\ e.cache.maxy \in Int
      BY <2>5 DEF Boxes
    <3> QED
      BY <1>1, <2>3, <2>6, <3>1 DEF InCache
  <2>8. Apart(e, P)
    <3>1. Apart(e, {x} \X (t .. b))
      BY <2>4, ApartSince
    <3>2. P \subseteq {x} \X (t .. b)
      BY <1>1, <2>6
    <3> HIDE DEF P
    <3> QED
      BY <3>1, <3>2, ApartPart
  <2>9. Good(f, n) /\ Since(e, f) /\ f.drawn = Painted(e, P)
    <3> HIDE DEF P
    <3>1. CASE e.cache.result
      BY <2>3, <2>7, <2>8, <3>1, DrawGood, DrawPainted
    <3>2. CASE ~e.cache.result
      <4>1. Since(e, e)
        BY <2>4 DEF Since, Devs
      <4> QED
        BY <2>3, <2>7, <3>2, <4>1, DrawPainted
    <3> QED
      BY <3>1, <3>2
  <2> HIDE DEF f
  <2>10. f \in Devs /\ Since(d, f)
    BY <2>4, <2>9, SinceTransitive DEF Good
  <2>11. f.drawn = Painted(d, {x} \X (t .. stop))
    <3>1. ({x} \X (t .. s.at - 1)) \cap P = {}
      BY <1>1, <2>6
    <3>2. ({x} \X (t .. s.at - 1)) \cup P = {x} \X (t .. stop)
      <4>1. (t .. s.at - 1) \cup (s.at .. stop) = t .. stop
        BY <1>1, <2>6
      <4> QED
        BY <4>1
    <3>3. e.drawn = Painted(d, {x} \X (t .. s.at - 1))
      BY <1>1, <2>3
    <3> HIDE DEF P
    <3>4. f.drawn = Painted(d, ({x} \X (t .. s.at - 1)) \cup P)
      BY <2>9, <3>1, <3>3, PaintedTwice
    <3> QED
      BY <3>2, <3>4
  <2> DEFINE q == [dev |-> f, at |-> stop + 1]
  <2>12. /\ q \in [dev : Devs, at : Int] /\ q.dev = f /\ q.at = stop + 1
         /\ q.at - 1 = stop
    BY <2>6, <2>10
  <2>13. t <= q.at /\ q.at <= b + 1 /\ (q.at > b \/ q.at >= t + k)
    BY <1>1, <1>3, <2>6, <2>12
  <2> HIDE DEF q
  <2>14. q \in ColDone(d, n, x, t, b, k)
    BY <2>9, <2>10, <2>11, <2>12, <2>13 DEF ColDone
  <2> QED
    BY <2>1, <2>14 DEF q
<1> QED
  BY <1>1, <1>2, <1>3

(* The loop of drawcol draws the visible part of the column, once.         *)
LEMMA ColFromGood ==
    ASSUME clipregion \in Regions, NEW n \in Int, n <= 1, NEW d, Good(d, n),
           NEW t \in Nat, NEW b \in Int, b < YVirtRes, NEW x \in Coords,
           Apart(d, {x} \X (t .. b))
    PROVE  LET e == ColFrom(d, x, t, b)
           IN  Good(e, n) /\ Since(d, e) /\ e.drawn = Painted(d, {x} \X (t .. b))
<1> DEFINE N == Max({b - t + 1, 0})
           S == [dev : Devs, at : Int]
           T == [k \in 0 .. N |-> ColDone(d, n, x, t, b, k)]
           a == [dev |-> d, at |-> t]
           G == [q \in S \X (1 .. N) |-> ColTurn(q[1], x, b)]
           turn == CHOOSE f :
                       f = [k \in 0 .. N |-> IF k = 0 THEN a ELSE ColTurn(f[k - 1], x, b)]
<1>1. d \in Devs
  BY DEF Good
<1>2. N \in Nat /\ (N = b - t + 1 \/ (b < t /\ N = 0))
  <2>1. b - t + 1 \in Int /\ 0 \in Int
    OBVIOUS
  <2>2. N = IF b - t + 1 >= 0 THEN b - t + 1 ELSE 0
    BY <2>1, MaxTwo
  <2> HIDE DEF N
  <2> QED
    BY <2>1, <2>2
<1>3. ColFrom(d, x, t, b) = turn[N].dev
  BY DEF ColFrom
<1> HIDE DEF N
<1>4. a \in ColDone(d, n, x, t, b, 0)
  <2>1. a \in S /\ a.dev = d /\ a.at = t
    BY <1>1
  <2>2. Since(d, d)
    BY <1>1 DEF Since, Devs
  <2>3. d.drawn = Painted(d, {x} \X (t .. t - 1))
    <3>1. {x} \X (t .. t - 1) = {}
      OBVIOUS
    <3>2. d.drawn \in [Pixels -> Nat]
      BY <1>1 DEF Devs, Counts
    <3> QED
      BY <3>1, <3>2 DEF Painted, Clipped
  <2> HIDE DEF a
  <2>4. /\ t <= a.at /\ a.at = t /\ a.at >= t + 0
        /\ a.dev.drawn = Painted(d, {x} \X (t .. a.at - 1))
    BY <2>1, <2>3
  <2> QED
    BY <2>1, <2>2, <2>4 DEF ColDone
<1>5. \A k \in 1 .. N : \A s \in ColDone(d, n, x, t, b, k - 1) :
          ColTurn(s, x, b) \in ColDone(d, n, x, t, b, k)
  BY <1>1, ColTurnGood
<1>6. \A k \in 0 .. N : ColDone(d, n, x, t, b, k) \subseteq S
  BY DEF ColDone
<1>7. /\ T[0] = ColDone(d, n, x, t, b, 0) /\ T[N] = ColDone(d, n, x, t, b, N)
      /\ \A k \in 0 .. N : T[k] \subseteq S
      /\ \A k \in 1 .. N : /\ k - 1 \in 0 .. N
                           /\ T[k - 1] = ColDone(d, n, x, t, b, k - 1)
                           /\ T[k] = ColDone(d, n, x, t, b, k)
  BY <1>2, <1>6
<1> HIDE DEF T
<1>8. \A k \in 1 .. N : \A s \in T[k - 1] : s \in S /\ G[<<s, k>>] = ColTurn(s, x, b)
  BY <1>7
<1>9. \A k \in 1 .. N : \A s \in T[k - 1] : ColTurn(s, x, b) \in T[k]
  BY <1>5, <1>7
<1> HIDE DEF a, S, G
<1>10. \E f : Looped(f, N, a, G) /\ \A k \in 0 .. N : f[k] \in T[k]
  <2>1. a \in T[0] /\ \A k \in 0 .. N : T[k] \subseteq S
    BY <1>4, <1>7
  <2>2. \A k \in 1 .. N : \A s \in T[k - 1] : G[<<s, k>>] \in T[k]
    BY <1>8, <1>9
  <2> QED
    BY <1>2, <2>1, <2>2, LoopRuns
<1>11. \E f : f = [k \in 0 .. N |-> IF k = 0 THEN a ELSE ColTurn(f[k - 1], x, b)]
  <2>1. PICK f : Looped(f, N, a, G) /\ \A k \in 0 .. N : f[k] \in T[k]
    BY <1>10
  <2>2. ASSUME NEW k \in 1 .. N
        PROVE  G[<<f[k - 1], k>>] = ColTurn(f[k - 1], x, b)
    BY <1>7, <1>8, <2>1
  <2>3. f = [k \in 0 .. N |-> IF k = 0 THEN a ELSE G[<<f[k - 1], k>>]]
    BY <2>1 DEF Looped
  <2>4. \A k \in 0 .. N : k = 0 \/ k \in 1 .. N
    BY <1>2
  <2>5. f = [k \in 0 .. N |-> IF k = 0 THEN a ELSE ColTurn(f[k - 1], x, b)]
    BY <2>2, <2>3, <2>4
  <2> QED
    BY <2>5
<1>12. turn = [k \in 0 .. N |-> IF k = 0 THEN a ELSE ColTurn(turn[k - 1], x, b)]
  BY <1>11, Zenon
<1> HIDE DEF turn
<1>13. turn[0] = a /\ \A k \in 1 .. N : turn[k] = ColTurn(turn[k - 1], x, b)
  BY <1>2, <1>12
<1>14. \A k \in 0 .. N : turn[k] \in T[k]
  <2>1. turn[0] \in T[0]
    BY <1>4, <1>7, <1>13
  <2>2. \A k \in 1 .. N : turn[k - 1] \in T[k - 1] => turn[k] \in T[k]
    BY <1>9, <1>13
  <2> QED
    BY <1>2, <2>1, <2>2, LoopKeeps
<1>15. turn[N] \in ColDone(d, n, x, t, b, N)
  BY <1>2, <1>7, <1>14
<1>16. /\ Good(turn[N].dev, n) /\ Since(d, turn[N].dev) /\ turn[N].at \in Int
       /\ t <= turn[N].at /\ (turn[N].at <= b + 1 \/ turn[N].at = t)
       /\ (turn[N].at > b \/ turn[N].at >= t + N)
       /\ turn[N].dev.drawn = Painted(d, {x} \X (t .. turn[N].at - 1))
  BY <1>15 DEF ColDone
<1>17. t .. turn[N].at - 1 = t .. b
  BY <1>2, <1>16
<1> QED
  BY <1>3, <1>16, <1>17
-----------------------------------------------------------------------------
(* Spans, and areas known from their corners.                              *)

(* Only pixels can be drawn.                                               *)
LEMMA PaintedSame ==
    ASSUME NEW d, NEW e, e.drawn = d.drawn, NEW P, NEW Q, P \cap Pixels = Q \cap Pixels
    PROVE  Painted(e, P) = Painted(d, Q)
<1>1. \A p \in Pixels : p \in P <=> p \in Q
  OBVIOUS
<1> QED
  BY <1>1 DEF Painted, Clipped

(* The span of two corners in order.                                       *)
LEMMA SpanIs ==
    ASSUME NEW x1 \in Int, NEW y1 \in Int, NEW x2 \in Int, NEW y2 \in Int, x1 <= x2, y1 <= y2
    PROVE  Span(x1, y1, x2, y2) = (x1 .. x2) \X (y1 .. y2)
<1>1. Min({x1, x2}) = x1 /\ Max({x1, x2}) = x2 /\ Min({y1, y2}) = y1 /\ Max({y1, y2}) = y2
  BY MinTwo, MaxTwo
<1> QED
  BY <1>1, Zenon DEF Span

(* A span holds what is between its corners in order, if they are.         *)
LEMMA SpanHolds ==
    ASSUME NEW x1 \in Int, NEW y1 \in Int, NEW x2 \in Int, NEW y2 \in Int
    PROVE  (x1 .. x2) \X (y1 .. y2) \subseteq Span(x1, y1, x2, y2)
<1>1. CASE x1 <= x2 /\ y1 <= y2
  BY <1>1, SpanIs
<1>2. CASE ~(x1 <= x2 /\ y1 <= y2)
  BY <1>2
<1> QED
  BY <1>1, <1>2

(* drawrow draws the visible part of the row between two points in either  *)
(* order.                                                                  *)
LEMMA RowGood ==
    ASSUME clipregion \in Regions, NEW n \in Int, n <= 1, NEW d, Good(d, n),
           NEW x1 \in Int, NEW x2 \in Int, NEW y \in Coords
    PROVE  LET e == drawrow(d, x1, x2, y)
           IN  /\ Good(e, n) /\ Since(d, e)
               /\ e.drawn = Painted(d, Span(x1, y, x2, y))
<1> DEFINE lo == Min({x1, x2})
           hi == Max({x1, x2})
           l  == Max({lo, 0})
           r  == Min({hi, XVirtRes - 1})
           c  == GdCheckCursor(d, l, y, r, y)
           e  == RowFrom(c, l, r, y)
<1>1. drawrow(d, x1, x2, y) = e
  BY DEF drawrow
<1>2. lo \in Int /\ hi \in Int /\ lo <= hi
  BY MinTwo, MaxTwo
<1>3. /\ y \in Int /\ XVirtRes \in Nat /\ Min({y, y}) = y /\ Max({y, y}) = y
      /\ y .. y = {y}
  <2>1. y \in Int /\ XVirtRes \in Nat
    BY ClipAssumption DEF Coords
  <2> QED
    BY <2>1, MinTwo, MaxTwo
<1>4. Span(x1, y, x2, y) = (lo .. hi) \X {y}
  BY <1>3, Zenon DEF Span
<1> HIDE DEF lo, hi
<1>5. /\ l = IF lo >= 0 THEN lo ELSE 0
      /\ r = IF hi <= XVirtRes - 1 THEN hi ELSE XVirtRes - 1
  BY <1>2, <1>3, MinTwo, MaxTwo
<1> HIDE DEF l, r
<1>6. l \in Nat /\ r \in Int /\ r < XVirtRes
  BY <1>2, <1>3, <1>5
<1>7. ((l .. r) \X {y}) \cap Pixels = ((lo .. hi) \X {y}) \cap Pixels
  <2>1. \A p \in Pixels : p[1] \in Int /\ 0 <= p[1] /\ p[1] <= XVirtRes - 1
    BY <1>3 DEF Pixels
  <2>2. \A p \in Pixels : p[1] \in l .. r <=> p[1] \in lo .. hi
    BY <1>2, <1>3, <1>5, <1>6, <2>1
  <2>3. \A p \in Pixels : p = <<p[1], p[2]>>
    BY PixelCoords
  <2> QED
    BY <2>2, <2>3
<1>8. Good(c, n) /\ Since(d, c) /\ Apart(c, Span(l, y, r, y)) /\ c.drawn = d.drawn
  BY <1>3, <1>6, CheckGood
<1> HIDE DEF c
<1>9. Apart(c, (l .. r) \X {y})
  <2>1. (l .. r) \X {y} \subseteq Span(l, y, r, y)
    <3>1. (l .. r) \X (y .. y) \subseteq Span(l, y, r, y)
      BY <1>3, <1>6, SpanHolds
    <3> QED
      BY <1>3, <3>1
  <2> QED
    BY <1>8, <2>1, ApartPart
<1>10. Good(e, n) /\ Since(c, e) /\ e.drawn = Painted(c, (l .. r) \X {y})
  BY <1>6, <1>8, <1>9, RowFromGood
<1> HIDE DEF e
<1>11. Painted(c, (l .. r) \X {y}) = Painted(d, (lo .. hi) \X {y})
  BY <1>7, <1>8, PaintedSame
<1>12. Since(d, e)
  BY <1>8, <1>10, SinceTransitive DEF Good
<1> QED
  BY <1>1, <1>4, <1>10, <1>11, <1>12

(* drawcol draws the visible part of the column between two points in      *)
(* either order.                                                           *)
LEMMA ColGood ==
    ASSUME clipregion \in Regions, NEW n \in Int, n <= 1, NEW d, Good(d, n),
           NEW y1 \in Int, NEW y2 \in Int, NEW x \in Coords
    PROVE  LET e == drawcol(d, x, y1, y2)
           IN  /\ Good(e, n) /\ Since(d, e)
               /\ e.drawn = Painted(d, Span(x, y1, x, y2))
<1> DEFINE lo == Min({y1, y2})
           hi == Max({y1, y2})
           t  == Max({lo, 0})
           b  == Min({hi, YVirtRes - 1})
           c  == GdCheckCursor(d, x, t, x, b)
           e  == ColFrom(c, x, t, b)
<1>1. drawcol(d, x, y1, y2) = e
  BY DEF drawcol
<1>2. lo \in Int /\ hi \in Int /\ lo <= hi
  BY MinTwo, MaxTwo
<1>3. /\ x \in Int /\ YVirtRes \in Nat /\ Min({x, x}) = x /\ Max({x, x}) = x
      /\ x .. x = {x}
  <2>1. x \in Int /\ YVirtRes \in Nat
    BY ClipAssumption DEF Coords
  <2> QED
    BY <2>1, MinTwo, MaxTwo
<1>4. Span(x, y1, x, y2) = {x} \X (lo .. hi)
  BY <1>3, Zenon DEF Span
<1> HIDE DEF lo, hi
<1>5. /\ t = IF lo >= 0 THEN lo ELSE 0
      /\ b = IF hi <= YVirtRes - 1 THEN hi ELSE YVirtRes - 1
  BY <1>2, <1>3, MinTwo, MaxTwo
<1> HIDE DEF t, b
<1>6. t \in Nat /\ b \in Int /\ b < YVirtRes
  BY <1>2, <1>3, <1>5
<1>7. ({x} \X (t .. b)) \cap Pixels = ({x} \X (lo .. hi)) \cap Pixels
  <2>1. \A p \in Pixels : p[2] \in Int /\ 0 <= p[2] /\ p[2] <= YVirtRes - 1
    BY <1>3 DEF Pixels
  <2>2. \A p \in Pixels : p[2] \in t .. b <=> p[2] \in lo .. hi
    BY <1>2, <1>3, <1>5, <1>6, <2>1
  <2>3. \A p \in Pixels : p = <<p[1], p[2]>>
    BY PixelCoords
  <2> QED
    BY <2>2, <2>3
<1>8. Good(c, n) /\ Since(d, c) /\ Apart(c, Span(x, t, x, b)) /\ c.drawn = d.drawn
  BY <1>3, <1>6, CheckGood
<1> HIDE DEF c
<1>9. Apart(c, {x} \X (t .. b))
  <2>1. {x} \X (t .. b) \subseteq Span(x, t, x, b)
    <3>1. (x .. x) \X (t .. b) \subseteq Span(x, t, x, b)
      BY <1>3, <1>6, SpanHolds
    <3> QED
      BY <1>3, <3>1
  <2> QED
    BY <1>8, <2>1, ApartPart
<1>10. Good(e, n) /\ Since(c, e) /\ e.drawn = Painted(c, {x} \X (t .. b))
  BY <1>6, <1>8, <1>9, ColFromGood
<1> HIDE DEF e
<1>11. Painted(c, {x} \X (t .. b)) = Painted(d, {x} \X (lo .. hi))
  BY <1>7, <1>8, PaintedSame
<1>12. Since(d, e)
  BY <1>8, <1>10, SinceTransitive DEF Good
<1> QED
  BY <1>1, <1>4, <1>10, <1>11, <1>12

(* Two corners in the cache's box: so is everything between them.          *)
LEMMA CornersHold ==
    ASSUME NEW c \in Boxes, NEW x1 \in Int, NEW y1 \in Int, NEW x2 \in Int, NEW y2 \in Int,
           InCache(c, x1, y1), InCache(c, x2, y2)
    PROVE  \A p \in Span(x1, y1, x2, y2) : InCache(c, p[1], p[2])
<1> DEFINE l == Min({x1, x2})
           r == Max({x1, x2})
           t == Min({y1, y2})
           b == Max({y1, y2})
<1>1. /\ c.minx \in Int /\ c.maxx \in Int /\ c.miny \in Int /\ c.maxy \in Int
  BY DEF Boxes
<1>2. /\ l \in Int /\ r \in Int /\ t \in Int /\ b \in Int
      /\ c.minx <= l /\ r <= c.maxx /\ c.miny <= t /\ b <= c.maxy
  BY <1>1, MinTwo, MaxTwo DEF InCache
<1>3. \A p \in Span(x1, y1, x2, y2) : p[1] \in l .. r /\ p[2] \in t .. b
  BY DEF Span
<1> HIDE DEF l, r, t, b
<1> QED
  BY <1>1, <1>2, <1>3 DEF InCache

(* GdClipArea is right about an area that is wholly inside or outside, and *)
(* moves the cursor out of the way of one that is inside.                  *)
LEMMA ClipAreaGood ==
    ASSUME clipregion \in Regions, NEW n \in Int, n <= 1, NEW d, Good(d, n),
           NEW x1 \in Coords, NEW y1 \in Coords, NEW x2 \in Coords, NEW y2 \in Coords
    PROVE  LET a == GdClipArea(d, x1, y1, x2, y2)
               P == Span(x1, y1, x2, y2)
           IN  /\ Good(a.dev, n) /\ Since(d, a.dev) /\ a.dev.drawn = d.drawn
               /\ a.clip \in {"VISIBLE", "INVISIBLE", "PARTIAL"}
               /\ a.clip = "INVISIBLE" => a.dev.restore = d.restore /\ d.drawn = Painted(d, P)
               /\ a.clip = "VISIBLE" => /\ Apart(a.dev, P)
                                        /\ Draw(a.dev, P).drawn = Painted(d, P)
<1> DEFINE a == GdClipArea(d, x1, y1, x2, y2)
           P == Span(x1, y1, x2, y2)
           e == IF InCache(d.cache, x1, y1) THEN d ELSE Test(d, x1, y1)
           s == GdCheckCursor(e, x1, y1, x2, y2)
<1>1. d \in Devs /\ x1 \in Int /\ y1 \in Int /\ x2 \in Int /\ y2 \in Int
  BY ClipAssumption DEF Good, Coords
<1>2. /\ Good(e, n) /\ Since(d, e) /\ e.drawn = d.drawn
      /\ InCache(e.cache, x1, y1)
      /\ ~e.cache.result => e.restore = d.restore
  <2>1. CASE InCache(d.cache, x1, y1)
    <3>1. Since(d, d)
      BY <1>1 DEF Since, Devs
    <3> QED
      BY <2>1, <3>1
  <2>2. CASE ~InCache(d.cache, x1, y1)
    BY <2>2, TestGood
  <2> QED
    BY <2>1, <2>2
<1>3. a = IF ~InCache(e.cache, x2, y2) THEN [dev |-> e, clip |-> "PARTIAL"]
          ELSE IF ~e.cache.result THEN [dev |-> e, clip |-> "INVISIBLE"]
          ELSE [dev |-> s, clip |-> "VISIBLE"]
  BY DEF GdClipArea
<1>4. e \in Devs /\ e.cache \in Boxes
  BY <1>2 DEF Good, Devs
<1> HIDE DEF e
<1>5. /\ Good(s, n) /\ Since(e, s) /\ Apart(s, P) /\ s.cache = e.cache /\ s.drawn = e.drawn
  BY <1>1, <1>2, CheckGood
<1>6. s \in Devs /\ Since(d, s)
  BY <1>1, <1>2, <1>4, <1>5, SinceTransitive DEF Good
<1> HIDE DEF s, P
<1>7. InCache(e.cache, x2, y2) => \A p \in P : InCache(e.cache, p[1], p[2])
  BY <1>1, <1>2, <1>4, CornersHold DEF P
<1>8. CASE ~InCache(e.cache, x2, y2)
  <2>1. a.dev = e /\ a.clip = "PARTIAL"
    BY <1>3, <1>8
  <2> HIDE DEF a
  <2>2. Good(a.dev, n) /\ Since(d, a.dev) /\ a.dev.drawn = d.drawn
    BY <1>2, <2>1
  <2> QED
    BY <2>1, <2>2 DEF a
<1>9. CASE InCache(e.cache, x2, y2) /\ ~e.cache.result
  <2>1. a.dev = e /\ a.clip = "INVISIBLE"
    BY <1>3, <1>9
  <2>2. d.drawn = Painted(d, P)
    <3>1. e.drawn = Painted(e, P)
      BY <1>2, <1>7, <1>9, DrawPainted
    <3>2. Painted(e, P) = Painted(d, P)
      BY <1>2, PaintedSame
    <3> QED
      BY <1>2, <3>1, <3>2
  <2> HIDE DEF a
  <2>3. Good(a.dev, n) /\ Since(d, a.dev) /\ a.dev.drawn = d.drawn /\ a.dev.restore = d.restore
    BY <1>2, <1>9, <2>1
  <2> QED
    BY <2>1, <2>2, <2>3 DEF a, P
<1>10. CASE InCache(e.cache, x2, y2) /\ e.cache.result
  <2>1. a.dev = s /\ a.clip = "VISIBLE"
    BY <1>3, <1>10
  <2>2. Draw(s, P).drawn = Painted(d, P)
    <3>1. Draw(s, P).drawn = Painted(s, P)
      BY <1>5, <1>7, <1>10, DrawPainted
    <3>2. Painted(s, P) = Painted(d, P)
      BY <1>2, <1>5, PaintedSame
    <3> QED
      BY <3>1, <3>2
  <2> HIDE DEF a
  <2>3. Good(a.dev, n) /\ Since(d, a.dev) /\ a.dev.drawn = d.drawn /\ Apart(a.dev, P)
    BY <1>2, <1>5, <1>6, <2>1
  <2> QED
    BY <2>1, <2>2, <2>3 DEF a, P
<1> QED
  BY <1>8, <1>9, <1>10
-----------------------------------------------------------------------------
(* Areas, rectangles, reading.                                             *)

(* After k of the rows of a partly visible area.                           *)
RowsDone(d, n, x1, x2, y, k) ==
    {e \in Devs : /\ Good(e, n) /\ Since(d, e)
                  /\ e.drawn = Painted(d, (x1 .. x2) \X (y .. y + k - 1))}

(* One more row of an area.                                                *)
LEMMA RowsTurnGood ==
    ASSUME clipregion \in Regions, NEW n \in Int, n <= 1, NEW d \in Devs,
           NEW x1 \in Int, NEW x2 \in Int, x1 <= x2, NEW y \in Coords,
           NEW k \in Nat \ {0}, y + k - 1 \in Coords,
           NEW s \in RowsDone(d, n, x1, x2, y, k - 1)
    PROVE  drawrow(s, x1, x2, y + k - 1) \in RowsDone(d, n, x1, x2, y, k)
<1> DEFINE e == drawrow(s, x1, x2, y + k - 1)
           P == (x1 .. x2) \X (y .. y + (k - 1) - 1)
           Q == (x1 .. x2) \X {y + k - 1}
<1>1. /\ s \in Devs /\ Good(s, n) /\ Since(d, s) /\ s.drawn = Painted(d, P)
      /\ y \in Int
  BY ClipAssumption DEF RowsDone, Coords
<1>2. Good(e, n) /\ Since(s, e) /\ e.drawn = Painted(s, Span(x1, y + k - 1, x2, y + k - 1))
  BY <1>1, RowGood
<1> HIDE DEF e
<1>3. Span(x1, y + k - 1, x2, y + k - 1) = Q
  <2>1. y + k - 1 \in Int /\ (y + k - 1) .. (y + k - 1) = {y + k - 1}
    BY <1>1
  <2>2. Span(x1, y + k - 1, x2, y + k - 1) = (x1 .. x2) \X ((y + k - 1) .. (y + k - 1))
    BY <2>1, SpanIs
  <2> QED
    BY <2>1, <2>2
<1>4. P \cap Q = {}
  BY <1>1
<1>5. P \cup Q = (x1 .. x2) \X (y .. y + k - 1)
  <2>1. (y .. y + (k - 1) - 1) \cup {y + k - 1} = y .. y + k - 1
    BY <1>1
  <2> QED
    BY <2>1
<1> HIDE DEF P, Q
<1>6. e.drawn = Painted(d, P \cup Q)
  BY <1>1, <1>2, <1>3, <1>4, PaintedTwice
<1>7. e \in Devs /\ Since(d, e)
  BY <1>1, <1>2, SinceTransitive DEF Good
<1> QED
  BY <1>2, <1>5, <1>6, <1>7 DEF RowsDone, e

(* An area is drawn row by row.                                            *)
LEMMA RowsGood ==
    ASSUME clipregion \in Regions, NEW n \in Int, n <= 1, NEW d, Good(d, n),
           NEW x1 \in Int, NEW x2 \in Int, x1 <= x2, NEW y \in Coords,
           NEW h \in Nat, y + h <= MaxCoord + 1
    PROVE  LET e == Rows(d, x1, x2, y, h)
           IN  Good(e, n) /\ Since(d, e) /\ e.drawn = Painted(d, (x1 .. x2) \X (y .. y + h - 1))
<1> DEFINE T == [k \in 0 .. h |-> RowsDone(d, n, x1, x2, y, k)]
           G == [q \in Devs \X (1 .. h) |-> drawrow(q[1], x1, x2, y + q[2] - 1)]
           rows == CHOOSE f :
                       f = [k \in 0 .. h |-> IF k = 0 THEN d
                                             ELSE drawrow(f[k - 1], x1, x2, y + k - 1)]
<1>1. d \in Devs /\ y \in Int /\ MinCoord <= y /\ MinCoord \in Int /\ MaxCoord \in Int
  BY ClipAssumption DEF Good, Coords
<1>2. Rows(d, x1, x2, y, h) = rows[h]
  BY DEF Rows
<1>3. d \in RowsDone(d, n, x1, x2, y, 0)
  <2>1. Since(d, d) /\ d.drawn \in [Pixels -> Nat]
    BY <1>1 DEF Since, Devs, Counts
  <2>2. (x1 .. x2) \X (y .. y + 0 - 1) = {}
    BY <1>1
  <2>3. d.drawn = Painted(d, (x1 .. x2) \X (y .. y + 0 - 1))
    BY <2>1, <2>2 DEF Painted, Clipped
  <2> QED
    BY <1>1, <2>1, <2>3 DEF RowsDone
<1>4. ASSUME NEW k \in 1 .. h, NEW s \in RowsDone(d, n, x1, x2, y, k - 1)
      PROVE  drawrow(s, x1, x2, y + k - 1) \in RowsDone(d, n, x1, x2, y, k)
  <2>1. k \in Nat \ {0} /\ y + k - 1 \in Coords
    BY <1>1 DEF Coords
  <2> QED
    BY <1>1, <2>1, RowsTurnGood
<1>5. /\ T[0] = RowsDone(d, n, x1, x2, y, 0) /\ T[h] = RowsDone(d, n, x1, x2, y, h)
      /\ \A k \in 0 .. h : T[k] \subseteq Devs
      /\ \A k \in 1 .. h : /\ k - 1 \in 0 .. h
                           /\ T[k - 1] = RowsDone(d, n, x1, x2, y, k - 1)
                           /\ T[k] = RowsDone(d, n, x1, x2, y, k)
  BY DEF RowsDone
<1> HIDE DEF T
<1>6. \A k \in 1 .. h : \A s \in T[k - 1] :
          s \in Devs /\ G[<<s, k>>] = drawrow(s, x1, x2, y + k - 1)
  BY <1>5
<1>7. \A k \in 1 .. h : \A s \in T[k - 1] : drawrow(s, x1, x2, y + k - 1) \in T[k]
  BY <1>4, <1>5
<1> HIDE DEF G
<1>8. \E f : Looped(f, h, d, G) /\ \A k \in 0 .. h : f[k] \in T[k]
  <2>1. d \in T[0] /\ \A k \in 0 .. h : T[k] \subseteq Devs
    BY <1>3, <1>5
  <2>2. \A k \in 1 .. h : \A s \in T[k - 1] : G[<<s, k>>] \in T[k]
    BY <1>6, <1>7
  <2> QED
    BY <2>1, <2>2, LoopRuns
<1>9. \E f : f = [k \in 0 .. h |-> IF k = 0 THEN d ELSE drawrow(f[k - 1], x1, x2, y + k - 1)]
  <2>1. PICK f : Looped(f, h, d, G) /\ \A k \in 0 .. h : f[k] \in T[k]
    BY <1>8
  <2>2. ASSUME NEW k \in 1 .. h
        PROVE  G[<<f[k - 1], k>>] = drawrow(f[k - 1], x1, x2, y + k - 1)
    BY <1>5, <1>6, <2>1
  <2>3. f = [k \in 0 .. h |-> IF k = 0 THEN d ELSE G[<<f[k - 1], k>>]]
    BY <2>1 DEF Looped
  <2>4. \A k \in 0 .. h : k = 0 \/ k \in 1 .. h
    OBVIOUS
  <2>5. f = [k \in 0 .. h |-> IF k = 0 THEN d ELSE drawrow(f[k - 1], x1, x2, y + k - 1)]
    BY <2>2, <2>3, <2>4
  <2> QED
    BY <2>5
<1>10. rows = [k \in 0 .. h |-> IF k = 0 THEN d ELSE drawrow(rows[k - 1], x1, x2, y + k - 1)]
  BY <1>9, Zenon
<1> HIDE DEF rows
<1>11. rows[0] = d /\ \A k \in 1 .. h : rows[k] = drawrow(rows[k - 1], x1, x2, y + k - 1)
  BY <1>10
<1>12. \A k \in 0 .. h : rows[k] \in T[k]
  <2>1. rows[0] \in T[0]
    BY <1>3, <1>5, <1>11
  <2>2. \A k \in 1 .. h : rows[k - 1] \in T[k - 1] => rows[k] \in T[k]
    BY <1>7, <1>11
  <2> QED
    BY <2>1, <2>2, LoopKeeps
<1>13. rows[h] \in RowsDone(d, n, x1, x2, y, h)
  BY <1>5, <1>12
<1> QED
  BY <1>2, <1>13 DEF RowsDone
-----------------------------------------------------------------------------
(* What a call leaves: it puts back the cursor it took away.               *)
Served(d, e, n) == Good(e, n) /\ (~d.restore => ~e.restore)

(* GdPoint keeps the screen right and puts the cursor back.                *)
LEMMA PointCall ==
    ASSUME clipregion \in Regions, NEW n \in Int, n <= 1, NEW d, Good(d, n),
           NEW x \in Coords, NEW y \in Coords
    PROVE  Served(d, GdPoint(d, x, y), n)
<1> DEFINE p == Plot(d, x, y)
<1>1. Good(p, n)
  BY PlotGood
<1>2. ~p.cache.result => p.restore = d.restore
  BY PlotGood
<1>3. GdPoint(d, x, y) = IF p.cache.result THEN GdFixCursor(p) ELSE p
  BY DEF GdPoint
<1> HIDE DEF p
<1>4. Good(GdFixCursor(p), n) /\ GdFixCursor(p).restore = FALSE
  BY <1>1, FixGood
<1>5. CASE p.cache.result
  <2>1. GdPoint(d, x, y) = GdFixCursor(p)
    BY <1>3, <1>5, Zenon
  <2> QED
    BY <1>4, <2>1 DEF Served
<1>6. CASE ~p.cache.result
  <2>1. GdPoint(d, x, y) = p
    BY <1>3, <1>6, Zenon
  <2> QED
    BY <1>1, <1>2, <1>6, <2>1 DEF Served
<1> QED
  BY <1>5, <1>6

(* The corners of an area.                                                 *)
LEMMA SpanOfArea ==
    ASSUME NEW x \in Coords, NEW y \in Coords, NEW w \in Nat \ {0}, NEW h \in Nat \ {0},
           x + w <= MaxCoord + 1, y + h <= MaxCoord + 1
    PROVE  /\ x + w - 1 \in Coords /\ y + h - 1 \in Coords
           /\ Span(x, y, x + w - 1, y + h - 1) = Filled(<<x, y, w, h>>)
<1>1. MinCoord \in Int /\ MaxCoord \in Int /\ x \in Int /\ y \in Int
      /\ MinCoord <= x /\ MinCoord <= y
  BY ClipAssumption DEF Coords
<1>2. x + w - 1 \in Coords /\ y + h - 1 \in Coords
  BY <1>1 DEF Coords
<1>3. Filled(<<x, y, w, h>>) = (x .. x + w - 1) \X (y .. y + h - 1)
  BY DEF Filled
<1>4. x + w - 1 \in Int /\ y + h - 1 \in Int /\ x <= x + w - 1 /\ y <= y + h - 1
  BY <1>1
<1>5. Span(x, y, x + w - 1, y + h - 1) = (x .. x + w - 1) \X (y .. y + h - 1)
  BY <1>1, <1>4, SpanIs
<1> QED
  BY <1>2, <1>3, <1>5

(* GdFillRect draws the visible part of its area, once, whatever           *)
(* GdClipArea said of it, and puts the cursor back.                        *)
LEMMA FillRectCall ==
    ASSUME clipregion \in Regions, NEW n \in Int, n <= 1, NEW d, Good(d, n),
           NEW x \in Coords, NEW y \in Coords, NEW w \in Nat \ {0}, NEW h \in Nat \ {0},
           x + w <= MaxCoord + 1, y + h <= MaxCoord + 1
    PROVE  LET e == GdFillRect(d, x, y, w, h)
           IN  Served(d, e, n) /\ e.drawn = Painted(d, Filled(<<x, y, w, h>>))
<1> DEFINE r == x + w - 1
           b == y + h - 1
           a == GdClipArea(d, x, y, r, b)
           P == Filled(<<x, y, w, h>>)
           f == Draw(a.dev, P)
           g == Rows(a.dev, x, x + w - 1, y, h)
           e == GdFillRect(d, x, y, w, h)
<1>1. r \in Coords /\ b \in Coords /\ Span(x, y, r, b) = P
  BY SpanOfArea
<1> HIDE DEF r, b, P
<1>2. /\ Good(a.dev, n) /\ a.dev.drawn = d.drawn
      /\ a.clip \in {"VISIBLE", "INVISIBLE", "PARTIAL"}
      /\ a.clip = "INVISIBLE" => a.dev.restore = d.restore /\ d.drawn = Painted(d, P)
      /\ a.clip = "VISIBLE" => Apart(a.dev, P) /\ Draw(a.dev, P).drawn = Painted(d, P)
  <2>1. /\ Good(a.dev, n) /\ a.dev.drawn = d.drawn
        /\ a.clip \in {"VISIBLE", "INVISIBLE", "PARTIAL"}
        /\ a.clip = "INVISIBLE" =>
              a.dev.restore = d.restore /\ d.drawn = Painted(d, Span(x, y, r, b))
        /\ a.clip = "VISIBLE" =>
              /\ Apart(a.dev, Span(x, y, r, b))
              /\ Draw(a.dev, Span(x, y, r, b)).drawn = Painted(d, Span(x, y, r, b))
    <3>1. Good(a.dev, n)
      BY <1>1, ClipAreaGood
    <3>2. a.dev.drawn = d.drawn
      BY <1>1, ClipAreaGood
    <3>3. a.clip \in {"VISIBLE", "INVISIBLE", "PARTIAL"}
      BY <1>1, ClipAreaGood
    <3>4. a.clip = "INVISIBLE" =>
              a.dev.restore = d.restore /\ d.drawn = Painted(d, Span(x, y, r, b))
      BY <1>1, ClipAreaGood
    <3>5. a.clip = "VISIBLE" =>
              /\ Apart(a.dev, Span(x, y, r, b))
              /\ Draw(a.dev, Span(x, y, r, b)).drawn = Painted(d, Span(x, y, r, b))
      BY <1>1, ClipAreaGood
    <3> QED
      BY <3>1, <3>2, <3>3, <3>4, <3>5
  <2> HIDE DEF a
  <2> QED
    BY <1>1, <2>1
<1>3. /\ a.clip = "VISIBLE" => e = GdFixCursor(f)
      /\ a.clip = "INVISIBLE" => e = a.dev
      /\ a.clip = "PARTIAL" => e = GdFixCursor(g)
  <2>1. P = (x .. x + w - 1) \X (y .. y + h - 1)
    BY DEF Filled, P
  <2> QED
    BY <2>1 DEF GdFillRect, r, b
<1> HIDE DEF a, e
<1>4. CASE a.clip = "VISIBLE"
  <2>1. Good(f, n) /\ f.drawn = Painted(d, P)
    BY <1>2, <1>4, DrawGood
  <2> HIDE DEF f
  <2>2. Good(e, n) /\ e.restore = FALSE /\ e.drawn = f.drawn
    BY <1>3, <1>4, <2>1, FixGood
  <2> QED
    BY <2>1, <2>2 DEF Served, e, P
<1>5. CASE a.clip = "INVISIBLE"
  BY <1>2, <1>3, <1>5 DEF Served, e, P
<1>6. CASE a.clip = "PARTIAL"
  <2>1. x \in Int /\ x + w - 1 \in Int /\ x <= x + w - 1
    BY ClipAssumption DEF Coords
  <2>2. Good(g, n) /\ g.drawn = Painted(a.dev, (x .. x + w - 1) \X (y .. y + h - 1))
    BY <1>2, <2>1, RowsGood
  <2> HIDE DEF g
  <2>3. Painted(a.dev, (x .. x + w - 1) \X (y .. y + h - 1)) = Painted(d, P)
    BY <1>2 DEF Painted, P, Filled
  <2>4. Good(e, n) /\ e.restore = FALSE /\ e.drawn = g.drawn
    BY <1>3, <1>6, <2>2, FixGood
  <2> QED
    BY <2>2, <2>3, <2>4 DEF Served, e, P
<1> QED
  BY <1>2, <1>4, <1>5, <1>6

(* A rectangle is drawn side by side, its corners with the rows; one of    *)
(* less than three rows may leave the cursor to be restored.               *)
LEMMA RectCall ==
    ASSUME clipregion \in Regions, NEW n \in Int, n <= 1, NEW d, Good(d, n),
           NEW x \in Coords, NEW y \in Coords, NEW w \in Nat \ {0}, NEW h \in Nat \ {0},
           x + w <= MaxCoord + 1, y + h <= MaxCoord + 1
    PROVE  LET e == GdRect(d, x, y, w, h)
           IN  /\ Good(e, n) /\ (h >= 3 => ~e.restore)
               /\ e.drawn = Painted(d, Outline(<<x, y, w, h>>))
<1> DEFINE r     == x + w - 1
           b     == y + h - 1
           A     == (x .. r) \X {y}
           B     == (x .. r) \X {b}
           C     == {x} \X (y + 1 .. b - 1)
           D     == {r} \X (y + 1 .. b - 1)
           top   == drawrow(d, x, r, y)
           rows  == IF h > 1 THEN drawrow(top, x, r, b) ELSE top
           left  == drawcol(rows, x, y + 1, b - 1)
           right == IF w > 1 THEN drawcol(left, r, y + 1, b - 1) ELSE left
           e     == GdRect(d, x, y, w, h)
<1>1. r \in Coords /\ b \in Coords
  BY SpanOfArea
<1>2. /\ x \in Int /\ y \in Int /\ r \in Int /\ b \in Int /\ x <= r /\ y <= b
      /\ r = x + w - 1 /\ b = y + h - 1 /\ b - 1 = y + h - 2
  BY ClipAssumption DEF Coords
<1>3. e = IF h < 3 THEN rows ELSE GdFixCursor(right)
  <2>1. y + h - 2 = b - 1
    BY <1>2
  <2> QED
    BY <2>1 DEF GdRect
<1>4. Outline(<<x, y, w, h>>) = {p \in (x .. r) \X (y .. b) : p[1] \in {x, r} \/ p[2] \in {y, b}}
  BY DEF Outline, Filled
<1> HIDE DEF e, r, b
<1>5. /\ Span(x, y, r, y) = A /\ Span(x, b, r, b) = B
      /\ h >= 3 => Span(x, y + 1, x, b - 1) = C /\ Span(r, y + 1, r, b - 1) = D
  <2>1. y .. y = {y} /\ b .. b = {b} /\ x .. x = {x} /\ r .. r = {r}
    BY <1>2
  <2>2. Span(x, y, r, y) = (x .. r) \X (y .. y)
    BY <1>2, SpanIs, SMTT(30)
  <2>3. Span(x, b, r, b) = (x .. r) \X (b .. b)
    BY <1>2, SpanIs, SMTT(30)
  <2>4. ASSUME h >= 3
        PROVE  /\ Span(x, y + 1, x, b - 1) = (x .. x) \X (y + 1 .. b - 1)
               /\ Span(r, y + 1, r, b - 1) = (r .. r) \X (y + 1 .. b - 1)
    <3>1. y + 1 \in Int /\ b - 1 \in Int /\ y + 1 <= b - 1 /\ x <= x /\ r <= r
      BY <1>2, <2>4
    <3>2. Span(x, y + 1, x, b - 1) = (x .. x) \X (y + 1 .. b - 1)
      BY <1>2, <3>1, SpanIs, SMTT(30)
    <3>3. Span(r, y + 1, r, b - 1) = (r .. r) \X (y + 1 .. b - 1)
      BY <1>2, <3>1, SpanIs, SMTT(30)
    <3> QED
      BY <3>2, <3>3
  <2> QED
    BY <2>1, <2>2, <2>3, <2>4
<1>6. /\ h > 1 => A \cap B = {}
      /\ (A \cup B) \cap C = {}
      /\ w > 1 => ((A \cup B) \cup C) \cap D = {}
  BY <1>2
<1>7. /\ h = 1 => A = Outline(<<x, y, w, h>>)
      /\ h = 2 => A \cup B = Outline(<<x, y, w, h>>)
      /\ h >= 3 /\ w = 1 => (A \cup B) \cup C = Outline(<<x, y, w, h>>)
      /\ h >= 3 /\ w > 1 => ((A \cup B) \cup C) \cup D = Outline(<<x, y, w, h>>)
  BY <1>2, <1>4
<1> HIDE DEF A, B, C, D
<1>8. Good(top, n) /\ top.drawn = Painted(d, A)
  BY <1>2, <1>5, RowGood
<1> HIDE DEF top
<1>9. Good(rows, n) /\ rows.drawn = IF h > 1 THEN Painted(d, A \cup B) ELSE Painted(d, A)
  <2>1. CASE h > 1
    <3>1. Good(rows, n) /\ rows.drawn = Painted(top, B)
      BY <1>1, <1>2, <1>5, <1>8, <2>1, RowGood
    <3>2. d \in Devs
      BY DEF Good
    <3> QED
      BY <1>6, <1>8, <2>1, <3>1, <3>2, PaintedTwice
  <2>2. CASE ~(h > 1)
    BY <1>8, <2>2
  <2> QED
    BY <2>1, <2>2
<1> HIDE DEF rows
<1>10. CASE h < 3
  <2>1. e = rows
    BY <1>3, <1>10
  <2>2. h = 1 \/ h = 2
    BY <1>10
  <2> QED
    BY <1>7, <1>9, <1>10, <2>1, <2>2 DEF e
<1>11. CASE h >= 3
  <2>1. d \in Devs /\ h > 1 /\ y + 1 \in Int /\ b - 1 \in Int
    BY <1>2, <1>11 DEF Good
  <2>2. Good(left, n) /\ left.drawn = Painted(rows, C)
    BY <1>2, <1>5, <1>9, <1>11, <2>1, ColGood
  <2>3. left.drawn = Painted(d, (A \cup B) \cup C)
    BY <1>6, <1>9, <2>1, <2>2, PaintedTwice
  <2> HIDE DEF left
  <2>4. Good(right, n) /\ right.drawn = Painted(d, Outline(<<x, y, w, h>>))
    <3>1. CASE w > 1
      <4>1. Good(right, n) /\ right.drawn = Painted(left, D)
        BY <1>1, <1>2, <1>5, <1>11, <2>1, <2>2, <3>1, ColGood
      <4>2. right.drawn = Painted(d, ((A \cup B) \cup C) \cup D)
        BY <1>6, <2>1, <2>3, <3>1, <4>1, PaintedTwice
      <4> QED
        BY <1>7, <1>11, <3>1, <4>1, <4>2
    <3>2. CASE w = 1
      BY <1>7, <1>11, <2>2, <2>3, <3>2
    <3> QED
      BY <3>1, <3>2
  <2> HIDE DEF right
  <2>5. e = GdFixCursor(right)
    BY <1>3, <1>11
  <2>6. Good(e, n) /\ e.restore = FALSE /\ e.drawn = right.drawn
    BY <2>4, <2>5, FixGood
  <2> QED
    BY <2>4, <2>6 DEF e
<1> QED
  BY <1>10, <1>11

(* What is read away from the cursor was drawn.                            *)
LEMMA ApartShows ==
    ASSUME NEW n, NEW d, Good(d, n), MaxVisible <= 1, NEW P, Apart(d, P)
    PROVE  \A p \in P \cap Pixels : d.pix[p] = "app"
<1>1. d.visible \in Int /\ Intact(d)
  BY DEF Good, Devs
<1>2. Shown(d) \cap P = {}
  BY <1>1 DEF Shown, Apart
<1> QED
  BY <1>1, <1>2 DEF Intact

(* GdReadArea puts the cursor back, and has none in what it reads.         *)
LEMMA ReadCall ==
    ASSUME clipregion \in Regions, NEW n \in Int, n <= 1, NEW d, Good(d, n),
           NEW x \in Coords, NEW y \in Coords, NEW w \in Nat \ {0}, NEW h \in Nat \ {0},
           x + w <= MaxCoord + 1, y + h <= MaxCoord + 1
    PROVE  /\ Served(d, GdReadArea(d, x, y, w, h), n)
           /\ MaxVisible <= 1 =>
                \A p \in Filled(<<x, y, w, h>>) \cap Pixels : Reading(d, x, y, w, h).pix[p] = "app"
<1> DEFINE e == Reading(d, x, y, w, h)
<1>1. /\ x \in Int /\ y \in Int /\ x + w - 1 \in Int /\ y + h - 1 \in Int
      /\ Span(x, y, x + w - 1, y + h - 1) = Filled(<<x, y, w, h>>)
  BY ClipAssumption, SpanOfArea DEF Coords
<1>2. Good(e, n) /\ Apart(e, Filled(<<x, y, w, h>>))
  BY <1>1, CheckGood DEF Reading
<1>3. GdReadArea(d, x, y, w, h) = GdFixCursor(e)
  BY DEF GdReadArea
<1> HIDE DEF e
<1>4. Served(d, GdReadArea(d, x, y, w, h), n)
  BY <1>2, <1>3, FixGood DEF Served
<1>5. MaxVisible <= 1 => \A p \in Filled(<<x, y, w, h>>) \cap Pixels : e.pix[p] = "app"
  BY <1>2, ApartShows
<1> QED
  BY <1>4, <1>5 DEF e
-----------------------------------------------------------------------------
(* The path of a line, step by step.                                       *)

Points(X, Y, k) == {<<X[i], Y[i]>> : i \in 0 .. k}

(* Where a line is after k steps, given its path.                          *)
StepsDone(d, n, X, Y, R, k) ==
    {s \in [dev : Devs, x : Int, y : Int, rem : Int] :
        /\ Good(s.dev, n) /\ Since(d, s.dev)
        /\ s.x = X[k] /\ s.y = Y[k] /\ s.rem = R[k]
        /\ s.dev.drawn = Painted(d, Points(X, Y, k))}

(* The path goes on by what Step adds, never to the same point again.      *)
Path(X, Y, R, u, slope) ==
    /\ X \in [0 .. slope.major -> Coords] /\ Y \in [0 .. slope.major -> Coords]
    /\ R \in [0 .. slope.major -> Int] /\ R[0] = slope.major \div 2
    /\ \A k \in 1 .. slope.major :
          LET over == R[k - 1] + slope.minor >= slope.major
          IN  /\ X[k] = X[k - 1] + u[1] + (IF over THEN u[3] ELSE 0)
              /\ Y[k] = Y[k - 1] + u[2] + (IF over THEN u[4] ELSE 0)
              /\ R[k] = R[k - 1] + slope.minor - (IF over THEN slope.major ELSE 0)
    /\ \A i, k \in 0 .. slope.major : i < k => <<X[i], Y[i]>> # <<X[k], Y[k]>>

(* A step of a line goes to the next point of its path and draws it.       *)
LEMMA StepTurnGood ==
    ASSUME clipregion \in Regions, NEW n \in Int, n <= 1, NEW d \in Devs,
           NEW u, NEW slope, slope.major \in Nat, slope.minor \in Nat,
           NEW X, NEW Y, NEW R, Path(X, Y, R, u, slope),
           NEW k \in 1 .. slope.major, NEW s \in StepsDone(d, n, X, Y, R, k - 1)
    PROVE  Step(s, u, slope) \in StepsDone(d, n, X, Y, R, k)
<1> DEFINE over == s.rem + slope.minor >= slope.major
           nx   == s.x + u[1] + (IF over THEN u[3] ELSE 0)
           ny   == s.y + u[2] + (IF over THEN u[4] ELSE 0)
           nr   == s.rem + slope.minor - (IF over THEN slope.major ELSE 0)
           e    == Plot(s.dev, nx, ny)
           P    == Points(X, Y, k - 1)
           q    == [dev |-> e, x |-> nx, y |-> ny, rem |-> nr]
<1>1. /\ s.dev \in Devs /\ Good(s.dev, n) /\ Since(d, s.dev)
      /\ s.x = X[k - 1] /\ s.y = Y[k - 1] /\ s.rem = R[k - 1]
      /\ s.dev.drawn = Painted(d, P)
  BY DEF StepsDone
<1>2. Step(s, u, slope) = q
  BY DEF Step
<1>3. nx = X[k] /\ ny = Y[k] /\ nr = R[k]
  BY <1>1 DEF Path
<1>4. X[k] \in Coords /\ Y[k] \in Coords /\ R[k] \in Int
  <2>1. k \in 0 .. slope.major
    OBVIOUS
  <2> QED
    BY <2>1 DEF Path
<1> HIDE DEF nx, ny, nr
<1>5. Good(e, n) /\ Since(s.dev, e) /\ e.drawn = Painted(s.dev, {<<nx, ny>>})
  BY <1>1, <1>3, <1>4, PlotGood
<1> HIDE DEF e
<1>6. P \cap {<<nx, ny>>} = {}
  <2>1. ASSUME NEW i \in 0 .. k - 1
        PROVE  <<X[i], Y[i]>> # <<nx, ny>>
    BY <1>3 DEF Path
  <2> QED
    BY <2>1 DEF Points
<1>7. P \cup {<<nx, ny>>} = Points(X, Y, k)
  <2>1. \A i : i \in 0 .. k <=> i \in 0 .. k - 1 \/ i = k
    OBVIOUS
  <2>2. ASSUME NEW p
        PROVE  p \in P \cup {<<nx, ny>>} <=> \E i \in 0 .. k : p = <<X[i], Y[i]>>
    BY <1>3, <2>1 DEF Points
  <2> QED
    BY <2>2 DEF Points
<1> HIDE DEF P
<1>8. e.drawn = Painted(d, Points(X, Y, k))
  BY <1>1, <1>5, <1>6, <1>7, PaintedTwice
<1>9. e \in Devs /\ Since(d, e)
  BY <1>1, <1>5, SinceTransitive DEF Good
<1>10. q \in [dev : Devs, x : Int, y : Int, rem : Int]
  <2>1. nx \in Int /\ ny \in Int /\ nr \in Int
    BY <1>3, <1>4, ClipAssumption DEF Coords
  <2> QED
    BY <1>9, <2>1
<1>11. q.dev = e /\ q.x = nx /\ q.y = ny /\ q.rem = nr
  OBVIOUS
<1> HIDE DEF q
<1> QED
  BY <1>2, <1>3, <1>5, <1>8, <1>9, <1>10, <1>11 DEF StepsDone

(* The steps of a line draw the visible points of its path, each once if   *)
(* the path comes to none twice.                                           *)
LEMMA StepsGood ==
    ASSUME clipregion \in Regions, NEW n \in Int, n <= 1, NEW d, Good(d, n),
           NEW u, NEW slope, slope.major \in Nat, slope.minor \in Nat,
           NEW X, NEW Y, NEW R, Path(X, Y, R, u, slope)
    PROVE  LET e == Steps(d, X[0], Y[0], u, slope)
           IN  /\ Good(e, n) /\ Since(d, e)
               /\ e.drawn = Painted(d, Points(X, Y, slope.major))
<1> DEFINE N == slope.major
           S == [dev : Devs, x : Int, y : Int, rem : Int]
           T == [k \in 0 .. N |-> StepsDone(d, n, X, Y, R, k)]
           p == Plot(d, X[0], Y[0])
           a == [dev |-> p, x |-> X[0], y |-> Y[0], rem |-> slope.major \div 2]
           G == [q \in S \X (1 .. N) |-> Step(q[1], u, slope)]
           step == CHOOSE f :
                       f = [k \in 0 .. N |-> IF k = 0 THEN a ELSE Step(f[k - 1], u, slope)]
<1>1. d \in Devs /\ N \in Nat
  BY DEF Good
<1>2. Steps(d, X[0], Y[0], u, slope) = step[N].dev
  BY DEF Steps
<1>3. a \in StepsDone(d, n, X, Y, R, 0)
  <2>1. X[0] \in Coords /\ Y[0] \in Coords /\ R[0] \in Int /\ R[0] = slope.major \div 2
    BY <1>1 DEF Path
  <2>2. Good(p, n) /\ Since(d, p) /\ p.drawn = Painted(d, {<<X[0], Y[0]>>})
    <3>1. Good(p, n)
      BY <2>1, PlotGood
    <3>2. Since(d, p)
      BY <2>1, PlotGood
    <3>3. p.drawn = Painted(d, {<<X[0], Y[0]>>})
      BY <2>1, PlotGood
    <3> QED
      BY <3>1, <3>2, <3>3
  <2> HIDE DEF p
  <2>3. X[0] \in Int /\ Y[0] \in Int /\ p \in Devs
    BY <2>1, <2>2, ClipAssumption DEF Coords, Good
  <2>4. a \in S /\ a.dev = p /\ a.x = X[0] /\ a.y = Y[0] /\ a.rem = R[0]
    BY <2>1, <2>3
  <2>5. Points(X, Y, 0) = {<<X[0], Y[0]>>}
    BY DEF Points
  <2> HIDE DEF a
  <2> QED
    BY <2>2, <2>4, <2>5 DEF StepsDone
<1>4. ASSUME NEW k \in 1 .. N, NEW s \in StepsDone(d, n, X, Y, R, k - 1)
      PROVE  Step(s, u, slope) \in StepsDone(d, n, X, Y, R, k)
  BY <1>1, <1>4, StepTurnGood
<1> HIDE DEF N
<1>5. /\ T[0] = StepsDone(d, n, X, Y, R, 0) /\ T[N] = StepsDone(d, n, X, Y, R, N)
      /\ \A k \in 0 .. N : T[k] \subseteq S
      /\ \A k \in 1 .. N : /\ k - 1 \in 0 .. N
                           /\ T[k - 1] = StepsDone(d, n, X, Y, R, k - 1)
                           /\ T[k] = StepsDone(d, n, X, Y, R, k)
  BY <1>1 DEF StepsDone
<1> HIDE DEF T
<1>6. \A k \in 1 .. N : \A s \in T[k - 1] : s \in S /\ G[<<s, k>>] = Step(s, u, slope)
  BY <1>5
<1>7. \A k \in 1 .. N : \A s \in T[k - 1] : Step(s, u, slope) \in T[k]
  BY <1>4, <1>5
<1> HIDE DEF a, S, G
<1>8. \E f : Looped(f, N, a, G) /\ \A k \in 0 .. N : f[k] \in T[k]
  <2>1. a \in T[0] /\ \A k \in 0 .. N : T[k] \subseteq S
    BY <1>3, <1>5
  <2>2. \A k \in 1 .. N : \A s \in T[k - 1] : G[<<s, k>>] \in T[k]
    BY <1>6, <1>7
  <2> QED
    BY <1>1, <2>1, <2>2, LoopRuns
<1>9. \E f : f = [k \in 0 .. N |-> IF k = 0 THEN a ELSE Step(f[k - 1], u, slope)]
  <2>1. PICK f : Looped(f, N, a, G) /\ \A k \in 0 .. N : f[k] \in T[k]
    BY <1>8
  <2>2. ASSUME NEW k \in 1 .. N
        PROVE  G[<<f[k - 1], k>>] = Step(f[k - 1], u, slope)
    BY <1>5, <1>6, <2>1
  <2>3. f = [k \in 0 .. N |-> IF k = 0 THEN a ELSE G[<<f[k - 1], k>>]]
    BY <2>1 DEF Looped
  <2>4. \A k \in 0 .. N : k = 0 \/ k \in 1 .. N
    BY <1>1
  <2>5. f = [k \in 0 .. N |-> IF k = 0 THEN a ELSE Step(f[k - 1], u, slope)]
    BY <2>2, <2>3, <2>4
  <2> QED
    BY <2>5
<1>10. step = [k \in 0 .. N |-> IF k = 0 THEN a ELSE Step(step[k - 1], u, slope)]
  BY <1>9, Zenon
<1> HIDE DEF step
<1>11. step[0] = a /\ \A k \in 1 .. N : step[k] = Step(step[k - 1], u, slope)
  BY <1>1, <1>10
<1>12. \A k \in 0 .. N : step[k] \in T[k]
  <2>1. step[0] \in T[0]
    BY <1>3, <1>5, <1>11
  <2>2. \A k \in 1 .. N : step[k - 1] \in T[k - 1] => step[k] \in T[k]
    BY <1>7, <1>11
  <2> QED
    BY <1>1, <2>1, <2>2, LoopKeeps
<1>13. step[N] \in StepsDone(d, n, X, Y, R, N)
  BY <1>1, <1>5, <1>12
<1> QED
  BY <1>2, <1>13 DEF StepsDone, N
-----------------------------------------------------------------------------
(* Dividing and rounding.                                                  *)

(* A quotient rounded down, and its remainder.                             *)
LEMMA Division ==
    ASSUME NEW a \in Int, NEW M \in Nat \ {0}
    PROVE  /\ a \div M \in Int /\ (a \div M) * M \in Int
           /\ (a \div M) * M <= a /\ a < (a \div M) * M + M
OBVIOUS

(* Half of a number, rounded down.                                         *)
LEMMA Halves ==
    ASSUME NEW M \in Nat
    PROVE  M \div 2 \in Nat /\ 2 * (M \div 2) <= M /\ (M > 0 => M \div 2 < M)
OBVIOUS

(* The quotient is the only number with such a remainder.                  *)
LEMMA DivisionIs ==
    ASSUME NEW a \in Int, NEW M \in Nat \ {0}, NEW q \in Int, q * M <= a, a < q * M + M
    PROVE  a \div M = q
<1> DEFINE b == a \div M
<1>1. b \in Int /\ b * M <= a /\ a < b * M + M
  BY Division
<1> HIDE DEF b
<1>2. ASSUME b < q
      PROVE  FALSE
  <2>1. b + 1 <= q
    BY <1>1, <1>2
  <2>2. (b + 1) * M <= q * M
    BY <1>1, <2>1
  <2>3. (b + 1) * M = b * M + M
    BY <1>1
  <2> QED
    BY <1>1, <2>2, <2>3
<1>3. ASSUME q < b
      PROVE  FALSE
  <2>1. q + 1 <= b
    BY <1>1, <1>3
  <2>2. (q + 1) * M <= b * M
    BY <1>1, <2>1
  <2>3. (q + 1) * M = q * M + M
    BY <1>1
  <2> QED
    BY <1>1, <2>2, <2>3
<1> QED
  BY <1>1, <1>2, <1>3 DEF b

(* How far the shorter axis has come with i steps of the longer one.       *)
Round(i, m, M) == (i * m + M \div 2) \div M

(* What is left over by then.                                              *)
Rest(i, m, M) == (i * m + M \div 2) - Round(i, m, M) * M

(* The types of the rounded quotient and of what is over.                  *)
LEMMA RoundTyped ==
    ASSUME NEW M \in Nat \ {0}, NEW m \in Nat, NEW i \in Nat
    PROVE  /\ Round(i, m, M) \in Int /\ Rest(i, m, M) \in 0 .. M - 1
           /\ i * m \in Nat /\ Round(i, m, M) * M \in Int
<1> DEFINE a == i * m + M \div 2
<1>1. i * m \in Nat /\ M \div 2 \in Nat
  BY Halves
<1>2. a \in Int
  BY <1>1
<1>3. /\ a \div M \in Int /\ (a \div M) * M \in Int
      /\ (a \div M) * M <= a /\ a < (a \div M) * M + M
  <2> HIDE DEF a
  <2> QED
    BY <1>2, Division
<1>4. Rest(i, m, M) = a - (a \div M) * M /\ Round(i, m, M) = a \div M
  BY Zenon DEF Rest, Round
<1> HIDE DEF a
<1> QED
  BY <1>1, <1>2, <1>3, <1>4

(* The rounded quotient is the only number that near.                      *)
LEMMA RoundIs ==
    ASSUME NEW M \in Nat \ {0}, NEW m \in Nat, NEW i \in Nat, NEW q \in Int,
           q * M <= i * m + M \div 2, i * m + M \div 2 < q * M + M
    PROVE  Round(i, m, M) = q
<1> DEFINE a == i * m + M \div 2
<1>1. a \in Int /\ q * M <= a /\ a < q * M + M
  BY Halves
<1>2. a \div M = q
  <2> HIDE DEF a
  <2> QED
    BY <1>1, DivisionIs
<1> QED
  BY <1>2 DEF Round

(* A line starts with half of its longer side as the remainder.            *)
LEMMA RoundStarts ==
    ASSUME NEW M \in Nat \ {0}, NEW m \in Nat
    PROVE  Round(0, m, M) = 0 /\ Rest(0, m, M) = M \div 2
<1>1. 0 * m = 0 /\ 0 * M = 0 /\ M \div 2 \in Nat /\ M \div 2 < M
  BY Halves
<1>2. Round(0, m, M) = 0
  BY <1>1, RoundIs
<1> QED
  BY <1>1, <1>2 DEF Rest

(* Along the longer side each step is one.                                 *)
LEMMA RoundAll ==
    ASSUME NEW M \in Nat \ {0}, NEW i \in Nat
    PROVE  Round(i, M, M) = i
<1>1. i * M \in Nat /\ M \div 2 \in Nat /\ M \div 2 < M
  BY Halves
<1>2. i * M <= i * M + M \div 2 /\ i * M + M \div 2 < i * M + M
  BY <1>1
<1> QED
  BY <1>2, RoundIs

(* The remainder kept by the line's loop is that of the quotient: one step *)
(* of the loop is one step of the ideal line.                              *)
LEMMA RoundStep ==
    ASSUME NEW M \in Nat \ {0}, NEW m \in 0 .. M, NEW i \in Nat \ {0}
    PROVE  LET over == Rest(i - 1, m, M) + m >= M
           IN  /\ Round(i, m, M) = Round(i - 1, m, M) + (IF over THEN 1 ELSE 0)
               /\ Rest(i, m, M) = Rest(i - 1, m, M) + m - (IF over THEN M ELSE 0)
<1> DEFINE q == Round(i - 1, m, M)
           r == Rest(i - 1, m, M)
           o == IF r + m >= M THEN 1 ELSE 0
<1>1. i - 1 \in Nat /\ m \in Nat
  OBVIOUS
<1>2. /\ q \in Int /\ r \in 0 .. M - 1 /\ (i - 1) * m \in Nat /\ q * M \in Int
  BY <1>1, RoundTyped
<1>3. r = ((i - 1) * m + M \div 2) - q * M
  BY DEF Rest
<1>4. /\ (i - 1) * m + m = i * m /\ M \div 2 \in Nat /\ i * m \in Nat
      /\ (q + 1) * M = q * M + M /\ (q + o) * M = q * M + (IF r + m >= M THEN M ELSE 0)
  <2>1. M \div 2 \in Nat /\ i * m \in Nat
    BY Halves
  <2>2. (i - 1) * m + m = i * m
    BY <1>1
  <2> HIDE DEF q, r
  <2>3. (q + 1) * M = q * M + M
    BY <1>2
  <2>4. (q + o) * M = q * M + (IF r + m >= M THEN M ELSE 0)
    <3>1. CASE r + m >= M
      BY <1>2, <2>3, <3>1
    <3>2. CASE ~(r + m >= M)
      BY <1>2, <3>2
    <3> QED
      BY <3>1, <3>2
  <2> QED
    BY <2>1, <2>2, <2>3, <2>4
<1> HIDE DEF q, r
<1>5. (q + o) * M <= i * m + M \div 2 /\ i * m + M \div 2 < (q + o) * M + M
  BY <1>1, <1>2, <1>3, <1>4
<1>6. o \in Int /\ q + o \in Int
  BY <1>2
<1>7. Round(i, m, M) = q + o
  <2> HIDE DEF o
  <2> QED
    BY <1>1, <1>5, <1>6, RoundIs
<1>8. Rest(i, m, M) = (i * m + M \div 2) - (q + o) * M
  BY <1>7 DEF Rest
<1>9. Rest(i, m, M) = r + m - (IF r + m >= M THEN M ELSE 0)
  BY <1>2, <1>3, <1>4, <1>8
<1> QED
  BY <1>7, <1>9 DEF q, r

(* A line goes no further than its end.                                    *)
LEMMA RoundWithin ==
    ASSUME NEW M \in Nat \ {0}, NEW m \in Nat, NEW i \in 0 .. M
    PROVE  Round(i, m, M) \in 0 .. m
<1> DEFINE q == Round(i, m, M)
           r == Rest(i, m, M)
<1>1. i \in Nat
  OBVIOUS
<1>2. /\ q \in Int /\ r \in 0 .. M - 1 /\ i * m \in Nat /\ q * M \in Int
      /\ r = (i * m + M \div 2) - q * M /\ M \div 2 \in Nat /\ M \div 2 < M
  BY <1>1, RoundTyped, Halves DEF Rest
<1> HIDE DEF q, r
<1>3. ASSUME q < 0
      PROVE  FALSE
  <2>1. q * M <= (-1) * M /\ (-1) * M = -M
    BY <1>2, <1>3
  <2> QED
    BY <1>2, <2>1
<1>4. ASSUME q > m
      PROVE  FALSE
  <2>1. m * M + M = (m + 1) * M /\ m * M \in Nat
    OBVIOUS
  <2>2. (m + 1) * M <= q * M
    BY <1>2, <1>4
  <2>3. i * m <= m * M
    BY <1>1
  <2> QED
    BY <1>2, <2>1, <2>2, <2>3
<1> QED
  BY <1>2, <1>3, <1>4 DEF q
-----------------------------------------------------------------------------
(* The ideal line.                                                         *)

(* The distance and direction from one coordinate to another.              *)
LEMMA DistIs ==
    ASSUME NEW a \in Int, NEW b \in Int
    PROVE  /\ Dist(a, b) \in Nat /\ Toward(a, b) \in {1, -1}
           /\ Dist(a, b) = 0 <=> a = b
           /\ Toward(a, b) = 1 => b = a + Dist(a, b)
           /\ Toward(a, b) = -1 => b = a - Dist(a, b)
           /\ Dist(0, b - a) = Dist(a, b) /\ Toward(0, b - a) = Toward(a, b)
<1>1. Dist(a, b) = IF a - b >= b - a THEN a - b ELSE b - a
  <2>1. a - b \in Int /\ b - a \in Int
    OBVIOUS
  <2> QED
    BY <2>1, MaxTwo DEF Dist
<1>2. Dist(0, b - a) = IF 0 - (b - a) >= (b - a) - 0 THEN 0 - (b - a) ELSE (b - a) - 0
  <2>1. 0 - (b - a) \in Int /\ (b - a) - 0 \in Int
    OBVIOUS
  <2> QED
    BY <2>1, MaxTwo DEF Dist
<1> QED
  BY <1>1, <1>2 DEF Toward

(* A coordinate q on the way from a to b.                                  *)
LEMMA Along ==
    ASSUME NEW a \in Int, NEW b \in Int, NEW q \in 0 .. Dist(a, b)
    PROVE  /\ a + Toward(a, b) * q \in Int
           /\ a + Toward(a, b) * q \in Min({a, b}) .. Max({a, b})
<1>1. /\ Min({a, b}) = IF a <= b THEN a ELSE b
      /\ Max({a, b}) = IF a >= b THEN a ELSE b
  BY MinTwo, MaxTwo
<1>2. Dist(a, b) \in Nat
  BY DistIs
<1>3. CASE Toward(a, b) = 1
  <2>1. b = a + Dist(a, b) /\ a + Toward(a, b) * q = a + q
    BY <1>3, DistIs
  <2> QED
    BY <1>1, <1>2, <2>1
<1>4. CASE Toward(a, b) = -1
  <2>1. b = a - Dist(a, b) /\ a + Toward(a, b) * q = a - q
    BY <1>4, DistIs
  <2> QED
    BY <1>1, <1>2, <2>1
<1> QED
  BY <1>3, <1>4, DistIs

(* The i-th coordinate of a line that takes n steps.                       *)
On(a, b, i, n) == a + Toward(a, b) * Round(i, Dist(a, b), n)

(* The ideal line by its two coordinates.                                  *)
LEMMA IdealIs ==
    ASSUME NEW x1 \in Int, NEW y1 \in Int, NEW x2 \in Int, NEW y2 \in Int, NEW n \in Nat \ {0},
           n = Max({Dist(x1, x2), Dist(y1, y2)})
    PROVE  Ideal(<<x1, y1, x2, y2>>) = {<<On(x1, x2, i, n), On(y1, y2, i, n)>> : i \in 0 .. n}
<1> DEFINE Near(i, d) == Toward(0, d) * ((i * Dist(0, d) + n \div 2) \div n)
<1>1. n # 0
  OBVIOUS
<1>2. Ideal(<<x1, y1, x2, y2>>) =
          {<<x1 + Near(i, x2 - x1), y1 + Near(i, y2 - y1)>> : i \in 0 .. n}
  BY <1>1, Zenon DEF Ideal
<1>3. \A i : /\ Near(i, x2 - x1) = Toward(x1, x2) * Round(i, Dist(x1, x2), n)
             /\ Near(i, y2 - y1) = Toward(y1, y2) * Round(i, Dist(y1, y2), n)
  <2>1. /\ Dist(0, x2 - x1) = Dist(x1, x2) /\ Toward(0, x2 - x1) = Toward(x1, x2)
        /\ Dist(0, y2 - y1) = Dist(y1, y2) /\ Toward(0, y2 - y1) = Toward(y1, y2)
    BY DistIs
  <2> QED
    BY <2>1, Zenon DEF Round
<1> HIDE DEF Near
<1>4. {<<x1 + Near(i, x2 - x1), y1 + Near(i, y2 - y1)>> : i \in 0 .. n} =
          {<<On(x1, x2, i, n), On(y1, y2, i, n)>> : i \in 0 .. n}
  BY <1>3, Zenon DEF On
<1> QED
  BY <1>2, <1>4

(* The ideal line stays between its ends.                                  *)
LEMMA OnWithin ==
    ASSUME NEW a \in Int, NEW b \in Int, NEW n \in Nat \ {0}, NEW i \in 0 .. n
    PROVE  On(a, b, i, n) \in Int /\ On(a, b, i, n) \in Min({a, b}) .. Max({a, b})
<1>1. Dist(a, b) \in Nat
  BY DistIs
<1>2. Round(i, Dist(a, b), n) \in 0 .. Dist(a, b)
  BY <1>1, RoundWithin
<1> QED
  BY <1>2, Along DEF On

(* On the longer axis each step counts; on the other one those that make   *)
(* the rest come over.                                                     *)
LEMMA OnLonger ==
    ASSUME NEW a \in Int, NEW b \in Int, NEW n \in Nat \ {0}, n = Dist(a, b)
    PROVE  /\ \A i \in 0 .. n : On(a, b, i, n) = a + Toward(a, b) * i
           /\ \A i \in 1 .. n : On(a, b, i, n) = On(a, b, i - 1, n) + Toward(a, b)
           /\ \A i, k \in 0 .. n : i < k => On(a, b, i, n) # On(a, b, k, n)
<1>1. \A i \in 0 .. n : On(a, b, i, n) = a + Toward(a, b) * i
  <2> TAKE i \in 0 .. n
  <2>1. Round(i, n, n) = i
    BY RoundAll
  <2> QED
    BY <2>1 DEF On
<1>2. Toward(a, b) = 1 \/ Toward(a, b) = -1
  BY DistIs
<1>3. ASSUME NEW i \in 1 .. n
      PROVE  On(a, b, i, n) = On(a, b, i - 1, n) + Toward(a, b)
  <2>1. i \in 0 .. n /\ i - 1 \in 0 .. n
    OBVIOUS
  <2>2. On(a, b, i, n) = a + Toward(a, b) * i /\ On(a, b, i - 1, n) = a + Toward(a, b) * (i - 1)
    BY <1>1, <2>1
  <2> QED
    BY <1>2, <2>1, <2>2
<1>4. ASSUME NEW i \in 0 .. n, NEW k \in 0 .. n, i < k
      PROVE  On(a, b, i, n) # On(a, b, k, n)
  <2>1. On(a, b, i, n) = a + Toward(a, b) * i /\ On(a, b, k, n) = a + Toward(a, b) * k
    BY <1>1
  <2> QED
    BY <1>2, <1>4, <2>1
<1> QED
  BY <1>1, <1>3, <1>4

(* Along the shorter side the ideal line steps when the remainder comes to *)
(* the longer side.                                                        *)
LEMMA OnShorter ==
    ASSUME NEW a \in Int, NEW b \in Int, NEW n \in Nat \ {0}, Dist(a, b) <= n, NEW i \in 1 .. n
    PROVE  LET over == Rest(i - 1, Dist(a, b), n) + Dist(a, b) >= n
           IN  /\ On(a, b, i, n) = On(a, b, i - 1, n) + (IF over THEN Toward(a, b) ELSE 0)
               /\ Rest(i, Dist(a, b), n) =
                      Rest(i - 1, Dist(a, b), n) + Dist(a, b) - (IF over THEN n ELSE 0)
<1> DEFINE m == Dist(a, b)
           over == Rest(i - 1, m, n) + m >= n
           q == Round(i - 1, m, n)
<1>1. m \in Nat /\ m \in 0 .. n /\ i \in Nat \ {0} /\ i - 1 \in Nat
  BY DistIs
<1>2. Toward(a, b) = 1 \/ Toward(a, b) = -1
  BY DistIs
<1> HIDE DEF m
<1>3. /\ Round(i, m, n) = q + (IF over THEN 1 ELSE 0)
      /\ Rest(i, m, n) = Rest(i - 1, m, n) + m - (IF over THEN n ELSE 0)
  BY <1>1, RoundStep
<1>4. q \in Int
  BY <1>1, RoundTyped
<1>5. /\ On(a, b, i, n) = a + Toward(a, b) * Round(i, m, n)
      /\ On(a, b, i - 1, n) = a + Toward(a, b) * q
  BY DEF On, m
<1> HIDE DEF q, over
<1>6. On(a, b, i, n) = On(a, b, i - 1, n) + (IF over THEN Toward(a, b) ELSE 0)
  BY <1>2, <1>3, <1>4, <1>5
<1> QED
  BY <1>3, <1>6 DEF m, over
-----------------------------------------------------------------------------
(* Lines.                                                                  *)

OnX(l, n)  == [i \in 0 .. n |-> On(l[1], l[3], i, n)]
OnY(l, n)  == [i \in 0 .. n |-> On(l[2], l[4], i, n)]
Over(m, n) == [i \in 0 .. n |-> Rest(i, m, n)]

(* What is between two coordinates is one.                                 *)
LEMMA CoordsBetween ==
    ASSUME NEW a \in Coords, NEW b \in Coords
    PROVE  (Min({a, b}) .. Max({a, b})) \subseteq Coords /\ a \in Int /\ b \in Int
<1>1. a \in Int /\ b \in Int /\ MinCoord \in Int /\ MaxCoord \in Int
  BY ClipAssumption DEF Coords
<1>2. Min({a, b}) = (IF a <= b THEN a ELSE b) /\ Max({a, b}) = (IF a >= b THEN a ELSE b)
  BY <1>1, MinTwo, MaxTwo
<1> QED
  BY <1>1, <1>2 DEF Coords

(* What a line needs of its path, whichever axis is the longer.            *)
LEMMA LinePath ==
    ASSUME NEW x1 \in Coords, NEW y1 \in Coords, NEW x2 \in Coords, NEW y2 \in Coords,
           x1 # x2, y1 # y2
    PROVE  LET l == <<x1, y1, x2, y2>>
               dx == Dist(x1, x2)
               dy == Dist(y1, y2)
               n  == Max({dx, dy})
               m  == Min({dx, dy})
               u  == IF dx >= dy THEN <<Toward(x1, x2), 0, 0, Toward(y1, y2)>>
                     ELSE <<0, Toward(y1, y2), Toward(x1, x2), 0>>
           IN  /\ n \in Nat \ {0} /\ m \in Nat
               /\ Path(OnX(l, n), OnY(l, n), Over(m, n), u, [major |-> n, minor |-> m])
               /\ OnX(l, n)[0] = x1 /\ OnY(l, n)[0] = y1
<1> DEFINE l  == <<x1, y1, x2, y2>>
           dx == Dist(x1, x2)
           dy == Dist(y1, y2)
           n  == Max({dx, dy})
           m  == Min({dx, dy})
           tx == Toward(x1, x2)
           ty == Toward(y1, y2)
           u  == IF dx >= dy THEN <<tx, 0, 0, ty>> ELSE <<0, ty, tx, 0>>
           X  == OnX(l, n)
           Y  == OnY(l, n)
           R  == Over(m, n)
<1>1. x1 \in Int /\ y1 \in Int /\ x2 \in Int /\ y2 \in Int
  BY ClipAssumption DEF Coords
<1>2. dx \in Nat \ {0} /\ dy \in Nat \ {0} /\ tx \in Int /\ ty \in Int
  <2>1. /\ dx \in Nat /\ tx \in {1, -1} /\ (tx = 1 => x2 = x1 + dx) /\ (tx = -1 => x2 = x1 - dx)
    BY <1>1, DistIs, ZenonT(40)
  <2>2. /\ dy \in Nat /\ ty \in {1, -1} /\ (ty = 1 => y2 = y1 + dy) /\ (ty = -1 => y2 = y1 - dy)
    BY <1>1, DistIs, ZenonT(40)
  <2> HIDE DEF dx, dy, tx, ty
  <2> QED
    BY <1>1, <2>1, <2>2
<1>3. /\ n = (IF dx >= dy THEN dx ELSE dy) /\ m = (IF dx <= dy THEN dx ELSE dy)
  BY <1>2, MinTwo, MaxTwo
<1>4. n \in Nat \ {0} /\ m \in Nat /\ dx <= n /\ dy <= n
  BY <1>2, <1>3
<1>5. /\ X = [i \in 0 .. n |-> On(x1, x2, i, n)] /\ Y = [i \in 0 .. n |-> On(y1, y2, i, n)]
      /\ R = [i \in 0 .. n |-> Rest(i, m, n)]
  BY DEF OnX, OnY, Over
<1> HIDE DEF n, m, X, Y, R, l
<1>6. /\ \A i \in 0 .. n : On(x1, x2, i, n) \in Coords /\ On(x1, x2, i, n) \in Int
      /\ \A i \in 0 .. n : On(y1, y2, i, n) \in Coords /\ On(y1, y2, i, n) \in Int
  BY <1>1, <1>4, OnWithin, CoordsBetween
<1>7. /\ X \in [0 .. n -> Coords] /\ Y \in [0 .. n -> Coords] /\ R \in [0 .. n -> Int]
  <2>1. \A i \in 0 .. n : Rest(i, m, n) \in Int
    BY <1>4, RoundTyped
  <2> QED
    BY <1>5, <1>6, <2>1
<1>8. /\ X[0] = x1 /\ Y[0] = y1 /\ R[0] = n \div 2
  <2>1. 0 \in 0 .. n
    BY <1>4
  <2>2. Round(0, dx, n) = 0 /\ Round(0, dy, n) = 0 /\ Rest(0, m, n) = n \div 2
    BY <1>2, <1>4, RoundStarts
  <2>3. On(x1, x2, 0, n) = x1 + tx * 0 /\ On(y1, y2, 0, n) = y1 + ty * 0
    BY <2>2 DEF On
  <2> QED
    BY <1>1, <1>2, <1>5, <2>1, <2>2, <2>3
<1>9. ASSUME NEW k \in 1 .. n
      PROVE  LET over == R[k - 1] + m >= n
             IN  /\ X[k] = X[k - 1] + u[1] + (IF over THEN u[3] ELSE 0)
                 /\ Y[k] = Y[k - 1] + u[2] + (IF over THEN u[4] ELSE 0)
                 /\ R[k] = R[k - 1] + m - (IF over THEN n ELSE 0)
  <2> DEFINE over == R[k - 1] + m >= n
  <2>1. k \in 0 .. n /\ k - 1 \in 0 .. n
    BY <1>4
  <2>2. /\ X[k] = On(x1, x2, k, n) /\ X[k - 1] = On(x1, x2, k - 1, n)
        /\ Y[k] = On(y1, y2, k, n) /\ Y[k - 1] = On(y1, y2, k - 1, n)
        /\ R[k] = Rest(k, m, n) /\ R[k - 1] = Rest(k - 1, m, n)
    BY <1>5, <2>1
  <2>3. X[k - 1] \in Int /\ Y[k - 1] \in Int /\ R[k - 1] \in Int
    BY <1>6, <1>7, <2>1, <2>2
  <2>4. CASE dx >= dy
    <3>1. n = dx /\ m = dy /\ u[1] = tx /\ u[2] = 0 /\ u[3] = 0 /\ u[4] = ty
      BY <1>2, <1>3, <2>4
    <3>2. On(x1, x2, k, n) = On(x1, x2, k - 1, n) + tx
      BY <1>1, <1>4, <3>1, OnLonger
    <3>3. /\ On(y1, y2, k, n) =
                 On(y1, y2, k - 1, n) + (IF Rest(k - 1, dy, n) + dy >= n THEN ty ELSE 0)
          /\ Rest(k, dy, n) =
                 Rest(k - 1, dy, n) + dy - (IF Rest(k - 1, dy, n) + dy >= n THEN n ELSE 0)
      BY <1>1, <1>4, OnShorter
    <3> HIDE DEF dx, dy, tx, ty, u
    <3> QED
      BY <1>2, <1>4, <2>2, <2>3, <3>1, <3>2, <3>3
  <2>5. CASE ~(dx >= dy)
    <3>1. n = dy /\ m = dx /\ u[1] = 0 /\ u[2] = ty /\ u[3] = tx /\ u[4] = 0
      BY <1>2, <1>3, <2>5
    <3>2. On(y1, y2, k, n) = On(y1, y2, k - 1, n) + ty
      BY <1>1, <1>4, <3>1, OnLonger
    <3>3. /\ On(x1, x2, k, n) =
                 On(x1, x2, k - 1, n) + (IF Rest(k - 1, dx, n) + dx >= n THEN tx ELSE 0)
          /\ Rest(k, dx, n) =
                 Rest(k - 1, dx, n) + dx - (IF Rest(k - 1, dx, n) + dx >= n THEN n ELSE 0)
      BY <1>1, <1>4, OnShorter
    <3> HIDE DEF dx, dy, tx, ty, u
    <3> QED
      BY <1>2, <1>4, <2>2, <2>3, <3>1, <3>2, <3>3
  <2> QED
    BY <2>4, <2>5
<1>10. ASSUME NEW i \in 0 .. n, NEW k \in 0 .. n, i < k
       PROVE  <<X[i], Y[i]>> # <<X[k], Y[k]>>
  <2>1. /\ X[i] = On(x1, x2, i, n) /\ X[k] = On(x1, x2, k, n)
        /\ Y[i] = On(y1, y2, i, n) /\ Y[k] = On(y1, y2, k, n)
    BY <1>5
  <2>2. n = dx \/ n = dy
    BY <1>3
  <2>3. X[i] # X[k] \/ Y[i] # Y[k]
    BY <1>1, <1>4, <1>10, <2>1, <2>2, OnLonger
  <2> QED
    BY <2>3
<1> DEFINE slope == [major |-> n, minor |-> m]
<1>11. slope.major = n /\ slope.minor = m
  OBVIOUS
<1> HIDE DEF slope, u
<1>12. Path(X, Y, R, u, slope)
  BY <1>7, <1>8, <1>9, <1>10, <1>11 DEF Path
<1> QED
  BY <1>4, <1>8, <1>12 DEF X, Y, R, n, m, l, u, slope

(* Every coordinate between two others is at some distance from the first. *)
LEMMA OnCovers ==
    ASSUME NEW a \in Int, NEW b \in Int
    PROVE  /\ \A i \in 0 .. Dist(a, b) : a + Toward(a, b) * i \in Min({a, b}) .. Max({a, b})
           /\ \A v \in Min({a, b}) .. Max({a, b}) :
                  \E i \in 0 .. Dist(a, b) : v = a + Toward(a, b) * i
<1> DEFINE n == Dist(a, b)
           t == Toward(a, b)
<1>1. Min({a, b}) = (IF a <= b THEN a ELSE b) /\ Max({a, b}) = (IF a >= b THEN a ELSE b)
  BY MinTwo, MaxTwo
<1>2. n \in Nat /\ t \in {1, -1} /\ (t = 1 => b = a + n) /\ (t = -1 => b = a - n)
  BY DistIs
<1>3. \A i \in 0 .. n : a + t * i \in Min({a, b}) .. Max({a, b})
  BY Along
<1>4. ASSUME NEW v \in Min({a, b}) .. Max({a, b})
      PROVE  \E i \in 0 .. n : v = a + t * i
  <2> HIDE DEF n, t
  <2>1. v \in Int
    BY <1>1
  <2>2. CASE t = 1
    <3>1. v - a \in 0 .. n /\ v = a + t * (v - a)
      BY <1>1, <1>2, <2>1, <2>2
    <3> QED
      BY <3>1
  <2>3. CASE t = -1
    <3>1. a - v \in 0 .. n /\ v = a + t * (a - v)
      BY <1>1, <1>2, <2>1, <2>3
    <3> QED
      BY <3>1
  <2> QED
    BY <1>2, <2>2, <2>3
<1> QED
  BY <1>3, <1>4

(* Moving an end by one leaves out the last point only.                    *)
LEMMA EndsSpan ==
    ASSUME NEW a \in Int, NEW b \in Int, NEW last \in BOOLEAN
    PROVE  LET e == Ends(a, b, last)
           IN  /\ e[1] \in Int /\ e[2] \in Int
               /\ last => e[1] = a /\ e[2] = b
               /\ ~last /\ a # b => Min({e[1], e[2]}) .. Max({e[1], e[2]}) =
                                       (Min({a, b}) .. Max({a, b})) \ {b}
<1>1. Min({a, b}) = (IF a <= b THEN a ELSE b) /\ Max({a, b}) = (IF a >= b THEN a ELSE b)
  BY MinTwo, MaxTwo
<1>2. CASE last
  BY <1>2 DEF Ends
<1>3. CASE ~last /\ a > b
  <2>1. Ends(a, b, last) = <<b + 1, a>> /\ b + 1 \in Int
    BY <1>3 DEF Ends
  <2>2. Min({b + 1, a}) = b + 1 /\ Max({b + 1, a}) = a
    <3>1. b + 1 <= a
      BY <1>3
    <3> QED
      BY <2>1, <3>1, MinTwo, MaxTwo
  <2>3. b + 1 .. a = (b .. a) \ {b}
    OBVIOUS
  <2> QED
    BY <1>1, <1>3, <2>1, <2>2, <2>3
<1>4. CASE ~last /\ ~(a > b)
  <2>1. Ends(a, b, last) = <<a, b - 1>> /\ b - 1 \in Int
    BY <1>4 DEF Ends
  <2>2. ASSUME a # b
        PROVE  Min({a, b - 1}) .. Max({a, b - 1}) = (Min({a, b}) .. Max({a, b})) \ {b}
    <3>1. a <= b - 1
      BY <1>4, <2>2
    <3>2. Min({a, b - 1}) = a /\ Max({a, b - 1}) = b - 1
      BY <2>1, <3>1, MinTwo, MaxTwo
    <3>3. a .. b - 1 = (a .. b) \ {b}
      OBVIOUS
    <3> QED
      BY <1>1, <1>4, <3>2, <3>3
  <2>3. Ends(a, b, last)[1] = a /\ Ends(a, b, last)[2] = b - 1
    BY <2>1
  <2> QED
    BY <1>4, <2>1, <2>2, <2>3
<1> QED
  BY <1>2, <1>3, <1>4

(* A distance along one axis only is the longer one.                       *)
LEMMA MaxWithZero ==
    ASSUME NEW a \in Nat
    PROVE  Max({a, 0}) = a /\ Max({0, a}) = a
BY MaxTwo

(* The span of a row.                                                      *)
LEMMA SpanOfRow ==
    ASSUME NEW x1 \in Int, NEW x2 \in Int, NEW y \in Int
    PROVE  Span(x1, y, x2, y) = (Min({x1, x2}) .. Max({x1, x2})) \X {y}
<1>1. Min({y, y}) = y /\ Max({y, y}) = y /\ y .. y = {y}
  BY MinTwo, MaxTwo
<1> QED
  BY <1>1, Zenon DEF Span

(* The span of a column.                                                   *)
LEMMA SpanOfCol ==
    ASSUME NEW y1 \in Int, NEW y2 \in Int, NEW x \in Int
    PROVE  Span(x, y1, x, y2) = {x} \X (Min({y1, y2}) .. Max({y1, y2}))
<1>1. Min({x, x}) = x /\ Max({x, x}) = x /\ x .. x = {x}
  BY MinTwo, MaxTwo
<1> QED
  BY <1>1, Zenon DEF Span

(* The ideal line between two points of a row is the row between them.     *)
LEMMA IdealRow ==
    ASSUME NEW x1 \in Int, NEW x2 \in Int, NEW y \in Int
    PROVE  Ideal(<<x1, y, x2, y>>) = Span(x1, y, x2, y)
<1> DEFINE n == Dist(x1, x2)
           A == Min({x1, x2}) .. Max({x1, x2})
<1>1. n \in Nat /\ Dist(y, y) = 0 /\ Max({n, Dist(y, y)}) = n
  <2>1. n \in Nat
    BY DistIs
  <2>2. Dist(y, y) = 0
    BY MaxTwo DEF Dist
  <2> HIDE DEF n
  <2> QED
    BY <2>1, <2>2, MaxWithZero
<1>2. Span(x1, y, x2, y) = A \X {y}
  BY SpanOfRow
<1>3. CASE n # 0
  <2>1. Ideal(<<x1, y, x2, y>>) = {<<On(x1, x2, i, n), On(y, y, i, n)>> : i \in 0 .. n}
    BY <1>1, <1>3, IdealIs
  <2>2. \A i \in 0 .. n : On(x1, x2, i, n) = x1 + Toward(x1, x2) * i
    BY <1>1, <1>3, OnLonger
  <2>3. \A i \in 0 .. n : On(y, y, i, n) = y
    <3>1. \A i \in 0 .. n : On(y, y, i, n) \in Min({y, y}) .. Max({y, y})
      BY <1>1, <1>3, OnWithin
    <3>2. Min({y, y}) = y /\ Max({y, y}) = y
      BY MinTwo, MaxTwo
    <3> QED
      BY <3>1, <3>2
  <2>4. /\ \A i \in 0 .. n : x1 + Toward(x1, x2) * i \in A
        /\ \A v \in A : \E i \in 0 .. n : v = x1 + Toward(x1, x2) * i
    BY OnCovers
  <2> HIDE DEF n, A
  <2>5. {<<On(x1, x2, i, n), On(y, y, i, n)>> : i \in 0 .. n} = A \X {y}
    BY <2>2, <2>3, <2>4
  <2> QED
    BY <1>2, <2>1, <2>5
<1>4. CASE n = 0
  <2>1. x1 = x2
    BY <1>4, DistIs
  <2>2. Ideal(<<x1, y, x2, y>>) = {<<x1, y>>}
    BY <1>1, <1>4 DEF Ideal
  <2>3. A = {x1}
    BY <2>1, MinTwo, MaxTwo
  <2> QED
    BY <1>2, <2>2, <2>3
<1> QED
  BY <1>3, <1>4

(* The ideal line between two points of a column is the column between     *)
(* them.                                                                   *)
LEMMA IdealCol ==
    ASSUME NEW y1 \in Int, NEW y2 \in Int, NEW x \in Int, y1 # y2
    PROVE  Ideal(<<x, y1, x, y2>>) = Span(x, y1, x, y2)
<1> DEFINE n == Dist(y1, y2)
           A == Min({y1, y2}) .. Max({y1, y2})
<1>1. n \in Nat \ {0} /\ Dist(x, x) = 0 /\ Max({Dist(x, x), n}) = n
  <2>1. n \in Nat \ {0}
    BY DistIs
  <2>2. Dist(x, x) = 0
    BY MaxTwo DEF Dist
  <2> HIDE DEF n
  <2> QED
    BY <2>1, <2>2, MaxWithZero
<1>2. Span(x, y1, x, y2) = {x} \X A
  BY SpanOfCol
<1>3. Ideal(<<x, y1, x, y2>>) = {<<On(x, x, i, n), On(y1, y2, i, n)>> : i \in 0 .. n}
  BY <1>1, IdealIs
<1>4. \A i \in 0 .. n : On(y1, y2, i, n) = y1 + Toward(y1, y2) * i
  BY <1>1, OnLonger
<1>5. \A i \in 0 .. n : On(x, x, i, n) = x
  <2>1. \A i \in 0 .. n : On(x, x, i, n) \in Min({x, x}) .. Max({x, x})
    BY <1>1, OnWithin
  <2>2. Min({x, x}) = x /\ Max({x, x}) = x
    BY MinTwo, MaxTwo
  <2> QED
    BY <2>1, <2>2
<1>6. /\ \A i \in 0 .. n : y1 + Toward(y1, y2) * i \in A
      /\ \A v \in A : \E i \in 0 .. n : v = y1 + Toward(y1, y2) * i
  BY OnCovers
<1> HIDE DEF n, A
<1>7. {<<On(x, x, i, n), On(y1, y2, i, n)>> : i \in 0 .. n} = {x} \X A
  BY <1>4, <1>5, <1>6
<1> QED
  BY <1>2, <1>3, <1>7

(* An ideal line stays in the box of its ends.                             *)
LEMMA IdealWithin ==
    ASSUME NEW x1 \in Int, NEW y1 \in Int, NEW x2 \in Int, NEW y2 \in Int, x1 # x2
    PROVE  Ideal(<<x1, y1, x2, y2>>) \subseteq Span(x1, y1, x2, y2)
<1> DEFINE n == Max({Dist(x1, x2), Dist(y1, y2)})
<1>1. n \in Nat \ {0}
  <2>1. Dist(x1, x2) \in Nat \ {0} /\ Dist(y1, y2) \in Nat
    BY DistIs
  <2> QED
    BY <2>1, MaxTwo
<1> HIDE DEF n
<1>2. Ideal(<<x1, y1, x2, y2>>) = {<<On(x1, x2, i, n), On(y1, y2, i, n)>> : i \in 0 .. n}
  BY <1>1, IdealIs DEF n
<1>3. \A i \in 0 .. n : /\ On(x1, x2, i, n) \in Min({x1, x2}) .. Max({x1, x2})
                        /\ On(y1, y2, i, n) \in Min({y1, y2}) .. Max({y1, y2})
  BY <1>1, OnWithin
<1> DEFINE A == Min({x1, x2}) .. Max({x1, x2})
           B == Min({y1, y2}) .. Max({y1, y2})
<1>4. Span(x1, y1, x2, y2) = A \X B
  BY DEF Span
<1>5. \A i \in 0 .. n : On(x1, x2, i, n) \in A /\ On(y1, y2, i, n) \in B
  BY <1>3
<1> HIDE DEF A, B
<1> QED
  BY <1>2, <1>4, <1>5

Omitted(l) == IF l[1] = l[3] \/ l[2] = l[4] THEN {<<l[3], l[4]>>} ELSE {}

(* What a line draws.                                                      *)
LineDrawn(d, e, l, last) ==
    /\ last => e.drawn = Painted(d, Ideal(l))
    /\ ~last /\ <<l[1], l[2]>> # <<l[3], l[4]>> => e.drawn = Painted(d, Ideal(l) \ Omitted(l))

(* GdFixCursor at the end of a line draws no more.                         *)
LEMMA FixedLine ==
    ASSUME NEW n \in Int, n <= 1, NEW d, NEW f, Good(f, n), NEW l, NEW last,
           LineDrawn(d, f, l, last)
    PROVE  Served(d, GdFixCursor(f), n) /\ LineDrawn(d, GdFixCursor(f), l, last)
<1>1. Good(GdFixCursor(f), n) /\ GdFixCursor(f).restore = FALSE
  BY FixGood
<1>2. GdFixCursor(f).drawn = f.drawn
  BY FixGood
<1> QED
  BY <1>1, <1>2 DEF Served, LineDrawn

(* A horizontal line, with or without its last point.                      *)
LEMMA LevelLine ==
    ASSUME clipregion \in Regions, NEW n \in Int, n <= 1, NEW d, Good(d, n),
           NEW x1 \in Coords, NEW x2 \in Coords, NEW y \in Coords, NEW last \in BOOLEAN
    PROVE  LET ex == Ends(x1, x2, last)
               e  == drawrow(d, ex[1], ex[2], y)
           IN  Good(e, n) /\ LineDrawn(d, e, <<x1, y, x2, y>>, last)
<1> DEFINE ex == Ends(x1, x2, last)
           e  == drawrow(d, ex[1], ex[2], y)
           l  == <<x1, y, x2, y>>
           A  == Min({x1, x2}) .. Max({x1, x2})
           B  == Min({ex[1], ex[2]}) .. Max({ex[1], ex[2]})
<1>1. x1 \in Int /\ x2 \in Int /\ y \in Int
  BY ClipAssumption DEF Coords
<1>2. /\ ex[1] \in Int /\ ex[2] \in Int
      /\ last => ex[1] = x1 /\ ex[2] = x2
      /\ ~last /\ x1 # x2 => B = A \ {x2}
  BY <1>1, EndsSpan
<1> HIDE DEF ex
<1>3. Good(e, n)
  BY <1>2, RowGood
<1>4. e.drawn = Painted(d, Span(ex[1], y, ex[2], y))
  BY <1>2, RowGood
<1>5. Span(ex[1], y, ex[2], y) = B \X {y}
  <2>1. \A a, b \in Int : Span(a, y, b, y) = (Min({a, b}) .. Max({a, b})) \X {y}
    BY <1>1, SpanOfRow
  <2> QED
    BY <1>2, <2>1, Zenon
<1>6. Ideal(l) = A \X {y}
  <2>1. Ideal(l) = Span(x1, y, x2, y)
    BY <1>1, IdealRow
  <2>2. Span(x1, y, x2, y) = A \X {y}
    BY <1>1, SpanOfRow
  <2> QED
    BY <2>1, <2>2
<1>7. l[1] = x1 /\ l[2] = y /\ l[3] = x2 /\ l[4] = y /\ Omitted(l) = {<<x2, y>>}
  BY DEF Omitted
<1> HIDE DEF e, l
<1>8. last => e.drawn = Painted(d, Ideal(l))
  BY <1>2, <1>4, <1>5, <1>6
<1>9. ASSUME ~last, <<x1, y>> # <<x2, y>>
      PROVE  e.drawn = Painted(d, Ideal(l) \ Omitted(l))
  <2>1. B = A \ {x2}
    BY <1>2, <1>9
  <2> HIDE DEF A, B
  <2>2. (A \ {x2}) \X {y} = (A \X {y}) \ {<<x2, y>>}
    OBVIOUS
  <2> QED
    BY <1>4, <1>5, <1>6, <1>7, <2>1, <2>2
<1> QED
  BY <1>3, <1>7, <1>8, <1>9 DEF LineDrawn, e, l, ex

(* A vertical line, with or without its last point.                        *)
LEMMA UprightLine ==
    ASSUME clipregion \in Regions, NEW n \in Int, n <= 1, NEW d, Good(d, n),
           NEW y1 \in Coords, NEW y2 \in Coords, NEW x \in Coords, NEW last \in BOOLEAN,
           y1 # y2
    PROVE  LET ey == Ends(y1, y2, last)
               e  == drawcol(d, x, ey[1], ey[2])
           IN  Good(e, n) /\ LineDrawn(d, e, <<x, y1, x, y2>>, last)
<1> DEFINE ey == Ends(y1, y2, last)
           e  == drawcol(d, x, ey[1], ey[2])
           l  == <<x, y1, x, y2>>
           A  == Min({y1, y2}) .. Max({y1, y2})
           B  == Min({ey[1], ey[2]}) .. Max({ey[1], ey[2]})
<1>1. y1 \in Int /\ y2 \in Int /\ x \in Int
  BY ClipAssumption DEF Coords
<1>2. /\ ey[1] \in Int /\ ey[2] \in Int
      /\ last => ey[1] = y1 /\ ey[2] = y2
      /\ ~last => B = A \ {y2}
  BY <1>1, EndsSpan, ZenonT(40)
<1> HIDE DEF ey
<1>3. Good(e, n)
  BY <1>2, ColGood
<1>4. e.drawn = Painted(d, Span(x, ey[1], x, ey[2]))
  BY <1>2, ColGood
<1>5. Span(x, ey[1], x, ey[2]) = {x} \X B
  BY <1>1, <1>2, SpanOfCol
<1>6. Ideal(l) = {x} \X A
  BY <1>1, IdealCol, SpanOfCol
<1>7. l[1] = x /\ l[2] = y1 /\ l[3] = x /\ l[4] = y2 /\ Omitted(l) = {<<x, y2>>}
  BY DEF Omitted
<1> HIDE DEF e, l
<1>8. last => e.drawn = Painted(d, Ideal(l))
  BY <1>2, <1>4, <1>5, <1>6
<1>9. ASSUME ~last
      PROVE  e.drawn = Painted(d, Ideal(l) \ Omitted(l))
  <2>1. B = A \ {y2}
    BY <1>2, <1>9
  <2> HIDE DEF A, B
  <2>2. {x} \X (A \ {y2}) = ({x} \X A) \ {<<x, y2>>}
    OBVIOUS
  <2> QED
    BY <1>4, <1>5, <1>6, <1>7, <2>1, <2>2
<1> QED
  BY <1>3, <1>7, <1>8, <1>9 DEF LineDrawn, e, l, ey

(* Where nothing is visible, no part of it is.                             *)
LEMMA NothingVisible ==
    ASSUME NEW d \in Devs, NEW P, d.drawn = Painted(d, P), NEW Q, Q \subseteq P
    PROVE  d.drawn = Painted(d, Q)
<1>1. d.drawn \in [Pixels -> Nat]
  BY DEF Devs, Counts
<1>2. \A p \in Pixels : d.drawn[p] = d.drawn[p] + Clipped(P)[p]
  BY DEF Painted
<1>3. \A p \in Pixels : ~(p \in P /\ InRegion(clipregion, p[1], p[2]))
  BY <1>1, <1>2 DEF Clipped
<1> QED
  BY <1>1, <1>3 DEF Painted, Clipped

(* The loop of GdLine draws the visible points of the ideal line.          *)
LEMMA SlopedLine ==
    ASSUME clipregion \in Regions, NEW n \in Int, n <= 1, NEW d, Good(d, n),
           NEW x1 \in Coords, NEW y1 \in Coords, NEW x2 \in Coords, NEW y2 \in Coords,
           x1 # x2, y1 # y2
    PROVE  LET dx == Dist(x1, x2)
               dy == Dist(y1, y2)
               u  == IF dx >= dy THEN <<Toward(x1, x2), 0, 0, Toward(y1, y2)>>
                     ELSE <<0, Toward(y1, y2), Toward(x1, x2), 0>>
               e  == Steps(d, x1, y1, u, [major |-> Max({dx, dy}), minor |-> Min({dx, dy})])
           IN  Good(e, n) /\ e.drawn = Painted(d, Ideal(<<x1, y1, x2, y2>>))
<1> DEFINE l  == <<x1, y1, x2, y2>>
           dx == Dist(x1, x2)
           dy == Dist(y1, y2)
           N  == Max({dx, dy})
           m  == Min({dx, dy})
           u  == IF dx >= dy THEN <<Toward(x1, x2), 0, 0, Toward(y1, y2)>>
                 ELSE <<0, Toward(y1, y2), Toward(x1, x2), 0>>
           slope == [major |-> N, minor |-> m]
           X  == OnX(l, N)
           Y  == OnY(l, N)
           e  == Steps(d, x1, y1, u, slope)
<1>1. /\ N \in Nat \ {0} /\ m \in Nat
      /\ Path(X, Y, Over(m, N), u, slope)
      /\ X[0] = x1 /\ Y[0] = y1
  BY LinePath
<1>2. x1 \in Int /\ y1 \in Int /\ x2 \in Int /\ y2 \in Int
  BY ClipAssumption DEF Coords
<1>3. Ideal(l) = {<<On(x1, x2, i, N), On(y1, y2, i, N)>> : i \in 0 .. N}
  BY <1>1, <1>2, IdealIs
<1>4. \A i \in 0 .. N : X[i] = On(x1, x2, i, N) /\ Y[i] = On(y1, y2, i, N)
  BY DEF OnX, OnY
<1>5. slope.major = N /\ slope.minor = m
  OBVIOUS
<1> HIDE DEF N, m, slope, u, X, Y, l
<1>6. Points(X, Y, N) = Ideal(l)
  BY <1>3, <1>4 DEF Points
<1>7. Good(Steps(d, X[0], Y[0], u, slope), n)
  BY <1>1, <1>5, StepsGood
<1>8. Steps(d, X[0], Y[0], u, slope).drawn =
          Painted(d, Points(X, Y, slope.major))
  <2>1. slope.major \in Nat /\ slope.minor \in Nat
    BY <1>1, <1>5
  <2> QED
    BY <1>1, <2>1, StepsGood
<1>9. Good(e, n) /\ e.drawn = Painted(d, Ideal(l))
  BY <1>1, <1>5, <1>6, <1>7, <1>8
<1> QED
  BY <1>9 DEF N, m, slope, u, l

(* GdLine draws the visible points nearest to the line, once each, and     *)
(* puts the cursor back.                                                   *)
LEMMA LineCall ==
    ASSUME clipregion \in Regions, NEW n \in Int, n <= 1, NEW d, Good(d, n),
           NEW x1 \in Coords, NEW y1 \in Coords, NEW x2 \in Coords, NEW y2 \in Coords,
           NEW last \in BOOLEAN
    PROVE  LET e == GdLine(d, x1, y1, x2, y2, last)
           IN  Served(d, e, n) /\ LineDrawn(d, e, <<x1, y1, x2, y2>>, last)
<1> DEFINE l  == <<x1, y1, x2, y2>>
           ex == Ends(x1, x2, last)
           ey == Ends(y1, y2, last)
           a  == GdClipArea(d, x1, y1, x2, y2)
           dx == Dist(x1, x2)
           dy == Dist(y1, y2)
           u  == IF dx >= dy THEN <<Toward(x1, x2), 0, 0, Toward(y1, y2)>>
                 ELSE <<0, Toward(y1, y2), Toward(x1, x2), 0>>
           f  == Steps(a.dev, x1, y1, u, [major |-> Max({dx, dy}), minor |-> Min({dx, dy})])
           e  == GdLine(d, x1, y1, x2, y2, last)
<1>1. CASE y1 = y2
  <2> DEFINE g == drawrow(d, ex[1], ex[2], y1)
  <2>1. e = GdFixCursor(g)
    BY <1>1 DEF GdLine
  <2>2. Good(g, n) /\ LineDrawn(d, g, <<x1, y1, x2, y1>>, last)
    BY LevelLine
  <2> HIDE DEF g, e
  <2> QED
    BY <1>1, <2>1, <2>2, FixedLine DEF e
<1>2. CASE y1 # y2 /\ x1 = x2
  <2> DEFINE g == drawcol(d, x1, ey[1], ey[2])
  <2>1. e = GdFixCursor(g)
    BY <1>2 DEF GdLine
  <2>2. Good(g, n) /\ LineDrawn(d, g, <<x1, y1, x1, y2>>, last)
    BY <1>2, UprightLine
  <2> HIDE DEF g, e
  <2> QED
    BY <1>2, <2>1, <2>2, FixedLine DEF e
<1>3. CASE y1 # y2 /\ x1 # x2
  <2>1. e = IF a.clip = "INVISIBLE" THEN a.dev ELSE GdFixCursor(f)
    BY <1>3, Zenon DEF GdLine
  <2>2. Good(a.dev, n) /\ a.dev.drawn = d.drawn
    BY ClipAreaGood
  <2>3. a.clip = "INVISIBLE" =>
            a.dev.restore = d.restore /\ d.drawn = Painted(d, Span(x1, y1, x2, y2))
    BY ClipAreaGood
  <2> HIDE DEF a, e
  <2>4. Good(f, n) /\ f.drawn = Painted(a.dev, Ideal(l))
    BY <1>3, <2>2, SlopedLine
  <2> HIDE DEF f
  <2>5. Painted(a.dev, Ideal(l)) = Painted(d, Ideal(l))
    BY <2>2 DEF Painted
  <2>6. Omitted(l) = {} /\ Ideal(l) \ Omitted(l) = Ideal(l)
    BY <1>3 DEF Omitted
  <2> HIDE DEF l
  <2>7. \A g : g.drawn = Painted(d, Ideal(l)) => LineDrawn(d, g, l, last)
    BY <2>6 DEF LineDrawn
  <2>8. CASE a.clip = "INVISIBLE"
    <3>1. Ideal(l) \subseteq Span(x1, y1, x2, y2)
      BY <1>3, IdealWithin, ClipAssumption DEF l, Coords
    <3>2. a.dev.drawn = Painted(d, Ideal(l))
      BY <2>2, <2>3, <2>8, <3>1, NothingVisible DEF Good
    <3> QED
      BY <2>1, <2>2, <2>3, <2>7, <2>8, <3>2 DEF Served, e, l
  <2>9. CASE a.clip # "INVISIBLE"
    <3>1. LineDrawn(d, f, l, last)
      BY <2>4, <2>5, <2>7
    <3> QED
      BY <2>1, <2>4, <2>9, <3>1, FixedLine DEF e, l
  <2> QED
    BY <2>8, <2>9
<1> QED
  BY <1>1, <1>2, <1>3
-----------------------------------------------------------------------------
(* Copies.                                                                 *)

(* Bits copied from Q to P, neither of which the cursor is over.           *)
Copyable(d, P, Q, dx, dy) ==
    /\ Apart(d, P) /\ Apart(d, Q)
    /\ \A p \in P \cap Pixels : <<p[1] + dx, p[2] + dy>> \in Q \cap Pixels

(* Pixels without a cursor over them are copied to where none is.          *)
LEMMA CopyGood ==
    ASSUME NEW n \in Int, n <= 1, NEW d, Good(d, n),
           NEW P, NEW Q, NEW dx, NEW dy, Copyable(d, P, Q, dx, dy)
    PROVE  LET e == Copy(d, P, dx, dy) IN Good(e, n) /\ Since(d, e)
<1> DEFINE F == [p \in Pixels |-> IF p \in P THEN d.pix[<<p[1] + dx, p[2] + dy>>] ELSE d.pix[p]]
           S == [p \in DOMAIN d.saved |-> IF p \in P THEN "old" ELSE d.saved[p]]
           e == Copy(d, P, dx, dy)
<1>1. /\ d \in Devs /\ d.visible \in Int /\ d.restore \in BOOLEAN
      /\ d.pix \in Frames /\ d.saved \in Savings
  BY DEF Good, Devs
<1>2. e = [d EXCEPT !.pix = F, !.saved = S]
  BY <1>1 DEF Copy, Devs
<1>3. F \in Frames
  BY <1>1 DEF Frames, Copyable
<1>4. S \in Savings
  <2>1. PICK A \in SUBSET Pixels : d.saved \in [A -> Contents]
    BY <1>1 DEF Savings
  <2>2. S \in [A -> Contents]
    BY <2>1 DEF Contents
  <2> QED
    BY <2>2 DEF Savings
<1> HIDE DEF e, F, S
<1>5. e \in Devs
  <2>1. [d EXCEPT !.pix = F] \in Devs
    BY <1>1, <1>3, DevChanged
  <2> QED
    BY <1>2, <1>4, <2>1, DevChanged
<1>6. /\ e.cache = d.cache /\ e.pix = F /\ e.saved = S /\ e.restore = d.restore
      /\ e.cursor = d.cursor /\ e.visible = d.visible
  BY <1>1, <1>2 DEF Devs
<1>7. ASSUME MaxVisible <= 1
      PROVE  Count(e) <= n /\ Intact(e)
  <2>1. Count(d) <= n /\ Intact(d)
    BY <1>7 DEF Good
  <2>2. Count(e) = Count(d) /\ Shown(e) = Shown(d)
    BY <1>6 DEF Count, Shown
  <2>3. Shown(d) \cap P = {} /\ Shown(d) \cap Q = {}
    BY <1>1, <1>7 DEF Shown, Apart, Copyable
  <2>4. ASSUME NEW p \in Pixels
        PROVE  F[p] = d.pix[p]
    <3>1. CASE p \in P
      <4>1. <<p[1] + dx, p[2] + dy>> \in Q \cap Pixels
        BY <3>1 DEF Copyable
      <4>2. d.pix[<<p[1] + dx, p[2] + dy>>] = "app"
        <5>1. \A q \in Q \cap Pixels : d.pix[q] = "app"
          BY <2>1, <2>3 DEF Intact
        <5> QED
          BY <4>1, <5>1
      <4>3. d.pix[p] = "app"
        BY <2>1, <2>3, <3>1 DEF Intact
      <4> QED
        BY <3>1, <4>2, <4>3 DEF F
    <3>2. CASE ~(p \in P)
      BY <3>2 DEF F
    <3> QED
      BY <3>1, <3>2
  <2>5. F = d.pix
    <3>1. F \in [Pixels -> Contents] /\ d.pix \in [Pixels -> Contents]
      BY <1>1, <1>3 DEF Frames
    <3> QED
      BY <2>4, <3>1
  <2>6. S = d.saved
    BY <2>1, <2>3 DEF S, Intact
  <2> QED
    BY <1>6, <2>1, <2>2, <2>5, <2>6 DEF Intact
<1>8. Good(e, n) /\ Since(d, e)
  BY <1>1, <1>5, <1>6, <1>7 DEF Good, Since
<1> QED
  BY <1>8 DEF e

(* What may be copied may be copied later in the call, whole or in part.   *)
LEMMA CopyableSince ==
    ASSUME NEW d \in Devs, NEW e \in Devs, Since(d, e),
           NEW P, NEW Q, NEW dx, NEW dy, Copyable(d, P, Q, dx, dy), NEW R, R \subseteq P
    PROVE  Copyable(e, R, Q, dx, dy)
<1>1. Apart(e, P) /\ Apart(e, Q)
  BY ApartSince DEF Copyable
<1>2. Apart(e, R)
  BY <1>1, ApartPart
<1> QED
  BY <1>1, <1>2 DEF Copyable

(* The copies through the rectangles of the clip region do not meet the    *)
(* cursor.                                                                 *)
LEMMA CopyRectsGood ==
    ASSUME clipregion \in Regions, NEW n \in Int, n <= 1, NEW d, Good(d, n),
           NEW P, NEW Q, NEW dx, NEW dy, Copyable(d, P, Q, dx, dy)
    PROVE  Good(CopyRects(d, P, dx, dy), n)
<1> DEFINE N == Len(clipregion)
           C(k) == {p \in P : InRect(clipregion[k], p[1], p[2])}
           D == {e \in Devs : Good(e, n) /\ Since(d, e)}
           T == [k \in 0 .. N |-> D]
           G == [q \in D \X (1 .. N) |-> Copy(q[1], C(q[2]), dx, dy)]
           copied == CHOOSE f :
                         f = [k \in 0 .. N |-> IF k = 0 THEN d ELSE Copy(f[k - 1], C(k), dx, dy)]
<1>1. d \in Devs /\ N \in Nat
  BY ClipAssumption DEF Good
<1>2. CopyRects(d, P, dx, dy) = copied[N]
  BY DEF CopyRects
<1>3. d \in D
  BY <1>1 DEF Since, Devs
<1>4. ASSUME NEW k \in 1 .. N, NEW e \in D
      PROVE  Copy(e, C(k), dx, dy) \in D
  <2> DEFINE R == C(k)
             c == Copy(e, R, dx, dy)
  <2>1. R \subseteq P /\ e \in Devs /\ Good(e, n) /\ Since(d, e)
    OBVIOUS
  <2> HIDE DEF R
  <2>2. Copyable(e, R, Q, dx, dy)
    BY <1>1, <2>1, CopyableSince
  <2>3. Good(c, n) /\ Since(e, c)
    BY <2>1, <2>2, CopyGood
  <2> HIDE DEF c
  <2>4. c \in D
    BY <1>1, <2>1, <2>3, SinceTransitive DEF Good
  <2> QED
    BY <2>4 DEF c, R
<1> HIDE DEF N, D, C
<1>5. /\ T[0] = D /\ T[N] = D
      /\ \A k \in 0 .. N : T[k] \subseteq D
      /\ \A k \in 1 .. N : T[k - 1] = D /\ T[k] = D
  BY <1>1
<1> HIDE DEF T
<1>6. \A k \in 1 .. N : \A s \in D : G[<<s, k>>] = Copy(s, C(k), dx, dy)
  OBVIOUS
<1> HIDE DEF G
<1>7. \E f : Looped(f, N, d, G) /\ \A k \in 0 .. N : f[k] \in T[k]
  <2>1. d \in T[0] /\ \A k \in 0 .. N : T[k] \subseteq D
    BY <1>3, <1>5
  <2>2. ASSUME NEW k \in 1 .. N, NEW s \in T[k - 1]
        PROVE  G[<<s, k>>] \in T[k]
    <3>1. s \in D /\ T[k] = D
      BY <1>5
    <3>2. G[<<s, k>>] = Copy(s, C(k), dx, dy)
      BY <1>6, <3>1
    <3>3. Copy(s, C(k), dx, dy) \in D
      BY <1>4, <3>1
    <3> QED
      BY <3>1, <3>2, <3>3
  <2> QED
    BY <1>1, <2>1, <2>2, LoopRuns
<1>8. \E f : f = [k \in 0 .. N |-> IF k = 0 THEN d ELSE Copy(f[k - 1], C(k), dx, dy)]
  <2>1. PICK f : Looped(f, N, d, G) /\ \A k \in 0 .. N : f[k] \in T[k]
    BY <1>7
  <2>2. ASSUME NEW k \in 1 .. N
        PROVE  G[<<f[k - 1], k>>] = Copy(f[k - 1], C(k), dx, dy)
    <3>1. k - 1 \in 0 .. N
      BY <1>1
    <3> QED
      BY <1>5, <1>6, <2>1, <3>1
  <2>3. f = [k \in 0 .. N |-> IF k = 0 THEN d ELSE G[<<f[k - 1], k>>]]
    BY <2>1 DEF Looped
  <2>4. \A k \in 0 .. N : k = 0 \/ k \in 1 .. N
    BY <1>1
  <2>5. f = [k \in 0 .. N |-> IF k = 0 THEN d ELSE Copy(f[k - 1], C(k), dx, dy)]
    BY <2>2, <2>3, <2>4
  <2> QED
    BY <2>5
<1>9. copied = [k \in 0 .. N |-> IF k = 0 THEN d ELSE Copy(copied[k - 1], C(k), dx, dy)]
  BY <1>8, Zenon
<1> HIDE DEF copied
<1>10. copied[0] = d /\ \A k \in 1 .. N : copied[k] = Copy(copied[k - 1], C(k), dx, dy)
  BY <1>1, <1>9
<1>11. \A k \in 0 .. N : copied[k] \in T[k]
  <2>1. copied[0] \in T[0]
    BY <1>3, <1>5, <1>10
  <2>2. \A k \in 1 .. N : copied[k - 1] \in T[k - 1] => copied[k] \in T[k]
    BY <1>4, <1>5, <1>10
  <2> QED
    BY <1>1, <2>1, <2>2, LoopKeeps
<1>12. copied[N] \in D
  BY <1>1, <1>5, <1>11
<1> QED
  BY <1>2, <1>12 DEF D

(* A blit from a place on the screen.                                      *)
LEMMA ConvBlitCall ==
    ASSUME clipregion \in Regions, NEW n \in Int, n <= 1, NEW d, Good(d, n),
           NEW x \in Coords, NEW y \in Coords, NEW w \in Nat \ {0}, NEW h \in Nat \ {0},
           x + w <= MaxCoord + 1, y + h <= MaxCoord + 1,
           NEW sx \in Nat, NEW sy \in Nat, sx + w <= XVirtRes, sy + h <= YVirtRes
    PROVE  Served(d, ConvBlit(d, x, y, w, h, sx, sy), n)
<1> DEFINE r  == x + w - 1
           b  == y + h - 1
           sr == sx + w - 1
           sb == sy + h - 1
           P  == (x .. r) \X (y .. b)
           Q  == (sx .. sr) \X (sy .. sb)
           a  == GdClipArea(d, x, y, r, b)
           s  == GdCheckCursor(a.dev, sx, sy, sr, sb)
           t  == GdCheckCursor(s, x, y, r, b)
           v  == Copy(s, P, sx - x, sy - y)
           c  == CopyRects(t, P, sx - x, sy - y)
           e  == ConvBlit(d, x, y, w, h, sx, sy)
<1>1. r \in Coords /\ b \in Coords
  BY SpanOfArea
<1>2. /\ x \in Int /\ y \in Int /\ r \in Int /\ b \in Int /\ sr \in Int /\ sb \in Int
      /\ x <= r /\ y <= b /\ sx <= sr /\ sy <= sb /\ sx \in Int /\ sy \in Int
  BY ClipAssumption DEF Coords
<1>3. /\ Span(x, y, r, b) = P /\ Span(sx, sy, sr, sb) = Q
  <2>1. Span(x, y, r, b) = P
    BY <1>2, SpanIs
  <2>2. Span(sx, sy, sr, sb) = Q
    BY <1>2, SpanIs
  <2> QED
    BY <2>1, <2>2
<1>4. \A p \in P \cap Pixels : <<p[1] + (sx - x), p[2] + (sy - y)>> \in Q \cap Pixels
  <2> TAKE p \in P \cap Pixels
  <2>1. /\ p[1] \in Int /\ p[2] \in Int /\ x <= p[1] /\ p[1] <= x + w - 1
        /\ y <= p[2] /\ p[2] <= y + h - 1
    BY <1>2
  <2>2. p[1] + (sx - x) \in sx .. sx + w - 1 /\ p[2] + (sy - y) \in sy .. sy + h - 1
    BY <1>2, <2>1
  <2>3. /\ (sx .. sx + w - 1) \subseteq 0 .. XVirtRes - 1
        /\ (sy .. sy + h - 1) \subseteq 0 .. YVirtRes - 1
    BY ClipAssumption
  <2> QED
    BY <2>2, <2>3 DEF Pixels
<1>5. Good(a.dev, n)
  BY <1>1, ClipAreaGood
<1>6. a.clip \in {"VISIBLE", "INVISIBLE", "PARTIAL"}
  BY <1>1, ClipAreaGood
<1>7. a.clip = "INVISIBLE" => a.dev.restore = d.restore
  BY <1>1, ClipAreaGood
<1>8. a.clip = "VISIBLE" => Apart(a.dev, Span(x, y, r, b))
  BY <1>1, ClipAreaGood
<1>9. /\ a.clip = "VISIBLE" => e = GdFixCursor(v)
      /\ a.clip = "INVISIBLE" => e = a.dev
      /\ a.clip = "PARTIAL" => e = GdFixCursor(c)
  BY DEF ConvBlit
<1> HIDE DEF a, e, P, Q, r, b, sr, sb
<1>10. Good(s, n) /\ Since(a.dev, s) /\ Apart(s, Q)
  BY <1>2, <1>3, <1>5, CheckGood
<1>11. a.dev \in Devs /\ s \in Devs
  BY <1>5, <1>10 DEF Good
<1> HIDE DEF s
<1>12. CASE a.clip = "VISIBLE"
  <2>1. Apart(s, P)
    BY <1>3, <1>8, <1>10, <1>11, <1>12, ApartSince
  <2>2. Copyable(s, P, Q, sx - x, sy - y)
    BY <1>4, <1>10, <2>1 DEF Copyable
  <2>3. Good(v, n)
    BY <1>10, <2>2, CopyGood
  <2> HIDE DEF v
  <2> QED
    BY <1>9, <1>12, <2>3, FixGood DEF Served, e
<1>13. CASE a.clip = "PARTIAL"
  <2>1. Good(t, n) /\ Since(s, t) /\ Apart(t, P)
    BY <1>2, <1>3, <1>10, CheckGood
  <2>2. t \in Devs
    BY <2>1 DEF Good
  <2> HIDE DEF t
  <2>3. Apart(t, Q)
    BY <1>10, <1>11, <2>1, <2>2, ApartSince
  <2>4. Copyable(t, P, Q, sx - x, sy - y)
    BY <1>4, <2>1, <2>3 DEF Copyable
  <2>5. Good(c, n)
    BY <2>1, <2>4, CopyRectsGood
  <2> HIDE DEF c
  <2> QED
    BY <1>9, <1>13, <2>5, FixGood DEF Served, e
<1>14. CASE a.clip = "INVISIBLE"
  BY <1>5, <1>7, <1>9, <1>14 DEF Served, e
<1> QED
  BY <1>6, <1>12, <1>13, <1>14

(* GdBlit cuts the source to the screen, keeps the screen right and puts   *)
(* the cursor back.                                                        *)
LEMMA BlitCall ==
    ASSUME clipregion \in Regions, NEW n \in Int, n <= 1, NEW d, Good(d, n), NEW blit \in Blits
    PROVE  Served(d, GdBlit(d, blit[1], blit[2], blit[3], blit[4], blit[5], blit[6]), n)
<1> DEFINE x  == blit[1]
           y  == blit[2]
           w  == blit[3]
           h  == blit[4]
           sx == blit[5]
           sy == blit[6]
           cx == Max({0, -sx})
           cy == Max({0, -sy})
           cw == Min({w - cx, XVirtRes - (sx + cx)})
           ch == Min({h - cy, YVirtRes - (sy + cy)})
<1>1. /\ x \in Int /\ y \in Int /\ w \in Nat /\ h \in Nat /\ sx \in Int /\ sy \in Int
      /\ MinCoord <= x /\ MinCoord <= y
      /\ w > 0 /\ h > 0 /\ x + w <= MaxCoord + 1 /\ y + h <= MaxCoord + 1
      /\ sx < XVirtRes /\ sx + w > 0 /\ sy < YVirtRes /\ sy + h > 0
      /\ MinCoord \in Int /\ MaxCoord \in Int /\ XVirtRes \in Nat /\ YVirtRes \in Nat
  BY ShapesAssumption, ClipAssumption DEF Coords
<1>2. GdBlit(d, x, y, w, h, sx, sy) = ConvBlit(d, x + cx, y + cy, cw, ch, sx + cx, sy + cy)
  BY DEF GdBlit
<1> HIDE DEF x, y, w, h, sx, sy
<1>3. /\ cx = (IF 0 >= -sx THEN 0 ELSE -sx) /\ cy = (IF 0 >= -sy THEN 0 ELSE -sy)
  BY <1>1, MaxTwo
<1> HIDE DEF cx, cy
<1>4. cx \in Nat /\ cy \in Nat
  BY <1>1, <1>3
<1>5. /\ cw = (IF w - cx <= XVirtRes - (sx + cx) THEN w - cx ELSE XVirtRes - (sx + cx))
      /\ ch = (IF h - cy <= YVirtRes - (sy + cy) THEN h - cy ELSE YVirtRes - (sy + cy))
  <2>1. /\ w - cx \in Int /\ XVirtRes - (sx + cx) \in Int
        /\ h - cy \in Int /\ YVirtRes - (sy + cy) \in Int
    BY <1>1, <1>4
  <2> QED
    BY <2>1, MinTwo
<1> HIDE DEF cw, ch
<1>6. /\ x + cx \in Coords /\ y + cy \in Coords /\ cw \in Nat \ {0} /\ ch \in Nat \ {0}
      /\ (x + cx) + cw <= MaxCoord + 1 /\ (y + cy) + ch <= MaxCoord + 1
      /\ sx + cx \in Nat /\ sy + cy \in Nat
      /\ (sx + cx) + cw <= XVirtRes /\ (sy + cy) + ch <= YVirtRes
  <2>1. XVirtRes > 0 /\ YVirtRes > 0
    BY ClipAssumption
  <2>2. w - cx > 0 /\ x + cx <= MaxCoord /\ sx + cx >= 0 /\ sx + cx < XVirtRes
    <3>1. CASE sx >= 0
      <4>1. cx = 0 /\ w > 0 /\ x <= MaxCoord
        BY <1>1, <1>3, <3>1
      <4> QED
        BY <1>1, <3>1, <4>1
    <3>2. CASE sx < 0
      <4>1. cx = -sx
        BY <1>1, <1>3, <3>2
      <4> QED
        BY <1>1, <2>1, <3>2, <4>1
    <3> QED
      BY <1>1, <3>1, <3>2
  <2>3. h - cy > 0 /\ y + cy <= MaxCoord /\ sy + cy >= 0 /\ sy + cy < YVirtRes
    <3>1. CASE sy >= 0
      <4>1. cy = 0 /\ h > 0 /\ y <= MaxCoord
        BY <1>1, <1>3, <3>1
      <4> QED
        BY <1>1, <3>1, <4>1
    <3>2. CASE sy < 0
      <4>1. cy = -sy
        BY <1>1, <1>3, <3>2
      <4> QED
        BY <1>1, <2>1, <3>2, <4>1
    <3> QED
      BY <1>1, <3>1, <3>2
  <2>4. cw \in Nat \ {0} /\ cw <= w - cx /\ cw <= XVirtRes - (sx + cx)
    BY <1>1, <1>4, <1>5, <2>2
  <2>5. ch \in Nat \ {0} /\ ch <= h - cy /\ ch <= YVirtRes - (sy + cy)
    BY <1>1, <1>4, <1>5, <2>3
  <2> QED
    BY <1>1, <1>4, <2>2, <2>3, <2>4, <2>5 DEF Coords
<1> DEFINE px == x + cx
           py == y + cy
           qx == sx + cx
           qy == sy + cy
<1>7. Served(d, ConvBlit(d, px, py, cw, ch, qx, qy), n)
  <2> HIDE DEF px, py, qx, qy
  <2>1. /\ px \in Coords /\ py \in Coords /\ qx \in Nat /\ qy \in Nat
        /\ px + cw <= MaxCoord + 1 /\ py + ch <= MaxCoord + 1
        /\ qx + cw <= XVirtRes /\ qy + ch <= YVirtRes
    BY <1>6 DEF px, py, qx, qy
  <2> QED
    BY <1>6, <2>1, ConvBlitCall
<1>8. Served(d, GdBlit(d, x, y, w, h, sx, sy), n)
  BY <1>2, <1>7
<1> QED
  BY <1>8 DEF x, y, w, h, sx, sy
-----------------------------------------------------------------------------
(* The cursor moved, changed and hidden.                                   *)

(* A hidden cursor is shown no more than once.                             *)
LEMMA GoodMore ==
    ASSUME NEW d, Good(d, 0)
    PROVE  Good(d, 1)
<1>1. ASSUME MaxVisible <= 1
      PROVE  Count(d) <= 1 /\ Intact(d)
  <2>1. Count(d) <= 0 /\ Intact(d)
    BY <1>1 DEF Good
  <2>2. Count(d) \in Int
    BY DEF Good, Devs, Count
  <2> QED
    BY <2>1, <2>2
<1> QED
  BY <1>1 DEF Good

(* What is hidden may become another cursor.                               *)
LEMMA CursorChanged ==
    ASSUME NEW n \in Int, n <= 0, NEW d, Good(d, n), NEW c \in Cursors
    PROVE  LET e == [d EXCEPT !.cursor = c]
           IN  Good(e, n) /\ e.restore = d.restore
<1> DEFINE e == [d EXCEPT !.cursor = c]
<1>1. d \in Devs /\ e \in Devs
  BY DevChanged DEF Good
<1>2. /\ e.cache = d.cache /\ e.pix = d.pix /\ e.saved = d.saved /\ e.restore = d.restore
      /\ e.visible = d.visible
  BY <1>1 DEF Devs
<1>3. d.visible \in Int /\ d.restore \in BOOLEAN
  BY <1>1 DEF Devs
<1> HIDE DEF e
<1>4. ASSUME MaxVisible <= 1
      PROVE  Count(e) <= n /\ Intact(e)
  <2>1. Count(d) <= n /\ Intact(d)
    BY <1>4 DEF Good
  <2>2. Count(e) = Count(d)
    BY <1>2 DEF Count
  <2>3. d.visible <= 0
    BY <1>3, <2>1 DEF Count
  <2>4. Shown(d) = {} /\ Shown(e) = {}
    BY <1>2, <1>3, <2>3 DEF Shown
  <2> QED
    BY <1>2, <2>1, <2>2, <2>4 DEF Intact
<1>5. Good(e, n)
  BY <1>1, <1>2, <1>4 DEF Good
<1> QED
  BY <1>2, <1>5 DEF e

(* GdHideCursor with the cursor unchanged.                                 *)
LEMMA HideNow ==
    ASSUME NEW d, Good(d, 1)
    PROVE  Good(GdHideCursor(d), 0) /\ GdHideCursor(d).restore = d.restore
           /\ GdHideCursor(d).cursor = d.cursor
<1>1. d \in Devs /\ d.cursor \in Cursors
  BY DEF Good, Devs
<1>2. [d EXCEPT !.cursor = d.cursor] = d
  BY <1>1 DEF Devs
<1> DEFINE c == d.cursor
           e == GdHideCursor([d EXCEPT !.cursor = c])
<1>3. Good(e, 1 - 1) /\ e.restore = d.restore /\ e.cursor = c
  <2>1. c \in Cursors
    BY <1>1
  <2> HIDE DEF c
  <2> QED
    BY <2>1, HideGood
<1> QED
  BY <1>2, <1>3

(* GdMoveCursor hides the cursor where it was and shows it where it is.    *)
LEMMA MoveCursorCall ==
    ASSUME NEW d, Good(d, 1), NEW p \in Positions
    PROVE  Served(d, GdMoveCursor(d, p), 1)
<1>1. d \in Devs /\ d.cursor \in Cursors /\ p[1] \in Int /\ p[2] \in Int
  BY CursorAssumption DEF Good, Devs
<1> DEFINE c == [x |-> p[1], y |-> p[2], mask |-> d.cursor.mask]
           e == GdHideCursor([d EXCEPT !.cursor = c])
<1>2. c \in Cursors
  BY <1>1 DEF Cursors
<1>3. [d EXCEPT !.cursor.x = p[1], !.cursor.y = p[2]] = [d EXCEPT !.cursor = c]
  <2> DEFINE k == d.cursor
             c1 == [k EXCEPT !.x = p[1]]
             d1 == [d EXCEPT !.cursor = c1]
  <2>1. [d EXCEPT !.cursor.x = p[1]] = d1
    OBVIOUS
  <2>2. d1.cursor = c1 /\ [c1 EXCEPT !.y = p[2]] = c
    <3>1. d1.cursor = c1
      <4> HIDE DEF c1
      <4> QED
        BY <1>1 DEF Devs
    <3>2. k \in Cursors /\ c = [x |-> p[1], y |-> p[2], mask |-> k.mask]
      BY <1>1
    <3> HIDE DEF k, c
    <3>3. c1 = [x |-> p[1], y |-> k.y, mask |-> k.mask]
      BY <3>2 DEF Cursors
    <3>4. [c1 EXCEPT !.y = p[2]] = [x |-> p[1], y |-> p[2], mask |-> k.mask]
      <4> HIDE DEF c1
      <4> QED
        BY <3>3
    <3> QED
      BY <3>1, <3>2, <3>4 DEF k
  <2>3. [d1 EXCEPT !.cursor.y = p[2]] = [d1 EXCEPT !.cursor = c]
    BY <2>2
  <2>4. [d1 EXCEPT !.cursor = c] = [d EXCEPT !.cursor = c]
    <3> HIDE DEF c, c1
    <3> QED
      BY <1>1 DEF Devs
  <2>5. [d EXCEPT !.cursor.x = p[1], !.cursor.y = p[2]] = [d1 EXCEPT !.cursor.y = p[2]]
    BY <2>1
  <2> QED
    BY <2>3, <2>4, <2>5
<1>4. CASE p = <<d.cursor.x, d.cursor.y>>
  BY <1>4 DEF GdMoveCursor, Served
<1>5. CASE p # <<d.cursor.x, d.cursor.y>>
  <2>1. GdMoveCursor(d, p) = GdShowCursor(e)
    BY <1>3, <1>5 DEF GdMoveCursor
  <2> HIDE DEF c
  <2>2. Good(e, 1 - 1) /\ e.restore = d.restore
    BY <1>2, HideGood
  <2> HIDE DEF e
  <2>3. Good(GdShowCursor(e), 1) /\ GdShowCursor(e).restore = e.restore
    BY <2>2, ShowGood
  <2> QED
    BY <2>1, <2>2, <2>3 DEF Served
<1> QED
  BY <1>4, <1>5

(* GdSetCursor hides the one shape and shows the other.                    *)
LEMMA SetCursorCall ==
    ASSUME NEW d, Good(d, 1), NEW m \in CursorMasks
    PROVE  Served(d, GdSetCursor(d, m), 1)
<1> DEFINE h == GdHideCursor(d)
           c == [h.cursor EXCEPT !.mask = m]
           e == [h EXCEPT !.cursor = c]
<1>1. Good(h, 0) /\ h.restore = d.restore
  BY HideNow
<1> HIDE DEF h
<1>2. h \in Devs /\ h.cursor \in Cursors
  BY <1>1 DEF Good, Devs
<1>3. c \in Cursors /\ [h EXCEPT !.cursor.mask = m] = e
  BY <1>2 DEF Cursors, Devs
<1>4. Good(e, 0) /\ e.restore = h.restore
  <2> HIDE DEF c
  <2> QED
    BY <1>1, <1>3, CursorChanged
<1>5. GdSetCursor(d, m) = GdShowCursor(e)
  BY <1>3 DEF GdSetCursor, h
<1> HIDE DEF e
<1>6. Good(e, 1 - 1)
  BY <1>4
<1>7. Good(GdShowCursor(e), 1) /\ GdShowCursor(e).restore = e.restore
  BY <1>6, ShowGood
<1> QED
  BY <1>1, <1>4, <1>5, <1>7 DEF Served

(* What the shapes of an area have to be.                                  *)
LEMMA AreaShape ==
    ASSUME NEW a \in Areas
    PROVE  /\ a[1] \in Coords /\ a[2] \in Coords /\ a[3] \in Nat \ {0} /\ a[4] \in Nat \ {0}
           /\ a[1] + a[3] <= MaxCoord + 1 /\ a[2] + a[4] <= MaxCoord + 1
           /\ a = <<a[1], a[2], a[3], a[4]>>
BY ShapesAssumption

(* The coordinates of a line.                                              *)
LEMMA LineShape ==
    ASSUME NEW l \in Lines
    PROVE  /\ l[1] \in Coords /\ l[2] \in Coords /\ l[3] \in Coords /\ l[4] \in Coords
           /\ l = <<l[1], l[2], l[3], l[4]>>
BY ShapesAssumption

(* Bits moved and filled behind a hidden cursor.                           *)
LEMMA MoveBitsCall ==
    ASSUME clipregion \in Regions, NEW d, Good(d, 1), NEW b \in Blits, NEW a \in Areas
    PROVE  LET h == GdHideCursor(d)
               f == GdBlit(h, b[1], b[2], b[3], b[4], b[5], b[6])
           IN  Served(d, GdShowCursor(GdFillRect(f, a[1], a[2], a[3], a[4])), 1)
<1> DEFINE h == GdHideCursor(d)
           f == GdBlit(h, b[1], b[2], b[3], b[4], b[5], b[6])
           g == GdFillRect(f, a[1], a[2], a[3], a[4])
<1>1. Good(h, 0) /\ h.restore = d.restore
  BY HideNow
<1> HIDE DEF h
<1>2. Served(h, f, 0)
  BY <1>1, BlitCall
<1> HIDE DEF f
<1>3. Good(f, 0)
  BY <1>2 DEF Served
<1>4. Served(f, g, 0)
  BY <1>3, AreaShape, FillRectCall
<1> HIDE DEF g
<1>5. Good(g, 1 - 1)
  BY <1>4 DEF Served
<1>6. Good(GdShowCursor(g), 1) /\ GdShowCursor(g).restore = g.restore
  BY <1>5, ShowGood
<1>7. Served(d, GdShowCursor(g), 1)
  BY <1>1, <1>2, <1>4, <1>6 DEF Served
<1> QED
  BY <1>7 DEF g, f, h

(* GrInjectPointerEvent shows or hides the cursor, and moves it.           *)
LEMMA InjectCall ==
    ASSUME NEW d, Good(d, 1), NEW p \in Positions, NEW show \in BOOLEAN,
           show => Count(d) < MaxVisible
    PROVE  Served(d, GdMoveCursor(IF show THEN GdShowCursor(d) ELSE GdHideCursor(d), p), 1)
<1> DEFINE e == IF show THEN GdShowCursor(d) ELSE GdHideCursor(d)
<1>1. ASSUME show
      PROVE  Good(e, 1) /\ e.restore = d.restore
  <2>1. Good(d, 0)
    <3>1. ASSUME MaxVisible <= 1
          PROVE  Count(d) <= 0 /\ Intact(d)
      <4>1. Count(d) \in Int /\ MaxVisible \in Int
        BY CursorAssumption DEF Good, Devs, Count
      <4>2. Count(d) < MaxVisible
        BY <1>1
      <4>3. Intact(d)
        BY <3>1 DEF Good
      <4> QED
        BY <3>1, <4>1, <4>2, <4>3
    <3> QED
      BY <3>1 DEF Good
  <2>2. Good(d, 1 - 1)
    BY <2>1
  <2>3. Good(GdShowCursor(d), 1) /\ GdShowCursor(d).restore = d.restore
    BY <2>2, ShowGood
  <2>4. e = GdShowCursor(d)
    BY <1>1, Zenon
  <2> HIDE DEF e
  <2> QED
    BY <2>3, <2>4
<1>2. ASSUME ~show
      PROVE  Good(e, 1) /\ e.restore = d.restore
  <2>1. Good(GdHideCursor(d), 0) /\ GdHideCursor(d).restore = d.restore
    BY HideNow
  <2>2. Good(GdHideCursor(d), 1)
    BY <2>1, GoodMore
  <2>3. e = GdHideCursor(d)
    BY <1>2, Zenon
  <2> HIDE DEF e
  <2> QED
    BY <2>1, <2>2, <2>3
<1>3. Good(e, 1) /\ e.restore = d.restore
  <2> HIDE DEF e
  <2> QED
    BY <1>1, <1>2
<1> HIDE DEF e
<1>4. Served(e, GdMoveCursor(e, p), 1)
  BY <1>3, MoveCursorCall
<1>5. Served(d, GdMoveCursor(e, p), 1)
  BY <1>3, <1>4 DEF Served
<1> QED
  BY <1>5 DEF e
-----------------------------------------------------------------------------
(* The invariant.                                                          *)

(* The inductive invariant.                                                *)
Inv == clipregion \in Regions /\ Good(Dev, 1)

(* The invariant holds at the start.                                       *)
LEMMA InvStarts == Init => Inv
<1> SUFFICES ASSUME Init
             PROVE  Inv
  OBVIOUS
<1>1. clipregion \in Regions /\ cache = DefaultCache(clipregion)
  BY DEF Init, ClipInit
<1>2. CacheGood(cache) /\ cache \in Boxes
  BY <1>1, DefaultSound DEF CacheGood, EmptyKept, DefaultCache, SoundBox
<1>3. cursor \in Cursors
  BY CursorAssumption DEF Init, Cursors
<1>4. Under(cursor) \subseteq Pixels
  BY DEF Under
<1>5. pix \in Frames /\ saved \in [Under(cursor) -> Contents]
  BY <1>4 DEF Init, Frames, Contents
<1>6. saved \in Savings
  BY <1>4, <1>5 DEF Savings
<1>7. /\ curvisible = 1 /\ curneedsrestore = FALSE
      /\ pix = [p \in Pixels |-> IF p \in Under(cursor) THEN "cursor" ELSE "app"]
      /\ saved = [p \in Under(cursor) |-> "app"]
  BY DEF Init
<1>8. [p \in Pixels |-> 0] \in Counts
  BY DEF Counts
<1>9. Dev \in Devs
  <2>1. curvisible = 1 /\ curneedsrestore = FALSE
    BY DEF Init
  <2>2. curvisible \in Int
    BY <2>1
  <2>3. curneedsrestore \in BOOLEAN
    BY <2>1, Zenon
  <2> QED
    BY <1>2, <1>3, <1>5, <1>6, <1>8, <2>2, <2>3 DEF Dev, Devs
<1>10. /\ Dev.cache = cache /\ Dev.pix = pix /\ Dev.saved = saved /\ Dev.visible = curvisible
       /\ Dev.restore = curneedsrestore /\ Dev.cursor = cursor
  BY DEF Dev
<1>11. Shown(Dev) = Under(cursor) /\ Count(Dev) = 1
  BY <1>7, <1>10 DEF Shown, Count
<1>12. Intact(Dev)
  BY <1>7, <1>10, <1>11 DEF Intact
<1>13. Good(Dev, 1)
  BY <1>2, <1>9, <1>10, <1>11, <1>12 DEF Good
<1> QED
  BY <1>1, <1>13 DEF Inv

(* The state a call ends in keeps the invariant.                           *)
LEMMA BecomeKeeps ==
    ASSUME clipregion \in Regions, NEW d, Good(d, 1), Become(d)
    PROVE  Inv' /\ curneedsrestore' = d.restore
<1>1. /\ cache' = d.cache /\ pix' = d.pix /\ saved' = d.saved /\ curvisible' = d.visible
      /\ curneedsrestore' = d.restore /\ cursor' = d.cursor /\ clipregion' = clipregion
  BY DEF Become
<1>2. d \in Devs
  BY DEF Good
<1>3. [p \in Pixels |-> 0] \in Counts
  BY DEF Counts
<1>4. Dev' = [cache |-> d.cache, pix |-> d.pix, saved |-> d.saved, visible |-> d.visible,
              restore |-> d.restore, cursor |-> d.cursor, drawn |-> [p \in Pixels |-> 0]]
  BY <1>1 DEF Dev
<1> DEFINE e == [d EXCEPT !.drawn = [p \in Pixels |-> 0]]
<1>5. Dev' = e
  BY <1>2, <1>4 DEF Devs
<1>6. e \in Devs
  BY <1>2, <1>3, DevChanged
<1>7. /\ e.cache = d.cache /\ e.pix = d.pix /\ e.saved = d.saved /\ e.visible = d.visible
      /\ e.restore = d.restore /\ e.cursor = d.cursor
  BY <1>2 DEF Devs
<1> HIDE DEF e
<1>8. Good(e, 1)
  <2>1. CacheGood(e.cache)
    BY <1>7 DEF Good
  <2>2. Count(e) = Count(d) /\ Shown(e) = Shown(d)
    BY <1>7 DEF Count, Shown
  <2>3. Intact(d) => Intact(e)
    BY <1>7, <2>2 DEF Intact
  <2> QED
    BY <1>6, <2>1, <2>2, <2>3 DEF Good
<1>9. Good(Dev, 1)'
  <2>1. CacheGood(e.cache)
    BY <1>8 DEF Good
  <2>2. SoundBox(clipregion', e.cache) /\ EmptyKept(clipregion', e.cache)
    BY <1>1, <2>1 DEF CacheGood
  <2>3. MaxVisible <= 1 => Count(e) <= 1 /\ Intact(e)
    BY <1>8 DEF Good
  <2> QED
    BY <1>5, <1>6, <2>2, <2>3 DEF Good, CacheGood
<1> QED
  BY <1>1, <1>9 DEF Inv

(* The calls that put the cursor back.                                     *)
LEMMA ServedKeeps ==
    ASSUME Inv, NEW d, Served(Dev, d, 1), Become(d)
    PROVE  Inv' /\ (curneedsrestore' => curneedsrestore)
<1>1. clipregion \in Regions /\ Good(d, 1) /\ (~Dev.restore => ~d.restore)
  BY DEF Inv, Served
<1>2. Inv' /\ curneedsrestore' = d.restore
  BY <1>1, BecomeKeeps
<1>3. Dev.restore = curneedsrestore
  BY DEF Dev
<1>4. curneedsrestore \in BOOLEAN /\ d.restore \in BOOLEAN
  BY <1>1, <1>3 DEF Inv, Good, Devs
<1> QED
  BY <1>1, <1>2, <1>3, <1>4

(* A new clip region takes a new cache with it.                            *)
LEMMA SetClipRegionKeeps ==
    ASSUME Inv, NEW reg \in Regions, SetClipRegion(reg)
    PROVE  Inv' /\ (curneedsrestore' => curneedsrestore)
<1>1. /\ clipregion' = reg /\ cache' = DefaultCache(reg)
      /\ pix' = pix /\ saved' = saved /\ curvisible' = curvisible
      /\ curneedsrestore' = curneedsrestore /\ cursor' = cursor
  BY DEF SetClipRegion, GdSetClipRegion
<1> DEFINE d == Dev
           c == DefaultCache(reg)
           e == [d EXCEPT !.cache = c]
<1>2. d \in Devs /\ (MaxVisible <= 1 => Count(d) <= 1 /\ Intact(d))
  BY DEF Inv, Good
<1>3. SoundBox(reg, c) /\ EmptyKept(reg, c)
  BY DefaultSound DEF EmptyKept, DefaultCache
<1>4. c \in Boxes
  BY <1>3 DEF SoundBox
<1>5. Dev' = e
  BY <1>1 DEF Dev
<1> HIDE DEF d, c
<1>6. /\ e \in Devs /\ e.cache = c /\ e.pix = d.pix /\ e.saved = d.saved
      /\ e.visible = d.visible /\ e.restore = d.restore /\ e.cursor = d.cursor
  BY <1>2, <1>4, DevChanged DEF Devs
<1> HIDE DEF e
<1>7. Count(e) = Count(d) /\ Shown(e) = Shown(d)
  BY <1>6 DEF Count, Shown
<1>8. Intact(d) => Intact(e)
  BY <1>6, <1>7 DEF Intact
<1>9. Good(Dev, 1)'
  BY <1>1, <1>2, <1>3, <1>5, <1>6, <1>7, <1>8 DEF Good, CacheGood
<1> QED
  BY <1>1, <1>9 DEF Inv

(* What is drawn from point to point.                                      *)
LEMMA LineKeeps ==
    ASSUME Inv, NEW l \in Lines
    PROVE  /\ Served(Dev, GdPoint(Dev, l[1], l[2]), 1)
           /\ \A last \in BOOLEAN : Served(Dev, GdLine(Dev, l[1], l[2], l[3], l[4], last), 1)
<1>1. clipregion \in Regions /\ Good(Dev, 1)
  BY DEF Inv
<1>2. Served(Dev, GdPoint(Dev, l[1], l[2]), 1)
  BY <1>1, LineShape, PointCall
<1>3. ASSUME NEW last \in BOOLEAN
      PROVE  Served(Dev, GdLine(Dev, l[1], l[2], l[3], l[4], last), 1)
  BY <1>1, LineShape, LineCall
<1> QED
  BY <1>2, <1>3

(* What is done with areas.                                                *)
LEMMA AreaKeeps ==
    ASSUME Inv, NEW a \in Areas
    PROVE  /\ Good(GdRect(Dev, a[1], a[2], a[3], a[4]), 1)
           /\ a[4] >= 3 => Served(Dev, GdRect(Dev, a[1], a[2], a[3], a[4]), 1)
           /\ Served(Dev, GdFillRect(Dev, a[1], a[2], a[3], a[4]), 1)
           /\ Served(Dev, GdReadArea(Dev, a[1], a[2], a[3], a[4]), 1)
<1>1. clipregion \in Regions /\ Good(Dev, 1)
  BY DEF Inv
<1>2. /\ Good(GdRect(Dev, a[1], a[2], a[3], a[4]), 1)
      /\ a[4] >= 3 => ~GdRect(Dev, a[1], a[2], a[3], a[4]).restore
  BY <1>1, AreaShape, RectCall
<1>3. Served(Dev, GdFillRect(Dev, a[1], a[2], a[3], a[4]), 1)
  BY <1>1, AreaShape, FillRectCall
<1>4. Served(Dev, GdReadArea(Dev, a[1], a[2], a[3], a[4]), 1)
  BY <1>1, AreaShape, ReadCall
<1> QED
  BY <1>2, <1>3, <1>4 DEF Served

(* What is done with the cursor.                                           *)
LEMMA CursorKeeps ==
    ASSUME Inv, NEW p \in Positions
    PROVE  /\ Served(Dev, GdMoveCursor(Dev, p), 1)
           /\ \A m \in CursorMasks : Served(Dev, GdSetCursor(Dev, m), 1)
           /\ \A show \in BOOLEAN : Inject(show, p) =>
                Inv' /\ (curneedsrestore' => curneedsrestore)
<1>1. clipregion \in Regions /\ Good(Dev, 1)
  BY DEF Inv
<1>2. ASSUME NEW show \in BOOLEAN, Inject(show, p)
      PROVE  Inv' /\ (curneedsrestore' => curneedsrestore)
  <2> DEFINE e == GdMoveCursor(IF show THEN GdShowCursor(Dev) ELSE GdHideCursor(Dev), p)
  <2>1. Become(e)
    BY <1>2 DEF Inject
  <2>2. Count(Dev) = curvisible + (IF curneedsrestore THEN 1 ELSE 0)
    BY DEF Count, Dev
  <2>3. show => Count(Dev) < MaxVisible
    BY <1>2, <2>2, Zenon DEF Inject
  <2>4. Served(Dev, e, 1)
    BY <1>1, <2>3, InjectCall
  <2> HIDE DEF e
  <2> QED
    BY <2>1, <2>4, ServedKeeps
<1> QED
  BY <1>1, <1>2, MoveCursorCall, SetCursorCall

(* No step but a short rectangle leaves the cursor to be put back.         *)
Restored == curneedsrestore' /\ ~curneedsrestore => \E a \in Areas : ShortRect(a)

(* Every step keeps the invariant, and only a short rectangle leaves the   *)
(* cursor away.                                                            *)
LEMMA InvStep == Inv /\ [Next]_vars => Inv' /\ Restored
<1> SUFFICES ASSUME Inv, [Next]_vars
             PROVE  Inv' /\ Restored
  OBVIOUS
<1> DEFINE Kept == Inv' /\ (curneedsrestore' => curneedsrestore)
<1>1. ASSUME NEW reg \in Regions, SetClipRegion(reg)
      PROVE  Kept
  BY <1>1, SetClipRegionKeeps
<1>2. ASSUME NEW l \in Lines, Become(GdPoint(Dev, l[1], l[2]))
      PROVE  Kept
  BY <1>2, LineKeeps, ServedKeeps
<1>3. ASSUME NEW l \in Lines, NEW last \in BOOLEAN,
             Become(GdLine(Dev, l[1], l[2], l[3], l[4], last))
      PROVE  Kept
  BY <1>3, LineKeeps, ServedKeeps
<1>4. ASSUME NEW a \in Areas, ShortRect(a)
      PROVE  Inv' /\ Restored
  <2>1. Become(GdRect(Dev, a[1], a[2], a[3], a[4])) /\ clipregion \in Regions
    BY <1>4 DEF ShortRect, Inv
  <2>2. Good(GdRect(Dev, a[1], a[2], a[3], a[4]), 1)
    BY AreaKeeps
  <2>3. Inv'
    BY <2>1, <2>2, BecomeKeeps
  <2> QED
    BY <1>4, <2>3 DEF Restored
<1>5. ASSUME NEW a \in Areas, a[4] >= 3, Become(GdRect(Dev, a[1], a[2], a[3], a[4]))
      PROVE  Kept
  BY <1>5, AreaKeeps, ServedKeeps
<1>6. ASSUME NEW a \in Areas, Become(GdFillRect(Dev, a[1], a[2], a[3], a[4]))
      PROVE  Kept
  BY <1>6, AreaKeeps, ServedKeeps
<1>7. ASSUME NEW a \in Areas, Become(GdReadArea(Dev, a[1], a[2], a[3], a[4]))
      PROVE  Kept
  BY <1>7, AreaKeeps, ServedKeeps
<1>8. ASSUME NEW b \in Blits, Become(GdBlit(Dev, b[1], b[2], b[3], b[4], b[5], b[6]))
      PROVE  Kept
  <2>1. Served(Dev, GdBlit(Dev, b[1], b[2], b[3], b[4], b[5], b[6]), 1)
    BY BlitCall DEF Inv
  <2> QED
    BY <1>8, <2>1, ServedKeeps
<1>9. ASSUME NEW b \in Blits, NEW a \in Areas, MoveBits(b, a)
      PROVE  Kept
  <2> DEFINE h == GdHideCursor(Dev)
             f == GdBlit(h, b[1], b[2], b[3], b[4], b[5], b[6])
             e == GdShowCursor(GdFillRect(f, a[1], a[2], a[3], a[4]))
  <2>1. Served(Dev, e, 1)
    BY MoveBitsCall DEF Inv
  <2>2. Become(e)
    BY <1>9 DEF MoveBits
  <2> HIDE DEF e
  <2> QED
    BY <2>1, <2>2, ServedKeeps
<1>10. ASSUME NEW p \in Positions, Become(GdMoveCursor(Dev, p))
       PROVE  Kept
  BY <1>10, CursorKeeps, ServedKeeps
<1>11. ASSUME NEW p \in Positions, NEW show \in BOOLEAN, Inject(show, p)
       PROVE  Kept
  BY <1>11, CursorKeeps
<1>12. ASSUME NEW m \in CursorMasks, Become(GdSetCursor(Dev, m))
       PROVE  Kept
  <2>1. Served(Dev, GdSetCursor(Dev, m), 1)
    BY SetCursorCall DEF Inv
  <2> QED
    BY <1>12, <2>1, ServedKeeps
<1>13. CASE UNCHANGED vars
  <2>1. /\ clipregion' = clipregion /\ cache' = cache /\ pix' = pix /\ saved' = saved
        /\ curvisible' = curvisible /\ curneedsrestore' = curneedsrestore /\ cursor' = cursor
    BY <1>13 DEF vars, clipVars
  <2>2. Dev' = Dev
    BY <2>1 DEF Dev
  <2>3. Good(Dev, 1)'
    BY <2>1, <2>2 DEF Inv, Good, CacheGood
  <2> QED
    BY <2>1, <2>3 DEF Inv, Restored
<1>14. Kept => Inv' /\ Restored
  BY DEF Restored
<1> HIDE DEF Kept
<1> QED
  BY <1>1, <1>2, <1>3, <1>4, <1>5, <1>6, <1>7, <1>8, <1>9, <1>10, <1>11, <1>12, <1>13, <1>14
     DEF Next

(* The invariant always holds.                                             *)
LEMMA InvHolds == Spec => []Inv
<1>1. Inv /\ [Next]_vars => Inv'
  BY InvStep
<1> QED
  BY <1>1, InvStarts, PTL DEF Spec

(* What the drawing routines find in the cache is always right, whatever   *)
(* they drew before.                                                       *)
THEOREM CacheOfDrawing == Spec => []CacheSound
<1>1. Inv => CacheSound
  BY DEF Inv, Good, CacheGood, SoundBox, Sound, CacheSound, Dev
<1> QED
  BY <1>1, InvHolds, PTL

(* As long as the cursor is not shown twice, no sequence of drawing,       *)
(* reading, copying, moving and changing the cursor leaves a trail of it,  *)
(* a hole in it, or restores what was drawn over since.                    *)
THEOREM NoTrail ==
    ASSUME MaxVisible <= 1
    PROVE  Spec => []ScreenIntact
<1>1. Inv => ScreenIntact
  <2> SUFFICES ASSUME Inv
               PROVE  ScreenIntact
    OBVIOUS
  <2>1. Intact(Dev)
    BY DEF Inv, Good
  <2>2. Dev.pix = pix /\ Dev.saved = saved /\ Dev.visible = curvisible /\ Dev.cursor = cursor
    BY DEF Dev
  <2>3. Shown(Dev) = IF curvisible > 0 THEN Under(cursor) ELSE {}
    BY <2>2 DEF Shown
  <2> QED
    BY <2>1, <2>2, <2>3 DEF Intact, ScreenIntact
<1> QED
  BY <1>1, InvHolds, PTL

(* As long as the cursor is not shown twice, GdReadArea reads what was     *)
(* drawn and never the cursor.                                             *)
THEOREM CursorNotRead ==
    ASSUME MaxVisible <= 1
    PROVE  Spec => []ReadsApp
<1>1. Inv => ReadsApp
  <2> SUFFICES ASSUME Inv, NEW a \in Areas, NEW p \in Pixels,
                      p[1] \in a[1] .. a[1] + a[3] - 1, p[2] \in a[2] .. a[2] + a[4] - 1
               PROVE  Reading(Dev, a[1], a[2], a[3], a[4]).pix[p] = "app"
    BY DEF ReadsApp
  <2>1. p = <<p[1], p[2]>>
    BY PixelCoords
  <2>2. p \in Filled(<<a[1], a[2], a[3], a[4]>>) \cap Pixels
    BY <2>1 DEF Filled
  <2>3. \A q \in Filled(<<a[1], a[2], a[3], a[4]>>) \cap Pixels :
            Reading(Dev, a[1], a[2], a[3], a[4]).pix[q] = "app"
    <3> DEFINE x == a[1]
               y == a[2]
               w == a[3]
               h == a[4]
    <3>1. clipregion \in Regions /\ Good(Dev, 1)
      BY DEF Inv
    <3>2. /\ x \in Coords /\ y \in Coords /\ w \in Nat \ {0} /\ h \in Nat \ {0}
          /\ x + w <= MaxCoord + 1 /\ y + h <= MaxCoord + 1
      BY AreaShape
    <3> HIDE DEF x, y, w, h
    <3>3. \A q \in Filled(<<x, y, w, h>>) \cap Pixels : Reading(Dev, x, y, w, h).pix[q] = "app"
      BY <3>1, <3>2, ReadCall
    <3> QED
      BY <3>3 DEF x, y, w, h
  <2> QED
    BY <2>2, <2>3
<1> QED
  BY <1>1, InvHolds, PTL

(* Rectangles, filled areas and lines of any slope are drawn within the    *)
(* clip region, whole, and each pixel once, whatever the cache held before.*)
THEOREM DrawnOnce == Spec => []DrawsExactly
<1>1. Inv => DrawsExactly
  <2> SUFFICES ASSUME Inv
               PROVE  DrawsExactly
    OBVIOUS
  <2>1. clipregion \in Regions /\ Good(Dev, 1)
    BY DEF Inv
  <2>2. ASSUME NEW P
        PROVE  Painted(Dev, P) = Clipped(P)
    <3>1. \A p \in Pixels : Dev.drawn[p] = 0
      BY DEF Dev
    <3>2. \A p \in Pixels : Clipped(P)[p] \in Int
      BY DEF Clipped
    <3>3. Clipped(P) = [p \in Pixels |-> Clipped(P)[p]]
      BY DEF Clipped
    <3> QED
      BY <3>1, <3>2, <3>3 DEF Painted
  <2>3. ASSUME NEW a \in Areas
        PROVE  /\ GdRect(Dev, a[1], a[2], a[3], a[4]).drawn = Clipped(Outline(a))
               /\ GdFillRect(Dev, a[1], a[2], a[3], a[4]).drawn = Clipped(Filled(a))
    <3>1. a = <<a[1], a[2], a[3], a[4]>>
      BY AreaShape
    <3>2. GdRect(Dev, a[1], a[2], a[3], a[4]).drawn =
              Painted(Dev, Outline(<<a[1], a[2], a[3], a[4]>>))
      BY <2>1, AreaShape, RectCall
    <3>3. GdFillRect(Dev, a[1], a[2], a[3], a[4]).drawn =
              Painted(Dev, Filled(<<a[1], a[2], a[3], a[4]>>))
      BY <2>1, AreaShape, FillRectCall
    <3> QED
      BY <2>2, <3>1, <3>2, <3>3
  <2>4. ASSUME NEW l \in Lines, NEW last \in BOOLEAN
        PROVE  LineDrawn(Dev, GdLine(Dev, l[1], l[2], l[3], l[4], last), l, last)
    <3>1. l = <<l[1], l[2], l[3], l[4]>>
      BY LineShape
    <3>2. LineDrawn(Dev, GdLine(Dev, l[1], l[2], l[3], l[4], last),
                    <<l[1], l[2], l[3], l[4]>>, last)
      BY <2>1, LineShape, LineCall
    <3> QED
      BY <3>1, <3>2
  <2>5. ASSUME NEW l \in Lines
        PROVE  /\ GdLine(Dev, l[1], l[2], l[3], l[4], TRUE).drawn = Clipped(Ideal(l))
               /\ <<l[1], l[2]>> # <<l[3], l[4]>> =>
                     GdLine(Dev, l[1], l[2], l[3], l[4], FALSE).drawn
                         = Clipped(Ideal(l) \ Omitted(l))
    BY <2>2, <2>4 DEF LineDrawn
  <2> QED
    BY <2>3, <2>5 DEF DrawsExactly, Omitted
<1> QED
  BY <1>1, InvHolds, PTL

(* Every call puts back the cursor it took away, but a rectangle of one or *)
(* two rows.                                                               *)
THEOREM CursorRestored == Spec => CursorComesBack
<1>1. Inv /\ [Next]_vars => Inv'
  BY InvStep
<1>2. Inv /\ [Next]_vars =>
          [curneedsrestore' /\ ~curneedsrestore => \E a \in Areas : ShortRect(a)]_vars
  BY InvStep DEF Restored
<1> QED
  BY <1>1, <1>2, InvStarts, PTL DEF Spec, CursorComesBack
-----------------------------------------------------------------------------
(* Copying within the screen, the cursor hidden.                           *)

None == [p \in {} |-> <<0, 0>>]

(* A state without a cursor, whose pixels show where they come from.       *)
Idles == [cache : Boxes, pix : [Pixels -> Pixels], saved : {None}, visible : {0},
          restore : {FALSE}, cursor : Cursors, drawn : Counts]

(* Without a cursor there is nothing to take away or to put back.          *)
LEMMA IdleCursor ==
    ASSUME NEW d \in Idles, NEW x1, NEW y1, NEW x2, NEW y2
    PROVE  GdCheckCursor(d, x1, y1, x2, y2) = d /\ GdFixCursor(d) = d
<1>1. d.visible = 0 /\ d.restore = FALSE
  BY DEF Idles
<1> QED
  BY <1>1 DEF GdCheckCursor, GdFixCursor

(* Testing a point changes the cache only.                                 *)
LEMMA IdleTest ==
    ASSUME clipregion \in Regions, NEW d \in Idles, CacheGood(d.cache),
           NEW x \in Coords, NEW y \in Coords
    PROVE  LET e == Test(d, x, y)
           IN  /\ e \in Idles /\ CacheGood(e.cache) /\ e.pix = d.pix
               /\ InCache(e.cache, x, y)
<1> DEFINE c == ClipPoint(clipregion, d.cache, x, y)
           e == [d EXCEPT !.cache = c]
<1>1. CacheGood(c)
  BY ClipPointSound DEF CacheGood, Coords
<1>2. InCache(c, x, y)
  BY ClipPointHolds
<1>3. [d EXCEPT !.cache = ClipPoint(clipregion, @, x, y)] = e
  BY DEF Idles
<1> HIDE DEF c
<1>4. c \in Boxes
  BY <1>1 DEF CacheGood, SoundBox
<1>5. e \in Idles /\ e.cache = c /\ e.pix = d.pix
  BY <1>4 DEF Idles
<1>6. Test(d, x, y) = IF e.cache.result THEN GdCheckCursor(e, x, y, x, y) ELSE e
  BY <1>3, Zenon DEF Test
<1> HIDE DEF e
<1>7. Test(d, x, y) = e
  <2>1. GdCheckCursor(e, x, y, x, y) = e
    BY <1>5, IdleCursor
  <2> QED
    BY <1>6, <2>1, Zenon
<1> QED
  BY <1>1, <1>2, <1>5, <1>7

(* GdClipArea is right about an area that is wholly inside or outside.     *)
LEMMA IdleArea ==
    ASSUME clipregion \in Regions, NEW d \in Idles, CacheGood(d.cache),
           NEW x1 \in Coords, NEW y1 \in Coords, NEW x2 \in Coords, NEW y2 \in Coords
    PROVE  LET a == GdClipArea(d, x1, y1, x2, y2)
               P == Span(x1, y1, x2, y2)
           IN  /\ a.dev \in Idles /\ a.dev.pix = d.pix
               /\ a.clip \in {"VISIBLE", "INVISIBLE", "PARTIAL"}
               /\ a.clip = "INVISIBLE" => \A p \in P \cap Pixels : ~InRegion(clipregion, p[1], p[2])
               /\ a.clip = "VISIBLE" => \A p \in P \cap Pixels : InRegion(clipregion, p[1], p[2])
<1> DEFINE a == GdClipArea(d, x1, y1, x2, y2)
           P == Span(x1, y1, x2, y2)
           e == IF InCache(d.cache, x1, y1) THEN d ELSE Test(d, x1, y1)
<1>1. x1 \in Int /\ y1 \in Int /\ x2 \in Int /\ y2 \in Int
  BY ClipAssumption DEF Coords
<1>2. e \in Idles /\ CacheGood(e.cache) /\ e.pix = d.pix /\ InCache(e.cache, x1, y1)
  <2>1. CASE InCache(d.cache, x1, y1)
    BY <2>1
  <2>2. CASE ~InCache(d.cache, x1, y1)
    BY <2>2, IdleTest
  <2> QED
    BY <2>1, <2>2
<1>3. a = IF ~InCache(e.cache, x2, y2) THEN [dev |-> e, clip |-> "PARTIAL"]
          ELSE IF ~e.cache.result THEN [dev |-> e, clip |-> "INVISIBLE"]
          ELSE [dev |-> GdCheckCursor(e, x1, y1, x2, y2), clip |-> "VISIBLE"]
  BY DEF GdClipArea
<1> HIDE DEF e
<1>4. GdCheckCursor(e, x1, y1, x2, y2) = e /\ e.cache \in Boxes
  <2>1. GdCheckCursor(e, x1, y1, x2, y2) = e
    BY <1>2, IdleCursor
  <2>2. e.cache \in Boxes
    BY <1>2 DEF Idles
  <2> QED
    BY <2>1, <2>2
<1>5. InCache(e.cache, x2, y2) => \A p \in P : InCache(e.cache, p[1], p[2])
  BY <1>1, <1>2, <1>4, CornersHold
<1> HIDE DEF a, P
<1>6. \A p \in P \cap Pixels : InCache(e.cache, p[1], p[2]) =>
          (e.cache.result <=> InRegion(clipregion, p[1], p[2]))
  <2> TAKE p \in P \cap Pixels
  <2>1. p[1] \in MinCoord .. MaxCoord /\ p[2] \in MinCoord .. MaxCoord
    BY ClipAssumption DEF Pixels
  <2> QED
    BY <1>2, <2>1 DEF CacheGood, SoundBox, Sound
<1>7. a.dev = e /\ a.clip \in {"VISIBLE", "INVISIBLE", "PARTIAL"}
  BY <1>3, <1>4
<1>8. /\ a.clip = "INVISIBLE" => InCache(e.cache, x2, y2) /\ ~e.cache.result
      /\ a.clip = "VISIBLE" => InCache(e.cache, x2, y2) /\ e.cache.result
  BY <1>3
<1> QED
  BY <1>2, <1>5, <1>6, <1>7, <1>8 DEF a, P

(* The pixels of a copy.                                                   *)
LEMMA IdleCopy ==
    ASSUME NEW d \in Idles, NEW P, NEW dx \in Int, NEW dy \in Int,
           \A p \in P \cap Pixels : <<p[1] + dx, p[2] + dy>> \in Pixels
    PROVE  /\ Copy(d, P, dx, dy) \in Idles
           /\ Copy(d, P, dx, dy).pix =
                  [p \in Pixels |-> IF p \in P THEN d.pix[<<p[1] + dx, p[2] + dy>>] ELSE d.pix[p]]
<1> DEFINE F == [p \in Pixels |-> IF p \in P THEN d.pix[<<p[1] + dx, p[2] + dy>>] ELSE d.pix[p]]
           S == [p \in DOMAIN d.saved |-> IF p \in P THEN "old" ELSE d.saved[p]]
           e == Copy(d, P, dx, dy)
<1>1. e = [d EXCEPT !.pix = F, !.saved = S]
  BY DEF Copy, Idles
<1>2. F \in [Pixels -> Pixels]
  <2>1. d.pix \in [Pixels -> Pixels]
    BY DEF Idles
  <2> QED
    BY <2>1
<1>3. S = None
  BY DEF Idles, None
<1> HIDE DEF e, F, S
<1>4. e \in Idles /\ e.pix = F
  BY <1>1, <1>2, <1>3 DEF Idles
<1> QED
  BY <1>4 DEF e, F

(* The pixels after the copies through the first k rectangles.             *)
CopiedBy(P, dx, dy, k) ==
    [p \in Pixels |-> IF p \in P /\ \E i \in 1 .. k : InRect(clipregion[i], p[1], p[2])
                      THEN <<p[1] + dx, p[2] + dy>> ELSE p]

(* What a rectangle is copied from no rectangle before it was copied to.   *)
LEMMA SourceAhead ==
    ASSUME clipregion \in Regions, NEW j \in DOMAIN clipregion, NEW i \in DOMAIN clipregion, i < j,
           NEW x \in Int, NEW y \in Int, InRect(clipregion[j], x, y), NEW dx \in Nat, NEW dy \in Nat
    PROVE  ~InRect(clipregion[i], x + dx, y + dy)
<1>1. clipregion[i].bottom <= clipregion[j].top \/ clipregion[i].right <= clipregion[j].left
  BY OrderAssumption
<1>2. /\ clipregion[i].bottom \in Nat /\ clipregion[j].top \in Nat
      /\ clipregion[i].right \in Nat /\ clipregion[j].left \in Nat
  BY RectOfRegion
<1> QED
  BY <1>1, <1>2 DEF InRect

(* One turn of the loop over the rectangles.                               *)
LEMMA IdleCopyTurn ==
    ASSUME clipregion \in Regions, NEW d \in Idles, NEW P, NEW dx \in Nat, NEW dy \in Nat,
           \A p \in P \cap Pixels : <<p[1] + dx, p[2] + dy>> \in Pixels,
           NEW k \in DOMAIN clipregion, d.pix = CopiedBy(P, dx, dy, k - 1)
    PROVE  LET e == Copy(d, {p \in P : InRect(clipregion[k], p[1], p[2])}, dx, dy)
           IN  e \in Idles /\ e.pix = CopiedBy(P, dx, dy, k)
<1> DEFINE C == {p \in P : InRect(clipregion[k], p[1], p[2])}
           e == Copy(d, C, dx, dy)
           at(p) == <<p[1] + dx, p[2] + dy>>
<1>1. /\ C \subseteq P /\ DOMAIN clipregion = 1 .. Len(clipregion) /\ Len(clipregion) \in Nat
  BY ClipAssumption
<1>2. \A p \in C : p \in P /\ InRect(clipregion[k], p[1], p[2])
  OBVIOUS
<1>3. \A p \in P : p \in C <=> InRect(clipregion[k], p[1], p[2])
  OBVIOUS
<1> HIDE DEF C
<1>4. /\ e \in Idles
      /\ e.pix = [p \in Pixels |-> IF p \in C THEN d.pix[at(p)] ELSE d.pix[p]]
  BY <1>1, IdleCopy
<1> HIDE DEF e
<1>5. ASSUME NEW p \in Pixels
      PROVE  e.pix[p] = CopiedBy(P, dx, dy, k)[p]
  <2>1. p[1] \in Int /\ p[2] \in Int
    BY DEF Pixels
  <2>2. CASE p \in C
    <3>1. at(p) \in Pixels /\ p \in P /\ InRect(clipregion[k], p[1], p[2])
      BY <1>1, <1>2, <2>2
    <3>2. ASSUME NEW i \in 1 .. k - 1
          PROVE  ~InRect(clipregion[i], at(p)[1], at(p)[2])
      <4>1. i \in DOMAIN clipregion /\ i < k
        BY <1>1
      <4>2. ~InRect(clipregion[i], p[1] + dx, p[2] + dy)
        BY <2>1, <3>1, <4>1, SourceAhead
      <4> QED
        BY <4>2
    <3>3. d.pix[at(p)] = at(p)
      <4> DEFINE q == at(p)
      <4>1. \A i \in 1 .. k - 1 : ~InRect(clipregion[i], q[1], q[2])
        BY <3>2
      <4>2. q \in Pixels
        BY <3>1
      <4> HIDE DEF q
      <4>3. CopiedBy(P, dx, dy, k - 1)[q] = q
        BY <4>1, <4>2 DEF CopiedBy
      <4> QED
        BY <4>3 DEF q
    <3>4. e.pix[p] = at(p)
      BY <1>4, <2>2, <3>3
    <3>5. \E i \in 1 .. k : InRect(clipregion[i], p[1], p[2])
      BY <1>1, <3>1
    <3>6. CopiedBy(P, dx, dy, k)[p] = at(p)
      BY <3>1, <3>5 DEF CopiedBy
    <3> QED
      BY <3>4, <3>6
  <2>3. CASE p \notin C
    <3>1. e.pix[p] = d.pix[p]
      BY <1>4, <2>3
    <3>2. p \in P => (  (\E i \in 1 .. k : InRect(clipregion[i], p[1], p[2]))
                      <=> (\E i \in 1 .. k - 1 : InRect(clipregion[i], p[1], p[2])))
      <4> HAVE p \in P
      <4>1. ~InRect(clipregion[k], p[1], p[2])
        BY <1>3, <2>3
      <4>2. 1 .. k = (1 .. k - 1) \cup {k}
        BY <1>1
      <4> QED
        BY <4>1, <4>2
    <3>3. CopiedBy(P, dx, dy, k)[p] = CopiedBy(P, dx, dy, k - 1)[p]
      BY <3>2 DEF CopiedBy
    <3> QED
      BY <3>1, <3>3
  <2> QED
    BY <2>2, <2>3
<1>6. e.pix = CopiedBy(P, dx, dy, k)
  <2>1. e.pix = [p \in Pixels |-> e.pix[p]]
    BY <1>4
  <2>2. CopiedBy(P, dx, dy, k) = [p \in Pixels |-> CopiedBy(P, dx, dy, k)[p]]
    BY DEF CopiedBy
  <2> QED
    BY <1>5, <2>1, <2>2
<1> QED
  BY <1>4, <1>6 DEF e, C

(* The loop over the rectangles: no pixel is copied that was copied to.    *)
LEMMA IdleCopyRects ==
    ASSUME clipregion \in Regions, NEW d \in Idles, d.pix = [p \in Pixels |-> p],
           NEW P, NEW dx \in Nat, NEW dy \in Nat,
           \A p \in P \cap Pixels : <<p[1] + dx, p[2] + dy>> \in Pixels
    PROVE  /\ CopyRects(d, P, dx, dy) \in Idles
           /\ CopyRects(d, P, dx, dy).pix = CopiedBy(P, dx, dy, Len(clipregion))
<1> DEFINE N == Len(clipregion)
           C(k) == {p \in P : InRect(clipregion[k], p[1], p[2])}
           D(k) == {e \in Idles : e.pix = CopiedBy(P, dx, dy, k)}
           T == [k \in 0 .. N |-> D(k)]
           G == [q \in Idles \X (1 .. N) |-> Copy(q[1], C(q[2]), dx, dy)]
           copied == CHOOSE f :
                         f = [k \in 0 .. N |-> IF k = 0 THEN d ELSE Copy(f[k - 1], C(k), dx, dy)]
<1>1. N \in Nat /\ DOMAIN clipregion = 1 .. N
  BY ClipAssumption
<1>2. CopyRects(d, P, dx, dy) = copied[N]
  BY DEF CopyRects
<1>3. d \in D(0)
  <2>1. 1 .. 0 = {}
    OBVIOUS
  <2>2. CopiedBy(P, dx, dy, 0) = [p \in Pixels |-> p]
    BY <2>1 DEF CopiedBy
  <2> QED
    BY <2>2
<1>4. ASSUME NEW k \in 1 .. N, NEW e \in D(k - 1)
      PROVE  Copy(e, C(k), dx, dy) \in D(k)
  <2>1. e \in Idles /\ e.pix = CopiedBy(P, dx, dy, k - 1) /\ k \in DOMAIN clipregion
    BY <1>1
  <2>2. Copy(e, C(k), dx, dy) \in Idles /\ Copy(e, C(k), dx, dy).pix = CopiedBy(P, dx, dy, k)
    BY <2>1, IdleCopyTurn
  <2> QED
    BY <2>2
<1>5. \A k \in 0 .. N : D(k) \subseteq Idles
  OBVIOUS
<1>6. \A e \in D(N) : e \in Idles /\ e.pix = CopiedBy(P, dx, dy, N)
  OBVIOUS
<1> HIDE DEF N, D, C
<1>7. /\ \A k \in 0 .. N : T[k] = D(k)
      /\ \A k \in 1 .. N : T[k - 1] = D(k - 1)
  BY <1>1
<1> HIDE DEF T
<1>8. \A k \in 1 .. N : \A s \in Idles : G[<<s, k>>] = Copy(s, C(k), dx, dy)
  OBVIOUS
<1> HIDE DEF G
<1>9. PICK f : Looped(f, N, d, G) /\ \A k \in 0 .. N : f[k] \in T[k]
  <2>1. d \in T[0] /\ \A k \in 0 .. N : T[k] \subseteq Idles
    BY <1>1, <1>3, <1>5, <1>7
  <2>2. ASSUME NEW k \in 1 .. N, NEW s \in T[k - 1]
        PROVE  G[<<s, k>>] \in T[k]
    <3>1. s \in D(k - 1) /\ T[k] = D(k) /\ s \in Idles
      BY <1>1, <1>5, <1>7
    <3>2. G[<<s, k>>] = Copy(s, C(k), dx, dy)
      BY <1>8, <3>1
    <3> QED
      BY <1>4, <3>1, <3>2
  <2> QED
    BY <1>1, <2>1, <2>2, LoopRuns
<1>10. f = [k \in 0 .. N |-> IF k = 0 THEN d ELSE Copy(f[k - 1], C(k), dx, dy)]
  <2>1. ASSUME NEW k \in 1 .. N
        PROVE  G[<<f[k - 1], k>>] = Copy(f[k - 1], C(k), dx, dy)
    <3>1. k - 1 \in 0 .. N
      BY <1>1
    <3> QED
      BY <1>5, <1>7, <1>8, <1>9, <3>1
  <2>2. f = [k \in 0 .. N |-> IF k = 0 THEN d ELSE G[<<f[k - 1], k>>]]
    BY <1>9 DEF Looped
  <2>3. \A k \in 0 .. N : k = 0 \/ k \in 1 .. N
    BY <1>1
  <2> QED
    BY <2>1, <2>2, <2>3
<1>11. copied = [k \in 0 .. N |-> IF k = 0 THEN d ELSE Copy(copied[k - 1], C(k), dx, dy)]
  BY <1>10, Zenon
<1> HIDE DEF copied
<1>12. copied[0] = d /\ \A k \in 1 .. N : copied[k] = Copy(copied[k - 1], C(k), dx, dy)
  BY <1>1, <1>11
<1>13. \A k \in 0 .. N : copied[k] \in T[k]
  <2>1. copied[0] \in T[0]
    BY <1>1, <1>3, <1>7, <1>12
  <2>2. \A k \in 1 .. N : copied[k - 1] \in T[k - 1] => copied[k] \in T[k]
    BY <1>4, <1>7, <1>12
  <2> QED
    BY <1>1, <2>1, <2>2, LoopKeeps
<1>14. copied[N] \in D(N)
  BY <1>1, <1>7, <1>13
<1> QED
  BY <1>2, <1>6, <1>14 DEF N

(* Where the visible pixels of P show what was (dx, dy) further on.        *)
Copied(P, dx, dy) ==
    [p \in Pixels |-> IF p \in P /\ InRegion(clipregion, p[1], p[2])
                      THEN <<p[1] + dx, p[2] + dy>> ELSE p]

(* A blit up or to the left, from a place on the screen.                   *)
LEMMA IdleConvBlit ==
    ASSUME clipregion \in Regions, NEW d \in Idles, CacheGood(d.cache), d.pix = [p \in Pixels |-> p],
           NEW x \in Coords, NEW y \in Coords, NEW w \in Nat \ {0}, NEW h \in Nat \ {0},
           x + w <= MaxCoord + 1, y + h <= MaxCoord + 1,
           NEW sx \in Nat, NEW sy \in Nat, sx + w <= XVirtRes, sy + h <= YVirtRes,
           x <= sx, y <= sy
    PROVE  ConvBlit(d, x, y, w, h, sx, sy).pix =
               Copied((x .. x + w - 1) \X (y .. y + h - 1), sx - x, sy - y)
<1> DEFINE r  == x + w - 1
           b  == y + h - 1
           P  == (x .. r) \X (y .. b)
           dx == sx - x
           dy == sy - y
           a  == GdClipArea(d, x, y, r, b)
           s  == GdCheckCursor(a.dev, sx, sy, sx + w - 1, sy + h - 1)
           t  == GdCheckCursor(s, x, y, r, b)
           e  == ConvBlit(d, x, y, w, h, sx, sy)
<1>1. r \in Coords /\ b \in Coords
  BY SpanOfArea
<1>2. /\ x \in Int /\ y \in Int /\ r \in Int /\ b \in Int /\ x <= r /\ y <= b
      /\ dx \in Nat /\ dy \in Nat
  BY ClipAssumption DEF Coords
<1>3. Span(x, y, r, b) = P
  BY <1>2, SpanIs
<1>4. \A p \in P \cap Pixels : <<p[1] + dx, p[2] + dy>> \in Pixels
  <2> TAKE p \in P \cap Pixels
  <2>1. /\ p[1] \in Int /\ p[2] \in Int /\ x <= p[1] /\ p[1] <= x + w - 1
        /\ y <= p[2] /\ p[2] <= y + h - 1
    BY <1>2
  <2>2. p[1] + (sx - x) \in 0 .. XVirtRes - 1 /\ p[2] + (sy - y) \in 0 .. YVirtRes - 1
    BY <1>2, <2>1, ClipAssumption
  <2> QED
    BY <2>2 DEF Pixels
<1>5. a.dev \in Idles /\ a.dev.pix = d.pix
  BY <1>1, IdleArea
<1>6. a.clip \in {"VISIBLE", "INVISIBLE", "PARTIAL"}
  BY <1>1, IdleArea
<1>7. a.clip = "INVISIBLE" =>
          \A p \in Span(x, y, r, b) \cap Pixels : ~InRegion(clipregion, p[1], p[2])
  BY <1>1, IdleArea
<1>8. a.clip = "VISIBLE" =>
          \A p \in Span(x, y, r, b) \cap Pixels : InRegion(clipregion, p[1], p[2])
  BY <1>1, IdleArea
<1>9. /\ a.clip = "VISIBLE" => e = GdFixCursor(Copy(s, P, dx, dy))
      /\ a.clip = "INVISIBLE" => e = a.dev
      /\ a.clip = "PARTIAL" => e = GdFixCursor(CopyRects(t, P, dx, dy))
  BY DEF ConvBlit
<1> HIDE DEF a, e, P, r, b, dx, dy
<1>10. s = a.dev /\ t = s
  <2>1. s = a.dev
    BY <1>5, IdleCursor
  <2> HIDE DEF s
  <2> QED
    BY <1>5, <2>1, IdleCursor
<1>11. t \in Idles /\ s \in Idles /\ t.pix = d.pix /\ s.pix = d.pix
  BY <1>5, <1>10
<1> HIDE DEF s, t
<1>12. CASE a.clip = "VISIBLE"
  <2> DEFINE v == Copy(s, P, dx, dy)
  <2>1. v \in Idles
    <3>1. dx \in Int /\ dy \in Int
      BY <1>2
    <3> QED
      BY <1>4, <1>11, <3>1, IdleCopy
  <2>2. v.pix = [p \in Pixels |-> IF p \in P THEN s.pix[<<p[1] + dx, p[2] + dy>>] ELSE s.pix[p]]
    BY <1>2, <1>4, <1>11, IdleCopy
  <2> HIDE DEF v
  <2>3. e = v
    <3>1. GdFixCursor(v) = v
      BY <2>1, IdleCursor
    <3> QED
      BY <1>9, <1>12, <3>1 DEF v
  <2>4. ASSUME NEW p \in Pixels
        PROVE  v.pix[p] = Copied(P, dx, dy)[p]
    <3>1. CASE p \in P
      <4>1. <<p[1] + dx, p[2] + dy>> \in Pixels /\ InRegion(clipregion, p[1], p[2])
        BY <1>3, <1>4, <1>8, <1>12, <3>1
      <4>2. v.pix[p] = <<p[1] + dx, p[2] + dy>>
        BY <1>11, <2>2, <3>1, <4>1
      <4> QED
        BY <3>1, <4>1, <4>2 DEF Copied
    <3>2. CASE p \notin P
      <4>1. v.pix[p] = p
        BY <1>11, <2>2, <3>2
      <4> QED
        BY <3>2, <4>1 DEF Copied
    <3> QED
      BY <3>1, <3>2
  <2>5. v.pix = [p \in Pixels |-> v.pix[p]]
    BY <2>2
  <2>6. Copied(P, dx, dy) = [p \in Pixels |-> Copied(P, dx, dy)[p]]
    BY DEF Copied
  <2>7. v.pix = Copied(P, dx, dy)
    BY <2>4, <2>5, <2>6
  <2> QED
    BY <2>3, <2>7 DEF e, P, r, b, dx, dy
<1>13. CASE a.clip = "INVISIBLE"
  <2>1. \A p \in Pixels : p \in P => ~InRegion(clipregion, p[1], p[2])
    BY <1>3, <1>7, <1>13
  <2>2. Copied(P, dx, dy) = [p \in Pixels |-> p]
    BY <2>1 DEF Copied
  <2>3. e.pix = [p \in Pixels |-> p]
    BY <1>5, <1>9, <1>13
  <2> QED
    BY <2>2, <2>3 DEF e, P, r, b, dx, dy
<1>14. CASE a.clip = "PARTIAL"
  <2> DEFINE c == CopyRects(t, P, dx, dy)
  <2>1. c \in Idles
    BY <1>2, <1>4, <1>11, IdleCopyRects
  <2>2. c.pix = CopiedBy(P, dx, dy, Len(clipregion))
    BY <1>2, <1>4, <1>11, IdleCopyRects
  <2> HIDE DEF c
  <2>3. e = c
    <3>1. GdFixCursor(c) = c
      BY <2>1, IdleCursor
    <3> QED
      BY <1>9, <1>14, <3>1 DEF c
  <2>4. DOMAIN clipregion = 1 .. Len(clipregion)
    BY ClipAssumption
  <2>5. CopiedBy(P, dx, dy, Len(clipregion)) = Copied(P, dx, dy)
    BY <2>4 DEF CopiedBy, Copied, InRegion
  <2>6. c.pix = Copied(P, dx, dy)
    BY <2>2, <2>5
  <2> QED
    BY <2>3, <2>6 DEF e, P, r, b, dx, dy
<1> QED
  BY <1>6, <1>12, <1>13, <1>14

(* A blit whose source reaches beyond the screen.                          *)
LEMMA IdleBlit ==
    ASSUME clipregion \in Regions, NEW d \in Idles, CacheGood(d.cache), d.pix = [p \in Pixels |-> p],
           NEW blit \in Blits, blit[1] <= blit[5], blit[2] <= blit[6]
    PROVE  GdBlit(d, blit[1], blit[2], blit[3], blit[4], blit[5], blit[6]).pix =
               Copied({p \in Filled(blit) : <<p[1] + blit[5] - blit[1], p[2] + blit[6] - blit[2]>> \in Pixels},
                      blit[5] - blit[1], blit[6] - blit[2])
<1> DEFINE x  == blit[1]
           y  == blit[2]
           w  == blit[3]
           h  == blit[4]
           sx == blit[5]
           sy == blit[6]
           cx == Max({0, -sx})
           cy == Max({0, -sy})
           cw == Min({w - cx, XVirtRes - (sx + cx)})
           ch == Min({h - cy, YVirtRes - (sy + cy)})
           F  == Filled(blit)
           S  == {p \in F : <<p[1] + sx - x, p[2] + sy - y>> \in Pixels}
<1>1. /\ x \in Int /\ y \in Int /\ w \in Nat /\ h \in Nat /\ sx \in Int /\ sy \in Int
      /\ MinCoord <= x /\ MinCoord <= y
      /\ w > 0 /\ h > 0 /\ x + w <= MaxCoord + 1 /\ y + h <= MaxCoord + 1
      /\ sx < XVirtRes /\ sx + w > 0 /\ sy < YVirtRes /\ sy + h > 0
      /\ MinCoord \in Int /\ MaxCoord \in Int /\ XVirtRes \in Nat /\ YVirtRes \in Nat
  BY ShapesAssumption, ClipAssumption DEF Coords
<1>2. GdBlit(d, x, y, w, h, sx, sy) = ConvBlit(d, x + cx, y + cy, cw, ch, sx + cx, sy + cy)
  BY DEF GdBlit
<1>3. F = (x .. x + w - 1) \X (y .. y + h - 1)
  BY DEF Filled
<1>4. x <= sx /\ y <= sy
  OBVIOUS
<1> HIDE DEF x, y, w, h, sx, sy
<1>5. /\ cx = (IF 0 >= -sx THEN 0 ELSE -sx) /\ cy = (IF 0 >= -sy THEN 0 ELSE -sy)
  BY <1>1, MaxTwo
<1> HIDE DEF cx, cy
<1>6. cx \in Nat /\ cy \in Nat
  BY <1>1, <1>5
<1>7. /\ cw = (IF w - cx <= XVirtRes - (sx + cx) THEN w - cx ELSE XVirtRes - (sx + cx))
      /\ ch = (IF h - cy <= YVirtRes - (sy + cy) THEN h - cy ELSE YVirtRes - (sy + cy))
  <2>1. /\ w - cx \in Int /\ XVirtRes - (sx + cx) \in Int
        /\ h - cy \in Int /\ YVirtRes - (sy + cy) \in Int
    BY <1>1, <1>6
  <2> QED
    BY <2>1, MinTwo
<1> HIDE DEF cw, ch, F
<1> DEFINE px == x + cx
           py == y + cy
           qx == sx + cx
           qy == sy + cy
           P  == (px .. px + cw - 1) \X (py .. py + ch - 1)
<1>8. /\ px \in Coords /\ py \in Coords /\ cw \in Nat \ {0} /\ ch \in Nat \ {0}
      /\ px + cw <= MaxCoord + 1 /\ py + ch <= MaxCoord + 1
      /\ qx \in Nat /\ qy \in Nat /\ qx + cw <= XVirtRes /\ qy + ch <= YVirtRes
      /\ px <= qx /\ py <= qy /\ qx - px = sx - x /\ qy - py = sy - y
  <2>1. XVirtRes > 0 /\ YVirtRes > 0
    BY ClipAssumption
  <2>2. /\ w - cx > 0 /\ px <= MaxCoord /\ qx >= 0 /\ qx < XVirtRes
    BY <1>1, <1>5, <2>1
  <2>3. /\ h - cy > 0 /\ py <= MaxCoord /\ qy >= 0 /\ qy < YVirtRes
    BY <1>1, <1>5, <2>1
  <2>4. cw \in Nat \ {0} /\ cw <= w - cx /\ cw <= XVirtRes - qx
    BY <1>1, <1>6, <1>7, <2>2
  <2>5. ch \in Nat \ {0} /\ ch <= h - cy /\ ch <= YVirtRes - qy
    BY <1>1, <1>6, <1>7, <2>3
  <2>6. px \in Coords /\ py \in Coords
    BY <1>1, <1>6, <2>2, <2>3 DEF Coords
  <2> QED
    BY <1>1, <1>4, <1>6, <2>2, <2>3, <2>4, <2>5, <2>6
<1>9. ConvBlit(d, px, py, cw, ch, qx, qy).pix = Copied(P, sx - x, sy - y)
  <2> HIDE DEF px, py, qx, qy
  <2>1. ConvBlit(d, px, py, cw, ch, qx, qy).pix = Copied(P, qx - px, qy - py)
    BY <1>8, IdleConvBlit
  <2> QED
    BY <1>8, <2>1
<1>10. \A p \in Pixels : p \in P <=> p \in S
  <2> TAKE p \in Pixels
  <2>1. /\ p[1] \in Int /\ p[2] \in Int /\ 0 <= p[1] /\ p[1] <= XVirtRes - 1
        /\ 0 <= p[2] /\ p[2] <= YVirtRes - 1 /\ p = <<p[1], p[2]>>
    BY <1>1 DEF Pixels
  <2>2. p \in S <=> /\ x <= p[1] /\ p[1] <= x + w - 1 /\ y <= p[2] /\ p[2] <= y + h - 1
                    /\ 0 <= p[1] + sx - x /\ p[1] + sx - x <= XVirtRes - 1
                    /\ 0 <= p[2] + sy - y /\ p[2] + sy - y <= YVirtRes - 1
    BY <1>1, <1>3, <2>1 DEF Pixels
  <2>3. p \in P <=> /\ x + cx <= p[1] /\ p[1] <= x + cx + cw - 1
                    /\ y + cy <= p[2] /\ p[2] <= y + cy + ch - 1
    BY <1>1, <1>6, <1>8, <2>1
  <2>4. /\ x + cx <= p[1] /\ p[1] <= x + cx + cw - 1
        <=> /\ x <= p[1] /\ p[1] <= x + w - 1
            /\ 0 <= p[1] + sx - x /\ p[1] + sx - x <= XVirtRes - 1
    BY <1>1, <1>5, <1>7, <2>1
  <2>5. /\ y + cy <= p[2] /\ p[2] <= y + cy + ch - 1
        <=> /\ y <= p[2] /\ p[2] <= y + h - 1
            /\ 0 <= p[2] + sy - y /\ p[2] + sy - y <= YVirtRes - 1
    BY <1>1, <1>5, <1>7, <2>1
  <2> QED
    BY <2>2, <2>3, <2>4, <2>5
<1> HIDE DEF P, S
<1>11. Copied(P, sx - x, sy - y) = Copied(S, sx - x, sy - y)
  BY <1>10 DEF Copied
<1>12. GdBlit(d, x, y, w, h, sx, sy).pix = Copied(S, sx - x, sy - y)
  BY <1>2, <1>9, <1>11
<1> QED
  BY <1>12 DEF x, y, w, h, sx, sy, S, F

(* A blit that does not go down or to the right copies what was there      *)
(* before it, whatever the clip region: no rectangle of it is read after   *)
(* it was written.                                                         *)
THEOREM CopiedExactly == Spec => []BlitsUpOrLeft
<1>1. Inv => BlitsUpOrLeft
  <2> SUFFICES ASSUME Inv
               PROVE  BlitsUpOrLeft
    OBVIOUS
  <2> DEFINE d == [Dev EXCEPT !.visible = 0, !.restore = FALSE, !.pix = [p \in Pixels |-> p],
                              !.saved = [p \in {} |-> <<0, 0>>]]
  <2>1. clipregion \in Regions /\ Dev \in Devs /\ CacheGood(Dev.cache)
    BY DEF Inv, Good
  <2>2. d \in Idles /\ d.cache = Dev.cache /\ d.pix = [p \in Pixels |-> p]
    BY <2>1 DEF Devs, Idles, None
  <2> HIDE DEF d
  <2>3. ASSUME NEW b \in Blits, b[1] <= b[5], b[2] <= b[6]
        PROVE  GdBlit(d, b[1], b[2], b[3], b[4], b[5], b[6]).pix =
                    [p \in Pixels |-> IF /\ p \in Filled(b)
                                         /\ <<p[1] + b[5] - b[1], p[2] + b[6] - b[2]>> \in Pixels
                                         /\ InRegion(clipregion, p[1], p[2])
                                      THEN <<p[1] + b[5] - b[1], p[2] + b[6] - b[2]>> ELSE p]
    <3> DEFINE S == {p \in Filled(b) : <<p[1] + b[5] - b[1], p[2] + b[6] - b[2]>> \in Pixels}
    <3>1. GdBlit(d, b[1], b[2], b[3], b[4], b[5], b[6]).pix = Copied(S, b[5] - b[1], b[6] - b[2])
      BY <2>1, <2>2, <2>3, IdleBlit
    <3>2. b[1] \in Int /\ b[2] \in Int /\ b[5] \in Int /\ b[6] \in Int
      BY ShapesAssumption, ClipAssumption DEF Coords
    <3>3. ASSUME NEW p \in Pixels
          PROVE  /\ p[1] + (b[5] - b[1]) = p[1] + b[5] - b[1]
                 /\ p[2] + (b[6] - b[2]) = p[2] + b[6] - b[2]
      BY <3>2 DEF Pixels
    <3> QED
      BY <3>1, <3>3 DEF Copied
  <2> QED
    BY <2>3 DEF BlitsUpOrLeft, d
<1> QED
  BY <1>1, InvHolds, PTL
===============================================================================
