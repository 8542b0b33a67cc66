--------------------------- MODULE GdRegionProofs ---------------------------
(***************************************************************************)
(* Proofs about the regions of the drawing engine (GdRegion): whatever is  *)
(* asked of them and in whatever order, each covers exactly the points it  *)
(* should (RegionsExact), keeps the form of its array (FormKept), and      *)
(* answers questions for its points (AnsweredExactly).                     *)
(*                                                                         *)
(* The argument follows the code.  A loop of the code is a function of the *)
(* number of turns, and what every turn keeps, it keeps (LoopRuns): first  *)
(* the loops over two bands (UnionIs, IntersectIs, SubtractIs), which make *)
(* of them the band of the right columns; then REGION_Coalesce, which      *)
(* joins the last two bands just when the rows of their points are the     *)
(* same, so that no array has two bands that could be one; then the sweep  *)
(* of REGION_RegionOp, which has at each turn put out exactly the points   *)
(* above the height it has come to (Swept).  There is only one array of    *)
(* that form for a set of points (Canonical), which is why GdEqualRegion   *)
(* may compare arrays.                                                     *)
(***************************************************************************)
EXTENDS GdRegion, WellFoundedInduction, TLAPS

-----------------------------------------------------------------------------
(* Loops of a bounded number of turns.                                     *)

Less == {p \in Nat \X Nat : p[1] < p[2]}

(* The order by which the least of a set of numbers is found.              *)
LEMMA LessWellFounded == IsWellFoundedOn(Less, Nat)
<1>1. IsWellFoundedOn(OpToRel(<, Nat), Nat)
  BY NatLessThanWellFounded
<1>2. Less \cap (Nat \X Nat) \subseteq OpToRel(<, Nat)
  BY DEF Less, OpToRel
<1> QED
  BY <1>1, <1>2, IsWellFoundedOnSubrelation

(* A set of natural numbers has a least one.                               *)
LEMMA SmallestOfNats ==
    ASSUME NEW T, T \subseteq Nat, T # {}
    PROVE  \E m \in T : \A k \in T : m <= k
<1>1. PICK m \in T : \A k \in T : ~ (<<k, m>> \in Less)
  BY LessWellFounded, WFMin
<1>2. ASSUME NEW k \in T PROVE m <= k
  <2>1. k \in Nat /\ m \in Nat
    OBVIOUS
  <2>2. CASE k < m
    <3>1. <<k, m>> \in Less
      BY <2>1, <2>2 DEF Less
    <3> QED
      BY <1>1, <3>1
  <2> QED
    BY <2>1, <2>2
<1> QED
  BY <1>2

(* What Min returns of a set of integers with a lower bound, and Max of    *)
(* one with an upper bound.                                                *)
LEMMA MinIsLeast ==
    ASSUME NEW S, S \subseteq Int, S # {}, NEW b \in Int, \A s \in S : b <= s
    PROVE  Min(S) \in S /\ \A s \in S : Min(S) <= s
<1> DEFINE T == {s - b : s \in S}
<1>1. T \subseteq Nat /\ T # {}
  <2>1. \A s \in S : s \in Int /\ s - b \in Nat
    OBVIOUS
  <2>2. T # {}
    OBVIOUS
  <2> QED
    BY <2>1, <2>2
<1>2. PICK m \in T : \A k \in T : m <= k
  BY <1>1, SmallestOfNats
<1>3. PICK n \in S : m = n - b
  BY <1>2
<1>4. \A s \in S : n <= s
  <2> TAKE s \in S
  <2>1. s - b \in T
    OBVIOUS
  <2>2. n - b <= s - b
    BY <1>2, <1>3, <2>1
  <2> QED
    BY <2>2
<1> QED
  BY <1>3, <1>4 DEF Min

(* The greatest of a set of integers that is bounded.                      *)
LEMMA MaxIsGreatest ==
    ASSUME NEW S, S \subseteq Int, S # {}, NEW b \in Int, \A s \in S : s <= b
    PROVE  Max(S) \in S /\ \A s \in S : s <= Max(S)
<1> DEFINE T == {b - s : s \in S}
<1>1. T \subseteq Nat /\ T # {}
  <2>1. \A s \in S : s \in Int /\ b - s \in Nat
    OBVIOUS
  <2>2. T # {}
    OBVIOUS
  <2> QED
    BY <2>1, <2>2
<1>2. PICK m \in T : \A k \in T : m <= k
  BY <1>1, SmallestOfNats
<1>3. PICK n \in S : m = b - n
  BY <1>2
<1>4. \A s \in S : s <= n
  <2> TAKE s \in S
  <2>1. b - s \in T
    OBVIOUS
  <2>2. b - n <= b - s
    BY <1>2, <1>3, <2>1
  <2> QED
    BY <2>2
<1>5. \A s \in S : n >= s
  BY <1>4
<1>6. Max(S) \in S /\ \A s \in S : Max(S) >= s
  BY <1>3, <1>5 DEF Max
<1> QED
  BY <1>6

(* A loop of at most N turns, the k-th from s to G[<<s, k>>].               *)
Looped(f, N, a, G) == f = [n \in 0 .. N |-> IF n = 0 THEN a ELSE G[<<f[n - 1], n>>]]

(* A loop of at most N turns, the k-th from s to G[<<s, k>>].               *)
LEMMA LoopExists ==
    ASSUME NEW N \in Nat, NEW a, NEW G
    PROVE  \E f : Looped(f, N, a, G)
<1> USE DEF Looped
<1> DEFINE Upto(m) == \E f : f = [n \in 0 .. m |-> IF n = 0 THEN a ELSE G[<<f[n - 1], n>>]]
           T == {m \in 0 .. N : ~Upto(m)}
<1>1. CASE T = {}
  BY <1>1, SMTT(30)
<1>2. CASE T # {}
  <2>1. T \subseteq Nat
    OBVIOUS
  <2>2. PICK m \in T : \A k \in T : m <= k
    <3> HIDE DEF T
    <3> QED
      BY <1>2, <2>1, SmallestOfNats
  <2>3. m \in 0 .. N /\ ~Upto(m)
    OBVIOUS
  <2>4. CASE m = 0
    <3> DEFINE f == [n \in 0 .. 0 |-> a]
    <3>1. f = [n \in 0 .. 0 |-> IF n = 0 THEN a ELSE G[<<f[n - 1], n>>]]
      OBVIOUS
    <3> QED
      BY <2>3, <2>4, <3>1
  <2>5. CASE m > 0
    <3>1. m - 1 \in 0 .. N /\ ~(m - 1 \in T)
      BY <2>2, <2>3, <2>5
    <3>2. Upto(m - 1)
      BY <3>1
    <3>3. PICK f : f = [n \in 0 .. m - 1 |-> IF n = 0 THEN a ELSE G[<<f[n - 1], n>>]]
      BY <3>2
    <3> DEFINE g == [n \in 0 .. m |-> IF n = 0 THEN a ELSE G[<<f[n - 1], n>>]]
    <3>4. ASSUME NEW n \in 0 .. m, n # 0
          PROVE  g[n - 1] = f[n - 1]
      BY <2>3, <3>3, <3>4
    <3>5. g = [n \in 0 .. m |-> IF n = 0 THEN a ELSE G[<<g[n - 1], n>>]]
      BY <3>4
    <3> HIDE DEF g
    <3> QED
      BY <2>3, <3>5
  <2> QED
    BY <2>3, <2>4, <2>5
<1> QED
  BY <1>1, <1>2

(* What each turn of a loop keeps holds after all of them.                 *)
LEMMA LoopKeeps ==
    ASSUME NEW N \in Nat, NEW f, NEW T, f[0] \in T[0],
           \A k \in 1 .. N : f[k - 1] \in T[k - 1] => f[k] \in T[k]
    PROVE  \A k \in 0 .. N : f[k] \in T[k]
<1> DEFINE C == {k \in 0 .. N : ~(f[k] \in T[k])}
<1>1. CASE C # {}
  <2>1. C \subseteq Nat
    OBVIOUS
  <2>2. PICK m \in C : \A k \in C : m <= k
    <3> HIDE DEF C
    <3> QED
      BY <1>1, <2>1, SmallestOfNats
  <2>3. m \in 1 .. N
    OBVIOUS
  <2>4. m - 1 \in 0 .. N /\ ~(m - 1 \in C)
    BY <2>2, <2>3
  <2>5. f[m - 1] \in T[m - 1]
    BY <2>4
  <2> QED
    BY <2>2, <2>3, <2>5
<1> QED
  BY <1>1

(* If each turn goes on from a state of T and comes to one, so does the    *)
(* loop.                                                                   *)
LEMMA LoopRuns ==
    ASSUME NEW N \in Nat, NEW S, NEW T, \A k \in 0 .. N : T[k] \subseteq S,
           NEW a \in T[0], NEW G, \A k \in 1 .. N : \A s \in T[k - 1] : G[<<s, k>>] \in T[k]
    PROVE  \E f : Looped(f, N, a, G) /\ \A k \in 0 .. N : f[k] \in T[k]
<1>1. PICK f : Looped(f, N, a, G)
  BY LoopExists
<1>2. f[0] = a /\ \A k \in 1 .. N : f[k] = G[<<f[k - 1], k>>]
  BY <1>1 DEF Looped
<1>3. \A k \in 0 .. N : f[k] \in T[k]
  BY <1>2, LoopKeeps
<1> QED
  BY <1>1, <1>3

-----------------------------------------------------------------------------
(* Rectangles and bands.                                                   *)

(* The coordinates of a rectangle.                                         *)
LEMMA RectTyped ==
    ASSUME NEW r \in Rects
    PROVE  /\ r.left \in Nat /\ r.top \in Nat /\ r.right \in Nat /\ r.bottom \in Nat
           /\ r.left < r.right /\ r.top < r.bottom
           /\ r.right <= Width /\ r.bottom <= Height
           /\ r = Rect(r.left, r.top, r.right, r.bottom)
BY RegionAssumption DEF Rects, Columns, Rows, Rect

(* Which coordinates make a rectangle.                                     *)
LEMMA RectMade ==
    ASSUME NEW l \in Nat, NEW t \in Nat, NEW r \in Nat, NEW b \in Nat,
           l < r, t < b, r <= Width, b <= Height
    PROVE  /\ Rect(l, t, r, b) \in Rects
           /\ Rect(l, t, r, b).left = l /\ Rect(l, t, r, b).top = t
           /\ Rect(l, t, r, b).right = r /\ Rect(l, t, r, b).bottom = b
BY RegionAssumption DEF Rects, Columns, Rows, Rect

(* The lesser and the greater of two integers.                             *)
LEMMA LowerGreater ==
    ASSUME NEW a \in Int, NEW b \in Int
    PROVE  /\ Lower(a, b) \in {a, b} /\ Lower(a, b) <= a /\ Lower(a, b) <= b
           /\ Greater(a, b) \in {a, b} /\ Greater(a, b) >= a /\ Greater(a, b) >= b
BY DEF Lower, Greater

(* From left to right, with room between.                                  *)
Sorted(b) == \A k, m \in DOMAIN b : k < m => b[k].right < b[m].left

(* The rectangles of one band.                                             *)
Slice(b, top, bottom) ==
    /\ b \in Seq(Rects)
    /\ \A k \in DOMAIN b : b[k].top = top /\ b[k].bottom = bottom
    /\ Sorted(b)

Over(r, x) == r.left <= x /\ x < r.right

(* The columns of a band, and of its rectangles from the m-th to the n-th. *)
In(b, x)           == \E k \in DOMAIN b : Over(b[k], x)
Within(b, m, n, x) == \E k \in m .. n : Over(b[k], x)

(* The rectangles of a sequence.                                           *)
LEMMA RectAt ==
    ASSUME NEW b \in Seq(Rects), NEW k \in DOMAIN b
    PROVE  /\ b[k] \in Rects /\ k \in 1 .. Len(b) /\ Len(b) \in Nat /\ k \in Int
           /\ b[k].left \in Int /\ b[k].right \in Int /\ b[k].top \in Int /\ b[k].bottom \in Int
           /\ b[k].left < b[k].right /\ b[k].top < b[k].bottom
<1>1. b[k] \in Rects /\ k \in 1 .. Len(b) /\ Len(b) \in Nat /\ k \in Int
  OBVIOUS
<1> QED
  BY <1>1, RectTyped

(* A rectangle behind the others.                                          *)
LEMMA SliceAppend ==
    ASSUME NEW t, NEW b, NEW s, Slice(s, t, b), NEW r \in Rects, r.top = t, r.bottom = b,
           \A k \in DOMAIN s : s[k].right < r.left
    PROVE  LET m == Append(s, r)
           IN  /\ Slice(m, t, b)
               /\ \A x \in Int : In(m, x) <=> In(s, x) \/ Over(r, x)
<1> DEFINE m == Append(s, r)
<1>1. s \in Seq(Rects) /\ Sorted(s)
  BY DEF Slice
<1>2. /\ m \in Seq(Rects) /\ Len(s) \in Nat /\ DOMAIN s = 1 .. Len(s)
      /\ DOMAIN m = 1 .. Len(s) + 1 /\ m[Len(s) + 1] = r
      /\ \A k \in 1 .. Len(s) : m[k] = s[k]
  BY <1>1
<1> HIDE DEF m
<1>3. Sorted(m)
  <2> SUFFICES ASSUME NEW k \in DOMAIN m, NEW n \in DOMAIN m, k < n
               PROVE  m[k].right < m[n].left
    BY DEF Sorted
  <2>1. CASE n = Len(s) + 1
    BY <1>2, <2>1
  <2>2. CASE n # Len(s) + 1
    <3>1. k \in DOMAIN s /\ n \in DOMAIN s
      BY <1>2, <2>2
    <3> QED
      BY <1>1, <1>2, <3>1 DEF Sorted
  <2> QED
    BY <2>1, <2>2
<1>4. \A k \in DOMAIN m : m[k].top = t /\ m[k].bottom = b
  BY <1>2 DEF Slice
<1>5. ASSUME NEW x \in Int
      PROVE  In(m, x) <=> In(s, x) \/ Over(r, x)
  BY <1>2 DEF In
<1> QED
  BY <1>2, <1>3, <1>4, <1>5 DEF Slice, m

(* MERGERECT with a rectangle that does not begin left of the others.      *)
LEMMA MergeAdds ==
    ASSUME NEW t, NEW b, NEW s, Slice(s, t, b), NEW r \in Rects, r.top = t, r.bottom = b,
           \A k \in DOMAIN s : s[k].left <= r.left
    PROVE  LET m == Merge(s, r)
           IN  /\ Slice(m, t, b)
               /\ \A x \in Int : In(m, x) <=> In(s, x) \/ Over(r, x)
               /\ \A k \in DOMAIN m : m[k].left <= r.left
<1> DEFINE m == Merge(s, r)
           L == Len(s)
<1>1. s \in Seq(Rects) /\ Sorted(s) /\ L \in Nat /\ DOMAIN s = 1 .. L
  BY DEF Slice
<1>2. r.left \in Int /\ r.right \in Int /\ r.left < r.right /\ r.right <= Width /\ Width \in Nat
  BY RectTyped, RegionAssumption
<1>3. CASE L > 0 /\ s[L].right >= r.left
  <2> DEFINE a == s[L]
             c == [a EXCEPT !.right = Greater(a.right, r.right)]
  <2>1. a \in Rects /\ L \in DOMAIN s /\ a.left <= r.left /\ a.top = t /\ a.bottom = b
    BY <1>1, <1>3 DEF Slice
  <2>2. /\ a.left \in Nat /\ a.right \in Nat /\ a.left < a.right /\ a.right <= Width
        /\ a = Rect(a.left, a.top, a.right, a.bottom)
    BY <2>1, RectTyped
  <2>3. s # <<>>
    BY <1>1, <1>3
  <2>4. m = [s EXCEPT ![L] = c]
    BY <1>3, <2>3 DEF Merge
  <2> HIDE DEF m, a, L
  <2>5. /\ c \in Rects /\ c.left = a.left /\ c.top = a.top /\ c.bottom = a.bottom
        /\ c.right = Greater(a.right, r.right)
    BY <1>2, <2>1, <2>2 DEF Rects, Greater, Columns
  <2> HIDE DEF c
  <2>6. /\ m \in Seq(Rects) /\ DOMAIN m = 1 .. L /\ m[L] = c
        /\ \A k \in 1 .. L : k # L => m[k] = s[k]
    <3>1. L \in 1 .. L
      BY <1>1, <1>3
    <3>2. /\ DOMAIN m = 1 .. L /\ m[L] = c
          /\ \A k \in 1 .. L : k # L => m[k] = s[k]
      BY <1>1, <2>4, <3>1
    <3>3. m \in [1 .. L -> Rects]
      <4>1. s \in [1 .. L -> Rects]
        BY <1>1 DEF L
      <4> QED
        BY <2>4, <2>5, <4>1
    <3> QED
      BY <1>1, <3>2, <3>3
  <2>7. \A k \in 1 .. L : m[k].left = s[k].left
    BY <2>5, <2>6 DEF a
  <2>8. Sorted(m)
    <3> SUFFICES ASSUME NEW k \in 1 .. L, NEW n \in 1 .. L, k < n
                 PROVE  m[k].right < m[n].left
      BY <2>6 DEF Sorted
    <3>1. m[k].right = s[k].right
      BY <1>1, <2>6
    <3> QED
      BY <1>1, <2>7, <3>1 DEF Sorted
  <2>9. \A k \in DOMAIN m : m[k].top = t /\ m[k].bottom = b
    BY <1>1, <2>1, <2>5, <2>6 DEF Slice
  <2>10. ASSUME NEW x \in Int
         PROVE  In(m, x) <=> In(s, x) \/ Over(r, x)
    <3>1. Over(c, x) <=> Over(a, x) \/ Over(r, x)
      BY <1>2, <1>3, <2>1, <2>2, <2>5 DEF Over, Greater, a
    <3>2. In(m, x) <=> (\E k \in 1 .. L : k # L /\ Over(s[k], x)) \/ Over(c, x)
      BY <1>1, <2>1, <2>6 DEF In
    <3>3. In(s, x) <=> (\E k \in 1 .. L : k # L /\ Over(s[k], x)) \/ Over(a, x)
      BY <1>1, <2>1 DEF In, a
    <3> QED
      BY <3>1, <3>2, <3>3
  <2>11. \A k \in DOMAIN m : m[k].left <= r.left
    BY <1>1, <2>6, <2>7
  <2> QED
    BY <2>6, <2>8, <2>9, <2>10, <2>11 DEF Slice, m
<1>4. CASE ~(L > 0 /\ s[L].right >= r.left)
  <2>1. s # <<>> => L > 0
    BY <1>1
  <2>2. m = Append(s, r)
    BY <1>4, <2>1 DEF Merge
  <2>3. \A k \in DOMAIN s : s[k].right < r.left
    <3> TAKE k \in DOMAIN s
    <3>1. /\ L \in DOMAIN s /\ s[L].right \in Int /\ s[L].left \in Int /\ s[k].right \in Int
          /\ s[L].left < s[L].right
      BY <1>1, RectAt
    <3>2. s[L].right < r.left
      BY <1>1, <1>2, <1>4, <3>1
    <3>3. k = L \/ s[k].right < s[L].left
      BY <1>1, <3>1 DEF Sorted
    <3> QED
      BY <1>2, <3>1, <3>2, <3>3
  <2> HIDE DEF m
  <2>4. Slice(m, t, b)
    BY <2>2, <2>3, SliceAppend
  <2>5. \A x \in Int : In(m, x) <=> In(s, x) \/ Over(r, x)
    BY <2>2, <2>3, SliceAppend
  <2>6. \A k \in DOMAIN m : m[k].left <= r.left
    <3>1. DOMAIN m = 1 .. L + 1 /\ m[L + 1] = r /\ \A k \in 1 .. L : m[k] = s[k]
      BY <1>1, <2>2
    <3> QED
      BY <1>1, <1>2, <3>1
  <2> QED
    BY <2>4, <2>5, <2>6 DEF m
<1> QED
  BY <1>3, <1>4

-----------------------------------------------------------------------------
(* REGION_UnionO: what the operations make of two bands.                   *)

(* What the operations make of two bands.                                  *)

(* After k turns of REGION_UnionO: the rectangles passed have been merged, *)
(* and none of those to come begins left of what there is.                 *)
UnionDone(s, b1, b2, t, b, k) ==
    /\ s.i \in 1 .. Len(b1) + 1 /\ s.j \in 1 .. Len(b2) + 1 /\ s.i + s.j = k + 2
    /\ Slice(s.out, t, b)
    /\ \A o \in DOMAIN s.out : /\ \A m \in s.i .. Len(b1) : s.out[o].left <= b1[m].left
                               /\ \A m \in s.j .. Len(b2) : s.out[o].left <= b2[m].left
    /\ \A x \in Int : In(s.out, x) <=> Within(b1, 1, s.i - 1, x) \/ Within(b2, 1, s.j - 1, x)

Walks == [i : Nat, j : Nat, out : Seq(Rects)]

(* The columns of all, of none and of one more rectangle of a band.        *)
LEMMA WithinAll ==
    ASSUME NEW b \in Seq(Rects), NEW x
    PROVE  Within(b, 1, Len(b), x) <=> In(b, x)
BY DEF Within, In

LEMMA WithinNone ==
    ASSUME NEW b, NEW x
    PROVE  ~Within(b, 1, 0, x)
BY DEF Within

LEMMA WithinMore ==
    ASSUME NEW b, NEW x, NEW i \in Nat, i >= 1
    PROVE  Within(b, 1, i, x) <=> Within(b, 1, i - 1, x) \/ Over(b[i], x)
<1>1. 1 .. i = (1 .. i - 1) \cup {i}
  OBVIOUS
<1> QED
  BY <1>1 DEF Within

(* Behind a rectangle of a band everything begins further right.           *)
LEMMA SortedFrom ==
    ASSUME NEW b \in Seq(Rects), Sorted(b), NEW i \in DOMAIN b, NEW m \in i .. Len(b)
    PROVE  /\ m \in DOMAIN b /\ b[i].left <= b[m].left /\ b[i].right <= b[m].right
           /\ m > i => b[i].right < b[m].left
<1>1. m \in DOMAIN b /\ i \in Int /\ m \in Int /\ i <= m
  OBVIOUS
<1>2. /\ b[i].left \in Int /\ b[i].right \in Int /\ b[m].left \in Int /\ b[m].right \in Int
      /\ b[i].left < b[i].right /\ b[m].left < b[m].right
  BY <1>1, RectAt
<1>3. m > i => b[i].right < b[m].left
  BY <1>1 DEF Sorted
<1>4. m = i \/ m > i
  BY <1>1
<1> QED
  BY <1>1, <1>2, <1>3, <1>4

(* A turn of REGION_UnionO.                                                *)
LEMMA UnionTurnGood ==
    ASSUME NEW t, NEW b, NEW b1, Slice(b1, t, b), NEW b2, Slice(b2, t, b),
           NEW k \in 1 .. Len(b1) + Len(b2), NEW s \in Walks, UnionDone(s, b1, b2, t, b, k - 1)
    PROVE  LET e == UnionTurn(s, b1, b2) IN e \in Walks /\ UnionDone(e, b1, b2, t, b, k)
<1> DEFINE e == UnionTurn(s, b1, b2)
           i == s.i
           j == s.j
<1>1. /\ b1 \in Seq(Rects) /\ b2 \in Seq(Rects) /\ Sorted(b1) /\ Sorted(b2)
      /\ Len(b1) \in Nat /\ Len(b2) \in Nat /\ k \in Int
      /\ DOMAIN b1 = 1 .. Len(b1) /\ DOMAIN b2 = 1 .. Len(b2)
  BY DEF Slice
<1>2. /\ i \in 1 .. Len(b1) + 1 /\ j \in 1 .. Len(b2) + 1 /\ i + j = k + 1 /\ Slice(s.out, t, b)
      /\ s = [i |-> i, j |-> j, out |-> s.out]
  BY <1>1 DEF UnionDone, Walks
<1>3. /\ \A o \in DOMAIN s.out : \A m \in i .. Len(b1) : s.out[o].left <= b1[m].left
      /\ \A o \in DOMAIN s.out : \A m \in j .. Len(b2) : s.out[o].left <= b2[m].left
      /\ \A x \in Int : In(s.out, x) <=> Within(b1, 1, i - 1, x) \/ Within(b2, 1, j - 1, x)
  BY DEF UnionDone
<1> DEFINE first == i <= Len(b1) /\ (j > Len(b2) \/ b1[i].left < b2[j].left)
<1>4. /\ first => e = [i |-> i + 1, j |-> j, out |-> Merge(s.out, b1[i])]
      /\ ~first => e = [i |-> i, j |-> j + 1, out |-> Merge(s.out, b2[j])]
  BY <1>2 DEF UnionTurn
<1> HIDE DEF e, i, j
<1>5. CASE first
  <2> DEFINE m == Merge(s.out, b1[i])
  <2>1. i \in DOMAIN b1 /\ i \in Int
    BY <1>1, <1>2, <1>5
  <2>2. b1[i] \in Rects /\ b1[i].top = t /\ b1[i].bottom = b
    BY <1>1, <2>1 DEF Slice
  <2>3. \A o \in DOMAIN s.out : s.out[o].left <= b1[i].left
    BY <1>1, <1>3, <2>1
  <2>4. Slice(m, t, b)
    BY <1>2, <2>2, <2>3, MergeAdds
  <2>5. \A x \in Int : In(m, x) <=> In(s.out, x) \/ Over(b1[i], x)
    BY <1>2, <2>2, <2>3, MergeAdds
  <2>6. \A o \in DOMAIN m : m[o].left <= b1[i].left
    BY <1>2, <2>2, <2>3, MergeAdds
  <2> HIDE DEF m
  <2>7. \A n \in i + 1 .. Len(b1) : b1[i].left <= b1[n].left /\ b1[n].left \in Int
    <3> TAKE n \in i + 1 .. Len(b1)
    <3>1. n \in i .. Len(b1)
      BY <2>1
    <3>2. n \in DOMAIN b1 /\ b1[i].left <= b1[n].left
      BY <1>1, <2>1, <3>1, SortedFrom
    <3> QED
      BY <1>1, <3>2, RectAt
  <2>8. \A n \in j .. Len(b2) : b1[i].left <= b2[n].left /\ b2[n].left \in Int
    <3> TAKE n \in j .. Len(b2)
    <3>1. j \in DOMAIN b2 /\ n \in DOMAIN b2
      BY <1>1, <1>2
    <3>2. b2[j].left <= b2[n].left
      BY <1>1, <3>1, SortedFrom
    <3>3. /\ b2[j].left \in Int /\ b2[n].left \in Int /\ b1[i].left \in Int
      BY <1>1, <2>1, <3>1, RectAt
    <3>4. b1[i].left <= b2[j].left
      BY <1>1, <1>5, <2>1, <3>1, <3>3
    <3> QED
      BY <3>2, <3>3, <3>4
  <2>9. \A o \in DOMAIN m : /\ \A n \in i + 1 .. Len(b1) : m[o].left <= b1[n].left
                            /\ \A n \in j .. Len(b2) : m[o].left <= b2[n].left
    <3> TAKE o \in DOMAIN m
    <3>1. m[o].left \in Int /\ b1[i].left \in Int
      BY <1>1, <2>1, <2>4, RectAt DEF Slice
    <3> QED
      BY <2>6, <2>7, <2>8, <3>1
  <2>10. \A x \in Int : Within(b1, 1, i, x) <=> Within(b1, 1, i - 1, x) \/ Over(b1[i], x)
    BY <1>1, <2>1, WithinMore
  <2>11. \A x \in Int : In(m, x) <=> Within(b1, 1, i, x) \/ Within(b2, 1, j - 1, x)
    <3> TAKE x \in Int
    <3>1. In(s.out, x) <=> Within(b1, 1, i - 1, x) \/ Within(b2, 1, j - 1, x)
      BY <1>3
    <3> QED
      BY <2>5, <2>10, <3>1
  <2>12. e = [i |-> i + 1, j |-> j, out |-> m]
    BY <1>4, <1>5 DEF m
  <2>13. e.i - 1 = i /\ e.j - 1 = j - 1
    BY <2>1, <2>12
  <2>14. e.i = i + 1 /\ e.j = j /\ e.out = m
    BY <2>12
  <2>15. /\ i + 1 \in 1 .. Len(b1) + 1 /\ j \in 1 .. Len(b2) + 1 /\ (i + 1) + (j) = k + 2
    BY <1>1, <1>2, <2>1, SMTT(60)
  <2>16. m \in Seq(Rects)
    BY <2>4 DEF Slice
  <2>17. e \in Walks
    BY <1>1, <2>12, <2>15, <2>16, SMTT(60) DEF Walks
  <2>18. UnionDone(e, b1, b2, t, b, k)
    <3>1. e.i + e.j = k + 2 /\ e.i \in 1 .. Len(b1) + 1 /\ e.j \in 1 .. Len(b2) + 1
      BY <2>14, <2>15, Zenon
    <3>2. Slice(e.out, t, b)
      BY <2>4, <2>14
    <3>3. \A o \in DOMAIN e.out : /\ \A n \in e.i .. Len(b1) : e.out[o].left <= b1[n].left
                                  /\ \A n \in e.j .. Len(b2) : e.out[o].left <= b2[n].left
      BY <2>9, <2>14
    <3>4. \A x \in Int : In(e.out, x) <=> Within(b1, 1, e.i - 1, x) \/ Within(b2, 1, e.j - 1, x)
      BY <2>11, <2>13, <2>14, Zenon
    <3> QED
      BY <3>1, <3>2, <3>3, <3>4 DEF UnionDone
  <2> QED
    BY <2>17, <2>18 DEF e
<1>6. CASE ~first
  <2> DEFINE m == Merge(s.out, b2[j])
  <2>1. j \in DOMAIN b2 /\ j \in Int
    BY <1>1, <1>2, <1>6
  <2>2. b2[j] \in Rects /\ b2[j].top = t /\ b2[j].bottom = b
    BY <1>1, <2>1 DEF Slice
  <2>3. \A o \in DOMAIN s.out : s.out[o].left <= b2[j].left
    BY <1>1, <1>3, <2>1
  <2>4. Slice(m, t, b)
    BY <1>2, <2>2, <2>3, MergeAdds
  <2>5. \A x \in Int : In(m, x) <=> In(s.out, x) \/ Over(b2[j], x)
    BY <1>2, <2>2, <2>3, MergeAdds
  <2>6. \A o \in DOMAIN m : m[o].left <= b2[j].left
    BY <1>2, <2>2, <2>3, MergeAdds
  <2> HIDE DEF m
  <2>7. \A n \in j + 1 .. Len(b2) : b2[j].left <= b2[n].left /\ b2[n].left \in Int
    <3> TAKE n \in j + 1 .. Len(b2)
    <3>1. n \in j .. Len(b2)
      BY <2>1
    <3>2. n \in DOMAIN b2 /\ b2[j].left <= b2[n].left
      BY <1>1, <2>1, <3>1, SortedFrom
    <3> QED
      BY <1>1, <3>2, RectAt
  <2>8. \A n \in i .. Len(b1) : b2[j].left <= b1[n].left /\ b1[n].left \in Int
    <3> TAKE n \in i .. Len(b1)
    <3>1. i \in DOMAIN b1 /\ n \in DOMAIN b1
      BY <1>1, <1>2
    <3>2. b1[i].left <= b1[n].left
      BY <1>1, <3>1, SortedFrom
    <3>3. /\ b1[i].left \in Int /\ b1[n].left \in Int /\ b2[j].left \in Int
      BY <1>1, <2>1, <3>1, RectAt
    <3>4. b2[j].left <= b1[i].left
      BY <1>1, <1>6, <2>1, <3>1, <3>3
    <3> QED
      BY <3>2, <3>3, <3>4
  <2>9. \A o \in DOMAIN m : /\ \A n \in j + 1 .. Len(b2) : m[o].left <= b2[n].left
                            /\ \A n \in i .. Len(b1) : m[o].left <= b1[n].left
    <3> TAKE o \in DOMAIN m
    <3>1. m[o].left \in Int /\ b2[j].left \in Int
      BY <1>1, <2>1, <2>4, RectAt DEF Slice
    <3> QED
      BY <2>6, <2>7, <2>8, <3>1, SMTT(60)
  <2>10. \A x \in Int : Within(b2, 1, j, x) <=> Within(b2, 1, j - 1, x) \/ Over(b2[j], x)
    BY <1>1, <2>1, WithinMore
  <2>11. \A x \in Int : In(m, x) <=> Within(b2, 1, j, x) \/ Within(b1, 1, i - 1, x)
    <3> TAKE x \in Int
    <3>1. In(s.out, x) <=> Within(b1, 1, i - 1, x) \/ Within(b2, 1, j - 1, x)
      BY <1>3
    <3> QED
      BY <2>5, <2>10, <3>1
  <2>12. e = [i |-> i, j |-> j + 1, out |-> m]
    BY <1>4, <1>6 DEF m
  <2>13. e.j - 1 = j /\ e.i - 1 = i - 1
    BY <2>1, <2>12
  <2>14. e.i = i /\ e.j = j + 1 /\ e.out = m
    BY <2>12
  <2>15. /\ i \in 1 .. Len(b1) + 1 /\ j + 1 \in 1 .. Len(b2) + 1 /\ (i) + (j + 1) = k + 2
    BY <1>1, <1>2, <2>1, SMTT(60)
  <2>16. m \in Seq(Rects)
    BY <2>4 DEF Slice
  <2>17. e \in Walks
    BY <1>1, <2>12, <2>15, <2>16, SMTT(60) DEF Walks
  <2>18. UnionDone(e, b1, b2, t, b, k)
    <3>1. e.i + e.j = k + 2 /\ e.i \in 1 .. Len(b1) + 1 /\ e.j \in 1 .. Len(b2) + 1
      BY <2>14, <2>15, Zenon
    <3>2. Slice(e.out, t, b)
      BY <2>4, <2>14
    <3>3. \A o \in DOMAIN e.out : /\ \A n \in e.i .. Len(b1) : e.out[o].left <= b1[n].left
                                  /\ \A n \in e.j .. Len(b2) : e.out[o].left <= b2[n].left
      BY <2>9, <2>14
    <3>4. \A x \in Int : In(e.out, x) <=> Within(b1, 1, e.i - 1, x) \/ Within(b2, 1, e.j - 1, x)
      BY <2>11, <2>13, <2>14, Zenon
    <3> QED
      BY <3>1, <3>2, <3>3, <3>4 DEF UnionDone
  <2> QED
    BY <2>17, <2>18 DEF e
<1> QED
  BY <1>5, <1>6

(* REGION_UnionO makes of two bands one of their columns together.         *)
LEMMA UnionIs ==
    ASSUME NEW t, NEW b, NEW b1, Slice(b1, t, b), NEW b2, Slice(b2, t, b)
    PROVE  LET o == REGION_UnionO(b1, b2)
           IN  /\ Slice(o, t, b)
               /\ \A x \in Int : In(o, x) <=> In(b1, x) \/ In(b2, x)
<1> DEFINE N == Len(b1) + Len(b2)
           a == [i |-> 1, j |-> 1, out |-> <<>>]
           D(k) == {s \in Walks : UnionDone(s, b1, b2, t, b, k)}
           T == [k \in 0 .. N |-> D(k)]
           G == [q \in Walks \X (1 .. N) |-> UnionTurn(q[1], b1, b2)]
           turn == CHOOSE f :
                       f = [n \in 0 .. N |-> IF n = 0 THEN a ELSE UnionTurn(f[n - 1], b1, b2)]
<1>1. N \in Nat /\ Len(b1) \in Nat /\ Len(b2) \in Nat /\ b1 \in Seq(Rects) /\ b2 \in Seq(Rects)
  BY DEF Slice
<1>2. REGION_UnionO(b1, b2) = turn[N].out
  BY DEF REGION_UnionO
<1>3. a \in D(0)
  <2>1. a \in Walks
    BY DEF Walks
  <2>2. Slice(a.out, t, b)
    BY DEF Slice, Sorted
  <2>3. \A x \in Int : ~In(a.out, x) /\ ~Within(b1, 1, 1 - 1, x) /\ ~Within(b2, 1, 1 - 1, x)
    BY DEF In, Within
  <2> QED
    BY <1>1, <2>1, <2>2, <2>3 DEF UnionDone
<1>4. ASSUME NEW k \in 1 .. N, NEW s \in D(k - 1)
      PROVE  UnionTurn(s, b1, b2) \in D(k)
  <2>1. s \in Walks /\ UnionDone(s, b1, b2, t, b, k - 1)
    OBVIOUS
  <2>2. UnionTurn(s, b1, b2) \in Walks /\ UnionDone(UnionTurn(s, b1, b2), b1, b2, t, b, k)
    BY <2>1, UnionTurnGood
  <2> QED
    BY <2>2
<1>5. \A k \in 0 .. N : D(k) \subseteq Walks
  OBVIOUS
<1>6. \A s \in D(N) : s \in Walks /\ UnionDone(s, b1, b2, t, b, N)
  OBVIOUS
<1> HIDE DEF N, D, a
<1>7. \A k \in 0 .. N : T[k] = D(k)
  OBVIOUS
<1>8. \A k \in 1 .. N : T[k - 1] = D(k - 1) /\ k - 1 \in 0 .. N /\ k \in 0 .. N
  BY <1>1
<1>9. 0 \in 0 .. N /\ N \in 0 .. N
  BY <1>1
<1> HIDE DEF T
<1>10. \A k \in 1 .. N : \A s \in Walks : G[<<s, k>>] = UnionTurn(s, b1, b2)
  OBVIOUS
<1> HIDE DEF G
<1>11. PICK f : Looped(f, N, a, G) /\ \A k \in 0 .. N : f[k] \in T[k]
  <2>1. a \in T[0] /\ \A k \in 0 .. N : T[k] \subseteq Walks
    BY <1>1, <1>3, <1>5, <1>7, <1>9
  <2>2. ASSUME NEW k \in 1 .. N, NEW s \in T[k - 1]
        PROVE  G[<<s, k>>] \in T[k]
    <3>1. s \in D(k - 1) /\ T[k] = D(k) /\ s \in Walks
      BY <1>5, <1>7, <1>8
    <3>2. G[<<s, k>>] = UnionTurn(s, b1, b2)
      BY <1>10, <3>1
    <3> QED
      BY <1>4, <3>1, <3>2
  <2> QED
    BY <1>1, <2>1, <2>2, LoopRuns
<1>12. f = [k \in 0 .. N |-> IF k = 0 THEN a ELSE UnionTurn(f[k - 1], b1, b2)]
  <2>1. ASSUME NEW k \in 1 .. N
        PROVE  G[<<f[k - 1], k>>] = UnionTurn(f[k - 1], b1, b2)
    BY <1>5, <1>7, <1>8, <1>10, <1>11
  <2>2. f = [k \in 0 .. N |-> IF k = 0 THEN a ELSE G[<<f[k - 1], k>>]]
    BY <1>11 DEF Looped
  <2>3. \A k \in 0 .. N : k = 0 \/ k \in 1 .. N
    BY <1>1
  <2> QED
    BY <2>1, <2>2, <2>3
<1>13. turn = [k \in 0 .. N |-> IF k = 0 THEN a ELSE UnionTurn(turn[k - 1], b1, b2)]
  BY <1>12, Zenon
<1> HIDE DEF turn
<1>14. turn[0] = a /\ \A k \in 1 .. N : turn[k] = UnionTurn(turn[k - 1], b1, b2)
  BY <1>1, <1>13
<1>15. \A k \in 0 .. N : turn[k] \in T[k]
  <2>1. turn[0] \in T[0]
    BY <1>3, <1>7, <1>9, <1>14
  <2>2. \A k \in 1 .. N : turn[k - 1] \in T[k - 1] => turn[k] \in T[k]
    BY <1>4, <1>7, <1>8, <1>14
  <2> QED
    BY <1>1, <2>1, <2>2, LoopKeeps
<1>16. turn[N] \in D(N)
  BY <1>7, <1>9, <1>15
<1>17. UnionDone(turn[N], b1, b2, t, b, N)
  BY <1>6, <1>16
<1> DEFINE s == turn[N]
<1>18. s.i = Len(b1) + 1 /\ s.j = Len(b2) + 1
  <2>1. s.i \in 1 .. Len(b1) + 1 /\ s.j \in 1 .. Len(b2) + 1 /\ s.i + s.j = N + 2
    BY <1>17 DEF UnionDone
  <2> QED
    BY <1>1, <2>1 DEF N
<1>19. s.i - 1 = Len(b1) /\ s.j - 1 = Len(b2)
  BY <1>1, <1>18
<1>20. ASSUME NEW x \in Int
       PROVE  In(s.out, x) <=> In(b1, x) \/ In(b2, x)
  <2>1. In(s.out, x) <=> Within(b1, 1, s.i - 1, x) \/ Within(b2, 1, s.j - 1, x)
    BY <1>17 DEF UnionDone
  <2>2. In(s.out, x) <=> Within(b1, 1, Len(b1), x) \/ Within(b2, 1, Len(b2), x)
    BY <1>19, <2>1
  <2> QED
    BY <1>1, <2>2, WithinAll
<1>21. Slice(s.out, t, b)
  BY <1>17 DEF UnionDone
<1> HIDE DEF s
<1> QED
  BY <1>2, <1>20, <1>21 DEF s

-----------------------------------------------------------------------------
(* REGION_IntersectO.                                                      *)

(* A column of a band that is not right of a rectangle is in that one or   *)
(* before it.                                                              *)
LEMMA Reaches ==
    ASSUME NEW b \in Seq(Rects), Sorted(b), NEW i \in DOMAIN b, NEW x \in Int,
           x < b[i].right, In(b, x)
    PROVE  Within(b, 1, i - 1, x) \/ Over(b[i], x)
<1>1. PICK m \in DOMAIN b : Over(b[m], x)
  BY DEF In
<1>2. i \in Int /\ m \in Int /\ m >= 1 /\ m <= Len(b) /\ Len(b) \in Nat
  OBVIOUS
<1>3. CASE m < i
  <2>1. m \in 1 .. i - 1
    BY <1>2, <1>3
  <2> QED
    BY <1>1, <2>1 DEF Within
<1>4. CASE m >= i
  <2>1. m \in i .. Len(b)
    BY <1>2, <1>4
  <2>2. m > i => b[i].right < b[m].left
    BY <2>1, SortedFrom
  <2>3. b[i].right \in Int /\ b[m].left \in Int
    BY RectAt
  <2>4. ~(m > i)
    BY <1>1, <2>2, <2>3 DEF Over
  <2> QED
    BY <1>1, <1>2, <1>4, <2>4
<1> QED
  BY <1>2, <1>3, <1>4

(* The columns of a rectangle and of those before it are some of a band's. *)
LEMMA WithinIn ==
    ASSUME NEW b \in Seq(Rects), NEW i \in Nat, i <= Len(b), NEW x
    PROVE  /\ Within(b, 1, i, x) => In(b, x)
           /\ i >= 1 => (Over(b[i], x) => In(b, x))
<1>1. \A n \in 1 .. i : n \in DOMAIN b
  OBVIOUS
<1>2. i >= 1 => i \in DOMAIN b
  OBVIOUS
<1> QED
  BY <1>1, <1>2 DEF Within, In

(* After k turns of REGION_IntersectO: the columns that both bands have    *)
(* and one of them has passed; and what is to come begins right of that.   *)
IntersectDone(s, b1, b2, t, b, k) ==
    /\ s.i \in 1 .. Len(b1) + 1 /\ s.j \in 1 .. Len(b2) + 1
    /\ s.i + s.j >= k + 2 \/ s.i > Len(b1) \/ s.j > Len(b2)
    /\ Slice(s.out, t, b)
    /\ \A o \in DOMAIN s.out : \/ \A m \in s.i .. Len(b1) : s.out[o].right < b1[m].left
                               \/ \A m \in s.j .. Len(b2) : s.out[o].right < b2[m].left
    /\ \A x \in Int : In(s.out, x) <=> /\ In(b1, x) /\ In(b2, x)
                                       /\ Within(b1, 1, s.i - 1, x) \/ Within(b2, 1, s.j - 1, x)

(* A turn of REGION_IntersectO.                                            *)
LEMMA IntersectTurnGood ==
    ASSUME NEW t, NEW b, NEW b1, Slice(b1, t, b), NEW b2, Slice(b2, t, b),
           NEW k \in 1 .. Len(b1) + Len(b2), NEW s \in Walks, IntersectDone(s, b1, b2, t, b, k - 1)
    PROVE  LET e == IntersectTurn(s, b1, b2) IN e \in Walks /\ IntersectDone(e, b1, b2, t, b, k)
<1> DEFINE e == IntersectTurn(s, b1, b2)
           i == s.i
           j == s.j
<1>1. /\ b1 \in Seq(Rects) /\ b2 \in Seq(Rects) /\ Sorted(b1) /\ Sorted(b2)
      /\ Len(b1) \in Nat /\ Len(b2) \in Nat /\ k \in Int
      /\ DOMAIN b1 = 1 .. Len(b1) /\ DOMAIN b2 = 1 .. Len(b2)
  BY DEF Slice
<1>2. /\ i \in 1 .. Len(b1) + 1 /\ j \in 1 .. Len(b2) + 1
      /\ i + j >= k + 1 \/ i > Len(b1) \/ j > Len(b2)
      /\ Slice(s.out, t, b) /\ s = [i |-> i, j |-> j, out |-> s.out]
  BY <1>1 DEF IntersectDone, Walks
<1>3. /\ \A o \in DOMAIN s.out : \/ \A m \in i .. Len(b1) : s.out[o].right < b1[m].left
                                 \/ \A m \in j .. Len(b2) : s.out[o].right < b2[m].left
      /\ \A x \in Int : In(s.out, x) <=> /\ In(b1, x) /\ In(b2, x)
                                         /\ Within(b1, 1, i - 1, x) \/ Within(b2, 1, j - 1, x)
  BY DEF IntersectDone
<1>4. CASE i > Len(b1) \/ j > Len(b2)
  <2>1. e = s
    BY <1>4 DEF IntersectTurn
  <2>2. IntersectDone(s, b1, b2, t, b, k)
    BY <1>4 DEF IntersectDone
  <2> QED
    BY <2>1, <2>2
<1>5. CASE i <= Len(b1) /\ j <= Len(b2)
  <2> DEFINE p     == b1[i]
             q     == b2[j]
             left  == Greater(p.left, q.left)
             right == Lower(p.right, q.right)
             r     == Rect(left, p.top, right, p.bottom)
             m     == IF left < right THEN Append(s.out, r) ELSE s.out
             ie    == IF p.right = right THEN i + 1 ELSE i
             je    == IF q.right = right THEN j + 1 ELSE j
  <2>1. i \in DOMAIN b1 /\ j \in DOMAIN b2 /\ i \in Nat /\ j \in Nat /\ i >= 1 /\ j >= 1
    BY <1>1, <1>2, <1>5
  <2>2. e = [i |-> ie, j |-> je, out |-> m]
    BY <1>1, <1>2, <1>5 DEF IntersectTurn
  <2>3. p \in Rects /\ q \in Rects /\ p.top = t /\ p.bottom = b
    BY <1>1, <2>1 DEF Slice
  <2> HIDE DEF p, q, e, i, j
  <2>4. /\ p.left \in Nat /\ p.right \in Nat /\ q.left \in Nat /\ q.right \in Nat
        /\ p.left < p.right /\ q.left < q.right /\ p.right <= Width /\ q.right <= Width
        /\ p.top \in Nat /\ p.bottom \in Nat /\ p.top < p.bottom /\ p.bottom <= Height
    BY <2>3, RectTyped
  <2>5. /\ left \in Nat /\ right \in Nat /\ right <= Width
        /\ left >= p.left /\ left >= q.left /\ (left = p.left \/ left = q.left)
        /\ right <= p.right /\ right <= q.right /\ (right = p.right \/ right = q.right)
    BY <2>4, SMTT(60) DEF Greater, Lower
  <2> HIDE DEF left, right
  <2>6. \A x \in Int : Over(p, x) /\ Over(q, x) <=> left <= x /\ x < right
    BY <2>4, <2>5, SMTT(60) DEF Over
  <2>7. left < right => /\ r \in Rects /\ r.left = left /\ r.right = right
                        /\ r.top = t /\ r.bottom = b
    BY <2>3, <2>4, <2>5, RectMade, SMTT(60)
  <2>8. \A o \in DOMAIN s.out : s.out[o].right < left /\ s.out[o].right \in Int
    <3> TAKE o \in DOMAIN s.out
    <3>1. i \in i .. Len(b1) /\ j \in j .. Len(b2)
      BY <1>1, <1>5, <2>1
    <3>2. s.out[o].right \in Int
      BY <1>2, RectAt DEF Slice
    <3>3. s.out[o].right < p.left \/ s.out[o].right < q.left
      BY <1>3, <3>1 DEF p, q
    <3> QED
      BY <2>4, <2>5, <3>2, <3>3
  <2>9. Slice(m, t, b) /\ \A x \in Int : In(m, x) <=> In(s.out, x) \/ (left <= x /\ x < right)
    <3>1. CASE left < right
      <4>1. m = Append(s.out, r)
        BY <3>1
      <4>2. Slice(Append(s.out, r), t, b)
        BY <1>2, <2>7, <2>8, <3>1, SliceAppend
      <4>3. \A x \in Int : In(Append(s.out, r), x) <=> In(s.out, x) \/ Over(r, x)
        BY <1>2, <2>7, <2>8, <3>1, SliceAppend
      <4> HIDE DEF m, r
      <4> QED
        BY <2>7, <3>1, <4>1, <4>2, <4>3 DEF Over
    <3>2. CASE ~(left < right)
      <4>1. m = s.out
        BY <3>2
      <4> HIDE DEF m
      <4> QED
        BY <1>2, <2>5, <3>2, <4>1
    <3> QED
      BY <3>1, <3>2
  <2>10. /\ ie \in 1 .. Len(b1) + 1 /\ je \in 1 .. Len(b2) + 1 /\ ie \in Nat /\ je \in Nat
         /\ ie + je >= k + 2 /\ ie >= i /\ je >= j
         /\ (ie = i /\ p.right # right) \/ (ie = i + 1 /\ p.right = right)
         /\ (je = j /\ q.right # right) \/ (je = j + 1 /\ q.right = right)
    <3>1. (ie = i /\ p.right # right) \/ (ie = i + 1 /\ p.right = right)
      OBVIOUS
    <3>2. (je = j /\ q.right # right) \/ (je = j + 1 /\ q.right = right)
      OBVIOUS
    <3> HIDE DEF ie, je
    <3>3. p.right = right \/ q.right = right
      BY <2>5
    <3>4. i + j >= k + 1
      BY <1>1, <1>2, <1>5, <2>1
    <3>5. ie + je >= k + 2 /\ ie >= i /\ je >= j /\ ie \in Nat /\ je \in Nat
      BY <1>1, <2>1, <3>1, <3>2, <3>3, <3>4, SMTT(60)
    <3>6. ie \in 1 .. Len(b1) + 1 /\ je \in 1 .. Len(b2) + 1
      BY <1>1, <1>5, <2>1, <3>1, <3>2
    <3> QED
      BY <3>1, <3>2, <3>5, <3>6
  <2> HIDE DEF ie, je
  <2>11. \A o \in DOMAIN m : \/ \A n \in ie .. Len(b1) : m[o].right < b1[n].left
                             \/ \A n \in je .. Len(b2) : m[o].right < b2[n].left
    <3> SUFFICES ASSUME NEW o \in DOMAIN m
                 PROVE  \/ \A n \in ie .. Len(b1) : m[o].right < b1[n].left
                        \/ \A n \in je .. Len(b2) : m[o].right < b2[n].left
      OBVIOUS
    <3>1. (o \in DOMAIN s.out /\ m[o] = s.out[o]) \/ (left < right /\ m[o] = r)
      <4>1. s.out \in Seq(Rects)
        BY <1>2 DEF Slice
      <4> HIDE DEF r
      <4> QED
        BY <4>1
    <3>2. CASE o \in DOMAIN s.out /\ m[o] = s.out[o]
      <4>1. \/ \A n \in i .. Len(b1) : s.out[o].right < b1[n].left
            \/ \A n \in j .. Len(b2) : s.out[o].right < b2[n].left
        BY <1>3, <3>2
      <4>2. ie .. Len(b1) \subseteq i .. Len(b1) /\ je .. Len(b2) \subseteq j .. Len(b2)
        BY <1>1, <2>1, <2>10, SMTT(60)
      <4> HIDE DEF m
      <4> QED
        BY <3>2, <4>1, <4>2
    <3>3. CASE left < right /\ m[o] = r
      <4>1. m[o].right = right
        BY <2>7, <3>3
      <4>2. CASE p.right = right
        <5>1. \A n \in ie .. Len(b1) : p.right < b1[n].left
          <6> TAKE n \in ie .. Len(b1)
          <6>1. n \in i .. Len(b1) /\ n > i
            BY <1>1, <2>1, <2>10, <4>2, SMTT(60)
          <6> QED
            BY <1>1, <2>1, <6>1, SortedFrom DEF p
        <5> QED
          BY <4>1, <4>2, <5>1
      <4>3. CASE q.right = right
        <5>1. \A n \in je .. Len(b2) : q.right < b2[n].left
          <6> TAKE n \in je .. Len(b2)
          <6>1. n \in j .. Len(b2) /\ n > j
            BY <1>1, <2>1, <2>10, <4>3, SMTT(60)
          <6> QED
            BY <1>1, <2>1, <6>1, SortedFrom DEF q
        <5> QED
          BY <4>1, <4>3, <5>1
      <4> QED
        BY <2>5, <4>2, <4>3
    <3> QED
      BY <3>1, <3>2, <3>3
  <2> HIDE DEF m
  <2>12. ASSUME NEW x \in Int
         PROVE  In(m, x) <=> /\ In(b1, x) /\ In(b2, x)
                             /\ Within(b1, 1, ie - 1, x) \/ Within(b2, 1, je - 1, x)
    <3>1. In(m, x) <=> In(s.out, x) \/ (Over(p, x) /\ Over(q, x))
      BY <2>6, <2>9
    <3>2. In(s.out, x) <=> /\ In(b1, x) /\ In(b2, x)
                           /\ Within(b1, 1, i - 1, x) \/ Within(b2, 1, j - 1, x)
      BY <1>3
    <3>3. Within(b1, 1, ie - 1, x) <=> \/ Within(b1, 1, i - 1, x)
                                       \/ p.right = right /\ Over(p, x)
      <4>1. Within(b1, 1, i, x) <=> Within(b1, 1, i - 1, x) \/ Over(p, x)
        BY <2>1, WithinMore DEF p
      <4>2. ie - 1 = i - 1 \/ ie - 1 = i
        BY <2>1, <2>10, SMTT(60)
      <4>3. p.right = right => ie - 1 = i
        BY <2>1, <2>10
      <4>4. p.right # right => ie - 1 = i - 1
        BY <2>1, <2>10
      <4> QED
        BY <4>1, <4>3, <4>4
    <3>4. Within(b2, 1, je - 1, x) <=> \/ Within(b2, 1, j - 1, x)
                                       \/ q.right = right /\ Over(q, x)
      <4>1. Within(b2, 1, j, x) <=> Within(b2, 1, j - 1, x) \/ Over(q, x)
        BY <2>1, WithinMore DEF q
      <4>3. q.right = right => je - 1 = j
        BY <2>1, <2>10
      <4>4. q.right # right => je - 1 = j - 1
        BY <2>1, <2>10
      <4> QED
        BY <4>1, <4>3, <4>4
    <3>5. (Over(p, x) => In(b1, x)) /\ (Over(q, x) => In(b2, x))
      BY <2>1 DEF In, p, q
    <3>6. Over(p, x) /\ p.right = right /\ In(b2, x) => Within(b2, 1, j - 1, x) \/ Over(q, x)
      <4> SUFFICES ASSUME Over(p, x), p.right = right, In(b2, x)
                   PROVE  Within(b2, 1, j - 1, x) \/ Over(q, x)
        OBVIOUS
      <4>1. x < q.right
        BY <2>4, <2>5 DEF Over
      <4> QED
        BY <1>1, <2>1, <4>1, Reaches DEF q
    <3>7. Over(q, x) /\ q.right = right /\ In(b1, x) => Within(b1, 1, i - 1, x) \/ Over(p, x)
      <4> SUFFICES ASSUME Over(q, x), q.right = right, In(b1, x)
                   PROVE  Within(b1, 1, i - 1, x) \/ Over(p, x)
        OBVIOUS
      <4>1. x < p.right
        BY <2>4, <2>5 DEF Over
      <4> QED
        BY <1>1, <2>1, <4>1, Reaches DEF p
    <3>8. p.right = right \/ q.right = right
      BY <2>5
    <3> QED
      BY <3>1, <3>2, <3>3, <3>4, <3>5, <3>6, <3>7, <3>8
  <2>13. e.i = ie /\ e.j = je /\ e.out = m
    BY <2>2
  <2>14. e \in Walks
    <3>1. m \in Seq(Rects)
      BY <2>9 DEF Slice
    <3> QED
      BY <2>2, <2>10, <3>1 DEF Walks
  <2>15. IntersectDone(e, b1, b2, t, b, k)
    <3>1. e.i \in 1 .. Len(b1) + 1 /\ e.j \in 1 .. Len(b2) + 1 /\ e.i + e.j >= k + 2
      BY <2>10, <2>13, Zenon
    <3>2. Slice(e.out, t, b)
      BY <2>9, <2>13
    <3>3. \A o \in DOMAIN e.out : \/ \A n \in e.i .. Len(b1) : e.out[o].right < b1[n].left
                                  \/ \A n \in e.j .. Len(b2) : e.out[o].right < b2[n].left
      BY <2>11, <2>13, Zenon
    <3>4. \A x \in Int : In(e.out, x) <=>
              /\ In(b1, x) /\ In(b2, x)
              /\ Within(b1, 1, e.i - 1, x) \/ Within(b2, 1, e.j - 1, x)
      BY <2>12, <2>13, Zenon
    <3> QED
      BY <3>1, <3>2, <3>3, <3>4 DEF IntersectDone
  <2> QED
    BY <2>14, <2>15 DEF e
<1> QED
  BY <1>1, <1>2, <1>4, <1>5

(* REGION_IntersectO makes of two bands one of the columns they share.     *)
LEMMA IntersectIs ==
    ASSUME NEW t, NEW b, NEW b1, Slice(b1, t, b), NEW b2, Slice(b2, t, b)
    PROVE  LET o == REGION_IntersectO(b1, b2)
           IN  /\ Slice(o, t, b)
               /\ \A x \in Int : In(o, x) <=> In(b1, x) /\ In(b2, x)
<1> DEFINE N == Len(b1) + Len(b2)
           a == [i |-> 1, j |-> 1, out |-> <<>>]
           D(k) == {s \in Walks : IntersectDone(s, b1, b2, t, b, k)}
           T == [k \in 0 .. N |-> D(k)]
           G == [q \in Walks \X (1 .. N) |-> IntersectTurn(q[1], b1, b2)]
           turn == CHOOSE f :
                       f = [n \in 0 .. N |-> IF n = 0 THEN a ELSE IntersectTurn(f[n - 1], b1, b2)]
<1>1. N \in Nat /\ Len(b1) \in Nat /\ Len(b2) \in Nat /\ b1 \in Seq(Rects) /\ b2 \in Seq(Rects)
  BY DEF Slice
<1>2. REGION_IntersectO(b1, b2) = turn[N].out
  BY DEF REGION_IntersectO
<1>3. a \in D(0)
  <2>1. a \in Walks
    BY DEF Walks
  <2>2. Slice(a.out, t, b)
    BY DEF Slice, Sorted
  <2>3. \A x \in Int : ~In(a.out, x) /\ ~Within(b1, 1, 1 - 1, x) /\ ~Within(b2, 1, 1 - 1, x)
    BY DEF In, Within
  <2> QED
    BY <1>1, <2>1, <2>2, <2>3 DEF IntersectDone
<1>4. ASSUME NEW k \in 1 .. N, NEW s \in D(k - 1)
      PROVE  IntersectTurn(s, b1, b2) \in D(k)
  <2>1. s \in Walks /\ IntersectDone(s, b1, b2, t, b, k - 1)
    OBVIOUS
  <2>2. IntersectTurn(s, b1, b2) \in Walks /\ IntersectDone(IntersectTurn(s, b1, b2), b1, b2, t, b, k)
    BY <2>1, IntersectTurnGood
  <2> QED
    BY <2>2
<1>5. \A k \in 0 .. N : D(k) \subseteq Walks
  OBVIOUS
<1>6. \A s \in D(N) : s \in Walks /\ IntersectDone(s, b1, b2, t, b, N)
  OBVIOUS
<1> HIDE DEF N, D, a
<1>7. \A k \in 0 .. N : T[k] = D(k)
  OBVIOUS
<1>8. \A k \in 1 .. N : T[k - 1] = D(k - 1) /\ k - 1 \in 0 .. N /\ k \in 0 .. N
  BY <1>1
<1>9. 0 \in 0 .. N /\ N \in 0 .. N
  BY <1>1
<1> HIDE DEF T
<1>10. \A k \in 1 .. N : \A s \in Walks : G[<<s, k>>] = IntersectTurn(s, b1, b2)
  OBVIOUS
<1> HIDE DEF G
<1>11. PICK f : Looped(f, N, a, G) /\ \A k \in 0 .. N : f[k] \in T[k]
  <2>1. a \in T[0] /\ \A k \in 0 .. N : T[k] \subseteq Walks
    BY <1>1, <1>3, <1>5, <1>7, <1>9
  <2>2. ASSUME NEW k \in 1 .. N, NEW s \in T[k - 1]
        PROVE  G[<<s, k>>] \in T[k]
    <3>1. s \in D(k - 1) /\ T[k] = D(k) /\ s \in Walks
      BY <1>5, <1>7, <1>8
    <3>2. G[<<s, k>>] = IntersectTurn(s, b1, b2)
      BY <1>10, <3>1
    <3> QED
      BY <1>4, <3>1, <3>2
  <2> QED
    BY <1>1, <2>1, <2>2, LoopRuns
<1>12. f = [k \in 0 .. N |-> IF k = 0 THEN a ELSE IntersectTurn(f[k - 1], b1, b2)]
  <2>1. ASSUME NEW k \in 1 .. N
        PROVE  G[<<f[k - 1], k>>] = IntersectTurn(f[k - 1], b1, b2)
    BY <1>5, <1>7, <1>8, <1>10, <1>11
  <2>2. f = [k \in 0 .. N |-> IF k = 0 THEN a ELSE G[<<f[k - 1], k>>]]
    BY <1>11 DEF Looped
  <2>3. \A k \in 0 .. N : k = 0 \/ k \in 1 .. N
    BY <1>1
  <2> QED
    BY <2>1, <2>2, <2>3
<1>13. turn = [k \in 0 .. N |-> IF k = 0 THEN a ELSE IntersectTurn(turn[k - 1], b1, b2)]
  BY <1>12, Zenon
<1> HIDE DEF turn
<1>14. turn[0] = a /\ \A k \in 1 .. N : turn[k] = IntersectTurn(turn[k - 1], b1, b2)
  BY <1>1, <1>13
<1>15. \A k \in 0 .. N : turn[k] \in T[k]
  <2>1. turn[0] \in T[0]
    BY <1>3, <1>7, <1>9, <1>14
  <2>2. \A k \in 1 .. N : turn[k - 1] \in T[k - 1] => turn[k] \in T[k]
    BY <1>4, <1>7, <1>8, <1>14
  <2> QED
    BY <1>1, <2>1, <2>2, LoopKeeps
<1>16. turn[N] \in D(N)
  BY <1>7, <1>9, <1>15
<1>17. IntersectDone(turn[N], b1, b2, t, b, N)
  BY <1>6, <1>16
<1> DEFINE s == turn[N]
<1>18. s.i - 1 = Len(b1) \/ s.j - 1 = Len(b2)
  <2>1. /\ s.i \in 1 .. Len(b1) + 1 /\ s.j \in 1 .. Len(b2) + 1
        /\ s.i + s.j >= N + 2 \/ s.i > Len(b1) \/ s.j > Len(b2)
    BY <1>17 DEF IntersectDone
  <2> QED
    BY <1>1, <2>1, SMTT(60) DEF N
<1>19. s.i - 1 \in 0 .. Len(b1) /\ s.j - 1 \in 0 .. Len(b2)
  <2>1. /\ s.i \in 1 .. Len(b1) + 1 /\ s.j \in 1 .. Len(b2) + 1
    BY <1>17 DEF IntersectDone
  <2> QED
    BY <1>1, <2>1, SMTT(60)
<1>20. ASSUME NEW x \in Int
       PROVE  In(s.out, x) <=> In(b1, x) /\ In(b2, x)
  <2>1. In(s.out, x) <=> /\ In(b1, x) /\ In(b2, x)
                         /\ Within(b1, 1, s.i - 1, x) \/ Within(b2, 1, s.j - 1, x)
    BY <1>17 DEF IntersectDone
  <2>2. Within(b1, 1, Len(b1), x) <=> In(b1, x)
    BY <1>1, WithinAll
  <2>3. Within(b2, 1, Len(b2), x) <=> In(b2, x)
    BY <1>1, WithinAll
  <2> QED
    BY <1>18, <2>1, <2>2, <2>3
<1>21. Slice(s.out, t, b)
  BY <1>17 DEF IntersectDone
<1> HIDE DEF s
<1> QED
  BY <1>2, <1>20, <1>21 DEF s

-----------------------------------------------------------------------------
(* REGION_SubtractO.                                                       *)

(* The states of REGION_SubtractO's loop.                                  *)
SubtractWalks == [i : Nat, j : Nat, left : Nat, out : Seq(Rects)]

(* The columns of the minuends that have been passed.                      *)
Passed(s, b1, x) ==
    \/ Within(b1, 1, s.i - 1, x)
    \/ s.i <= Len(b1) /\ b1[s.i].left <= x /\ x < s.left

(* After k turns of REGION_SubtractO: the columns passed but for those of  *)
(* the subtrahends; the subtrahends passed end where the rest begins, and  *)
(* what there is ends before that.                                         *)
SubtractDone(s, b1, b2, t, b, k) ==
    /\ s.i \in 1 .. Len(b1) + 1 /\ s.j \in 1 .. Len(b2) + 1
    /\ s.i + s.j >= k + 2 \/ s.i > Len(b1)
    /\ Slice(s.out, t, b)
    /\ s.i <= Len(b1) =>
          /\ b1[s.i].left <= s.left /\ s.left < b1[s.i].right
          /\ \A m \in 1 .. s.j - 1 : b2[m].right <= s.left
          /\ \A o \in DOMAIN s.out : s.out[o].right < s.left
    /\ \A x \in Int : In(s.out, x) <=> Passed(s, b1, x) /\ ~In(b2, x)

(* A piece of a rectangle behind what there is, if it is not empty.        *)
Cut(out, left, to, t, b) == IF to > left THEN Append(out, Rect(left, t, to, b)) ELSE out

(* What a piece adds to the columns of a band.                             *)
LEMMA CutAdds ==
    ASSUME NEW t \in Nat, NEW b \in Nat, t < b, b <= Height, NEW out, Slice(out, t, b),
           NEW left \in Nat, NEW to \in Nat, to <= Width,
           \A o \in DOMAIN out : out[o].right < left
    PROVE  LET m == Cut(out, left, to, t, b)
           IN  /\ Slice(m, t, b)
               /\ \A x \in Int : In(m, x) <=> In(out, x) \/ (left <= x /\ x < to)
               /\ \A o \in DOMAIN m : m[o].right < left \/ m[o].right = to
<1> DEFINE m == Cut(out, left, to, t, b)
           r == Rect(left, t, to, b)
<1>1. CASE to > left
  <2>1. m = Append(out, r)
    BY <1>1 DEF Cut
  <2>2. r \in Rects /\ r.left = left /\ r.right = to /\ r.top = t /\ r.bottom = b
    BY <1>1, RectMade
  <2> HIDE DEF m, r
  <2>3. Slice(m, t, b)
    BY <2>1, <2>2, SliceAppend
  <2>4. \A x \in Int : In(m, x) <=> In(out, x) \/ Over(r, x)
    BY <2>1, <2>2, SliceAppend
  <2>5. \A o \in DOMAIN m : m[o].right < left \/ m[o].right = to
    <3>1. out \in Seq(Rects)
      BY DEF Slice
    <3>2. \A o \in DOMAIN m : (o \in DOMAIN out /\ m[o] = out[o]) \/ m[o] = r
      BY <2>1, <3>1
    <3> QED
      BY <2>2, <3>2
  <2> QED
    BY <2>2, <2>3, <2>4, <2>5 DEF m, Over
<1>2. CASE ~(to > left)
  <2>1. m = out
    BY <1>2 DEF Cut
  <2> HIDE DEF m
  <2> QED
    BY <1>2, <2>1 DEF m
<1> QED
  BY <1>1, <1>2

(* A state of the loop with another subtrahend, left edge and result.      *)
LEMMA SubtractChanged ==
    ASSUME NEW s \in SubtractWalks, NEW n, NEW left, NEW out
    PROVE  /\ [s EXCEPT !.j = n] = [i |-> s.i, j |-> n, left |-> s.left, out |-> s.out]
           /\ [s EXCEPT !.j = n, !.left = left, !.out = out] =
                  [i |-> s.i, j |-> n, left |-> left, out |-> out]
<1>1. /\ DOMAIN s = {"i", "j", "left", "out"}
      /\ s = [i |-> s.i, j |-> s.j, left |-> s.left, out |-> s.out]
  BY DEF SubtractWalks
<1>2. [s EXCEPT !.j = n] = [i |-> s.i, j |-> n, left |-> s.left, out |-> s.out]
  BY <1>1
<1> DEFINE u == [s EXCEPT !.j = n]
           v == [u EXCEPT !.left = left]
<1>3. v = [i |-> s.i, j |-> n, left |-> left, out |-> s.out]
  <2> HIDE DEF u
  <2>1. u = [i |-> s.i, j |-> n, left |-> s.left, out |-> s.out]
    BY <1>2 DEF u
  <2> QED
    BY <2>1
<1>4. [v EXCEPT !.out = out] = [i |-> s.i, j |-> n, left |-> left, out |-> out]
  <2> HIDE DEF v
  <2> QED
    BY <1>3
<1> QED
  BY <1>2, <1>4

(* A turn of REGION_SubtractO.                                             *)
LEMMA SubtractTurnGood ==
    ASSUME NEW t, NEW b, NEW b1, Slice(b1, t, b), NEW b2, Slice(b2, t, b),
           NEW k \in 1 .. Len(b1) + Len(b2), NEW s \in SubtractWalks,
           SubtractDone(s, b1, b2, t, b, k - 1)
    PROVE  LET e == SubtractTurn(s, b1, b2)
           IN  e \in SubtractWalks /\ SubtractDone(e, b1, b2, t, b, k)
<1> DEFINE e == SubtractTurn(s, b1, b2)
           i == s.i
           j == s.j
           left == s.left
           p == b1[i]
           q == b2[j]
<1>1. /\ b1 \in Seq(Rects) /\ b2 \in Seq(Rects) /\ Sorted(b1) /\ Sorted(b2)
      /\ Len(b1) \in Nat /\ Len(b2) \in Nat /\ k \in Int
      /\ DOMAIN b1 = 1 .. Len(b1) /\ DOMAIN b2 = 1 .. Len(b2)
  BY DEF Slice
<1>2. /\ i \in 1 .. Len(b1) + 1 /\ j \in 1 .. Len(b2) + 1 /\ left \in Nat
      /\ i + j >= k + 1 \/ i > Len(b1)
      /\ Slice(s.out, t, b) /\ s.out \in Seq(Rects)
      /\ s = [i |-> i, j |-> j, left |-> left, out |-> s.out]
      /\ i \in Nat /\ j \in Nat /\ i >= 1 /\ j >= 1
  BY <1>1 DEF SubtractDone, SubtractWalks
<1>3. /\ i <= Len(b1) => /\ p.left <= left /\ left < p.right
                         /\ \A m \in 1 .. j - 1 : b2[m].right <= left
                         /\ \A o \in DOMAIN s.out : s.out[o].right < left
      /\ \A x \in Int : In(s.out, x) <=> Passed(s, b1, x) /\ ~In(b2, x)
  BY DEF SubtractDone
<1> HIDE DEF e, i, j, left, p, q
<1>4. CASE i > Len(b1)
  <2>1. e = s
    BY <1>1, <1>2, <1>4 DEF SubtractTurn, e, i
  <2>2. SubtractDone(s, b1, b2, t, b, k)
    BY <1>4 DEF SubtractDone, i
  <2> QED
    BY <2>1, <2>2 DEF e
<1>5. CASE i <= Len(b1)
  <2>1. i \in DOMAIN b1 /\ i + j >= k + 1
    BY <1>1, <1>2, <1>5
  <2>2. p \in Rects /\ p.top = t /\ p.bottom = b
    BY <1>1, <2>1 DEF Slice, p
  <2>3. /\ p.left \in Nat /\ p.right \in Nat /\ p.left < p.right /\ p.right <= Width
        /\ t \in Nat /\ b \in Nat /\ t < b /\ b <= Height
    BY <2>2, RectTyped
  <2>4. /\ p.left <= left /\ left < p.right
        /\ \A m \in 1 .. j - 1 : b2[m].right <= left
        /\ \A o \in DOMAIN s.out : s.out[o].right < left
    BY <1>3, <1>5
  <2>5. j <= Len(b2) => /\ q.left \in Nat /\ q.right \in Nat /\ q.left < q.right
                        /\ q.right <= Width /\ j \in DOMAIN b2
    <3> SUFFICES ASSUME j <= Len(b2)
                 PROVE  /\ q.left \in Nat /\ q.right \in Nat /\ q.left < q.right
                        /\ q.right <= Width /\ j \in DOMAIN b2
      OBVIOUS
    <3>1. j \in DOMAIN b2
      BY <1>1, <1>2
    <3>2. q \in Rects
      BY <1>1, <3>1 DEF q
    <3> QED
      BY <3>1, <3>2, RectTyped
  <2> DEFINE past == j > Len(b2) \/ q.left >= p.right
             skip == j <= Len(b2) /\ q.right <= left
             to   == IF past THEN p.right ELSE q.left
             lim  == IF past \/ q.right >= p.right THEN p.right ELSE q.right
             m    == Cut(s.out, left, to, t, b)
             ie   == IF lim = p.right THEN i + 1 ELSE i
             je   == IF lim = p.right THEN j ELSE j + 1
             le   == IF lim # p.right THEN lim ELSE IF i < Len(b1) THEN b1[i + 1].left ELSE left
  <2>6. CASE skip
    <3>1. e = [s EXCEPT !.j = j + 1]
      BY <1>5, <2>6 DEF SubtractTurn, e, i, j, left, q
    <3> HIDE DEF e, skip, past, to, lim, m, ie, je, le
    <3>2. e = [i |-> i, j |-> j + 1, left |-> left, out |-> s.out]
      BY <3>1, SubtractChanged DEF i, left
    <3>3. e.i = i /\ e.j = j + 1 /\ e.left = left /\ e.out = s.out
      BY <3>2
    <3>4. e \in SubtractWalks
      BY <1>2, <3>2 DEF SubtractWalks
    <3>5. i \in 1 .. Len(b1) + 1 /\ j + 1 \in 1 .. Len(b2) + 1 /\ i + (j + 1) >= k + 2
      BY <1>1, <1>2, <2>1, <2>6, SMTT(60) DEF skip
    <3>6. \A n \in 1 .. e.j - 1 : b2[n].right <= left
      <4> TAKE n \in 1 .. e.j - 1
      <4>1. n \in 1 .. j - 1 \/ n = j
        BY <1>2, <3>3
      <4> QED
        BY <2>4, <2>6, <4>1 DEF skip, q
    <3>7. \A x \in Int : Passed(e, b1, x) <=> Passed(s, b1, x)
      BY <3>3 DEF Passed, i, left
    <3>8. \A x \in Int : In(e.out, x) <=> Passed(e, b1, x) /\ ~In(b2, x)
      BY <1>3, <3>3, <3>7
    <3>9. /\ e.i \in 1 .. Len(b1) + 1 /\ e.j \in 1 .. Len(b2) + 1 /\ e.i + e.j >= k + 2
      BY <3>3, <3>5, Zenon
    <3>10. /\ b1[e.i].left <= e.left /\ e.left < b1[e.i].right
           /\ \A n \in 1 .. e.j - 1 : b2[n].right <= e.left
           /\ \A o \in DOMAIN e.out : e.out[o].right < e.left
      BY <2>4, <3>3, <3>6 DEF p
    <3>11. Slice(e.out, t, b)
      BY <1>2, <3>3
    <3>12. SubtractDone(e, b1, b2, t, b, k)
      BY <3>8, <3>9, <3>10, <3>11 DEF SubtractDone
    <3> QED
      BY <3>4, <3>12 DEF e
  <2>7. CASE ~skip
    <3>1. e = [i |-> ie, j |-> je, left |-> le, out |-> m]
      <4>1. CASE past
        <5>1. m = Append(s.out, Rect(left, p.top, p.right, p.bottom)) /\ lim = p.right
          BY <2>2, <2>4, <4>1 DEF Cut
        <5>2. e = [i |-> i + 1, j |-> j, out |-> Append(s.out, Rect(left, p.top, p.right, p.bottom)),
                   left |-> IF i < Len(b1) THEN b1[i + 1].left ELSE left]
          <6>1. CASE j > Len(b2)
            BY <1>2, <1>5, <6>1 DEF SubtractTurn, e, i, j, left, p, q
          <6>2. CASE j <= Len(b2) /\ q.left >= p.right
            BY <1>2, <1>5, <2>7, <6>2 DEF SubtractTurn, e, i, j, left, p, q
          <6> QED
            BY <1>1, <1>2, <4>1, <6>1, <6>2
        <5> QED
          BY <5>1, <5>2
      <4>2. CASE ~past
        <5>1. j <= Len(b2) /\ ~(q.left >= p.right) /\ ~(q.right <= left)
          BY <1>1, <1>2, <2>7, <4>2
        <5>2. m = IF q.left > left THEN Append(s.out, Rect(left, p.top, q.left, p.bottom)) ELSE s.out
          BY <2>2, <4>2 DEF Cut
        <5> HIDE DEF m
        <5>3. CASE q.right >= p.right
          <6>1. e = [i |-> i + 1, j |-> j, out |-> m,
                     left |-> IF i < Len(b1) THEN b1[i + 1].left ELSE left]
            BY <1>2, <1>5, <5>1, <5>2, <5>3 DEF SubtractTurn, e, i, j, left, p, q
          <6> QED
            BY <5>3, <6>1
        <5>4. CASE ~(q.right >= p.right)
          <6>1. e = [s EXCEPT !.j = j + 1, !.left = q.right, !.out = m]
            BY <1>2, <1>5, <5>1, <5>2, <5>4 DEF SubtractTurn, e, i, j, left, p, q
          <6>2. e = [i |-> i, j |-> j + 1, left |-> q.right, out |-> m]
            BY <6>1, SubtractChanged DEF i
          <6>3. lim = q.right /\ lim # p.right
            BY <2>3, <2>5, <4>2, <5>1, <5>4
          <6> QED
            BY <6>2, <6>3
        <5> QED
          BY <5>3, <5>4
      <4> QED
        BY <4>1, <4>2
    <3>2. ~past => j <= Len(b2) /\ q.left < p.right /\ q.right > left
      <4> SUFFICES ASSUME ~past
                   PROVE  j <= Len(b2) /\ q.left < p.right /\ q.right > left
        BY DEF past
      <4>1. j <= Len(b2)
        BY <1>1, <1>2
      <4>2. ~(q.right <= left)
        BY <2>7, <4>1
      <4>3. ~(q.left >= p.right)
        OBVIOUS
      <4>4. q.left \in Nat /\ q.right \in Nat
        BY <2>5, <4>1
      <4> HIDE DEF skip, past
      <4> QED
        BY <1>2, <2>3, <4>1, <4>2, <4>3, <4>4, SMTT(60)
    <3>3. /\ to \in Nat /\ to <= Width /\ lim \in Nat /\ to <= lim /\ left < lim /\ lim <= p.right
          /\ past => to = p.right /\ lim = p.right
          /\ ~past => to = q.left /\ lim <= q.right /\ (lim = p.right \/ lim = q.right) /\ to < lim
      <4>1. CASE past
        BY <1>2, <2>3, <2>4, <4>1, SMTT(60)
      <4>2. CASE ~past
        <5>1. to = q.left /\ lim = IF q.right >= p.right THEN p.right ELSE q.right
          BY <4>2
        <5> HIDE DEF to, lim, past
        <5>2. /\ j <= Len(b2) /\ q.left < p.right /\ q.right > left /\ q.left \in Nat
              /\ q.right \in Nat /\ q.left < q.right /\ q.right <= Width /\ Width \in Nat
          BY <2>5, <3>2, <4>2, RegionAssumption
        <5>3. CASE q.right >= p.right
          <6>1. lim = p.right
            BY <5>1, <5>3
          <6>2. left \in Nat /\ left < p.right /\ p.right \in Nat /\ p.right <= Width
            BY <1>2, <2>3, <2>4
          <6> QED
            BY <4>2, <5>1, <5>2, <5>3, <6>1, <6>2
        <5>4. CASE ~(q.right >= p.right)
          <6>1. lim = q.right
            BY <5>1, <5>4
          <6>2. left \in Nat /\ left < p.right /\ p.right \in Nat /\ p.right <= Width
            BY <1>2, <2>3, <2>4
          <6> QED
            BY <4>2, <5>1, <5>2, <5>4, <6>1, <6>2
        <5> QED
          BY <5>3, <5>4
      <4> QED
        BY <4>1, <4>2
    <3> HIDE DEF to, lim, past
    <3>4. Slice(m, t, b)
      BY <1>2, <2>3, <2>4, <3>3, CutAdds
    <3>5. \A x \in Int : In(m, x) <=> In(s.out, x) \/ (left <= x /\ x < to)
      BY <1>2, <2>3, <2>4, <3>3, CutAdds, SMTT(60)
    <3>6. \A o \in DOMAIN m : m[o].right < left \/ m[o].right = to
      BY <1>2, <2>3, <2>4, <3>3, CutAdds, SMTT(60)
    <3> HIDE DEF e, m, skip
    <3>7. ASSUME NEW x \in Int, left <= x, x < lim
          PROVE  In(b2, x) <=> x >= to
      <4>1. ASSUME past \/ x < to, NEW n \in DOMAIN b2
            PROVE  ~Over(b2[n], x)
        <5>1. n \in Nat /\ n >= 1 /\ n <= Len(b2) /\ b2[n].right \in Int /\ b2[n].left \in Int
          BY <1>1, RectAt
        <5>2. CASE n < j
          <6>1. n \in 1 .. j - 1
            BY <1>2, <5>1, <5>2
          <6> QED
            BY <2>4, <3>7, <5>1, <6>1, <1>2, SMTT(60) DEF Over
        <5>3. CASE n >= j
          <6>1. j \in DOMAIN b2 /\ n \in j .. Len(b2)
            BY <1>1, <1>2, <5>1, <5>3
          <6>2. q.left <= b2[n].left
            BY <1>1, <6>1, SortedFrom DEF q
          <6>3. x < q.left /\ q.left \in Int
            <7>1. j <= Len(b2) /\ q.left \in Nat
              BY <1>1, <1>2, <2>5, <6>1
            <7>2. CASE past
              <8>1. q.left >= p.right /\ lim = p.right
                BY <1>1, <1>2, <3>3, <7>1, <7>2, SMTT(60) DEF past
              <8> QED
                BY <2>3, <3>7, <7>1, <8>1
            <7>3. CASE ~past
              <8>1. to = q.left /\ x < to
                BY <3>3, <4>1, <7>3
              <8> QED
                BY <7>1, <8>1
            <7> QED
              BY <7>2, <7>3
          <6> QED
            BY <5>1, <6>2, <6>3 DEF Over
        <5> QED
          BY <1>2, <5>1, <5>2, <5>3
      <4>2. CASE past \/ x < to
        BY <3>3, <3>7, <4>1, <4>2 DEF In
      <4>3. CASE ~past /\ x >= to
        <5>1. Over(q, x) /\ j \in DOMAIN b2
          BY <2>5, <3>2, <3>3, <3>7, <4>3 DEF Over
        <5> QED
          BY <4>3, <5>1 DEF In, q
      <4> QED
        BY <3>3, <3>7, <4>2, <4>3
    <3>8. /\ (lim = p.right /\ ie = i + 1 /\ je = j) \/ (lim # p.right /\ ie = i /\ je = j + 1 /\ le = lim)
          /\ lim = p.right /\ i < Len(b1) => le = b1[i + 1].left
          /\ lim = p.right /\ ~(i < Len(b1)) => le = left
      OBVIOUS
    <3>9. le \in Nat
      <4>1. i < Len(b1) => b1[i + 1] \in Rects
        BY <1>1, <1>2, SMTT(60)
      <4>2. i < Len(b1) => b1[i + 1].left \in Nat
        BY <4>1, RectTyped
      <4> QED
        BY <1>2, <3>3, <3>8, <4>2
    <3> HIDE DEF ie, je, le
    <3>10. lim # p.right => je <= Len(b2) + 1 /\ j <= Len(b2) /\ lim = q.right
      BY <1>2, <3>2, <3>3, <3>8
    <3>11. /\ ie \in 1 .. Len(b1) + 1 /\ je \in 1 .. Len(b2) + 1 /\ ie + je >= k + 2
           /\ ie \in Nat /\ je \in Nat
      BY <1>1, <1>2, <1>5, <2>1, <3>8, <3>10, SMTT(60)
    <3>12. /\ e.i = ie /\ e.j = je /\ e.left = le /\ e.out = m
           /\ e \in SubtractWalks
      <4>1. m \in Seq(Rects)
        BY <3>4 DEF Slice
      <4> QED
        BY <3>1, <3>9, <3>11, <4>1 DEF SubtractWalks
    <3>13. ie <= Len(b1) => b1[ie].left <= le /\ le < b1[ie].right /\ lim <= le
      <4>1. CASE lim = p.right
        <5> SUFFICES ASSUME ie <= Len(b1)
                     PROVE  b1[ie].left <= le /\ le < b1[ie].right /\ lim <= le
          OBVIOUS
        <5>1. ie = i + 1 /\ i < Len(b1) /\ le = b1[ie].left /\ ie \in DOMAIN b1 /\ i < ie
          BY <1>1, <1>2, <3>8, <3>11, <4>1, SMTT(60)
        <5>2. p.right < b1[ie].left
          BY <1>1, <2>1, <5>1 DEF Sorted, p
        <5>3. b1[ie].left \in Int /\ b1[ie].right \in Int /\ b1[ie].left < b1[ie].right
          BY <1>1, <5>1, RectAt
        <5> QED
          BY <2>3, <4>1, <5>1, <5>2, <5>3
      <4>2. CASE lim # p.right
        <5>1. ie = i /\ le = lim /\ b1[ie] = p
          BY <3>8, <4>2 DEF p
        <5> QED
          BY <1>2, <2>3, <2>4, <3>3, <4>2, <5>1, SMTT(60)
      <4> QED
        BY <4>1, <4>2
    <3>14. ie <= Len(b1) => \A n \in 1 .. je - 1 : b2[n].right <= le
      <4> SUFFICES ASSUME ie <= Len(b1), NEW n \in 1 .. je - 1
                   PROVE  b2[n].right <= le
        OBVIOUS
      <4>1. n \in 1 .. j - 1 \/ (n = j /\ lim # p.right)
        <5>1. CASE je = j
          BY <5>1
        <5>2. CASE je = j + 1 /\ lim # p.right
          BY <1>2, <5>2
        <5> QED
          BY <3>8, <5>1, <5>2
      <4>2. b2[n].right \in Int /\ lim <= le
        <5>1. n \in DOMAIN b2
          BY <1>1, <3>11
        <5> QED
          BY <1>1, <3>13, <5>1, RectAt
      <4>3. b2[n].right <= lim
        BY <1>2, <2>4, <2>5, <3>3, <3>10, <4>1, <4>2, SMTT(60) DEF q
      <4> QED
        BY <3>3, <3>9, <4>2, <4>3
    <3>15. ie <= Len(b1) => \A o \in DOMAIN m : m[o].right < le
      <4> SUFFICES ASSUME ie <= Len(b1), NEW o \in DOMAIN m
                   PROVE  m[o].right < le
        OBVIOUS
      <4>1. m[o].right \in Int
        BY <3>4, RectAt DEF Slice
      <4>2. m[o].right < left \/ m[o].right = to
        BY <3>6
      <4>3. to < le
        <5>1. CASE lim = p.right
          <6>1. ie = i + 1 /\ i < Len(b1) /\ le = b1[ie].left /\ ie \in DOMAIN b1 /\ i < ie
            BY <1>1, <1>2, <3>8, <3>11, <5>1, SMTT(60)
          <6>2. p.right < le
            BY <1>1, <2>1, <6>1 DEF Sorted, p
          <6> QED
            BY <2>3, <3>3, <3>9, <6>2, <5>1
        <5>2. CASE lim # p.right
          BY <3>3, <3>8, <5>2
        <5> QED
          BY <5>1, <5>2
      <4>4. left < le
        BY <1>2, <3>3, <3>9, <3>13
      <4> QED
        BY <1>2, <3>3, <3>9, <4>1, <4>2, <4>3, <4>4, SMTT(60)
    <3>16. ASSUME NEW x \in Int
           PROVE  Passed(e, b1, x) <=> Passed(s, b1, x) \/ (left <= x /\ x < lim)
      <4>1. Within(b1, 1, i, x) <=> Within(b1, 1, i - 1, x) \/ Over(p, x)
        BY <1>2, WithinMore DEF p
      <4>2. Passed(s, b1, x) <=> Within(b1, 1, i - 1, x) \/ (p.left <= x /\ x < left)
        BY <1>5 DEF Passed, i, left, p
      <4>3. Passed(e, b1, x) <=> \/ Within(b1, 1, ie - 1, x)
                                 \/ ie <= Len(b1) /\ b1[ie].left <= x /\ x < le
        BY <3>12 DEF Passed
      <4>4. CASE lim = p.right
        <5>1. ie - 1 = i
          BY <1>2, <3>8, <4>4
        <5>2. ~(ie <= Len(b1) /\ b1[ie].left <= x /\ x < le)
          <6>1. ie <= Len(b1) => le = b1[ie].left /\ b1[ie].left \in Int
            BY <1>1, <1>2, <3>8, <3>9, <4>4, SMTT(60)
          <6> QED
            BY <6>1
        <5>3. Passed(e, b1, x) <=> Within(b1, 1, i, x)
          BY <4>3, <5>1, <5>2
        <5>4. Over(p, x) <=> (p.left <= x /\ x < left) \/ (left <= x /\ x < p.right)
          BY <1>2, <2>3, <2>4, SMTT(60) DEF Over
        <5> QED
          BY <4>1, <4>2, <4>4, <5>3, <5>4
      <4>5. CASE lim # p.right
        <5>1. ie = i /\ le = lim /\ ie <= Len(b1) /\ b1[ie] = p
          BY <1>5, <3>8, <4>5 DEF p
        <5>2. Passed(e, b1, x) <=> Within(b1, 1, i - 1, x) \/ (p.left <= x /\ x < lim)
          BY <4>3, <5>1
        <5>3. p.left <= x /\ x < lim <=> (p.left <= x /\ x < left) \/ (left <= x /\ x < lim)
          BY <1>2, <2>3, <2>4, <3>3, SMTT(60)
        <5> QED
          BY <4>2, <5>2, <5>3
      <4> QED
        BY <4>4, <4>5
    <3>17. ASSUME NEW x \in Int
           PROVE  In(m, x) <=> Passed(e, b1, x) /\ ~In(b2, x)
      <4>1. In(s.out, x) <=> Passed(s, b1, x) /\ ~In(b2, x)
        BY <1>3
      <4>2. In(m, x) <=> In(s.out, x) \/ (left <= x /\ x < to)
        BY <3>5
      <4>3. left <= x /\ x < lim => (In(b2, x) <=> x >= to)
        BY <3>7
      <4>4. left <= x /\ x < to <=> left <= x /\ x < lim /\ ~(x >= to)
        BY <1>2, <3>3
      <4> QED
        BY <3>16, <4>1, <4>2, <4>3, <4>4
    <3>18. /\ e.i \in 1 .. Len(b1) + 1 /\ e.j \in 1 .. Len(b2) + 1 /\ e.i + e.j >= k + 2
      BY <3>11, <3>12, Zenon
    <3>19. e.i <= Len(b1) => /\ b1[e.i].left <= e.left /\ e.left < b1[e.i].right
                             /\ \A n \in 1 .. e.j - 1 : b2[n].right <= e.left
                             /\ \A o \in DOMAIN e.out : e.out[o].right < e.left
      BY <3>12, <3>13, <3>14, <3>15, Zenon
    <3>20. \A x \in Int : In(e.out, x) <=> Passed(e, b1, x) /\ ~In(b2, x)
      BY <3>12, <3>17
    <3>21. SubtractDone(e, b1, b2, t, b, k)
      <4>1. Slice(e.out, t, b)
        BY <3>4, <3>12
      <4> QED
        BY <3>18, <3>19, <3>20, <4>1 DEF SubtractDone
    <3> QED
      BY <3>12, <3>21 DEF e
  <2> QED
    BY <2>6, <2>7
<1> QED
  BY <1>1, <1>2, <1>4, <1>5

(* REGION_SubtractO makes of two bands one of the columns that only the    *)
(* first has.                                                              *)
LEMMA SubtractIs ==
    ASSUME NEW t, NEW b, NEW b1, Slice(b1, t, b), b1 # <<>>, NEW b2, Slice(b2, t, b)
    PROVE  LET o == REGION_SubtractO(b1, b2)
           IN  /\ Slice(o, t, b)
               /\ \A x \in Int : In(o, x) <=> In(b1, x) /\ ~In(b2, x)
<1> DEFINE N == Len(b1) + Len(b2)
           a == [i |-> 1, j |-> 1, left |-> b1[1].left, out |-> <<>>]
           D(k) == {s \in SubtractWalks : SubtractDone(s, b1, b2, t, b, k)}
           T == [k \in 0 .. N |-> D(k)]
           G == [q \in SubtractWalks \X (1 .. N) |-> SubtractTurn(q[1], b1, b2)]
           turn == CHOOSE f :
                       f = [n \in 0 .. N |-> IF n = 0 THEN a ELSE SubtractTurn(f[n - 1], b1, b2)]
<1>1. N \in Nat /\ Len(b1) \in Nat /\ Len(b2) \in Nat /\ b1 \in Seq(Rects) /\ b2 \in Seq(Rects)
  BY DEF Slice
<1>2. REGION_SubtractO(b1, b2) = turn[N].out
  BY DEF REGION_SubtractO
<1>3. a \in D(0)
  <2>1. 1 \in DOMAIN b1 /\ 1 <= Len(b1) /\ b1[1] \in Rects
    BY <1>1
  <2>2. b1[1].left \in Nat /\ b1[1].right \in Nat /\ b1[1].left < b1[1].right
    BY <2>1, RectTyped
  <2>3. a \in SubtractWalks
    BY <2>2 DEF SubtractWalks
  <2>4. Slice(a.out, t, b)
    BY DEF Slice, Sorted
  <2>5. \A x \in Int : ~In(a.out, x) /\ ~Passed(a, b1, x)
    BY <2>2 DEF In, Within, Passed
  <2>6. /\ a.i \in 1 .. Len(b1) + 1 /\ a.j \in 1 .. Len(b2) + 1 /\ a.i + a.j >= 0 + 2
    BY <1>1, <2>1
  <2>7. /\ b1[a.i].left <= a.left /\ a.left < b1[a.i].right
        /\ \A n \in 1 .. a.j - 1 : b2[n].right <= a.left
        /\ \A o \in DOMAIN a.out : a.out[o].right < a.left
    BY <2>2
  <2>8. SubtractDone(a, b1, b2, t, b, 0)
    BY <2>4, <2>5, <2>6, <2>7 DEF SubtractDone
  <2> QED
    BY <2>3, <2>8
<1>4. ASSUME NEW k \in 1 .. N, NEW s \in D(k - 1)
      PROVE  SubtractTurn(s, b1, b2) \in D(k)
  <2>1. s \in SubtractWalks /\ SubtractDone(s, b1, b2, t, b, k - 1)
    OBVIOUS
  <2>2. /\ SubtractTurn(s, b1, b2) \in SubtractWalks
        /\ SubtractDone(SubtractTurn(s, b1, b2), b1, b2, t, b, k)
    BY <2>1, SubtractTurnGood
  <2> QED
    BY <2>2
<1>5. \A k \in 0 .. N : D(k) \subseteq SubtractWalks
  OBVIOUS
<1>6. \A s \in D(N) : s \in SubtractWalks /\ SubtractDone(s, b1, b2, t, b, N)
  OBVIOUS
<1> HIDE DEF N, D, a
<1>7. \A k \in 0 .. N : T[k] = D(k)
  OBVIOUS
<1>8. \A k \in 1 .. N : T[k - 1] = D(k - 1) /\ k - 1 \in 0 .. N /\ k \in 0 .. N
  BY <1>1
<1>9. 0 \in 0 .. N /\ N \in 0 .. N
  BY <1>1
<1> HIDE DEF T
<1>10. \A k \in 1 .. N : \A s \in SubtractWalks : G[<<s, k>>] = SubtractTurn(s, b1, b2)
  OBVIOUS
<1> HIDE DEF G
<1>11. PICK f : Looped(f, N, a, G) /\ \A k \in 0 .. N : f[k] \in T[k]
  <2>1. a \in T[0] /\ \A k \in 0 .. N : T[k] \subseteq SubtractWalks
    BY <1>1, <1>3, <1>5, <1>7, <1>9
  <2>2. ASSUME NEW k \in 1 .. N, NEW s \in T[k - 1]
        PROVE  G[<<s, k>>] \in T[k]
    <3>1. s \in D(k - 1) /\ T[k] = D(k) /\ s \in SubtractWalks
      BY <1>5, <1>7, <1>8
    <3>2. G[<<s, k>>] = SubtractTurn(s, b1, b2)
      BY <1>10, <3>1
    <3> QED
      BY <1>4, <3>1, <3>2
  <2> QED
    BY <1>1, <2>1, <2>2, LoopRuns
<1>12. f = [k \in 0 .. N |-> IF k = 0 THEN a ELSE SubtractTurn(f[k - 1], b1, b2)]
  <2>1. ASSUME NEW k \in 1 .. N
        PROVE  G[<<f[k - 1], k>>] = SubtractTurn(f[k - 1], b1, b2)
    BY <1>5, <1>7, <1>8, <1>10, <1>11
  <2>2. f = [k \in 0 .. N |-> IF k = 0 THEN a ELSE G[<<f[k - 1], k>>]]
    BY <1>11 DEF Looped
  <2>3. \A k \in 0 .. N : k = 0 \/ k \in 1 .. N
    BY <1>1
  <2> QED
    BY <2>1, <2>2, <2>3
<1>13. turn = [k \in 0 .. N |-> IF k = 0 THEN a ELSE SubtractTurn(turn[k - 1], b1, b2)]
  BY <1>12, Zenon
<1> HIDE DEF turn
<1>14. turn[0] = a /\ \A k \in 1 .. N : turn[k] = SubtractTurn(turn[k - 1], b1, b2)
  BY <1>1, <1>13
<1>15. \A k \in 0 .. N : turn[k] \in T[k]
  <2>1. turn[0] \in T[0]
    BY <1>3, <1>7, <1>9, <1>14
  <2>2. \A k \in 1 .. N : turn[k - 1] \in T[k - 1] => turn[k] \in T[k]
    BY <1>4, <1>7, <1>8, <1>14
  <2> QED
    BY <1>1, <2>1, <2>2, LoopKeeps
<1>16. turn[N] \in D(N)
  BY <1>7, <1>9, <1>15
<1>17. SubtractDone(turn[N], b1, b2, t, b, N)
  BY <1>6, <1>16
<1> DEFINE s == turn[N]
<1>18. s.i = Len(b1) + 1
  <2>1. /\ s.i \in 1 .. Len(b1) + 1 /\ s.j \in 1 .. Len(b2) + 1
        /\ s.i + s.j >= N + 2 \/ s.i > Len(b1)
    BY <1>17 DEF SubtractDone
  <2> QED
    BY <1>1, <2>1 DEF N
<1>19. s.i - 1 = Len(b1) /\ ~(s.i <= Len(b1))
  BY <1>1, <1>18
<1>20. ASSUME NEW x \in Int
       PROVE  In(s.out, x) <=> In(b1, x) /\ ~In(b2, x)
  <2>1. In(s.out, x) <=> Passed(s, b1, x) /\ ~In(b2, x)
    BY <1>17 DEF SubtractDone
  <2>2. Passed(s, b1, x) <=> Within(b1, 1, Len(b1), x)
    BY <1>19 DEF Passed
  <2>3. Within(b1, 1, Len(b1), x) <=> In(b1, x)
    BY <1>1, WithinAll
  <2> QED
    BY <2>1, <2>2, <2>3
<1>21. Slice(s.out, t, b)
  BY <1>17 DEF SubtractDone
<1> HIDE DEF s
<1> QED
  BY <1>2, <1>20, <1>21 DEF s

-----------------------------------------------------------------------------
(* Arrays of rectangles, and why there is one for a set of points.         *)

(* Arrays of rectangles.                                                   *)

(* The form of an array.                                                   *)
Formed(rects) == rects \in Seq(Rects) /\ Banded(rects) /\ Joinless(rects)

(* What an array covers are cells.                                         *)
LEMMA CoveredCells ==
    ASSUME NEW rects \in Seq(Rects), NEW x \in Int, NEW y \in Int, Covered(rects, x, y)
    PROVE  x \in 0 .. Width - 1 /\ y \in 0 .. Height - 1
<1>1. PICK k \in DOMAIN rects : InRect(rects[k], x, y)
  BY DEF Covered
<1>2. rects[k] \in Rects
  OBVIOUS
<1> DEFINE r == rects[k]
<1>3. /\ r.left \in Nat /\ r.top \in Nat /\ r.right <= Width /\ r.bottom <= Height
      /\ r.right \in Nat /\ r.bottom \in Nat
  BY <1>2, RectTyped
<1> QED
  BY <1>1, <1>3, RegionAssumption, SMTT(60) DEF InRect

(* Rows are the same when they cover the same columns.                     *)
LEMMA RowSame ==
    ASSUME NEW r \in Seq(Rects), NEW s \in Seq(Rects), NEW y \in Int, NEW z \in Int
    PROVE  Row(r, y) = Row(s, z) <=> \A x \in Int : Covered(r, x, y) <=> Covered(s, x, z)
<1>1. Width \in Nat
  BY RegionAssumption
<1>2. \A x \in Int : Covered(r, x, y) => x \in Columns
  BY <1>1, CoveredCells DEF Columns
<1>3. \A x \in Int : Covered(s, x, z) => x \in Columns
  BY <1>1, CoveredCells DEF Columns
<1>4. Columns \subseteq Int
  BY <1>1 DEF Columns
<1>5. \A x : /\ x \in Row(r, y) <=> x \in Columns /\ Covered(r, x, y)
             /\ x \in Row(s, z) <=> x \in Columns /\ Covered(s, x, z)
  BY DEF Row
<1>6. ASSUME Row(r, y) = Row(s, z), NEW x \in Int
      PROVE  Covered(r, x, y) <=> Covered(s, x, z)
  BY <1>2, <1>3, <1>5, <1>6
<1>7. ASSUME \A x \in Int : Covered(r, x, y) <=> Covered(s, x, z)
      PROVE  Row(r, y) = Row(s, z)
  <2>1. \A x : x \in Row(r, y) <=> x \in Row(s, z)
    BY <1>4, <1>5, <1>7
  <2> QED
    BY <2>1
<1> QED
  BY <1>6, <1>7

(* Two rectangles of an array in bands.                                    *)
LEMMA BandedPair ==
    ASSUME NEW r \in Seq(Rects), Banded(r), NEW k \in DOMAIN r, NEW m \in DOMAIN r, k < m
    PROVE  \/ r[k].top = r[m].top /\ r[k].bottom = r[m].bottom /\ r[k].right < r[m].left
           \/ r[k].bottom <= r[m].top
BY DEF Banded

(* No point is in two rectangles of an array in bands.                     *)
LEMMA BandedApart ==
    ASSUME NEW r \in Seq(Rects), Banded(r), NEW k \in DOMAIN r, NEW m \in DOMAIN r, k # m,
           NEW x \in Int, NEW y \in Int, InRect(r[k], x, y)
    PROVE  ~InRect(r[m], x, y)
<1>1. /\ r[k].left \in Int /\ r[k].right \in Int /\ r[k].top \in Int /\ r[k].bottom \in Int
      /\ r[m].left \in Int /\ r[m].right \in Int /\ r[m].top \in Int /\ r[m].bottom \in Int
  BY RectAt
<1>2. k \in Int /\ m \in Int
  OBVIOUS
<1>3. CASE k < m
  BY <1>1, <1>3, BandedPair DEF InRect
<1>4. CASE m < k
  BY <1>1, <1>4, BandedPair, SMTT(60) DEF InRect
<1> QED
  BY <1>2, <1>3, <1>4

(* The rows of a band are all the same.                                    *)
LEMMA BandRow ==
    ASSUME NEW r \in Seq(Rects), Banded(r), NEW k \in DOMAIN r, NEW x \in Int,
           NEW y \in Int, r[k].top <= y, y < r[k].bottom,
           NEW z \in Int, r[k].top <= z, z < r[k].bottom, Covered(r, x, y)
    PROVE  Covered(r, x, z)
<1>1. PICK m \in DOMAIN r : InRect(r[m], x, y)
  BY DEF Covered
<1>2. /\ r[k].top \in Int /\ r[k].bottom \in Int /\ r[m].top \in Int /\ r[m].bottom \in Int
      /\ r[m].left \in Int /\ r[m].right \in Int
  BY RectAt
<1>3. r[m].top = r[k].top /\ r[m].bottom = r[k].bottom
  <2>1. k \in Int /\ m \in Int
    OBVIOUS
  <2>2. CASE k < m
    <3>1. (r[k].top = r[m].top /\ r[k].bottom = r[m].bottom) \/ r[k].bottom <= r[m].top
      BY <2>2, BandedPair
    <3> QED
      BY <1>1, <1>2, <3>1 DEF InRect
  <2>3. CASE m < k
    <3>1. (r[k].top = r[m].top /\ r[k].bottom = r[m].bottom) \/ r[m].bottom <= r[k].top
      BY <2>3, BandedPair
    <3> QED
      BY <1>1, <1>2, <3>1 DEF InRect
  <2> QED
    BY <2>1, <2>2, <2>3
<1>4. InRect(r[m], x, z)
  BY <1>1, <1>3 DEF InRect
<1> QED
  BY <1>4 DEF Covered

(* A rectangle is covered.                                                 *)
LEMMA CornersCovered ==
    ASSUME NEW r \in Seq(Rects), NEW k \in DOMAIN r
    PROVE  /\ Covered(r, r[k].left, r[k].top)
           /\ Covered(r, r[k].left, r[k].bottom - 1)
           /\ Covered(r, r[k].right - 1, r[k].top)
<1>1. /\ r[k].left \in Int /\ r[k].right \in Int /\ r[k].top \in Int /\ r[k].bottom \in Int
      /\ r[k].left < r[k].right /\ r[k].top < r[k].bottom
  BY RectAt
<1>2. /\ InRect(r[k], r[k].left, r[k].top)
      /\ InRect(r[k], r[k].left, r[k].bottom - 1)
      /\ InRect(r[k], r[k].right - 1, r[k].top)
  BY <1>1 DEF InRect
<1> QED
  BY <1>2 DEF Covered

-----------------------------------------------------------------------------
(* Two arrays that are the same before k.                                  *)
Alike(r, s, k) == \A m \in 1 .. k - 1 : m \in DOMAIN r /\ m \in DOMAIN s /\ r[m] = s[m]

(* If two arrays in bands cover the same and are the same before k, the    *)
(* k-th rectangle of one does not begin before that of the other.          *)
LEMMA SameStart ==
    ASSUME NEW r \in Seq(Rects), Banded(r), NEW s \in Seq(Rects), Banded(s),
           \A x, y \in Int : Covered(r, x, y) => Covered(s, x, y),
           NEW k \in DOMAIN r, Alike(r, s, k)
    PROVE  /\ k \in DOMAIN s
           /\ s[k].top < r[k].top \/ (s[k].top = r[k].top /\ s[k].left <= r[k].left)
<1> DEFINE x == r[k].left
           y == r[k].top
<1>1. /\ x \in Int /\ y \in Int /\ r[k].right \in Int /\ r[k].bottom \in Int
      /\ x < r[k].right /\ y < r[k].bottom
  BY RectAt
<1>2. Covered(r, x, y) /\ InRect(r[k], x, y)
  <2>1. InRect(r[k], x, y)
    BY <1>1 DEF InRect
  <2> QED
    BY <2>1 DEF Covered
<1> HIDE DEF x, y
<1>3. PICK m \in DOMAIN s : InRect(s[m], x, y)
  BY <1>1, <1>2 DEF Covered
<1>4. /\ k \in 1 .. Len(r) /\ Len(r) \in Nat /\ m \in 1 .. Len(s) /\ Len(s) \in Nat
      /\ k \in Int /\ m \in Int
  OBVIOUS
<1>5. ~(m < k)
  <2>1. SUFFICES ASSUME m < k
                 PROVE  FALSE
    OBVIOUS
  <2>2. m \in 1 .. k - 1
    BY <1>4, <2>1
  <2>3. m \in DOMAIN r /\ r[m] = s[m]
    BY <2>2 DEF Alike
  <2>4. ~InRect(r[m], x, y)
    <3>1. k # m
      BY <1>4, <2>1
    <3> QED
      BY <1>1, <1>2, <2>3, <3>1, BandedApart
  <2> QED
    BY <1>3, <2>3, <2>4
<1>6. k \in DOMAIN s
  BY <1>4, <1>5
<1>7. /\ s[k].top \in Int /\ s[k].bottom \in Int /\ s[k].left \in Int /\ s[k].right \in Int
      /\ s[k].left < s[k].right /\ s[k].top < s[k].bottom
      /\ s[m].top \in Int /\ s[m].left \in Int
  BY <1>6, RectAt
<1>8. s[m].left <= x /\ s[m].top <= y
  BY <1>3 DEF InRect
<1>9. s[k].top < y \/ (s[k].top = y /\ s[k].left <= x)
  <2>1. CASE m = k
    BY <1>1, <1>7, <1>8, <2>1
  <2>2. CASE k < m
    <3>1. \/ s[k].top = s[m].top /\ s[k].right < s[m].left
          \/ s[k].bottom <= s[m].top
      BY <1>6, <2>2, BandedPair
    <3> QED
      BY <1>1, <1>7, <1>8, <3>1, SMTT(60)
  <2> QED
    BY <1>4, <1>5, <2>1, <2>2
<1> QED
  BY <1>6, <1>9 DEF x, y

(* If they begin together, it does not end further left.                   *)
LEMMA SameRight ==
    ASSUME NEW r \in Seq(Rects), Banded(r), NEW s \in Seq(Rects), Banded(s),
           \A x, y \in Int : Covered(s, x, y) => Covered(r, x, y),
           NEW k \in DOMAIN r, k \in DOMAIN s, Alike(r, s, k),
           r[k].top = s[k].top, r[k].left = s[k].left
    PROVE  ~(r[k].right < s[k].right)
<1> SUFFICES ASSUME r[k].right < s[k].right
             PROVE  FALSE
  OBVIOUS
<1> DEFINE x == r[k].right
           y == r[k].top
<1>1. /\ x \in Int /\ y \in Int /\ r[k].left \in Int /\ r[k].bottom \in Int
      /\ r[k].left < x /\ y < r[k].bottom /\ s[k].right \in Int /\ s[k].bottom \in Int
      /\ s[k].top < s[k].bottom
  BY RectAt
<1>2. InRect(s[k], x, y)
  BY <1>1 DEF InRect
<1>3. Covered(s, x, y)
  BY <1>2 DEF Covered
<1>4. PICK m \in DOMAIN r : InRect(r[m], x, y)
  BY <1>1, <1>3 DEF Covered
<1>5. k \in Int /\ m \in Int /\ m \in 1 .. Len(r) /\ Len(r) \in Nat
  OBVIOUS
<1>6. CASE m < k
  <2>1. m \in 1 .. k - 1
    BY <1>5, <1>6
  <2>2. m \in DOMAIN s /\ r[m] = s[m]
    BY <2>1 DEF Alike
  <2>3. ~InRect(s[m], x, y)
    <3>1. k # m
      BY <1>5, <1>6
    <3> QED
      BY <1>1, <1>2, <2>2, <3>1, BandedApart
  <2> QED
    BY <1>4, <2>2, <2>3
<1>7. CASE m = k
  BY <1>1, <1>4, <1>7 DEF InRect
<1>8. CASE k < m
  <2>1. x < r[m].left \/ r[k].bottom <= r[m].top
    BY <1>8, BandedPair
  <2>2. r[m].left \in Int /\ r[m].top \in Int /\ r[m].left <= x /\ r[m].top <= y
    BY <1>4, RectAt DEF InRect
  <2> QED
    BY <1>1, <2>1, <2>2, SMTT(60)
<1> QED
  BY <1>5, <1>6, <1>7, <1>8

(* And it does not end further up, for a band ends where the next row is   *)
(* another one.                                                            *)
LEMMA SameBottom ==
    ASSUME NEW r, Formed(r), NEW s, Formed(s),
           \A x, y \in Int : Covered(s, x, y) <=> Covered(r, x, y),
           NEW k \in DOMAIN r, k \in DOMAIN s, r[k].top = s[k].top
    PROVE  ~(r[k].bottom < s[k].bottom)
<1> SUFFICES ASSUME r[k].bottom < s[k].bottom
             PROVE  FALSE
  OBVIOUS
<1>1. r \in Seq(Rects) /\ s \in Seq(Rects) /\ Banded(s)
  BY DEF Formed
<1> DEFINE y == r[k].bottom
<1>2. /\ y \in Int /\ y - 1 \in Int /\ s[k].top \in Int /\ s[k].bottom \in Int
      /\ s[k].top <= y - 1 /\ y - 1 < s[k].bottom /\ s[k].top <= y /\ y < s[k].bottom
  <2>1. /\ r[k].bottom \in Int /\ r[k].top \in Int /\ s[k].top \in Int /\ s[k].bottom \in Int
        /\ r[k].top < r[k].bottom
    BY <1>1, RectAt
  <2> QED
    BY <2>1
<1>3. Row(r, y - 1) # Row(r, y)
  BY DEF Formed, Joinless
<1> HIDE DEF y
<1>4. ASSUME NEW x \in Int
      PROVE  Covered(r, x, y - 1) <=> Covered(r, x, y)
  <2>1. Covered(s, x, y - 1) => Covered(s, x, y)
    BY <1>1, <1>2, BandRow
  <2>2. Covered(s, x, y) => Covered(s, x, y - 1)
    BY <1>1, <1>2, BandRow
  <2> QED
    BY <1>2, <2>1, <2>2
<1> QED
  BY <1>1, <1>2, <1>3, <1>4, RowSame

(* Nothing but the points covered decides what the array is.               *)
THEOREM Canonical ==
    ASSUME NEW r, Formed(r), NEW s, Formed(s),
           \A x, y \in Int : Covered(r, x, y) <=> Covered(s, x, y)
    PROVE  r = s
<1>1. r \in Seq(Rects) /\ Banded(r) /\ s \in Seq(Rects) /\ Banded(s)
  BY DEF Formed
<1>2. /\ DOMAIN r = 1 .. Len(r) /\ DOMAIN s = 1 .. Len(s) /\ Len(r) \in Nat /\ Len(s) \in Nat
  BY <1>1
<1> DEFINE C == {k \in DOMAIN r \cup DOMAIN s : ~(k \in DOMAIN r /\ k \in DOMAIN s /\ r[k] = s[k])}
<1>3. CASE C = {}
  <2>1. \A k : k \in DOMAIN r <=> k \in DOMAIN s
    BY <1>3
  <2>2. Len(r) = Len(s)
    <3> HIDE DEF C
    <3>1. ~(Len(r) < Len(s))
      <4>1. Len(r) + 1 \in DOMAIN s => Len(r) + 1 \in DOMAIN r
        BY <2>1
      <4> QED
        BY <1>2, <4>1
    <3>2. ~(Len(s) < Len(r))
      <4>1. Len(s) + 1 \in DOMAIN r => Len(s) + 1 \in DOMAIN s
        BY <2>1
      <4> QED
        BY <1>2, <4>1
    <3>3. \A n, m \in Nat : ~(n < m) /\ ~(m < n) => n = m
      OBVIOUS
    <3> QED
      BY <1>2, <3>1, <3>2, <3>3, Zenon
  <2>3. \A k \in DOMAIN r : r[k] = s[k]
    BY <1>3
  <2> QED
    BY <1>1, <1>2, <2>2, <2>3
<1>4. CASE C # {}
  <2>1. C \subseteq Nat
    BY <1>2
  <2>2. PICK k \in C : \A m \in C : k <= m
    <3> HIDE DEF C
    <3> QED
      BY <1>4, <2>1, SmallestOfNats
  <2>3. k \in DOMAIN r \cup DOMAIN s /\ k \in Nat /\ k >= 1
    BY <1>2
  <2>4. \A m \in 1 .. k - 1 : m \in DOMAIN r /\ m \in DOMAIN s /\ r[m] = s[m]
    <3> TAKE m \in 1 .. k - 1
    <3>1. m \in DOMAIN r \cup DOMAIN s /\ m < k /\ m \in Int
      BY <1>2, <2>3
    <3>2. ~(m \in C)
      <4> HIDE DEF C
      <4> QED
        BY <2>2, <2>3, <3>1
    <3> QED
      BY <3>1, <3>2
  <2>5. Alike(r, s, k) /\ Alike(s, r, k)
    BY <2>4 DEF Alike
  <2>6. k \in DOMAIN r /\ k \in DOMAIN s
    <3>1. k \in DOMAIN r => k \in DOMAIN s
      BY <1>1, <2>5, SameStart
    <3>2. k \in DOMAIN s => k \in DOMAIN r
      BY <1>1, <2>5, SameStart
    <3> QED
      BY <2>3, <3>1, <3>2
  <2>7. /\ r[k].left \in Int /\ r[k].top \in Int /\ r[k].right \in Int /\ r[k].bottom \in Int
        /\ s[k].left \in Int /\ s[k].top \in Int /\ s[k].right \in Int /\ s[k].bottom \in Int
    BY <1>1, <2>6, RectAt
  <2>8. r[k].top = s[k].top /\ r[k].left = s[k].left
    <3>1. s[k].top < r[k].top \/ (s[k].top = r[k].top /\ s[k].left <= r[k].left)
      BY <1>1, <2>5, <2>6, SameStart
    <3>2. r[k].top < s[k].top \/ (r[k].top = s[k].top /\ r[k].left <= s[k].left)
      BY <1>1, <2>5, <2>6, SameStart
    <3> QED
      BY <2>7, <3>1, <3>2
  <2>9. r[k].right = s[k].right
    <3>1. ~(r[k].right < s[k].right)
      BY <1>1, <2>5, <2>6, <2>8, SameRight
    <3>2. ~(s[k].right < r[k].right)
      BY <1>1, <2>5, <2>6, <2>8, SameRight
    <3> QED
      BY <2>7, <3>1, <3>2
  <2>10. r[k].bottom = s[k].bottom
    <3>1. ~(r[k].bottom < s[k].bottom)
      BY <1>1, <2>6, <2>8, SameBottom
    <3>2. ~(s[k].bottom < r[k].bottom)
      BY <1>1, <2>6, <2>8, SameBottom
    <3> QED
      BY <2>7, <3>1, <3>2
  <2>11. r[k] = s[k]
    <3>1. r[k] \in Rects /\ s[k] \in Rects
      BY <1>1, <2>6
    <3>2. r[k] = Rect(r[k].left, r[k].top, r[k].right, r[k].bottom)
      BY <3>1, RectTyped
    <3>3. s[k] = Rect(s[k].left, s[k].top, s[k].right, s[k].bottom)
      BY <3>1, RectTyped
    <3> QED
      BY <2>8, <2>9, <2>10, <3>2, <3>3
  <2> QED
    BY <2>6, <2>11
<1> QED
  BY <1>3, <1>4

-----------------------------------------------------------------------------
(* Where bands end.                                                        *)

(* Where the band of a rectangle ends.                                     *)
LEMMA BandEndLeast ==
    ASSUME NEW r \in Seq(Rects), NEW i \in DOMAIN r
    PROVE  LET e == BandEnd(r, i)
           IN  /\ e \in i + 1 .. Len(r) + 1
               /\ e = Len(r) + 1 \/ r[e].top # r[i].top
               /\ \A k \in i .. e - 1 : k \in DOMAIN r /\ r[k].top = r[i].top
<1> DEFINE C == {n \in i + 1 .. Len(r) + 1 : n = Len(r) + 1 \/ r[n].top # r[i].top}
           e == Min(C)
<1>1. i \in 1 .. Len(r) /\ i \in Int /\ Len(r) \in Nat /\ DOMAIN r = 1 .. Len(r)
  OBVIOUS
<1>2. Len(r) + 1 \in C
  BY <1>1
<1>3. C \subseteq Int /\ C # {} /\ i \in Int /\ \A n \in C : i <= n
  BY <1>1, <1>2
<1>4. \A n : n \in C <=> n \in i + 1 .. Len(r) + 1 /\ (n = Len(r) + 1 \/ r[n].top # r[i].top)
  OBVIOUS
<1> HIDE DEF C
<1>5. e \in C /\ \A n \in C : e <= n
  BY <1>3, MinIsLeast
<1> HIDE DEF e
<1>6. e \in i + 1 .. Len(r) + 1 /\ (e = Len(r) + 1 \/ r[e].top # r[i].top)
  BY <1>4, <1>5
<1>7. ASSUME NEW k \in i .. e - 1
      PROVE  k \in DOMAIN r /\ r[k].top = r[i].top
  <2>1. k \in Int /\ i <= k /\ k < e /\ e <= Len(r) + 1 /\ e \in Int
    BY <1>1, <1>6
  <2>2. ~(k \in C)
    BY <1>5, <2>1
  <2>3. k = i \/ k \in i + 1 .. Len(r) + 1
    BY <1>1, <2>1
  <2>4. k \in DOMAIN r
    BY <1>1, <2>1
  <2> QED
    BY <1>4, <2>2, <2>3, <2>4
<1> QED
  BY <1>6, <1>7 DEF BandEnd, e, C

(* There is only one such end.                                             *)
LEMMA BandEndIs ==
    ASSUME NEW r \in Seq(Rects), NEW i \in DOMAIN r, NEW e \in i + 1 .. Len(r) + 1,
           e = Len(r) + 1 \/ r[e].top # r[i].top,
           \A k \in i .. e - 1 : r[k].top = r[i].top
    PROVE  BandEnd(r, i) = e
<1> DEFINE m == BandEnd(r, i)
<1>1. /\ m \in i + 1 .. Len(r) + 1 /\ (m = Len(r) + 1 \/ r[m].top # r[i].top)
      /\ \A k \in i .. m - 1 : r[k].top = r[i].top
  BY BandEndLeast
<1> HIDE DEF m
<1>2. i \in Int /\ e \in Int /\ m \in Int /\ i < e /\ i < m /\ Len(r) \in Nat
      /\ e <= Len(r) + 1 /\ m <= Len(r) + 1
  BY <1>1
<1>3. ~(m < e)
  <2>1. m < e => m \in i .. e - 1 /\ m # Len(r) + 1
    BY <1>2
  <2> QED
    BY <1>1, <2>1
<1>4. ~(e < m)
  <2>1. e < m => e \in i .. m - 1 /\ e # Len(r) + 1
    BY <1>2
  <2> QED
    BY <1>1, <2>1
<1> QED
  BY <1>2, <1>3, <1>4 DEF m

(* Its rectangles have the same height, and all behind are below.          *)
LEMMA BandEndSplits ==
    ASSUME NEW r \in Seq(Rects), Banded(r), NEW i \in DOMAIN r
    PROVE  LET e == BandEnd(r, i)
           IN  /\ \A k \in i .. e - 1 : /\ k \in DOMAIN r /\ r[k].top = r[i].top
                                        /\ r[k].bottom = r[i].bottom
               /\ \A k \in e .. Len(r) : k \in DOMAIN r /\ r[i].bottom <= r[k].top
<1> DEFINE e == BandEnd(r, i)
<1>1. /\ e \in i + 1 .. Len(r) + 1 /\ (e = Len(r) + 1 \/ r[e].top # r[i].top)
      /\ \A k \in i .. e - 1 : k \in DOMAIN r /\ r[k].top = r[i].top
  BY BandEndLeast
<1> HIDE DEF e
<1>2. /\ i \in 1 .. Len(r) /\ i \in Int /\ Len(r) \in Nat /\ DOMAIN r = 1 .. Len(r)
      /\ e \in Int /\ i < e /\ e <= Len(r) + 1
  BY <1>1
<1>3. ASSUME NEW k \in i .. e - 1
      PROVE  r[k].bottom = r[i].bottom
  <2>1. k = i \/ i < k
    BY <1>2
  <2>2. CASE i < k
    <3>1. r[i].bottom = r[k].bottom \/ r[i].bottom <= r[k].top
      BY <1>1, <2>2, BandedPair
    <3>2. r[i].top \in Int /\ r[i].bottom \in Int /\ r[i].top < r[i].bottom
      BY RectAt
    <3> QED
      BY <1>1, <3>1, <3>2
  <2> QED
    BY <2>1, <2>2
<1>4. ASSUME NEW k \in e .. Len(r)
      PROVE  k \in DOMAIN r /\ r[i].bottom <= r[k].top
  <2>1. k \in DOMAIN r /\ e \in DOMAIN r /\ i < k /\ i < e /\ k \in Int
    BY <1>2
  <2>2. /\ r[i].top \in Int /\ r[i].bottom \in Int /\ r[e].top \in Int /\ r[k].top \in Int
        /\ r[e].bottom \in Int /\ r[e].top < r[e].bottom
    BY <2>1, RectAt
  <2>3. r[e].top # r[i].top
    BY <1>1, <1>2, <2>1
  <2>4. r[i].bottom <= r[e].top
    BY <2>1, <2>3, BandedPair
  <2>5. k = e \/ e < k
    BY <1>2
  <2>6. CASE e < k
    <3>1. r[e].top = r[k].top \/ r[e].bottom <= r[k].top
      BY <2>1, <2>6, BandedPair
    <3> QED
      BY <2>1, <2>2, <2>4, <3>1
  <2> QED
    BY <2>1, <2>4, <2>5, <2>6
<1> QED
  BY <1>1, <1>3, <1>4 DEF e

(* The band of a rectangle.                                                *)
LEMMA BandSlice ==
    ASSUME NEW r \in Seq(Rects), Banded(r), NEW i \in DOMAIN r
    PROVE  LET e == BandEnd(r, i)
               b == Band(r, i)
           IN  /\ Slice(b, r[i].top, r[i].bottom) /\ b # <<>> /\ Len(b) = e - i
               /\ b[1] = r[i]
               /\ \A k \in 1 .. e - i : b[k] = r[i + k - 1]
               /\ \A x : In(b, x) <=> Within(r, i, e - 1, x)
<1> DEFINE e == BandEnd(r, i)
           b == Band(r, i)
<1>1. /\ e \in i + 1 .. Len(r) + 1
  BY BandEndLeast
<1>2. \A k \in i .. e - 1 : k \in DOMAIN r /\ r[k].top = r[i].top /\ r[k].bottom = r[i].bottom
  BY BandEndSplits
<1>3. b = [k \in 1 .. e - i |-> r[i + k - 1]]
  BY DEF Band
<1> HIDE DEF e, b
<1>4. i \in Int /\ e \in Int /\ i >= 1 /\ i < e /\ e - i \in Nat /\ e - i >= 1
  BY <1>1
<1>5. \A k \in 1 .. e - i : i + k - 1 \in i .. e - 1
  BY <1>4
<1>6. \A n \in i .. e - 1 : n - i + 1 \in 1 .. e - i /\ i + (n - i + 1) - 1 = n
  BY <1>4
<1>7. \A k \in 1 .. e - i : b[k] = r[i + k - 1] /\ b[k] \in Rects
  BY <1>2, <1>3, <1>5
<1>8. b \in Seq(Rects) /\ Len(b) = e - i /\ DOMAIN b = 1 .. e - i
  <2>1. b \in [1 .. e - i -> Rects]
    BY <1>3, <1>7
  <2>2. ASSUME NEW n \in Nat, b \in [1 .. n -> Rects]
        PROVE  b \in Seq(Rects) /\ Len(b) = n /\ DOMAIN b = 1 .. n
    BY <2>2
  <2> QED
    BY <1>4, <2>1, <2>2
<1>9. Sorted(b)
  <2> SUFFICES ASSUME NEW k \in 1 .. e - i, NEW m \in 1 .. e - i, k < m
               PROVE  b[k].right < b[m].left
    BY <1>8 DEF Sorted
  <2> DEFINE p == i + k - 1
             q == i + m - 1
  <2>1. p \in DOMAIN r /\ q \in DOMAIN r /\ p < q /\ p \in i .. e - 1 /\ q \in i .. e - 1
    BY <1>2, <1>4, <1>5, SMTT(60)
  <2>2. b[k] = r[p] /\ b[m] = r[q]
    BY <1>7
  <2> HIDE DEF p, q
  <2>3. r[p].right < r[q].left \/ r[p].bottom <= r[q].top
    BY <2>1, BandedPair
  <2>4. r[p].bottom = r[i].bottom /\ r[q].top = r[i].top
    BY <1>2, <2>1
  <2>5. r[i].top \in Int /\ r[i].bottom \in Int /\ r[i].top < r[i].bottom
    BY RectAt
  <2> QED
    BY <2>2, <2>3, <2>4, <2>5
<1>10. \A k \in DOMAIN b : b[k].top = r[i].top /\ b[k].bottom = r[i].bottom
  BY <1>2, <1>5, <1>7, <1>8
<1>11. ASSUME NEW x
       PROVE  In(b, x) <=> Within(r, i, e - 1, x)
  <2>1. ASSUME In(b, x) PROVE Within(r, i, e - 1, x)
    <3>1. PICK k \in 1 .. e - i : Over(b[k], x)
      BY <1>8, <2>1 DEF In
    <3> QED
      BY <1>5, <1>7, <3>1 DEF Within
  <2>2. ASSUME Within(r, i, e - 1, x) PROVE In(b, x)
    <3>1. PICK n \in i .. e - 1 : Over(r[n], x)
      BY <2>2 DEF Within
    <3>2. n - i + 1 \in 1 .. e - i /\ b[n - i + 1] = r[i + (n - i + 1) - 1]
          /\ i + (n - i + 1) - 1 = n
      BY <1>6, <1>7
    <3> QED
      BY <1>8, <3>1, <3>2 DEF In
  <2> QED
    BY <2>1, <2>2
<1>12. b[1] = r[i]
  <2>1. 1 \in 1 .. e - i /\ i + 1 - 1 = i
    BY <1>4
  <2> QED
    BY <1>7, <2>1
<1>13. b # <<>>
  BY <1>4, <1>8
<1> QED
  BY <1>7, <1>8, <1>9, <1>10, <1>11, <1>12, <1>13 DEF Slice, e, b

(* Spans of a band between other heights.                                  *)
LEMMA SpansSlice ==
    ASSUME NEW t, NEW b, NEW s, Slice(s, t, b), NEW u \in Nat, NEW v \in Nat, u < v, v <= Height
    PROVE  LET p == Spans(s, u, v)
           IN  /\ Slice(p, u, v) /\ Len(p) = Len(s) /\ (p = <<>> <=> s = <<>>)
               /\ \A k \in DOMAIN s : p[k].left = s[k].left /\ p[k].right = s[k].right
               /\ \A x : In(p, x) <=> In(s, x)
<1> DEFINE p == Spans(s, u, v)
<1>1. s \in Seq(Rects) /\ Sorted(s) /\ Len(s) \in Nat /\ DOMAIN s = 1 .. Len(s)
  BY DEF Slice
<1>2. p = [k \in DOMAIN s |-> Rect(s[k].left, u, s[k].right, v)]
  BY DEF Spans
<1> HIDE DEF p
<1>3. ASSUME NEW k \in DOMAIN s
      PROVE  /\ p[k] \in Rects /\ p[k].left = s[k].left /\ p[k].right = s[k].right
             /\ p[k].top = u /\ p[k].bottom = v
  <2>1. s[k] \in Rects
    BY <1>1
  <2>2. s[k].left \in Nat /\ s[k].right \in Nat /\ s[k].left < s[k].right /\ s[k].right <= Width
    BY <2>1, RectTyped
  <2>3. p[k] = Rect(s[k].left, u, s[k].right, v)
    BY <1>2
  <2> QED
    BY <2>2, <2>3, RectMade
<1>4. p \in Seq(Rects) /\ Len(p) = Len(s) /\ DOMAIN p = DOMAIN s
  <2>1. p \in [1 .. Len(s) -> Rects]
    BY <1>1, <1>2, <1>3
  <2> QED
    BY <1>1, <1>2, <2>1
<1>5. Sorted(p)
  BY <1>1, <1>3, <1>4 DEF Sorted
<1>6. \A x : In(p, x) <=> In(s, x)
  BY <1>3, <1>4 DEF In, Over
<1>7. p = <<>> <=> s = <<>>
  <2>1. p = <<>> <=> Len(p) = 0
    BY <1>4
  <2>2. s = <<>> <=> Len(s) = 0
    BY <1>1
  <2> QED
    BY <1>4, <2>1, <2>2
<1> QED
  BY <1>3, <1>4, <1>5, <1>6, <1>7 DEF Slice, p

(* What a single band covers.                                              *)
LEMMA SliceCovered ==
    ASSUME NEW t, NEW b, NEW s, Slice(s, t, b), NEW x, NEW y
    PROVE  Covered(s, x, y) <=> t <= y /\ y < b /\ In(s, x)
BY DEF Slice, Covered, InRect, In, Over

(* A single band is in form.                                               *)
LEMMA SliceFormed ==
    ASSUME NEW t, NEW b, NEW s, Slice(s, t, b)
    PROVE  Formed(s)
<1>1. s \in Seq(Rects) /\ Sorted(s) /\ \A k \in DOMAIN s : s[k].top = t /\ s[k].bottom = b
  BY DEF Slice
<1>2. Banded(s)
  BY <1>1 DEF Banded, Sorted
<1>3. ASSUME NEW k \in DOMAIN s
      PROVE  Row(s, s[k].bottom - 1) # Row(s, s[k].bottom)
  <2>1. s[k].bottom = b /\ b \in Int /\ s[k].left \in Int /\ b - 1 \in Int
    BY <1>1, RectAt
  <2>2. Covered(s, s[k].left, b - 1)
    BY <1>1, <2>1, CornersCovered
  <2>3. ~Covered(s, s[k].left, b)
    BY <2>1, SliceCovered
  <2> QED
    BY <1>1, <2>1, <2>2, <2>3, RowSame
<1> QED
  BY <1>1, <1>2, <1>3 DEF Formed, Joinless

(* Two bands of the same columns have the same spans.                      *)
LEMMA SameSpans ==
    ASSUME NEW t, NEW b, NEW r, Slice(r, t, b), NEW u, NEW v, NEW s, Slice(s, u, v),
           \A x \in Int : In(r, x) <=> In(s, x), Height > 0
    PROVE  /\ Len(r) = Len(s)
           /\ \A k \in DOMAIN r : r[k].left = s[k].left /\ r[k].right = s[k].right
<1> DEFINE p == Spans(r, 0, 1)
           q == Spans(s, 0, 1)
<1>1. Height \in Nat /\ 0 \in Nat /\ 1 \in Nat /\ 0 < 1 /\ 1 <= Height
  BY RegionAssumption
<1>2. /\ Slice(p, 0, 1) /\ Len(p) = Len(r) /\ \A x : In(p, x) <=> In(r, x)
      /\ \A k \in DOMAIN r : p[k].left = r[k].left /\ p[k].right = r[k].right
  BY <1>1, SpansSlice
<1>3. /\ Slice(q, 0, 1) /\ Len(q) = Len(s) /\ \A x : In(q, x) <=> In(s, x)
      /\ \A k \in DOMAIN s : q[k].left = s[k].left /\ q[k].right = s[k].right
  BY <1>1, SpansSlice
<1> HIDE DEF p, q
<1>4. Formed(p) /\ Formed(q)
  BY <1>2, <1>3, SliceFormed
<1>5. ASSUME NEW x \in Int, NEW y \in Int
      PROVE  Covered(p, x, y) <=> Covered(q, x, y)
  BY <1>2, <1>3, SliceCovered
<1>6. p = q
  BY <1>4, <1>5, Canonical
<1>7. DOMAIN r = 1 .. Len(r) /\ DOMAIN s = 1 .. Len(s)
  BY DEF Slice
<1> QED
  BY <1>2, <1>3, <1>6, <1>7

-----------------------------------------------------------------------------
(* Arrays that are put one behind the other.                               *)

(* An array that is wholly above or below a height.                        *)
Above(rects, y) == \A k \in DOMAIN rects : rects[k].bottom <= y
Below(rects, y) == \A k \in DOMAIN rects : y <= rects[k].top

(* What such arrays cover is.                                              *)
LEMMA AboveBelow ==
    ASSUME NEW o \in Seq(Rects), NEW rest \in Seq(Rects), NEW y \in Int, Above(o, y), Below(rest, y),
           NEW x \in Int, NEW z \in Int
    PROVE  /\ z < y => ~Covered(rest, x, z)
           /\ z >= y => ~Covered(o, x, z)
<1>1. ASSUME NEW k \in DOMAIN rest, InRect(rest[k], x, z)
      PROVE  z >= y
  <2>1. rest[k].top \in Int /\ y <= rest[k].top /\ rest[k].top <= z
    BY <1>1, RectAt DEF Below, InRect
  <2> QED
    BY <2>1
<1>2. ASSUME NEW k \in DOMAIN o, InRect(o[k], x, z)
      PROVE  z < y
  <2>1. o[k].bottom \in Int /\ o[k].bottom <= y /\ z < o[k].bottom
    BY <1>2, RectAt DEF Above, InRect
  <2> QED
    BY <2>1
<1> QED
  BY <1>1, <1>2 DEF Covered

(* An array that covers what one above and one below cover.                *)
Covers(u, o, rest) == \A x, y \in Int : Covered(u, x, y) <=> Covered(o, x, y) \/ Covered(rest, x, y)

(* Its bands end where theirs do, and the one above has no band to be      *)
(* joined with the one below.                                              *)
EndsLike(u, o, rest, y) ==
    \A k \in DOMAIN u :
        \/ \E m \in DOMAIN rest : u[k].bottom = rest[m].bottom
        \/ /\ \E m \in DOMAIN o : u[k].bottom = o[m].bottom
           /\ u[k].bottom = y => Row(o, y - 1) # Row(rest, y)

(* Then it is joinless.                                                    *)
LEMMA JoinlessTwo ==
    ASSUME NEW o, Formed(o), NEW rest, Formed(rest), NEW y \in Int, Above(o, y), Below(rest, y),
           NEW u \in Seq(Rects), Covers(u, o, rest), EndsLike(u, o, rest, y)
    PROVE  Joinless(u)
<1>1. o \in Seq(Rects) /\ Joinless(o) /\ rest \in Seq(Rects) /\ Joinless(rest)
  BY DEF Formed
<1>2. ASSUME NEW z \in Int, z < y
      PROVE  Row(u, z) = Row(o, z)
  <2>1. \A x \in Int : Covered(u, x, z) <=> Covered(o, x, z)
    BY <1>1, <1>2, AboveBelow DEF Covers
  <2> QED
    BY <1>1, <2>1, RowSame
<1>3. ASSUME NEW z \in Int, z >= y
      PROVE  Row(u, z) = Row(rest, z)
  <2>1. \A x \in Int : Covered(u, x, z) <=> Covered(rest, x, z)
    BY <1>1, <1>3, AboveBelow DEF Covers
  <2> QED
    BY <1>1, <2>1, RowSame
<1>4. ASSUME NEW k \in DOMAIN u
      PROVE  Row(u, u[k].bottom - 1) # Row(u, u[k].bottom)
  <2> DEFINE b == u[k].bottom
  <2>1. CASE \E m \in DOMAIN rest : b = rest[m].bottom
    <3>1. PICK m \in DOMAIN rest : b = rest[m].bottom
      BY <2>1
    <3> HIDE DEF b
    <3>2. b \in Int /\ b - 1 \in Int /\ b >= y /\ b - 1 >= y
      <4>1. /\ rest[m].bottom \in Int /\ rest[m].top \in Int /\ rest[m].top < rest[m].bottom
            /\ y <= rest[m].top
        BY <1>1, RectAt DEF Below
      <4> QED
        BY <3>1, <4>1
    <3>3. Row(rest, b - 1) # Row(rest, b)
      BY <1>1, <3>1 DEF Joinless
    <3>4. Row(u, b - 1) # Row(u, b)
      BY <1>3, <3>2, <3>3
    <3> QED
      BY <3>4 DEF b
  <2>2. CASE ~(\E m \in DOMAIN rest : b = rest[m].bottom)
    <3>1. PICK m \in DOMAIN o : b = o[m].bottom
      BY <2>2 DEF EndsLike
    <3>2. b = y => Row(o, y - 1) # Row(rest, y)
      BY <2>2 DEF EndsLike
    <3> HIDE DEF b
    <3>3. b \in Int /\ b - 1 \in Int /\ b <= y /\ b - 1 < y
      <4>1. o[m].bottom \in Int /\ o[m].bottom <= y
        BY <1>1, RectAt DEF Above
      <4> QED
        BY <3>1, <4>1
    <3>4. Row(o, b - 1) # Row(o, b)
      BY <1>1, <3>1 DEF Joinless
    <3>5. CASE b = y
      <4>1. Row(u, b - 1) = Row(o, b - 1) /\ Row(u, b) = Row(rest, b)
        BY <1>2, <1>3, <3>3, <3>5
      <4> QED
        BY <3>2, <3>5, <4>1 DEF b
    <3>6. CASE b < y
      <4>1. Row(u, b - 1) = Row(o, b - 1) /\ Row(u, b) = Row(o, b)
        BY <1>2, <3>3, <3>6
      <4> QED
        BY <3>4, <4>1 DEF b
    <3> QED
      BY <3>3, <3>5, <3>6
  <2> QED
    BY <2>1, <2>2
<1> QED
  BY <1>4 DEF Joinless

(* One array behind the other.                                             *)
LEMMA Behind ==
    ASSUME NEW o \in Seq(Rects), Banded(o), NEW rest \in Seq(Rects), Banded(rest),
           NEW y \in Int, Above(o, y), Below(rest, y)
    PROVE  LET w == o \o rest
           IN  /\ w \in Seq(Rects) /\ Len(w) = Len(o) + Len(rest)
               /\ \A k \in 1 .. Len(o) : w[k] = o[k]
               /\ \A k \in 1 .. Len(rest) : w[Len(o) + k] = rest[k]
               /\ Banded(w) /\ Covers(w, o, rest)
<1> DEFINE w == o \o rest
           c == Len(o)
<1>1. /\ w \in Seq(Rects) /\ Len(w) = c + Len(rest) /\ c \in Nat /\ Len(rest) \in Nat
      /\ DOMAIN w = 1 .. c + Len(rest) /\ DOMAIN o = 1 .. c /\ DOMAIN rest = 1 .. Len(rest)
      /\ \A k \in 1 .. c : w[k] = o[k]
      /\ \A k \in 1 .. Len(rest) : w[c + k] = rest[k]
  OBVIOUS
<1> HIDE DEF w
<1>2. ASSUME NEW k \in DOMAIN w, k > c
      PROVE  k - c \in DOMAIN rest /\ w[k] = rest[k - c] /\ k - c \in Int
  <2>1. k - c \in 1 .. Len(rest) /\ c + (k - c) = k
    BY <1>1, <1>2
  <2> QED
    BY <1>1, <2>1
<1>3. ASSUME NEW k \in DOMAIN w, ~(k > c)
      PROVE  k \in DOMAIN o /\ w[k] = o[k]
  BY <1>1, <1>3
<1>4. ASSUME NEW k \in DOMAIN w, NEW m \in DOMAIN w, k < m
      PROVE  \/ w[k].top = w[m].top /\ w[k].bottom = w[m].bottom /\ w[k].right < w[m].left
             \/ w[k].bottom <= w[m].top
  <2>0. k \in Int /\ m \in Int
    BY <1>1
  <2>1. CASE k > c
    <3>1. m > c
      BY <1>1, <1>4, <2>0, <2>1
    <3>2. k - c < m - c
      BY <1>1, <1>4, <2>0
    <3> QED
      BY <1>2, <2>1, <3>1, <3>2, BandedPair
  <2>2. CASE ~(k > c) /\ m > c
    <3>1. w[k].bottom <= y /\ y <= w[m].top
      BY <1>2, <1>3, <2>2 DEF Above, Below
    <3>2. w[k].bottom \in Int /\ w[m].top \in Int
      BY <1>1, RectAt
    <3> QED
      BY <3>1, <3>2
  <2>3. CASE ~(m > c)
    <3>1. ~(k > c)
      BY <1>1, <1>4, <2>0, <2>3
    <3> QED
      BY <1>3, <1>4, <2>3, <3>1, BandedPair
  <2> QED
    BY <2>1, <2>2, <2>3
<1>5. ASSUME NEW x \in Int, NEW z \in Int
      PROVE  Covered(w, x, z) <=> Covered(o, x, z) \/ Covered(rest, x, z)
  <2>1. ASSUME NEW k \in DOMAIN w, InRect(w[k], x, z)
        PROVE  Covered(o, x, z) \/ Covered(rest, x, z)
    BY <1>2, <1>3, <2>1 DEF Covered
  <2>2. ASSUME NEW k \in DOMAIN o, InRect(o[k], x, z)
        PROVE  Covered(w, x, z)
    <3>1. k \in DOMAIN w /\ w[k] = o[k]
      BY <1>1
    <3> QED
      BY <2>2, <3>1 DEF Covered
  <2>3. ASSUME NEW k \in DOMAIN rest, InRect(rest[k], x, z)
        PROVE  Covered(w, x, z)
    <3>1. c + k \in DOMAIN w /\ w[c + k] = rest[k]
      BY <1>1
    <3> QED
      BY <2>3, <3>1 DEF Covered
  <2> QED
    BY <2>1, <2>2, <2>3 DEF Covered
<1> QED
  BY <1>1, <1>4, <1>5 DEF Banded, Covers, w

(* A band stays the same behind other bands.                               *)
LEMMA BandEndBehind ==
    ASSUME NEW o \in Seq(Rects), NEW rest \in Seq(Rects), rest # <<>>
    PROVE  BandEnd(o \o rest, Len(o) + 1) = Len(o) + BandEnd(rest, 1)
<1> DEFINE w == o \o rest
           c == Len(o)
           e == BandEnd(rest, 1)
<1>1. /\ w \in Seq(Rects) /\ Len(w) = c + Len(rest) /\ c \in Nat /\ Len(rest) \in Nat
      /\ DOMAIN w = 1 .. c + Len(rest) /\ DOMAIN rest = 1 .. Len(rest)
      /\ \A k \in 1 .. Len(rest) : w[c + k] = rest[k]
      /\ Len(rest) >= 1 /\ 1 \in DOMAIN rest
  OBVIOUS
<1>2. /\ e \in 1 + 1 .. Len(rest) + 1
      /\ e = Len(rest) + 1 \/ rest[e].top # rest[1].top
      /\ \A k \in 1 .. e - 1 : k \in DOMAIN rest /\ rest[k].top = rest[1].top
  BY <1>1, BandEndLeast
<1> HIDE DEF e, w
<1>3. c + 1 \in DOMAIN w /\ c + e \in (c + 1) + 1 .. Len(w) + 1 /\ w[c + 1] = rest[1]
  BY <1>1, <1>2
<1>4. c + e = Len(w) + 1 \/ w[c + e].top # w[c + 1].top
  <2>1. e # Len(rest) + 1 => w[c + e] = rest[e]
    BY <1>1, <1>2
  <2> QED
    BY <1>1, <1>2, <1>3, <2>1, SMTT(60)
<1>5. ASSUME NEW k \in c + 1 .. (c + e) - 1
      PROVE  w[k].top = w[c + 1].top
  <2>1. k - c \in 1 .. e - 1 /\ c + (k - c) = k
    BY <1>1, <1>2
  <2>2. k - c \in DOMAIN rest /\ rest[k - c].top = rest[1].top
    BY <1>2, <2>1
  <2>3. w[c + (k - c)] = rest[k - c]
    BY <1>1, <2>2
  <2> QED
    BY <1>3, <2>1, <2>2, <2>3
<1> HIDE DEF c
<1>6. BandEnd(w, c + 1) = c + e
  BY <1>1, <1>3, <1>4, <1>5, BandEndIs, Zenon
<1> QED
  BY <1>6 DEF w, c, e

-----------------------------------------------------------------------------
(* REGION_Coalesce: the last band of an array.                             *)

(* The rectangles behind p are a band, and the others are above it.        *)
LastBand(o, p) ==
    /\ p \in Nat /\ p < Len(o)
    /\ \A k \in p + 1 .. Len(o) : o[k].top = o[p + 1].top /\ o[k].bottom = o[p + 1].bottom
    /\ \A k \in 1 .. p : o[k].bottom <= o[p + 1].top

(* That band, as REGION_Coalesce sees it.                                  *)
LEMMA LastBandIs ==
    ASSUME NEW o \in Seq(Rects), Banded(o), NEW p, LastBand(o, p)
    PROVE  /\ BandEnd(o, p + 1) = Len(o) + 1 /\ p + 1 \in DOMAIN o
           /\ Slice(Band(o, p + 1), o[p + 1].top, o[p + 1].bottom)
           /\ Len(Band(o, p + 1)) = Len(o) - p
           /\ \A k \in 1 .. Len(o) - p : Band(o, p + 1)[k] = o[p + k]
           /\ \A x : In(Band(o, p + 1), x) <=> Within(o, p + 1, Len(o), x)
<1> DEFINE i == p + 1
           c == Len(o)
<1>1. p \in Nat /\ c \in Nat /\ p < c /\ i \in DOMAIN o /\ i \in Int
      /\ c + 1 \in i + 1 .. c + 1 /\ \A k \in i .. (c + 1) - 1 : o[k].top = o[i].top
  BY DEF LastBand
<1>2. (c + 1) - i = c - p /\ (c + 1) - 1 = c
  BY <1>1
<1>3. \A k \in 1 .. c - p : i + k - 1 = p + k
  BY <1>1
<1> HIDE DEF i
<1>4. BandEnd(o, i) = c + 1
  BY <1>1, BandEndIs
<1> HIDE DEF c
<1>5. /\ Slice(Band(o, i), o[i].top, o[i].bottom) /\ Len(Band(o, i)) = (c + 1) - i
      /\ \A k \in 1 .. (c + 1) - i : Band(o, i)[k] = o[i + k - 1]
      /\ \A x : In(Band(o, i), x) <=> Within(o, i, (c + 1) - 1, x)
  BY <1>1, <1>4, BandSlice, SMTT(60)
<1>6. \A k \in 1 .. c - p : Band(o, i)[k] = o[p + k]
  BY <1>2, <1>3, <1>5
<1>7. \A x : In(Band(o, i), x) <=> Within(o, i, c, x)
  BY <1>2, <1>5
<1> QED
  BY <1>1, <1>2, <1>4, <1>5, <1>6, <1>7, Zenon DEF i, c

(* REGION_Coalesce leaves two bands apart only if there is a gap between   *)
(* them or their rows are not the same.                                    *)
LEMMA Unjoined ==
    ASSUME NEW o \in Seq(Rects), Banded(o), NEW rest \in Seq(Rects), Banded(rest), rest # <<>>,
           NEW y \in Int, Above(o, y), Below(rest, y), NEW p, LastBand(o, p),
           NEW k \in DOMAIN o, o[k].bottom = y, Row(o, y - 1) = Row(rest, y)
    PROVE  Joined(o \o rest, p, Len(o))
<1> DEFINE w == o \o rest
           c == Len(o)
           i == p + 1
           e == BandEnd(rest, 1)
<1>1. /\ p \in Nat /\ c \in Nat /\ p < c /\ DOMAIN o = 1 .. c /\ DOMAIN rest = 1 .. Len(rest)
      /\ Len(rest) \in Nat /\ Len(rest) >= 1 /\ 1 \in DOMAIN rest /\ k \in 1 .. c
      /\ i \in DOMAIN o /\ i \in Int
  BY DEF LastBand
<1>2. /\ \A m \in i .. c : o[m].top = o[i].top /\ o[m].bottom = o[i].bottom
      /\ \A m \in 1 .. p : o[m].bottom <= o[i].top
  BY DEF LastBand
<1>3. o[i].top \in Int /\ o[i].bottom \in Int /\ o[i].top < o[i].bottom /\ o[i].bottom <= y
  BY <1>1, RectAt DEF Above
<1>4. o[i].bottom = y
  <2>1. CASE k <= p
    <3>1. k \in 1 .. p
      BY <1>1, <2>1
    <3> HIDE DEF i
    <3> QED
      BY <1>2, <1>3, <3>1
  <2>2. CASE ~(k <= p)
    <3>1. k \in i .. c
      BY <1>1, <2>2
    <3> HIDE DEF i
    <3> QED
      BY <1>2, <3>1
  <2> QED
    BY <2>1, <2>2
<1> HIDE DEF i
<1>5. \A x \in Int : Covered(o, x, y - 1) <=> Covered(rest, x, y)
  BY RowSame
<1>6. rest[1].top = y
  <2>1. Covered(o, o[k].left, y - 1) /\ o[k].left \in Int
    BY CornersCovered, RectAt
  <2>2. Covered(rest, o[k].left, y)
    BY <1>5, <2>1
  <2>3. PICK m \in DOMAIN rest : InRect(rest[m], o[k].left, y)
    BY <2>2 DEF Covered
  <2>4. /\ rest[m].top \in Int /\ rest[m].top <= y /\ y <= rest[m].top
        /\ rest[1].top \in Int /\ rest[1].bottom \in Int /\ rest[1].top < rest[1].bottom
        /\ y <= rest[1].top
    BY <1>1, <2>3, RectAt DEF Below, InRect
  <2>5. m = 1 \/ 1 < m
    BY <1>1
  <2>6. CASE 1 < m
    <3>1. rest[1].top = rest[m].top \/ rest[1].bottom <= rest[m].top
      BY <1>1, <2>6, BandedPair
    <3> QED
      BY <2>4, <3>1
  <2> QED
    BY <2>4, <2>5, <2>6
<1>7. /\ Slice(Band(o, i), o[i].top, o[i].bottom) /\ Len(Band(o, i)) = c - p
      /\ \A n \in 1 .. c - p : Band(o, i)[n] = o[p + n]
      /\ \A x : In(Band(o, i), x) <=> Within(o, i, c, x)
  BY LastBandIs DEF i
<1>8. /\ Slice(Band(rest, 1), rest[1].top, rest[1].bottom) /\ Len(Band(rest, 1)) = e - 1
      /\ \A n \in 1 .. e - 1 : Band(rest, 1)[n] = rest[1 + n - 1]
      /\ \A x : In(Band(rest, 1), x) <=> Within(rest, 1, e - 1, x)
  BY <1>1, BandSlice
<1>9. e \in 1 + 1 .. Len(rest) + 1
  BY <1>1, BandEndLeast
<1>10. /\ \A n \in 1 .. e - 1 : n \in DOMAIN rest /\ rest[n].top = rest[1].top
                                /\ rest[n].bottom = rest[1].bottom
       /\ \A n \in e .. Len(rest) : n \in DOMAIN rest /\ rest[1].bottom <= rest[n].top
  BY <1>1, BandEndSplits
<1> HIDE DEF e
<1>11. ASSUME NEW x \in Int
       PROVE  Covered(o, x, y - 1) <=> In(Band(o, i), x)
  <2>1. ASSUME Covered(o, x, y - 1)
        PROVE  Within(o, i, c, x)
    <3>1. PICK m \in DOMAIN o : InRect(o[m], x, y - 1)
      BY <2>1 DEF Covered
    <3>2. o[m].bottom \in Int /\ y - 1 < o[m].bottom /\ Over(o[m], x)
      BY <3>1, RectAt DEF InRect, Over
    <3>3. ~(m \in 1 .. p)
      BY <1>2, <1>3, <1>4, <3>2
    <3>4. m \in i .. c
      BY <1>1, <3>3 DEF i
    <3> QED
      BY <3>2, <3>4 DEF Within
  <2>2. ASSUME Within(o, i, c, x)
        PROVE  Covered(o, x, y - 1)
    <3>1. PICK m \in i .. c : Over(o[m], x)
      BY <2>2 DEF Within
    <3>2. o[m].top = o[i].top /\ o[m].bottom = y /\ m \in DOMAIN o
      BY <1>1, <1>2, <1>4
    <3>3. InRect(o[m], x, y - 1)
      BY <1>3, <1>4, <3>1, <3>2 DEF InRect, Over
    <3> QED
      BY <3>2, <3>3 DEF Covered
  <2> QED
    BY <1>7, <2>1, <2>2
<1>12. ASSUME NEW x \in Int
       PROVE  Covered(rest, x, y) <=> In(Band(rest, 1), x)
  <2>0. rest[1].bottom \in Int /\ y < rest[1].bottom
    BY <1>1, <1>6, RectAt
  <2>1. ASSUME Covered(rest, x, y)
        PROVE  Within(rest, 1, e - 1, x)
    <3>1. PICK m \in DOMAIN rest : InRect(rest[m], x, y)
      BY <2>1 DEF Covered
    <3>2. rest[m].top \in Int /\ rest[m].top <= y /\ Over(rest[m], x)
      BY <3>1, RectAt DEF InRect, Over
    <3>3. ~(m \in e .. Len(rest))
      BY <1>10, <2>0, <3>2
    <3>4. m \in 1 .. e - 1
      BY <1>1, <1>9, <3>3
    <3> QED
      BY <3>2, <3>4 DEF Within
  <2>2. ASSUME Within(rest, 1, e - 1, x)
        PROVE  Covered(rest, x, y)
    <3>1. PICK m \in 1 .. e - 1 : Over(rest[m], x)
      BY <2>2 DEF Within
    <3>2. InRect(rest[m], x, y) /\ m \in DOMAIN rest
      BY <1>6, <1>10, <2>0, <3>1 DEF InRect, Over
    <3> QED
      BY <3>2 DEF Covered
  <2> QED
    BY <1>8, <2>1, <2>2
<1>13. \A x \in Int : In(Band(o, i), x) <=> In(Band(rest, 1), x)
  BY <1>5, <1>11, <1>12
<1>14. Height > 0
  <2>1. o[i] \in Rects
    BY <1>1
  <2>2. o[i].top \in Nat /\ o[i].bottom <= Height /\ o[i].top < o[i].bottom /\ o[i].bottom \in Nat
    BY <2>1, RectTyped
  <2> QED
    BY <2>2, RegionAssumption, SMTT(60)
<1>15. /\ c - p = e - 1
       /\ \A n \in 1 .. c - p : /\ o[p + n].left = rest[n].left
                                /\ o[p + n].right = rest[n].right
  <2> DEFINE r == Band(o, i)
             s == Band(rest, 1)
  <2>1. Slice(r, o[i].top, o[i].bottom) /\ Slice(s, rest[1].top, rest[1].bottom)
    BY <1>7, <1>8
  <2>2. \A x \in Int : In(r, x) <=> In(s, x)
    BY <1>13
  <2>3. Len(r) = c - p /\ Len(s) = e - 1 /\ DOMAIN r = 1 .. c - p
    BY <1>7, <1>8 DEF Slice
  <2>4. \A n \in 1 .. c - p : r[n] = o[p + n]
    BY <1>7
  <2>5. \A n \in 1 .. e - 1 : s[n] = rest[n]
    BY <1>8
  <2> HIDE DEF r, s
  <2>6. Len(r) = Len(s)
    BY <1>14, <2>1, <2>2, SameSpans
  <2>7. \A n \in DOMAIN r : r[n].left = s[n].left /\ r[n].right = s[n].right
    BY <1>14, <2>1, <2>2, SameSpans
  <2> QED
    BY <2>3, <2>4, <2>5, <2>6, <2>7
<1>16. BandEnd(w, c + 1) = c + 1 + (c - p)
  <2>1. BandEnd(w, c + 1) = c + e
    BY BandEndBehind DEF e
  <2>2. c + e = c + 1 + (c - p)
    <3>1. e \in Int /\ p \in Int /\ c \in Int /\ c - p = e - 1
      BY <1>1, <1>9, <1>15
    <3> HIDE DEF c
    <3> QED
      BY <3>1
  <2> QED
    BY <2>1, <2>2, Zenon
<1>17. /\ \A n \in 1 .. c : w[n] = o[n]
       /\ \A n \in 1 .. Len(rest) : w[c + n] = rest[n]
  OBVIOUS
<1> HIDE DEF w
<1>18. w[p + 1].bottom = w[c + 1].top
  BY <1>1, <1>4, <1>6, <1>17 DEF i
<1>19. ASSUME NEW n \in 1 .. c - p
       PROVE  w[p + n].left = w[c + n].left /\ w[p + n].right = w[c + n].right
  <2>1. p + n \in 1 .. c /\ n \in 1 .. Len(rest)
    BY <1>1, <1>9, <1>15, SMTT(60)
  <2> QED
    BY <1>15, <1>17, <2>1
<1> HIDE DEF c
<1>20. c - p # 0
  BY <1>1
<1>21. Joined(w, p, c)
  BY <1>16, <1>18, <1>19, <1>20 DEF Joined
<1> QED
  BY <1>21 DEF w, c

(* What two bands joined are: the rectangles of the lower band, from the   *)
(* top of the upper one.                                                   *)
LEMMA JoinIs ==
    ASSUME NEW o \in Seq(Rects), Banded(o), NEW rest \in Seq(Rects), Banded(rest), rest # <<>>,
           NEW y \in Int, Above(o, y), Below(rest, y), NEW p, LastBand(o, p),
           Joined(o \o rest, p, Len(o))
    PROVE  LET u == Join(o \o rest, p, Len(o))
               n == Len(o) - p
           IN  /\ u \in Seq(Rects) /\ Len(u) = p + Len(rest) /\ n \in 1 .. Len(rest)
               /\ \A k \in 1 .. p : u[k] = o[k]
               /\ \A k \in 1 .. Len(rest) :
                     /\ u[p + k].left = rest[k].left /\ u[p + k].right = rest[k].right
                     /\ u[p + k].bottom = rest[k].bottom
                     /\ k <= n => /\ u[p + k].top = o[p + 1].top
                                  /\ rest[k].top = o[p + 1].bottom
                                  /\ rest[k].bottom = rest[1].bottom
                                  /\ o[p + k].top = o[p + 1].top /\ o[p + k].bottom = o[p + 1].bottom
                                  /\ o[p + k].left = rest[k].left /\ o[p + k].right = rest[k].right
                     /\ k > n => u[p + k] = rest[k] /\ rest[1].bottom <= rest[k].top
<1> DEFINE w == o \o rest
           c == Len(o)
           n == c - p
           e == BandEnd(rest, 1)
           u == Join(w, p, c)
           l == Len(rest)
<1>1. /\ p \in Nat /\ c \in Nat /\ p < c /\ DOMAIN o = 1 .. c /\ DOMAIN rest = 1 .. l
      /\ l \in Nat /\ l >= 1 /\ 1 \in DOMAIN rest
      /\ p + 1 \in DOMAIN o /\ n \in Nat /\ n >= 1
  BY DEF LastBand
<1>2. /\ \A k \in p + 1 .. c : o[k].top = o[p + 1].top /\ o[k].bottom = o[p + 1].bottom
  BY DEF LastBand
<1>3. e \in 1 + 1 .. l + 1
  BY <1>1, BandEndLeast
<1>4. /\ \A k \in 1 .. e - 1 : k \in DOMAIN rest /\ rest[k].top = rest[1].top
                                /\ rest[k].bottom = rest[1].bottom
      /\ \A k \in e .. l : k \in DOMAIN rest /\ rest[1].bottom <= rest[k].top
  BY <1>1, BandEndSplits
<1>5. BandEnd(w, c + 1) = c + e
  BY BandEndBehind
<1>6. /\ BandEnd(w, c + 1) = c + 1 + n
      /\ w[p + 1].bottom = w[c + 1].top
      /\ \A k \in 1 .. n : w[p + k].left = w[c + k].left /\ w[p + k].right = w[c + k].right
  BY DEF Joined
<1>7. /\ \A k \in 1 .. c : w[k] = o[k]
      /\ \A k \in 1 .. l : w[c + k] = rest[k]
      /\ Len(w) = c + l
  OBVIOUS
<1> HIDE DEF e
<1>8. e - 1 = n /\ n <= l
  <2>1. c + e = c + 1 + n
    BY <1>5, <1>6
  <2> HIDE DEF n, c, l
  <2> QED
    BY <1>1, <1>3, <2>1
<1>9. u = [k \in 1 .. Len(w) - n |->
              CASE k <= p -> w[k]
                [] p < k /\ k <= c -> [w[k] EXCEPT !.bottom = w[c + 1].bottom]
                [] k > c -> w[k + n]]
  BY DEF Join
<1> HIDE DEF w, u, l
<1>10. Len(w) - n = p + l
  BY <1>1, <1>7
<1>11. ASSUME NEW k \in 1 .. p
       PROVE  u[k] = o[k] /\ u[k] \in Rects
  <2>1. k \in 1 .. p + l /\ k <= p /\ k \in 1 .. c
    BY <1>1
  <2>2. u[k] = w[k]
    BY <1>1, <1>9, <1>10, <2>1, SMTT(60)
  <2> QED
    BY <1>1, <1>7, <2>1, <2>2
<1>12. ASSUME NEW k \in 1 .. n
       PROVE  /\ u[p + k] \in Rects
              /\ u[p + k].left = rest[k].left /\ u[p + k].right = rest[k].right
              /\ u[p + k].bottom = rest[k].bottom /\ rest[k].bottom = rest[1].bottom
              /\ u[p + k].top = o[p + 1].top /\ rest[k].top = o[p + 1].bottom
              /\ o[p + k].top = o[p + 1].top /\ o[p + k].bottom = o[p + 1].bottom
              /\ o[p + k].left = rest[k].left /\ o[p + k].right = rest[k].right
  <2> DEFINE m == p + k
             b == rest[1].bottom
  <2>1. /\ m \in 1 .. p + l /\ ~(m <= p) /\ p < m /\ m <= c /\ m \in p + 1 .. c /\ k \in 1 .. l
        /\ m \in DOMAIN o /\ ~(m > c) /\ k \in 1 .. e - 1 /\ p + 1 \in 1 .. c /\ 1 \in 1 .. l
    BY <1>1, <1>8
  <2>2. u[m] = [w[m] EXCEPT !.bottom = w[c + 1].bottom]
    BY <1>1, <1>9, <1>10, <2>1
  <2>3. w[m] = o[m] /\ w[c + k] = rest[k] /\ w[c + 1] = rest[1] /\ w[p + 1] = o[p + 1]
    BY <1>1, <1>7, <2>1
  <2>4. u[m] = [o[m] EXCEPT !.bottom = b]
    BY <2>2, <2>3
  <2>5. /\ rest[k].top = rest[1].top /\ rest[k].bottom = b /\ k \in DOMAIN rest
    BY <1>4, <2>1
  <2>6. o[m].left = rest[k].left /\ o[m].right = rest[k].right /\ o[p + 1].bottom = rest[1].top
    BY <1>6, <2>3
  <2>7. o[m].top = o[p + 1].top /\ o[m].bottom = o[p + 1].bottom
    BY <1>2, <2>1
  <2>8. o[m] \in Rects /\ rest[1] \in Rects
    BY <1>1, <2>1
  <2> HIDE DEF b, m
  <2>9. b \in Nat /\ b <= Height /\ o[m].bottom < b
    <3>1. /\ rest[1].bottom \in Nat /\ rest[1].bottom <= Height /\ rest[1].top < rest[1].bottom
      BY <2>8, RectTyped
    <3> QED
      BY <2>6, <2>7, <3>1 DEF b
  <2>10. /\ o[m].left \in Nat /\ o[m].top \in Nat /\ o[m].right \in Nat /\ o[m].bottom \in Nat
         /\ o[m].left < o[m].right /\ o[m].top < o[m].bottom /\ o[m].right <= Width
         /\ o[m] = Rect(o[m].left, o[m].top, o[m].right, o[m].bottom)
    BY <2>8, RectTyped
  <2>11. u[m] = Rect(o[m].left, o[m].top, o[m].right, b)
    BY <2>4, <2>10 DEF Rect
  <2>12. o[m].top < b
    BY <2>9, <2>10
  <2>13. /\ u[m] \in Rects /\ u[m].left = o[m].left /\ u[m].top = o[m].top
         /\ u[m].right = o[m].right /\ u[m].bottom = b
    <3> DEFINE r == Rect(o[m].left, o[m].top, o[m].right, b)
    <3>1. /\ r \in Rects /\ r.left = o[m].left /\ r.top = o[m].top
          /\ r.right = o[m].right /\ r.bottom = b
      BY <2>9, <2>10, <2>12, RectMade, SMTT(60)
    <3> HIDE DEF r
    <3>2. u[m] = r
      BY <2>11 DEF r
    <3> QED
      BY <3>1, <3>2
  <2> QED
    BY <2>5, <2>6, <2>7, <2>13 DEF b, m
<1>13. ASSUME NEW k \in 1 .. l, k > n
       PROVE  u[p + k] = rest[k] /\ rest[1].bottom <= rest[k].top /\ u[p + k] \in Rects
  <2>1. /\ p + k \in 1 .. p + l /\ ~(p + k <= p) /\ ~(p + k <= c) /\ p + k > c
        /\ p + k + n = c + k /\ k \in e .. l
    BY <1>1, <1>3, <1>8, <1>13
  <2>2. u[p + k] = w[p + k + n]
    BY <1>1, <1>9, <1>10, <2>1
  <2>3. u[p + k] = rest[k]
    BY <1>7, <2>1, <2>2
  <2> QED
    BY <1>1, <1>4, <2>1, <2>3
<1>14. u \in Seq(Rects) /\ Len(u) = p + l
  <2>1. ASSUME NEW k \in 1 .. p + l
        PROVE  u[k] \in Rects
    <3>1. CASE k <= p
      BY <1>11, <3>1
    <3>2. CASE ~(k <= p)
      <4>1. k - p \in 1 .. l /\ p + (k - p) = k
        BY <1>1, <3>2
      <4>2. k - p \in 1 .. n \/ k - p > n
        BY <1>1, <4>1
      <4> QED
        BY <1>12, <1>13, <4>1, <4>2
    <3> QED
      BY <3>1, <3>2
  <2>2. u \in [1 .. p + l -> Rects]
    BY <1>9, <1>10, <2>1
  <2>3. p + l \in Nat
    BY <1>1
  <2>4. ASSUME NEW m \in Nat, u \in [1 .. m -> Rects]
        PROVE  u \in Seq(Rects) /\ Len(u) = m
    BY <2>4
  <2> QED
    BY <2>2, <2>3, <2>4
<1>15. n \in 1 .. l
  BY <1>1, <1>8
<1>16. ASSUME NEW k \in 1 .. l
       PROVE  k \in 1 .. n \/ k > n
  BY <1>1
<1>17. ASSUME NEW k \in 1 .. l
       PROVE  /\ u[p + k].left = rest[k].left /\ u[p + k].right = rest[k].right
              /\ u[p + k].bottom = rest[k].bottom
              /\ k <= n => /\ u[p + k].top = o[p + 1].top
                           /\ rest[k].top = o[p + 1].bottom
                           /\ rest[k].bottom = rest[1].bottom
                           /\ o[p + k].top = o[p + 1].top /\ o[p + k].bottom = o[p + 1].bottom
                           /\ o[p + k].left = rest[k].left /\ o[p + k].right = rest[k].right
              /\ k > n => u[p + k] = rest[k] /\ rest[1].bottom <= rest[k].top
  <2>1. CASE k \in 1 .. n
    <3>1. ~(k > n)
      BY <1>1, <2>1
    <3> QED
      BY <1>12, <2>1, <3>1
  <2>2. CASE k > n
    <3>1. ~(k <= n)
      BY <1>1, <2>2
    <3> QED
      BY <1>13, <2>2, <3>1
  <2> QED
    BY <1>16, <2>1, <2>2
<1> QED
  BY <1>11, <1>14, <1>15, <1>17 DEF u, w, l

(* The array is in bands still, and covers the same.                       *)
LEMMA JoinFormed ==
    ASSUME NEW o, Formed(o), NEW rest, Formed(rest), rest # <<>>,
           NEW y \in Int, Above(o, y), Below(rest, y), NEW p, LastBand(o, p),
           Joined(o \o rest, p, Len(o))
    PROVE  LET u == Join(o \o rest, p, Len(o))
           IN  Formed(u) /\ Covers(u, o, rest)
<1> DEFINE c == Len(o)
           n == c - p
           l == Len(rest)
           u == Join(o \o rest, p, c)
           first == o[p + 1]
           b == rest[1].bottom
<1>1. o \in Seq(Rects) /\ Banded(o) /\ rest \in Seq(Rects) /\ Banded(rest)
  BY DEF Formed
<1>2. /\ p \in Nat /\ c \in Nat /\ p < c /\ DOMAIN o = 1 .. c /\ DOMAIN rest = 1 .. l
      /\ l \in Nat /\ l >= 1 /\ p + 1 \in DOMAIN o /\ 1 \in DOMAIN rest
      /\ \A k \in 1 .. p : o[k].bottom <= first.top
  BY <1>1 DEF LastBand
<1>3. u \in Seq(Rects) /\ Len(u) = p + l /\ n \in 1 .. l /\ \A k \in 1 .. p : u[k] = o[k]
  BY <1>1, JoinIs
<1>4. \A k \in 1 .. l :
         /\ u[p + k].left = rest[k].left /\ u[p + k].right = rest[k].right
         /\ u[p + k].bottom = rest[k].bottom
         /\ k <= n => /\ u[p + k].top = first.top /\ rest[k].top = first.bottom
                      /\ rest[k].bottom = b
                      /\ o[p + k].top = first.top /\ o[p + k].bottom = first.bottom
                      /\ o[p + k].left = rest[k].left /\ o[p + k].right = rest[k].right
         /\ k > n => u[p + k] = rest[k] /\ b <= rest[k].top
  BY <1>1, JoinIs
<1>5. /\ first.top \in Int /\ first.bottom \in Int /\ first.top < first.bottom
      /\ first.bottom <= y /\ b \in Int /\ y < b
  <2>1. rest[1].top \in Int /\ rest[1].bottom \in Int /\ rest[1].top < rest[1].bottom
        /\ y <= rest[1].top
    BY <1>1, <1>2, RectAt DEF Below
  <2>2. first.top \in Int /\ first.bottom \in Int /\ first.top < first.bottom /\ first.bottom <= y
    BY <1>1, <1>2, RectAt DEF Above
  <2> QED
    BY <2>1, <2>2
<1> HIDE DEF u, first, b, l
<1>6. DOMAIN u = 1 .. p + l
  BY <1>3
<1>7. ASSUME NEW k \in DOMAIN u
      PROVE  \/ k \in 1 .. p
             \/ k - p \in 1 .. l /\ k = p + (k - p) /\ k - p \in Int
  BY <1>2, <1>6
<1>8. ASSUME NEW k \in 1 .. l
      PROVE  /\ rest[k].top \in Int /\ rest[k].bottom \in Int /\ rest[k].top < rest[k].bottom
             /\ y <= rest[k].top /\ k \in DOMAIN rest
             /\ k <= n \/ k > n
  BY <1>1, <1>2, RectAt DEF Below
<1>9. ASSUME NEW k \in 1 .. p
      PROVE  /\ o[k].top \in Int /\ o[k].bottom \in Int /\ o[k].bottom <= first.top /\ k \in DOMAIN o
             /\ k \in Int /\ k <= p
  BY <1>1, <1>2, RectAt
<1>10. Banded(u)
  <2> SUFFICES ASSUME NEW k \in DOMAIN u, NEW m \in DOMAIN u, k < m
               PROVE  \/ /\ u[k].top = u[m].top /\ u[k].bottom = u[m].bottom
                         /\ u[k].right < u[m].left
                      \/ u[k].bottom <= u[m].top
    BY DEF Banded
  <2>1. k \in Int /\ m \in Int
    BY <1>6
  <2>2. CASE m \in 1 .. p
    <3>1. k \in 1 .. p
      BY <1>2, <1>6, <2>1, <2>2
    <3>2. u[k] = o[k] /\ u[m] = o[m] /\ k \in DOMAIN o /\ m \in DOMAIN o
      BY <1>3, <1>9, <2>2, <3>1
    <3> QED
      BY <1>1, <3>2, BandedPair
  <2>3. CASE k \in 1 .. p /\ ~(m \in 1 .. p)
    <3>1. m - p \in 1 .. l /\ m = p + (m - p)
      BY <1>7, <2>3
    <3>2. CASE m - p <= n
      <4>1. u[m].top = first.top
        BY <1>4, <3>1, <3>2
      <4> QED
        BY <1>3, <1>9, <2>3, <4>1
    <3>3. CASE m - p > n
      <4>1. u[m] = rest[m - p] /\ y <= u[m].top /\ u[m].top \in Int
        BY <1>4, <1>8, <3>1, <3>3
      <4>2. u[k] = o[k] /\ o[k].bottom <= y /\ o[k].bottom \in Int
        BY <1>3, <1>9, <2>3 DEF Above
      <4> QED
        BY <4>1, <4>2
    <3> QED
      BY <1>8, <3>1, <3>2, <3>3
  <2>4. CASE ~(k \in 1 .. p) /\ ~(m \in 1 .. p)
    <3> DEFINE i == k - p
               j == m - p
    <3>1. i \in 1 .. l /\ k = p + i /\ j \in 1 .. l /\ m = p + j /\ i < j /\ i \in Int /\ j \in Int
      BY <1>2, <1>7, <2>1, <2>4
    <3> HIDE DEF i, j
    <3>2. i \in DOMAIN rest /\ j \in DOMAIN rest
      BY <1>8, <3>1
    <3>3. \/ /\ rest[i].top = rest[j].top /\ rest[i].bottom = rest[j].bottom
             /\ rest[i].right < rest[j].left
          \/ rest[i].bottom <= rest[j].top
      BY <1>1, <3>1, <3>2, BandedPair
    <3>4. /\ u[k].right = rest[i].right /\ u[k].bottom = rest[i].bottom
          /\ u[m].left = rest[j].left /\ u[m].bottom = rest[j].bottom
      BY <1>4, <3>1
    <3>5. CASE j <= n
      <4>1. i <= n
        BY <1>2, <3>1, <3>5
      <4>2. /\ u[k].top = first.top /\ u[m].top = first.top
            /\ rest[i].top = first.bottom /\ rest[j].top = first.bottom
            /\ rest[i].bottom = b
        BY <1>4, <3>1, <3>5, <4>1
      <4> QED
        BY <1>5, <3>3, <3>4, <4>2
    <3>6. CASE j > n /\ i <= n
      <4>1. rest[i].bottom = b /\ u[m] = rest[j] /\ b <= rest[j].top
        BY <1>4, <3>1, <3>6
      <4> QED
        BY <3>4, <4>1
    <3>7. CASE j > n /\ i > n
      <4>1. u[k] = rest[i] /\ u[m] = rest[j]
        BY <1>4, <3>1, <3>7
      <4> QED
        BY <3>3, <4>1
    <3> QED
      BY <1>8, <3>1, <3>5, <3>6, <3>7
  <2> QED
    BY <2>2, <2>3, <2>4
<1>11. ASSUME NEW x \in Int, NEW z \in Int
       PROVE  Covered(u, x, z) <=> Covered(o, x, z) \/ Covered(rest, x, z)
  <2>1. ASSUME NEW k \in 1 .. l, k <= n
        PROVE  InRect(u[p + k], x, z) <=> InRect(o[p + k], x, z) \/ InRect(rest[k], x, z)
    <3>1. /\ u[p + k].left = rest[k].left /\ u[p + k].right = rest[k].right
          /\ u[p + k].bottom = rest[k].bottom /\ u[p + k].top = first.top
          /\ rest[k].top = first.bottom
          /\ o[p + k].top = first.top /\ o[p + k].bottom = first.bottom
          /\ o[p + k].left = rest[k].left /\ o[p + k].right = rest[k].right
      BY <1>4, <2>1
    <3>2. rest[k].bottom \in Int /\ first.bottom < rest[k].bottom
      BY <1>8, <3>1
    <3> QED
      BY <1>5, <3>1, <3>2 DEF InRect
  <2>2. ASSUME NEW k \in DOMAIN u, InRect(u[k], x, z)
        PROVE  Covered(o, x, z) \/ Covered(rest, x, z)
    <3>1. CASE k \in 1 .. p
      BY <1>3, <1>9, <2>2, <3>1 DEF Covered
    <3>2. CASE ~(k \in 1 .. p)
      <4> DEFINE i == k - p
      <4>1. i \in 1 .. l /\ k = p + i /\ i \in DOMAIN rest /\ i \in Int
        BY <1>7, <1>8, <3>2
      <4> HIDE DEF i
      <4>2. CASE i <= n
        <5>1. k \in DOMAIN o
          BY <1>2, <4>1, <4>2
        <5>2. InRect(o[k], x, z) \/ InRect(rest[i], x, z)
          BY <2>1, <2>2, <4>1, <4>2
        <5> QED
          BY <4>1, <5>1, <5>2 DEF Covered
      <4>3. CASE i > n
        <5>1. u[k] = rest[i]
          BY <1>4, <4>1, <4>3
        <5> QED
          BY <2>2, <4>1, <5>1 DEF Covered
      <4> QED
        BY <1>8, <4>1, <4>2, <4>3
    <3> QED
      BY <3>1, <3>2
  <2>3. ASSUME NEW k \in DOMAIN rest, InRect(rest[k], x, z)
        PROVE  Covered(u, x, z)
    <3>1. k \in 1 .. l /\ p + k \in DOMAIN u
      BY <1>2, <1>6
    <3>2. CASE k <= n
      BY <2>1, <2>3, <3>1, <3>2 DEF Covered
    <3>3. CASE k > n
      <4>1. u[p + k] = rest[k]
        BY <1>4, <3>1, <3>3
      <4> QED
        BY <2>3, <3>1, <4>1 DEF Covered
    <3> QED
      BY <1>8, <3>1, <3>2, <3>3
  <2>4. ASSUME NEW k \in DOMAIN o, InRect(o[k], x, z)
        PROVE  Covered(u, x, z)
    <3>1. CASE k <= p
      <4>1. k \in 1 .. p /\ k \in DOMAIN u
        BY <1>2, <1>6, <3>1
      <4> QED
        BY <1>3, <2>4, <4>1 DEF Covered
    <3>2. CASE ~(k <= p)
      <4>1. k - p \in 1 .. l /\ k - p <= n /\ p + (k - p) = k /\ k \in DOMAIN u
        BY <1>2, <1>3, <1>6, <3>2
      <4>2. InRect(u[k], x, z)
        BY <2>1, <2>4, <4>1
      <4> QED
        BY <4>1, <4>2 DEF Covered
    <3> QED
      BY <3>1, <3>2
  <2> QED
    BY <2>2, <2>3, <2>4 DEF Covered
<1>12. Covers(u, o, rest)
  BY <1>11 DEF Covers
<1>13. Joinless(u)
  <2>1. ASSUME NEW k \in DOMAIN u
        PROVE  \/ \E m \in DOMAIN rest : u[k].bottom = rest[m].bottom
               \/ /\ \E m \in DOMAIN o : u[k].bottom = o[m].bottom
                  /\ u[k].bottom = y => Row(o, y - 1) # Row(rest, y)
    <3>1. CASE k \in 1 .. p
      <4>1. u[k] = o[k] /\ k \in DOMAIN o /\ o[k].bottom \in Int /\ o[k].bottom < y
        BY <1>3, <1>5, <1>9, <3>1
      <4> QED
        BY <4>1
    <3>2. CASE ~(k \in 1 .. p)
      <4>1. k - p \in 1 .. l /\ k = p + (k - p) /\ k - p \in DOMAIN rest
        BY <1>7, <1>8, <3>2
      <4>2. u[k].bottom = rest[k - p].bottom
        BY <1>4, <4>1
      <4> QED
        BY <4>1, <4>2
    <3> QED
      BY <3>1, <3>2
  <2>2. EndsLike(u, o, rest, y)
    BY <2>1 DEF EndsLike
  <2> QED
    BY <1>3, <1>12, <2>2, JoinlessTwo
<1> QED
  BY <1>3, <1>10, <1>12, <1>13 DEF Formed, u

-----------------------------------------------------------------------------
(* REGION_Coalesce: what REGION_RegionOp has put out.                      *)

(* What REGION_RegionOp has put out so far: an array in bands down to y,   *)
(* and where its last band is.                                             *)
Outs == [rects : Seq(Rects), prevBand : Nat]

OutGood(out, y) ==
    /\ out \in Outs /\ Formed(out.rects) /\ Above(out.rects, y)
    /\ out.rects = <<>> => out.prevBand = 0
    /\ out.rects # <<>> => LastBand(out.rects, out.prevBand)

(* What is added to nothing.                                               *)
LEMMA AddedFirst ==
    ASSUME NEW out \in Outs, out.rects = <<>>, out.prevBand = 0,
           NEW rest \in Seq(Rects), rest # <<>>
    PROVE  Added(out, rest) = [rects |-> rest, prevBand |-> 0]
<1> DEFINE g == [out EXCEPT !.rects = out.rects \o rest]
<1>1. g = [rects |-> rest, prevBand |-> 0]
  <2>1. out = [rects |-> <<>>, prevBand |-> 0]
    BY DEF Outs
  <2>2. out.rects \o rest = rest
    OBVIOUS
  <2>3. g = [out EXCEPT !.rects = rest]
    BY <2>2
  <2> HIDE DEF g
  <2> QED
    BY <2>1, <2>3
<1>2. Added(out, rest) = REGION_Coalesce(g, Len(out.rects))
  BY DEF Added
<1> HIDE DEF g
<1>3. Len(out.rects) = 0
  OBVIOUS
<1>4. ~Joined(g.rects, g.prevBand, 0)
  BY <1>1 DEF Joined
<1>5. REGION_Coalesce(g, 0) = [g EXCEPT !.prevBand = 0]
  BY <1>4 DEF REGION_Coalesce
<1>6. [g EXCEPT !.prevBand = 0] = g
  BY <1>1
<1> QED
  BY <1>1, <1>2, <1>3, <1>5, <1>6

(* What is added to something.                                             *)
LEMMA AddedNext ==
    ASSUME NEW out \in Outs, NEW rest \in Seq(Rects), rest # <<>>
    PROVE  LET w == out.rects \o rest
               c == Len(out.rects)
           IN  Added(out, rest) =
                   IF Joined(w, out.prevBand, c)
                   THEN [rects |-> Join(w, out.prevBand, c), prevBand |-> out.prevBand]
                   ELSE [rects |-> w, prevBand |-> c]
<1> DEFINE w == out.rects \o rest
           c == Len(out.rects)
           p == out.prevBand
           g == [out EXCEPT !.rects = w]
<1>1. g = [rects |-> w, prevBand |-> p]
  <2>1. out = [rects |-> out.rects, prevBand |-> p]
    BY DEF Outs
  <2> HIDE DEF w, p
  <2> QED
    BY <2>1
<1>2. Added(out, rest) = REGION_Coalesce(g, c)
  BY DEF Added
<1> HIDE DEF g, w, p, c
<1>3. g.rects = w /\ g.prevBand = p
  BY <1>1
<1>4. CASE Joined(w, p, c)
  <2>1. REGION_Coalesce(g, c) = [g EXCEPT !.rects = Join(w, p, c)]
    BY <1>3, <1>4 DEF REGION_Coalesce
  <2>2. [g EXCEPT !.rects = Join(w, p, c)] = [rects |-> Join(w, p, c), prevBand |-> p]
    BY <1>1
  <2> QED
    BY <1>2, <1>4, <2>1, <2>2 DEF w, p, c
<1>5. CASE ~Joined(w, p, c)
  <2>1. REGION_Coalesce(g, c) = [g EXCEPT !.prevBand = c]
    BY <1>3, <1>5 DEF REGION_Coalesce
  <2>2. [g EXCEPT !.prevBand = c] = [rects |-> w, prevBand |-> c]
    BY <1>1
  <2> QED
    BY <1>2, <1>5, <2>1, <2>2 DEF w, p, c
<1> QED
  BY <1>4, <1>5

(* Rectangles below are added without leaving bands that could be one.     *)
LEMMA AddedGood ==
    ASSUME NEW y \in Int, NEW out, OutGood(out, y), NEW rest, Formed(rest), Below(rest, y)
    PROVE  LET a == Added(out, rest)
           IN  a \in Outs /\ Formed(a.rects) /\ Covers(a.rects, out.rects, rest)
<1> DEFINE a == Added(out, rest)
           o == out.rects
           c == Len(o)
           p == out.prevBand
           w == o \o rest
<1>1. /\ out \in Outs /\ Formed(o) /\ Above(o, y) /\ o \in Seq(Rects) /\ Banded(o)
      /\ rest \in Seq(Rects) /\ Banded(rest) /\ c \in Nat
      /\ p \in Nat /\ (o = <<>> => p = 0) /\ (o # <<>> => LastBand(o, p))
  BY DEF OutGood, Formed, Outs
<1>2. CASE rest = <<>>
  <2>1. a = out
    BY <1>2 DEF Added
  <2>2. \A x, z : ~Covered(rest, x, z)
    BY <1>2 DEF Covered
  <2> HIDE DEF a
  <2> QED
    BY <1>1, <2>1, <2>2 DEF Covers, a
<1>3. CASE rest # <<>> /\ o = <<>>
  <2>1. a = [rects |-> rest, prevBand |-> 0]
    BY <1>1, <1>3, AddedFirst
  <2>2. \A x, z : ~Covered(o, x, z)
    BY <1>3 DEF Covered
  <2> HIDE DEF a
  <2>3. a.rects = rest /\ a \in Outs
    BY <1>1, <2>1 DEF Outs
  <2> QED
    BY <2>2, <2>3 DEF Covers, a
<1>4. CASE rest # <<>> /\ o # <<>>
  <2>1. a = IF Joined(w, p, c) THEN [rects |-> Join(w, p, c), prevBand |-> p]
            ELSE [rects |-> w, prevBand |-> c]
    BY <1>1, <1>4, AddedNext
  <2>2. CASE Joined(w, p, c)
    <3>1. Formed(Join(w, p, c)) /\ Covers(Join(w, p, c), o, rest)
      BY <1>1, <1>4, <2>2, JoinFormed
    <3>2. a = [rects |-> Join(w, p, c), prevBand |-> p]
      BY <2>1, <2>2
    <3> HIDE DEF a
    <3>3. a.rects = Join(w, p, c) /\ a.prevBand = p
      BY <3>2
    <3>4. a \in Outs
      <4>1. Join(w, p, c) \in Seq(Rects)
        BY <3>1 DEF Formed
      <4> HIDE DEF w, p, c
      <4> QED
        BY <1>1, <3>2, <4>1 DEF Outs
    <3> QED
      BY <3>1, <3>3, <3>4 DEF a
  <2>3. CASE ~Joined(w, p, c)
    <3>1. /\ w \in Seq(Rects) /\ Len(w) = c + Len(rest) /\ Banded(w) /\ Covers(w, o, rest)
          /\ \A k \in 1 .. c : w[k] = o[k]
          /\ \A k \in 1 .. Len(rest) : w[c + k] = rest[k]
      BY <1>1, Behind
    <3>2. a = [rects |-> w, prevBand |-> c]
      BY <2>1, <2>3
    <3> HIDE DEF a
    <3>3. a.rects = w /\ a \in Outs
      <4> HIDE DEF w, c
      <4> QED
        BY <1>1, <3>1, <3>2 DEF Outs
    <3>4. ASSUME NEW k \in DOMAIN w
          PROVE  \/ \E m \in DOMAIN rest : w[k].bottom = rest[m].bottom
                 \/ /\ \E m \in DOMAIN o : w[k].bottom = o[m].bottom
                    /\ w[k].bottom = y => Row(o, y - 1) # Row(rest, y)
      <4>1. k \in 1 .. c \/ (k - c \in 1 .. Len(rest) /\ c + (k - c) = k)
        <5> HIDE DEF w, c
        <5> QED
          BY <1>1, <3>1
      <4>2. CASE k \in 1 .. c
        <5>1. w[k] = o[k] /\ k \in DOMAIN o
          BY <1>1, <3>1, <4>2
        <5>2. ASSUME o[k].bottom = y, Row(o, y - 1) = Row(rest, y)
              PROVE  FALSE
          <6>1. LastBand(o, p)
            BY <1>1, <1>4
          <6> QED
            BY <1>1, <1>4, <2>3, <5>1, <5>2, <6>1, Unjoined
        <5> HIDE DEF w, o
        <5> QED
          BY <5>1, <5>2
      <4>3. CASE k - c \in 1 .. Len(rest) /\ c + (k - c) = k
        <5>1. w[k] = rest[k - c] /\ k - c \in DOMAIN rest
          BY <1>1, <3>1, <4>3
        <5> HIDE DEF w, c
        <5> QED
          BY <5>1
      <4> QED
        BY <4>1, <4>2, <4>3
    <3> HIDE DEF w, o, c
    <3>5. Joinless(w)
      <4>1. EndsLike(w, o, rest, y)
        BY <3>4 DEF EndsLike
      <4> QED
        BY <1>1, <3>1, <4>1, JoinlessTwo
    <3> QED
      BY <3>1, <3>3, <3>5 DEF Formed, a, o
  <2> QED
    BY <2>2, <2>3
<1> QED
  BY <1>2, <1>3, <1>4

(* A single band is the last one then.                                     *)
LEMMA AddedBand ==
    ASSUME NEW y \in Int, NEW out, OutGood(out, y), NEW t, NEW b \in Int, y <= b,
           NEW rest, Slice(rest, t, b), Below(rest, y)
    PROVE  OutGood(Added(out, rest), b)
<1> DEFINE a == Added(out, rest)
           o == out.rects
           c == Len(o)
           p == out.prevBand
           w == o \o rest
           l == Len(rest)
<1>1. /\ out \in Outs /\ Formed(o) /\ Above(o, y) /\ o \in Seq(Rects) /\ Banded(o)
      /\ Formed(rest) /\ rest \in Seq(Rects) /\ Banded(rest) /\ c \in Nat /\ l \in Nat
      /\ DOMAIN rest = 1 .. l /\ DOMAIN o = 1 .. c
      /\ p \in Nat /\ (o = <<>> => p = 0) /\ (o # <<>> => LastBand(o, p))
      /\ \A k \in 1 .. l : rest[k].top = t /\ rest[k].bottom = b
  <2>1. Formed(rest) /\ rest \in Seq(Rects) /\ \A k \in DOMAIN rest : rest[k].top = t /\ rest[k].bottom = b
    BY SliceFormed DEF Slice
  <2>2. out \in Outs /\ Formed(o) /\ Above(o, y) /\ o \in Seq(Rects)
    BY DEF OutGood, Outs
  <2>3. p \in Nat /\ (o = <<>> => p = 0) /\ (o # <<>> => LastBand(o, p))
    BY DEF OutGood, Outs
  <2> HIDE DEF o, p
  <2>4. c \in Nat /\ l \in Nat /\ DOMAIN rest = 1 .. l /\ DOMAIN o = 1 .. c
    BY <2>1, <2>2
  <2> QED
    BY <2>1, <2>2, <2>3, <2>4 DEF Formed
<1>2. a \in Outs /\ Formed(a.rects)
  BY <1>1, AddedGood
<1>3. \A k \in 1 .. c : o[k].bottom \in Int /\ o[k].bottom <= y
  BY <1>1, RectAt DEF Above
<1>4. CASE rest = <<>>
  <2>1. a = out
    BY <1>4 DEF Added
  <2>2. Above(o, b)
    BY <1>1, <1>3 DEF Above
  <2> HIDE DEF a
  <2> QED
    BY <1>1, <1>2, <2>1, <2>2 DEF OutGood, a
<1>5. CASE rest # <<>>
  <2>1. l >= 1 /\ 1 \in DOMAIN rest /\ t \in Int /\ t < b /\ y <= t
    <3>1. l >= 1 /\ 1 \in DOMAIN rest /\ rest[1].top = t /\ rest[1].bottom = b
      BY <1>1, <1>5
    <3> HIDE DEF l
    <3>2. rest[1].top \in Int /\ rest[1].top < rest[1].bottom /\ y <= rest[1].top
      BY <1>1, <3>1, RectAt DEF Below
    <3> QED
      BY <3>1, <3>2
  <2>2. CASE o = <<>>
    <3>1. a = [rects |-> rest, prevBand |-> 0]
      BY <1>1, <1>5, <2>2, AddedFirst
    <3> HIDE DEF a
    <3>2. a.rects = rest /\ a.prevBand = 0
      BY <3>1
    <3>3. Above(rest, b)
      BY <1>1 DEF Above
    <3>4. LastBand(rest, 0)
      BY <1>1, <2>1 DEF LastBand
    <3> QED
      BY <1>2, <1>5, <3>2, <3>3, <3>4 DEF OutGood, a
  <2>3. CASE o # <<>>
    <3>1. a = IF Joined(w, p, c) THEN [rects |-> Join(w, p, c), prevBand |-> p]
              ELSE [rects |-> w, prevBand |-> c]
      BY <1>1, <1>5, AddedNext
    <3>2. LastBand(o, p)
      BY <1>1, <2>3
    <3>3. CASE Joined(w, p, c)
      <4> DEFINE u == Join(w, p, c)
                 n == c - p
      <4>1. u \in Seq(Rects) /\ Len(u) = p + l /\ n \in 1 .. l /\ \A k \in 1 .. p : u[k] = o[k]
        BY <1>1, <1>5, <3>2, <3>3, JoinIs, SMTT(60)
      <4>2. \A k \in 1 .. l :
               /\ u[p + k].left = rest[k].left /\ u[p + k].right = rest[k].right
               /\ u[p + k].bottom = rest[k].bottom
               /\ k <= n => /\ u[p + k].top = o[p + 1].top
                            /\ rest[k].top = o[p + 1].bottom
                            /\ rest[k].bottom = rest[1].bottom
                            /\ o[p + k].top = o[p + 1].top /\ o[p + k].bottom = o[p + 1].bottom
                            /\ o[p + k].left = rest[k].left /\ o[p + k].right = rest[k].right
               /\ k > n => u[p + k] = rest[k] /\ rest[1].bottom <= rest[k].top
        BY <1>1, <1>5, <3>2, <3>3, JoinIs
      <4>3. a = [rects |-> u, prevBand |-> p]
        BY <3>1, <3>3
      <4> HIDE DEF a, u, w
      <4>4. a.rects = u /\ a.prevBand = p
        BY <4>3
      <4>5. p \in Nat /\ p < c /\ \A k \in 1 .. p : o[k].bottom <= o[p + 1].top
        BY <3>2 DEF LastBand
      <4> HIDE DEF c, l
      <4>6. n = l /\ p + l = c
        <5>1. l > n => rest[1].bottom <= rest[l].top
          BY <1>1, <2>1, <4>2
        <5>2. rest[1].bottom = b /\ rest[l].top = t
          BY <1>1, <2>1
        <5> QED
          BY <1>1, <2>1, <4>1, <4>5, <5>1, <5>2
      <4>7. \A k \in 1 .. l : u[p + k].bottom = b /\ u[p + k].top = o[p + 1].top
        <5> TAKE k \in 1 .. l
        <5>1. k <= n /\ rest[k].bottom = b
          BY <1>1, <4>6
        <5> QED
          BY <4>2, <5>1
      <4>8. DOMAIN u = 1 .. c /\ Len(u) = c
        BY <4>1, <4>6
      <4>9. \A k \in p + 1 .. c : k - p \in 1 .. l /\ p + (k - p) = k
        BY <1>1, <4>6, <4>5
      <4>10. \A k \in p + 1 .. c : u[k].bottom = b /\ u[k].top = o[p + 1].top
        <5> TAKE k \in p + 1 .. c
        <5>1. u[p + (k - p)].bottom = b /\ u[p + (k - p)].top = o[p + 1].top
          BY <4>7, <4>9
        <5> QED
          BY <4>9, <5>1
      <4>11. p + 1 \in p + 1 .. c /\ \A k \in 1 .. c : k \in 1 .. p \/ k \in p + 1 .. c
        BY <1>1, <4>5
      <4>12. Above(u, b)
        <5> SUFFICES ASSUME NEW k \in 1 .. c
                     PROVE  u[k].bottom <= b
          BY <4>8 DEF Above
        <5>1. CASE k \in 1 .. p
          <6>1. u[k] = o[k]
            BY <4>1, <5>1
          <6> QED
            BY <1>3, <6>1
        <5>2. CASE k \in p + 1 .. c
          BY <4>10, <5>2
        <5> QED
          BY <4>11, <5>1, <5>2
      <4>13. LastBand(u, p)
        <5>1. u[p + 1].bottom = b /\ u[p + 1].top = o[p + 1].top
          BY <4>10, <4>11
        <5>2. \A k \in 1 .. p : u[k].bottom <= u[p + 1].top
          BY <4>1, <4>5, <5>1
        <5> QED
          BY <4>5, <4>8, <4>10, <5>1, <5>2 DEF LastBand
      <4>14. u # <<>>
        BY <1>1, <4>5, <4>8
      <4>15. OutGood(a, b)
        BY <1>2, <4>4, <4>12, <4>13, <4>14 DEF OutGood
      <4> QED
        BY <4>15 DEF a
    <3>4. CASE ~Joined(w, p, c)
      <4>1. /\ w \in Seq(Rects) /\ Len(w) = c + l
            /\ \A k \in 1 .. c : w[k] = o[k]
            /\ \A k \in 1 .. l : w[c + k] = rest[k]
        BY <1>1, Behind
      <4>2. a = [rects |-> w, prevBand |-> c]
        BY <3>1, <3>4
      <4> HIDE DEF a, w
      <4>3. a.rects = w /\ a.prevBand = c
        BY <4>2
      <4> HIDE DEF c, l
      <4>4. DOMAIN w = 1 .. c + l /\ c < Len(w)
        BY <1>1, <2>1, <4>1
      <4>5. \A k \in c + 1 .. c + l : k - c \in 1 .. l /\ c + (k - c) = k
        BY <1>1
      <4>6. \A k \in c + 1 .. c + l : w[k].top = t /\ w[k].bottom = b
        <5> TAKE k \in c + 1 .. c + l
        <5>1. w[c + (k - c)] = rest[k - c]
          BY <4>1, <4>5
        <5>2. rest[k - c].top = t /\ rest[k - c].bottom = b
          BY <1>1, <4>5
        <5> QED
          BY <4>5, <5>1, <5>2
      <4>7. \A k \in 1 .. c : w[k].bottom <= t /\ w[k].bottom <= b
        BY <1>3, <2>1, <4>1
      <4>8. c + 1 \in c + 1 .. c + l /\ \A k \in 1 .. c + l : k \in 1 .. c \/ k \in c + 1 .. c + l
        BY <1>1, <2>1
      <4>9. Above(w, b)
        BY <4>4, <4>6, <4>7, <4>8 DEF Above
      <4>10. LastBand(w, c)
        <5>1. w[c + 1].top = t /\ w[c + 1].bottom = b
          BY <4>6, <4>8
        <5> QED
          BY <1>1, <4>1, <4>4, <4>6, <4>7, <5>1 DEF LastBand
      <4>11. w # <<>>
        BY <1>1, <4>4
      <4>12. OutGood(a, b)
        BY <1>2, <4>3, <4>9, <4>10, <4>11 DEF OutGood
      <4> QED
        BY <4>12 DEF a
    <3> QED
      BY <3>3, <3>4
  <2> QED
    BY <2>2, <2>3
<1> QED
  BY <1>4, <1>5

(* What an operation makes of two points.                                  *)
Ops == {"union", "intersect", "subtract"}

(* Whether an operation makes a point of p and q.                          *)
Made(op, p, q) ==
    \/ op = "union" /\ (p \/ q)
    \/ op = "intersect" /\ p /\ q
    \/ op = "subtract" /\ p /\ ~q

(* The overlap functions make of two bands of the same height a band of    *)
(* the points that the operation makes of theirs.                          *)
LEMMA OverlapIs ==
    ASSUME NEW op \in Ops, NEW t, NEW b, NEW b1, Slice(b1, t, b), b1 # <<>>, NEW b2, Slice(b2, t, b)
    PROVE  LET o == OverlapFunc(op, b1, b2)
           IN  /\ Slice(o, t, b)
               /\ \A x \in Int : In(o, x) <=> Made(op, In(b1, x), In(b2, x))
<1>1. CASE op = "union"
  <2>1. OverlapFunc(op, b1, b2) = REGION_UnionO(b1, b2)
    BY <1>1 DEF OverlapFunc
  <2> QED
    BY <1>1, <2>1, UnionIs DEF Made
<1>2. CASE op = "intersect"
  <2>1. OverlapFunc(op, b1, b2) = REGION_IntersectO(b1, b2)
    BY <1>2 DEF OverlapFunc
  <2> QED
    BY <1>2, <2>1, IntersectIs DEF Made
<1>3. CASE op = "subtract"
  <2>1. OverlapFunc(op, b1, b2) = REGION_SubtractO(b1, b2)
    BY <1>3 DEF OverlapFunc
  <2> QED
    BY <1>3, <2>1, SubtractIs DEF Made
<1> QED
  BY <1>1, <1>2, <1>3 DEF Ops

(* No rectangles are a band without points.                                *)
LEMMA NothingSlice ==
    ASSUME NEW t, NEW b
    PROVE  Slice(<<>>, t, b) /\ (\A x, y : ~Covered(<<>>, x, y)) /\ \A x : ~In(<<>>, x)
BY DEF Slice, Sorted, Covered, In

(* A band of which the part between ybot and other is to be put out.       *)
AloneAt(t, b, band, part, ybot, other) ==
    /\ Slice(band, t, b) /\ band # <<>> /\ part \in {band, <<>>}
    /\ ybot \in Nat /\ ybot < b /\ other \in Nat /\ ybot <= other /\ t < other /\ other <= Height

(* What is put out of a band that only one region has.                     *)
LEMMA AloneIs ==
    ASSUME NEW t, NEW b, NEW band, NEW part, NEW ybot, NEW other,
           AloneAt(t, b, band, part, ybot, other), NEW x \in Int, NEW y \in Int
    PROVE  LET a == Alone(part, ybot, other)
               top == Greater(t, ybot)
               bottom == Lower(b, other)
           IN  /\ top \in Nat /\ bottom \in Nat /\ top <= bottom
               /\ Slice(a, top, bottom)
               /\ Covered(a, x, y) <=> top <= y /\ y < bottom /\ In(part, x)
<1> DEFINE a == Alone(part, ybot, other)
           top == Greater(t, ybot)
           bottom == Lower(b, other)
<1>0. /\ Slice(band, t, b) /\ band # <<>> /\ part \in {band, <<>>}
      /\ ybot \in Nat /\ ybot < b /\ other \in Nat /\ ybot <= other /\ t < other
      /\ other <= Height
  BY DEF AloneAt
<1>1. /\ band \in Seq(Rects) /\ 1 \in DOMAIN band /\ band[1].top = t /\ band[1].bottom = b
      /\ band[1] \in Rects
  <2>1. band \in Seq(Rects) /\ 1 \in DOMAIN band
    BY <1>0 DEF Slice
  <2> QED
    BY <1>0, <2>1 DEF Slice
<1>2. t \in Nat /\ b \in Nat /\ t < b /\ b <= Height
  BY <1>0, <1>1, RectTyped
<1>3. top \in Nat /\ bottom \in Nat /\ top <= bottom /\ bottom <= Height
  BY <1>0, <1>2 DEF Greater, Lower
<1>4. CASE part = <<>> \/ top = bottom
  <2>1. a = <<>>
    <3>1. CASE part = <<>>
      BY <1>0, <3>1 DEF Alone
    <3>2. CASE part = band /\ top = bottom
      BY <1>0, <1>1, <3>2 DEF Alone
    <3> QED
      BY <1>0, <1>4, <3>1, <3>2
  <2>2. ~(part = <<>> /\ In(part, x))
    BY NothingSlice
  <2> HIDE DEF a, top, bottom
  <2>3. ~(top <= y /\ y < bottom /\ In(part, x))
    BY <1>0, <1>3, <1>4, <2>2
  <2>4. Slice(a, top, bottom) /\ ~Covered(a, x, y)
    BY <2>1, NothingSlice
  <2> QED
    BY <1>0, <1>3, <2>3, <2>4 DEF a, top, bottom
<1>5. CASE part = band /\ top # bottom
  <2>1. a = Spans(band, top, bottom)
    BY <1>0, <1>1, <1>5 DEF Alone
  <2> HIDE DEF a, top, bottom
  <2>2. top < bottom
    BY <1>0, <1>3, <1>5
  <2>3. Slice(a, top, bottom)
    BY <1>0, <1>3, <2>1, <2>2, SpansSlice
  <2>4. In(a, x) <=> In(part, x)
    BY <1>0, <1>3, <1>5, <2>1, <2>2, SpansSlice
  <2>5. Covered(a, x, y) <=> top <= y /\ y < bottom /\ In(part, x)
    BY <1>0, <2>3, <2>4, SliceCovered
  <2> QED
    BY <1>0, <1>3, <2>3, <2>5 DEF a, top, bottom
<1> QED
  BY <1>0, <1>4, <1>5

-----------------------------------------------------------------------------
(* An array is left behind up to i when the sweep has come to ybot.        *)
Side(r, i, ybot) ==
    \A m \in DOMAIN r : IF m < i THEN r[m].bottom <= ybot ELSE ybot < r[m].bottom

(* What it covers down to the end of its next band.                        *)
LEMMA HeadRow ==
    ASSUME NEW r \in Seq(Rects), Banded(r), NEW i \in DOMAIN r, NEW ybot \in Int, Side(r, i, ybot),
           NEW y \in Int, ybot <= y, y < r[i].bottom, NEW x \in Int
    PROVE  Covered(r, x, y) <=> r[i].top <= y /\ In(Band(r, i), x)
<1> DEFINE e == BandEnd(r, i)
<1>1. /\ \A k \in i .. e - 1 : k \in DOMAIN r /\ r[k].top = r[i].top /\ r[k].bottom = r[i].bottom
      /\ \A k \in e .. Len(r) : k \in DOMAIN r /\ r[i].bottom <= r[k].top
  BY BandEndSplits
<1>2. \A z : In(Band(r, i), z) <=> Within(r, i, e - 1, z)
  BY BandSlice
<1>3. e \in i + 1 .. Len(r) + 1
  BY BandEndLeast
<1> HIDE DEF e
<1>4. r[i].bottom \in Int /\ r[i].top \in Int /\ i \in Int /\ Len(r) \in Nat
  BY RectAt
<1>5. ASSUME Covered(r, x, y)
      PROVE  r[i].top <= y /\ Within(r, i, e - 1, x)
  <2>1. PICK m \in DOMAIN r : InRect(r[m], x, y)
    BY <1>5 DEF Covered
  <2>2. /\ r[m].top \in Int /\ r[m].bottom \in Int /\ m \in Int
        /\ r[m].top <= y /\ y < r[m].bottom /\ Over(r[m], x)
    BY <2>1, RectAt DEF InRect, Over
  <2>3. ~(m < i)
    BY <2>2 DEF Side
  <2>4. ~(m \in e .. Len(r))
    BY <1>1, <1>4, <2>2
  <2>5. m \in i .. e - 1
    BY <1>3, <1>4, <2>2, <2>3, <2>4
  <2> QED
    BY <1>1, <2>2, <2>5 DEF Within
<1>6. ASSUME r[i].top <= y, Within(r, i, e - 1, x)
      PROVE  Covered(r, x, y)
  <2>1. PICK m \in i .. e - 1 : Over(r[m], x)
    BY <1>6 DEF Within
  <2>2. m \in DOMAIN r /\ InRect(r[m], x, y)
    BY <1>1, <1>6, <2>1 DEF InRect, Over
  <2> QED
    BY <2>2 DEF Covered
<1> QED
  BY <1>2, <1>5, <1>6

(* The sweep goes on to y: a band that ends there is left behind.          *)
LEMMA Advance ==
    ASSUME NEW r \in Seq(Rects), Banded(r), NEW i \in DOMAIN r, NEW ybot \in Int, Side(r, i, ybot),
           NEW y \in Int, ybot <= y, y <= r[i].bottom
    PROVE  LET n == IF r[i].bottom = y THEN BandEnd(r, i) ELSE i
           IN  /\ n \in 1 .. Len(r) + 1 /\ n >= i /\ Side(r, n, y)
               /\ r[i].bottom = y => n >= i + 1 /\ (n <= Len(r) => y <= r[n].top)
<1> DEFINE e == BandEnd(r, i)
           n == IF r[i].bottom = y THEN e ELSE i
<1>1. /\ \A k \in i .. e - 1 : k \in DOMAIN r /\ r[k].top = r[i].top /\ r[k].bottom = r[i].bottom
      /\ \A k \in e .. Len(r) : k \in DOMAIN r /\ r[i].bottom <= r[k].top
  BY BandEndSplits
<1>2. e \in i + 1 .. Len(r) + 1
  BY BandEndLeast
<1> HIDE DEF e
<1>3. r[i].bottom \in Int /\ r[i].top \in Int /\ i \in Int /\ Len(r) \in Nat /\ i \in 1 .. Len(r)
  BY RectAt
<1>4. n \in 1 .. Len(r) + 1 /\ n >= i /\ n \in Int /\ (n = e \/ n = i)
  BY <1>2, <1>3
<1>5. ASSUME NEW m \in DOMAIN r
      PROVE  IF m < n THEN r[m].bottom <= y ELSE y < r[m].bottom
  <2>1. /\ m \in Int /\ m \in 1 .. Len(r) /\ r[m].top \in Int /\ r[m].bottom \in Int
        /\ r[m].top < r[m].bottom
    BY RectAt
  <2>2. CASE m < i
    <3>1. r[m].bottom <= y /\ m < n
      BY <1>3, <1>4, <2>1, <2>2 DEF Side
    <3> QED
      BY <3>1
  <2>3. CASE m \in i .. e - 1
    <3>1. r[m].bottom = r[i].bottom
      BY <1>1, <2>3
    <3> QED
      BY <1>2, <1>3, <2>1, <2>3, <3>1, SMTT(60)
  <2>4. CASE m \in e .. Len(r)
    <3>1. r[i].bottom <= r[m].top /\ ~(m < n)
      BY <1>1, <1>2, <1>3, <1>4, <2>1, <2>4
    <3> QED
      BY <1>3, <2>1, <3>1
  <2> QED
    BY <1>2, <1>3, <2>1, <2>2, <2>3, <2>4
<1>6. ASSUME r[i].bottom = y
      PROVE  n >= i + 1 /\ (n <= Len(r) => y <= r[n].top)
  <2>1. n = e
    BY <1>6
  <2>2. n <= Len(r) => n \in e .. Len(r)
    BY <1>2, <1>3, <2>1
  <2> QED
    BY <1>1, <1>2, <1>3, <1>6, <2>1, <2>2
<1> HIDE DEF n
<1> QED
  BY <1>4, <1>5, <1>6 DEF Side, n, e

-----------------------------------------------------------------------------
(* REGION_RegionOp: one turn.                                              *)

(* A band that has all that an operation makes between two heights.        *)
Part(o, op, r1, r2, from, to) ==
    \E t, b \in Nat :
        /\ Slice(o, t, b) /\ from <= t /\ from <= b /\ b <= to
        /\ \A x, y \in Int : Covered(o, x, y) <=>
               from <= y /\ y < to /\ Made(op, Covered(r1, x, y), Covered(r2, x, y))

(* No band is such a band where the operation makes nothing.               *)
LEMMA NothingPart ==
    ASSUME NEW op, NEW r1, NEW r2, NEW from \in Nat, NEW to \in Nat, from <= to,
           \A x, y \in Int : from <= y /\ y < to =>
               ~Made(op, Covered(r1, x, y), Covered(r2, x, y))
    PROVE  Part(<<>>, op, r1, r2, from, to)
<1>1. Slice(<<>>, from, from) /\ \A x, y : ~Covered(<<>>, x, y)
  BY NothingSlice
<1>2. \A x, y \in Int : Covered(<<>>, x, y) <=>
          from <= y /\ y < to /\ Made(op, Covered(r1, x, y), Covered(r2, x, y))
  BY <1>1
<1>3. from <= from
  OBVIOUS
<1> QED
  BY <1>1, <1>2, <1>3 DEF Part

(* Of a band, with the columns part, what is above the other region.       *)
Upper(a, t1, e1, t2, y0, part) ==
    \E t, b \in Nat :
        /\ Slice(a, t, b) /\ y0 <= t /\ y0 <= b /\ b <= t2 /\ b <= e1
        /\ \A x, y \in Int : Covered(a, x, y) <=>
               t1 <= y /\ y0 <= y /\ y < e1 /\ y < t2 /\ In(part, x)

(* It is put out.                                                          *)
LEMMA OneSide ==
    ASSUME NEW t1 \in Nat, NEW e1 \in Nat, t1 < e1, NEW t2, NEW band, NEW part, NEW y0,
           AloneAt(t1, e1, band, part, y0, t2)
    PROVE  Upper(Alone(part, y0, t2), t1, e1, t2, y0, part)
<1> DEFINE a == Alone(part, y0, t2)
           t == Greater(t1, y0)
           b == Lower(e1, t2)
<1>0. y0 \in Nat /\ y0 < e1 /\ t2 \in Nat /\ y0 <= t2 /\ t1 < t2
  BY DEF AloneAt
<1>1. t \in Nat /\ b \in Nat /\ Slice(a, t, b)
  <2>1. 0 \in Int
    OBVIOUS
  <2> QED
    BY <2>1, AloneIs
<1>2. ASSUME NEW x \in Int, NEW y \in Int
      PROVE  Covered(a, x, y) <=> t <= y /\ y < b /\ In(part, x)
  BY AloneIs
<1> HIDE DEF a
<1>3. y0 <= t /\ y0 <= b /\ b <= t2 /\ b <= e1
  BY <1>0 DEF Greater, Lower
<1>4. \A y \in Int : (t <= y <=> t1 <= y /\ y0 <= y) /\ (y < b <=> y < e1 /\ y < t2)
  BY <1>0 DEF Greater, Lower
<1> HIDE DEF t, b
<1>5. \A x, y \in Int : Covered(a, x, y) <=>
          t1 <= y /\ y0 <= y /\ y < e1 /\ y < t2 /\ In(part, x)
  BY <1>0, <1>2, <1>4
<1> QED
  BY <1>1, <1>3, <1>5 DEF a, Upper

(* What the operation makes where only one region has points.              *)
LEMMA OnlyMade ==
    ASSUME NEW op \in Ops, NEW band, NEW x
    PROVE  /\ NonOverlap1Func(op, band) \in {band, <<>>}
           /\ In(NonOverlap1Func(op, band), x) <=> Made(op, In(band, x), FALSE)
           /\ NonOverlap2Func(op, band) \in {band, <<>>}
           /\ In(NonOverlap2Func(op, band), x) <=> Made(op, FALSE, In(band, x))
<1>1. ~In(<<>>, x)
  BY NothingSlice
<1>2. CASE op = "union"
  <2>1. NonOverlap1Func(op, band) = band /\ NonOverlap2Func(op, band) = band
    BY <1>2 DEF NonOverlap1Func, NonOverlap2Func
  <2> QED
    BY <1>2, <2>1 DEF Made
<1>3. CASE op = "intersect"
  <2>1. NonOverlap1Func(op, band) = <<>> /\ NonOverlap2Func(op, band) = <<>>
    BY <1>3 DEF NonOverlap1Func, NonOverlap2Func
  <2> QED
    BY <1>1, <1>3, <2>1 DEF Made
<1>4. CASE op = "subtract"
  <2>1. NonOverlap1Func(op, band) = band /\ NonOverlap2Func(op, band) = <<>>
    BY <1>4 DEF NonOverlap1Func, NonOverlap2Func
  <2> QED
    BY <1>1, <1>4, <2>1 DEF Made
<1> QED
  BY <1>2, <1>3, <1>4 DEF Ops

(* A turn of REGION_RegionOp: both regions are done down to y0, and goes   *)
(* on with the bands that begin with the i-th and the j-th rectangle.      *)
AtBands(r1, r2, i, j, y0) ==
    /\ r1 \in Seq(Rects) /\ Banded(r1) /\ r2 \in Seq(Rects) /\ Banded(r2)
    /\ i \in DOMAIN r1 /\ j \in DOMAIN r2 /\ y0 \in Nat
    /\ Side(r1, i, y0) /\ Side(r2, j, y0)
    /\ (y0 <= r1[i].top \/ y0 <= r2[j].top)

(* What is known of the two bands.                                         *)
LEMMA TwoBands ==
    ASSUME NEW r1, NEW r2, NEW i, NEW j, NEW y0, AtBands(r1, r2, i, j, y0)
    PROVE  /\ r1[i].top \in Nat /\ r1[i].bottom \in Nat /\ r1[i].top < r1[i].bottom
           /\ r2[j].top \in Nat /\ r2[j].bottom \in Nat /\ r2[j].top < r2[j].bottom
           /\ r1[i].bottom <= Height /\ r2[j].bottom <= Height /\ Height \in Nat
           /\ y0 \in Nat /\ y0 < r1[i].bottom /\ y0 < r2[j].bottom
           /\ Slice(Band(r1, i), r1[i].top, r1[i].bottom) /\ Band(r1, i) # <<>>
           /\ Slice(Band(r2, j), r2[j].top, r2[j].bottom) /\ Band(r2, j) # <<>>
<1>0. /\ r1 \in Seq(Rects) /\ Banded(r1) /\ r2 \in Seq(Rects) /\ Banded(r2)
      /\ i \in DOMAIN r1 /\ j \in DOMAIN r2 /\ y0 \in Nat
      /\ Side(r1, i, y0) /\ Side(r2, j, y0)
  BY DEF AtBands
<1>1. i \in Int /\ j \in Int /\ r1[i] \in Rects /\ r2[j] \in Rects /\ ~(i < i) /\ ~(j < j)
  BY <1>0, RectAt
<1>2. y0 < r1[i].bottom /\ y0 < r2[j].bottom
  BY <1>0, <1>1 DEF Side
<1>3. /\ Slice(Band(r1, i), r1[i].top, r1[i].bottom) /\ Band(r1, i) # <<>>
      /\ Slice(Band(r2, j), r2[j].top, r2[j].bottom) /\ Band(r2, j) # <<>>
  BY <1>0, BandSlice
<1>4. /\ r1[i].top \in Nat /\ r1[i].bottom \in Nat /\ r1[i].top < r1[i].bottom
      /\ r2[j].top \in Nat /\ r2[j].bottom \in Nat /\ r2[j].top < r2[j].bottom
      /\ r1[i].bottom <= Height /\ r2[j].bottom <= Height /\ Height \in Nat
  BY <1>1, RectTyped, RegionAssumption
<1> QED
  BY <1>0, <1>2, <1>3, <1>4

(* What they cover from there to where the first of them ends.             *)
LEMMA TwoRows ==
    ASSUME NEW r1, NEW r2, NEW i, NEW j, NEW y0, AtBands(r1, r2, i, j, y0),
           NEW x \in Int, NEW y \in Int, y0 <= y, y < r1[i].bottom, y < r2[j].bottom
    PROVE  /\ Covered(r1, x, y) <=> r1[i].top <= y /\ In(Band(r1, i), x)
           /\ Covered(r2, x, y) <=> r2[j].top <= y /\ In(Band(r2, j), x)
<1>0. /\ r1 \in Seq(Rects) /\ Banded(r1) /\ r2 \in Seq(Rects) /\ Banded(r2)
      /\ i \in DOMAIN r1 /\ j \in DOMAIN r2 /\ y0 \in Int
      /\ Side(r1, i, y0) /\ Side(r2, j, y0)
  BY DEF AtBands
<1> QED
  BY <1>0, HeadRow

(* The part of a turn that only one region has.                            *)
LEMMA OnlyPart ==
    ASSUME NEW op \in Ops, NEW r1, NEW r2, NEW i, NEW j, NEW y0, AtBands(r1, r2, i, j, y0)
    PROVE  LET h1 == r1[i]
               h2 == r2[j]
               b1 == Band(r1, i)
               b2 == Band(r2, j)
               only == CASE h1.top < h2.top -> Alone(NonOverlap1Func(op, b1), y0, h2.top)
                         [] h2.top < h1.top -> Alone(NonOverlap2Func(op, b2), y0, h1.top)
                         [] h1.top = h2.top -> <<>>
               ytop == Greater(h1.top, h2.top)
               ybot == Lower(h1.bottom, h2.bottom)
           IN  Part(only, op, r1, r2, y0, Lower(ytop, ybot))
<1> DEFINE h1 == r1[i]
           h2 == r2[j]
           b1 == Band(r1, i)
           b2 == Band(r2, j)
           p1 == NonOverlap1Func(op, b1)
           p2 == NonOverlap2Func(op, b2)
           only == CASE h1.top < h2.top -> Alone(p1, y0, h2.top)
                     [] h2.top < h1.top -> Alone(p2, y0, h1.top)
                     [] h1.top = h2.top -> <<>>
           ytop == Greater(h1.top, h2.top)
           ybot == Lower(h1.bottom, h2.bottom)
           to == Lower(ytop, ybot)
<1>1. /\ h1.top \in Nat /\ h1.bottom \in Nat /\ h1.top < h1.bottom /\ h1.bottom <= Height
      /\ h2.top \in Nat /\ h2.bottom \in Nat /\ h2.top < h2.bottom /\ h2.bottom <= Height
      /\ Height \in Nat /\ y0 \in Nat /\ y0 < h1.bottom /\ y0 < h2.bottom
  BY TwoBands
<1>2. /\ Slice(b1, h1.top, h1.bottom) /\ b1 # <<>> /\ Slice(b2, h2.top, h2.bottom) /\ b2 # <<>>
  BY TwoBands
<1>3. y0 <= h1.top \/ y0 <= h2.top
  BY DEF AtBands
<1>4. ASSUME NEW x \in Int, NEW y \in Int, y0 <= y, y < h1.bottom, y < h2.bottom
      PROVE  /\ Covered(r1, x, y) <=> h1.top <= y /\ In(b1, x)
             /\ Covered(r2, x, y) <=> h2.top <= y /\ In(b2, x)
  BY <1>4, TwoRows
<1>5. ASSUME NEW x
      PROVE  /\ p1 \in {b1, <<>>} /\ (In(p1, x) <=> Made(op, In(b1, x), FALSE))
             /\ p2 \in {b2, <<>>} /\ (In(p2, x) <=> Made(op, FALSE, In(b2, x)))
  BY OnlyMade
<1>6. /\ to \in Nat /\ y0 <= to /\ to <= h1.bottom /\ to <= h2.bottom /\ to <= ytop
      /\ \A y \in Int : y < to <=> y < h1.bottom /\ y < h2.bottom /\ y < ytop
  <2>1. /\ ytop \in Nat /\ ytop >= h1.top /\ ytop >= h2.top /\ y0 <= ytop
        /\ ybot \in Nat /\ ybot <= h1.bottom /\ ybot <= h2.bottom /\ y0 < ybot
        /\ \A y \in Int : y < ybot <=> y < h1.bottom /\ y < h2.bottom
    BY <1>1, <1>3 DEF Greater, Lower
  <2> HIDE DEF ytop, ybot, h1, h2
  <2> QED
    BY <1>1, <2>1 DEF Lower
<1> HIDE DEF h1, h2, b1, b2, p1, p2
<1>7. CASE h1.top < h2.top
  <2>1. only = Alone(p1, y0, h2.top)
    BY <1>1, <1>7
  <2>2. ytop = h2.top /\ y0 <= h2.top /\ h2.top <= Height
    BY <1>1, <1>3, <1>7 DEF Greater
  <2> HIDE DEF only, ytop, ybot, to
  <2>3. PICK t \in Nat, b \in Nat :
          /\ Slice(only, t, b) /\ y0 <= t /\ y0 <= b /\ b <= h2.top /\ b <= h1.bottom
          /\ \A x, y \in Int : Covered(only, x, y) <=>
                 h1.top <= y /\ y0 <= y /\ y < h1.bottom /\ y < h2.top /\ In(p1, x)
    <3>1. AloneAt(h1.top, h1.bottom, b1, p1, y0, h2.top)
      BY <1>1, <1>2, <1>5, <1>7, <2>2 DEF AloneAt
    <3>2. Upper(only, h1.top, h1.bottom, h2.top, y0, p1)
      BY <1>1, <2>1, <3>1, OneSide
    <3> QED
      BY <3>2 DEF Upper
  <2>4. b <= to
    BY <1>1, <1>6, <2>2, <2>3 DEF to, ytop, ybot, Lower, Greater
  <2>5. ASSUME NEW x \in Int, NEW y \in Int
        PROVE  Covered(only, x, y) <=>
                   y0 <= y /\ y < to /\ Made(op, Covered(r1, x, y), Covered(r2, x, y))
    <3>1. Covered(only, x, y) <=> h1.top <= y /\ y0 <= y /\ y < to /\ In(p1, x)
      BY <1>1, <1>6, <2>2, <2>3
    <3>2. ASSUME y0 <= y, y < to
          PROVE  Made(op, Covered(r1, x, y), Covered(r2, x, y)) <=> h1.top <= y /\ In(p1, x)
      <4>1. y < h1.bottom /\ y < h2.bottom /\ ~(h2.top <= y)
        BY <1>1, <1>6, <2>2, <3>2
      <4>2. ~Covered(r2, x, y) /\ (Covered(r1, x, y) <=> h1.top <= y /\ In(b1, x))
        BY <1>4, <3>2, <4>1
      <4> QED
        BY <1>5, <4>2 DEF Made
    <3> QED
      BY <3>1, <3>2
  <2> QED
    BY <2>3, <2>4, <2>5 DEF Part, only, to, ytop, ybot, p1, p2, h1, h2, b1, b2
<1>8. CASE h2.top < h1.top
  <2>1. only = Alone(p2, y0, h1.top)
    BY <1>1, <1>8
  <2>2. ytop = h1.top /\ y0 <= h1.top /\ h1.top <= Height
    BY <1>1, <1>3, <1>8 DEF Greater
  <2> HIDE DEF only, ytop, ybot, to
  <2>3. PICK t \in Nat, b \in Nat :
          /\ Slice(only, t, b) /\ y0 <= t /\ y0 <= b /\ b <= h1.top /\ b <= h2.bottom
          /\ \A x, y \in Int : Covered(only, x, y) <=>
                 h2.top <= y /\ y0 <= y /\ y < h2.bottom /\ y < h1.top /\ In(p2, x)
    <3>1. AloneAt(h2.top, h2.bottom, b2, p2, y0, h1.top)
      BY <1>1, <1>2, <1>5, <1>8, <2>2 DEF AloneAt
    <3>2. Upper(only, h2.top, h2.bottom, h1.top, y0, p2)
      BY <1>1, <2>1, <3>1, OneSide
    <3> QED
      BY <3>2 DEF Upper
  <2>4. b <= to
    BY <1>1, <1>6, <2>2, <2>3 DEF to, ytop, ybot, Lower, Greater
  <2>5. ASSUME NEW x \in Int, NEW y \in Int
        PROVE  Covered(only, x, y) <=>
                   y0 <= y /\ y < to /\ Made(op, Covered(r1, x, y), Covered(r2, x, y))
    <3>1. Covered(only, x, y) <=> h2.top <= y /\ y0 <= y /\ y < to /\ In(p2, x)
      BY <1>1, <1>6, <2>2, <2>3
    <3>2. ASSUME y0 <= y, y < to
          PROVE  Made(op, Covered(r1, x, y), Covered(r2, x, y)) <=> h2.top <= y /\ In(p2, x)
      <4>1. y < h1.bottom /\ y < h2.bottom /\ ~(h1.top <= y)
        BY <1>1, <1>6, <2>2, <3>2
      <4>2. ~Covered(r1, x, y) /\ (Covered(r2, x, y) <=> h2.top <= y /\ In(b2, x))
        BY <1>4, <3>2, <4>1
      <4> QED
        BY <1>5, <4>2 DEF Made
    <3> QED
      BY <3>1, <3>2
  <2> QED
    BY <2>3, <2>4, <2>5 DEF Part, only, to, ytop, ybot, p1, p2, h1, h2, b1, b2
<1>9. CASE h1.top = h2.top
  <2>1. only = <<>>
    BY <1>1, <1>9
  <2>2. ytop = h1.top
    BY <1>1, <1>9 DEF Greater
  <2> HIDE DEF only, ytop, ybot, to
  <2>3. ASSUME NEW x \in Int, NEW y \in Int, y0 <= y, y < to
        PROVE  ~Made(op, Covered(r1, x, y), Covered(r2, x, y))
    <3>1. y < h1.bottom /\ y < h2.bottom /\ ~(h1.top <= y) /\ ~(h2.top <= y)
      BY <1>1, <1>6, <1>9, <2>2, <2>3
    <3>2. ~Covered(r1, x, y) /\ ~Covered(r2, x, y)
      BY <1>4, <2>3, <3>1
    <3> QED
      BY <3>2 DEF Made
  <2>4. Part(<<>>, op, r1, r2, y0, to)
    BY <1>1, <1>6, <2>3, NothingPart
  <2> QED
    BY <2>1, <2>4 DEF only, to, ytop, ybot, p1, p2, h1, h2, b1, b2
<1>10. h1.top < h2.top \/ h2.top < h1.top \/ h1.top = h2.top
  BY <1>1
<1> QED
  BY <1>7, <1>8, <1>9, <1>10, Zenon

(* The part of a turn that both regions have.                              *)
LEMMA BothPart ==
    ASSUME NEW op \in Ops, NEW r1, NEW r2, NEW i, NEW j, NEW y0, AtBands(r1, r2, i, j, y0)
    PROVE  LET ytop == Greater(r1[i].top, r2[j].top)
               ybot == Lower(r1[i].bottom, r2[j].bottom)
               both == IF ybot > ytop
                       THEN OverlapFunc(op, Spans(Band(r1, i), ytop, ybot), Spans(Band(r2, j), ytop, ybot))
                       ELSE <<>>
           IN  Part(both, op, r1, r2, Lower(ytop, ybot), ybot)
<1> DEFINE h1 == r1[i]
           h2 == r2[j]
           b1 == Band(r1, i)
           b2 == Band(r2, j)
           ytop == Greater(h1.top, h2.top)
           ybot == Lower(h1.bottom, h2.bottom)
           s1 == Spans(b1, ytop, ybot)
           s2 == Spans(b2, ytop, ybot)
           both == IF ybot > ytop THEN OverlapFunc(op, s1, s2) ELSE <<>>
           from == Lower(ytop, ybot)
<1>1. /\ h1.top \in Nat /\ h1.bottom \in Nat /\ h1.top < h1.bottom /\ h1.bottom <= Height
      /\ h2.top \in Nat /\ h2.bottom \in Nat /\ h2.top < h2.bottom /\ h2.bottom <= Height
      /\ Height \in Nat /\ y0 \in Nat /\ y0 < h1.bottom /\ y0 < h2.bottom
  BY TwoBands
<1>2. /\ Slice(b1, h1.top, h1.bottom) /\ b1 # <<>> /\ Slice(b2, h2.top, h2.bottom) /\ b2 # <<>>
  BY TwoBands
<1>3. y0 <= h1.top \/ y0 <= h2.top
  BY DEF AtBands
<1>4. ASSUME NEW x \in Int, NEW y \in Int, y0 <= y, y < h1.bottom, y < h2.bottom
      PROVE  /\ Covered(r1, x, y) <=> h1.top <= y /\ In(b1, x)
             /\ Covered(r2, x, y) <=> h2.top <= y /\ In(b2, x)
  BY <1>4, TwoRows
<1> HIDE DEF h1, h2, b1, b2
<1>5. /\ ytop \in Nat /\ ytop >= h1.top /\ ytop >= h2.top /\ y0 <= ytop
      /\ ybot \in Nat /\ ybot <= h1.bottom /\ ybot <= h2.bottom /\ ybot <= Height
  BY <1>1, <1>3 DEF Greater, Lower
<1> HIDE DEF ytop, ybot
<1>6. CASE ybot > ytop
  <2>1. both = OverlapFunc(op, s1, s2)
    BY <1>6
  <2>2. from = ytop
    BY <1>5, <1>6 DEF Lower
  <2> HIDE DEF both, from
  <2>3. ASSUME NEW b, NEW t1, NEW e1, Slice(b, t1, e1), b # <<>>
        PROVE  /\ Slice(Spans(b, ytop, ybot), ytop, ybot) /\ Spans(b, ytop, ybot) # <<>>
               /\ \A x : In(Spans(b, ytop, ybot), x) <=> In(b, x)
    BY <1>5, <1>6, <2>3, SpansSlice
  <2>4. /\ Slice(s1, ytop, ybot) /\ s1 # <<>> /\ Slice(s2, ytop, ybot)
        /\ \A x : (In(s1, x) <=> In(b1, x)) /\ (In(s2, x) <=> In(b2, x))
    BY <1>2, <2>3
  <2> HIDE DEF s1, s2
  <2>5. Slice(both, ytop, ybot) /\ \A x \in Int : In(both, x) <=> Made(op, In(s1, x), In(s2, x))
    BY <2>1, <2>4, OverlapIs
  <2>6. ASSUME NEW x \in Int, NEW y \in Int
        PROVE  Covered(both, x, y) <=>
                   ytop <= y /\ y < ybot /\ Made(op, Covered(r1, x, y), Covered(r2, x, y))
    <3>1. Covered(both, x, y) <=> ytop <= y /\ y < ybot /\ In(both, x)
      BY <2>5, SliceCovered
    <3>2. ASSUME ytop <= y, y < ybot
          PROVE  Made(op, Covered(r1, x, y), Covered(r2, x, y)) <=> In(both, x)
      <4>1. /\ y0 <= y /\ y < h1.bottom /\ y < h2.bottom /\ h1.top <= y /\ h2.top <= y
        BY <1>1, <1>5, <3>2
      <4>2. (Covered(r1, x, y) <=> In(s1, x)) /\ (Covered(r2, x, y) <=> In(s2, x))
        BY <1>4, <2>4, <4>1
      <4>3. In(both, x) <=> Made(op, In(s1, x), In(s2, x))
        BY <2>5
      <4> QED
        BY <4>2, <4>3 DEF Made
    <3> QED
      BY <3>1, <3>2
  <2>7. ytop <= ytop /\ ytop <= ybot /\ ybot <= ybot
    BY <1>5, <1>6
  <2>8. Part(both, op, r1, r2, ytop, ybot)
    BY <1>5, <2>5, <2>6, <2>7 DEF Part
  <2> QED
    BY <2>2, <2>8 DEF both, from, ytop, ybot, h1, h2, b1, b2, s1, s2
<1>7. CASE ~(ybot > ytop)
  <2>1. both = <<>>
    BY <1>7
  <2>2. from = ybot
    BY <1>5, <1>7 DEF Lower
  <2> HIDE DEF both, from
  <2>3. ybot <= ybot /\ \A y \in Int : ~(ybot <= y /\ y < ybot)
    BY <1>5
  <2>4. Part(<<>>, op, r1, r2, ybot, ybot)
    BY <1>5, <2>3, NothingPart
  <2> QED
    BY <2>1, <2>2, <2>4 DEF both, from, ytop, ybot, h1, h2, b1, b2, s1, s2
<1> QED
  BY <1>6, <1>7

(* All that has been put out is what is made of the regions down to y.     *)
Swept(out, op, r1, r2, y) ==
    /\ OutGood(out, y)
    /\ \A x, z \in Int : Covered(out.rects, x, z) <=>
           z < y /\ Made(op, Covered(r1, x, z), Covered(r2, x, z))

(* It goes on with the next part.                                          *)
LEMMA PartAdded ==
    ASSUME NEW op, NEW r1, NEW r2, NEW y \in Nat, NEW to \in Nat, y <= to,
           NEW out, Swept(out, op, r1, r2, y), NEW o, Part(o, op, r1, r2, y, to)
    PROVE  Swept(Added(out, o), op, r1, r2, to)
<1> DEFINE a == Added(out, o)
<1>1. PICK t \in Nat, b \in Nat :
        /\ Slice(o, t, b) /\ y <= t /\ y <= b /\ b <= to
        /\ \A x, z \in Int : Covered(o, x, z) <=>
               y <= z /\ z < to /\ Made(op, Covered(r1, x, z), Covered(r2, x, z))
  BY DEF Part
<1>2. OutGood(out, y)
  BY DEF Swept
<1>3. Formed(o) /\ Below(o, y)
  <2>1. Formed(o)
    BY <1>1, SliceFormed
  <2>2. \A k \in DOMAIN o : o[k].top = t
    BY <1>1 DEF Slice
  <2> QED
    BY <1>1, <2>1, <2>2 DEF Below
<1>4. y \in Int /\ b \in Int
  OBVIOUS
<1>5. OutGood(a, b)
  BY <1>1, <1>2, <1>3, <1>4, AddedBand
<1>6. a \in Outs /\ Covers(a.rects, out.rects, o)
  BY <1>2, <1>3, <1>4, AddedGood
<1> HIDE DEF a
<1>7. OutGood(a, to)
  <2>1. a.rects \in Seq(Rects)
    BY <1>6 DEF Outs
  <2>2. ASSUME NEW k \in DOMAIN a.rects
        PROVE  a.rects[k].bottom <= to
    <3>1. a.rects[k].bottom <= b /\ a.rects[k].bottom \in Int
      BY <1>5, <2>1, RectAt DEF OutGood, Above
    <3> QED
      BY <1>1, <3>1
  <2> QED
    BY <1>5, <2>2 DEF OutGood, Above
<1>8. ASSUME NEW x \in Int, NEW z \in Int
      PROVE  Covered(a.rects, x, z) <=>
                 z < to /\ Made(op, Covered(r1, x, z), Covered(r2, x, z))
  <2>1. Covered(a.rects, x, z) <=> Covered(out.rects, x, z) \/ Covered(o, x, z)
    BY <1>6 DEF Covers
  <2>2. Covered(out.rects, x, z) <=> z < y /\ Made(op, Covered(r1, x, z), Covered(r2, x, z))
    BY DEF Swept
  <2>3. Covered(o, x, z) <=> y <= z /\ z < to /\ Made(op, Covered(r1, x, z), Covered(r2, x, z))
    BY <1>1
  <2>4. z < to <=> z < y \/ (y <= z /\ z < to)
    OBVIOUS
  <2> QED
    BY <2>1, <2>2, <2>3, <2>4
<1> QED
  BY <1>7, <1>8 DEF Swept, a

-----------------------------------------------------------------------------
(* REGION_RegionOp: the whole of it.                                       *)

(* The states of REGION_RegionOp's loop.                                   *)
RegionWalks == [i : Nat, j : Nat, ybot : Nat, out : Outs]

(* After k turns of REGION_RegionOp: both regions are done down to ybot,   *)
(* and one of them, if there is any of it, goes on from there or below.    *)
RegionDone(op, r1, r2, s, k) ==
    /\ s \in RegionWalks
    /\ s.i \in 1 .. Len(r1) + 1 /\ s.j \in 1 .. Len(r2) + 1
    /\ (s.i + s.j >= k + 2 \/ s.i > Len(r1) \/ s.j > Len(r2))
    /\ Side(r1, s.i, s.ybot) /\ Side(r2, s.j, s.ybot)
    /\ s.i <= Len(r1) /\ s.j <= Len(r2) => (s.ybot <= r1[s.i].top \/ s.ybot <= r2[s.j].top)
    /\ Swept(s.out, op, r1, r2, s.ybot)

(* A turn of REGION_RegionOp's loop.                                       *)
LEMMA RegionTurnGood ==
    ASSUME NEW op \in Ops, NEW r1 \in Seq(Rects), Banded(r1), NEW r2 \in Seq(Rects), Banded(r2),
           NEW k \in Nat, k > 0, NEW s, RegionDone(op, r1, r2, s, k - 1)
    PROVE  RegionDone(op, r1, r2, RegionTurn(op, r1, r2, s), k)
<1> DEFINE e    == RegionTurn(op, r1, r2, s)
           h1   == r1[s.i]
           h2   == r2[s.j]
           b1   == Band(r1, s.i)
           b2   == Band(r2, s.j)
           ytop == Greater(h1.top, h2.top)
           ybot == Lower(h1.bottom, h2.bottom)
           only == CASE h1.top < h2.top -> Alone(NonOverlap1Func(op, b1), s.ybot, h2.top)
                     [] h2.top < h1.top -> Alone(NonOverlap2Func(op, b2), s.ybot, h1.top)
                     [] h1.top = h2.top -> <<>>
           both == IF ybot > ytop
                   THEN OverlapFunc(op, Spans(b1, ytop, ybot), Spans(b2, ytop, ybot)) ELSE <<>>
           ie   == IF h1.bottom = ybot THEN BandEnd(r1, s.i) ELSE s.i
           je   == IF h2.bottom = ybot THEN BandEnd(r2, s.j) ELSE s.j
           out  == Added(Added(s.out, only), both)
<1>1. /\ s \in RegionWalks /\ s.i \in Nat /\ s.j \in Nat /\ s.ybot \in Nat
      /\ s.i \in 1 .. Len(r1) + 1 /\ s.j \in 1 .. Len(r2) + 1
      /\ Len(r1) \in Nat /\ Len(r2) \in Nat
      /\ Side(r1, s.i, s.ybot) /\ Side(r2, s.j, s.ybot)
      /\ Swept(s.out, op, r1, r2, s.ybot)
  BY DEF RegionDone, RegionWalks
<1>2. s.i + s.j >= (k - 1) + 2 \/ s.i > Len(r1) \/ s.j > Len(r2)
  BY DEF RegionDone
<1>3. CASE s.i > Len(r1) \/ s.j > Len(r2)
  <2>1. e = s
    BY <1>3 DEF RegionTurn
  <2> HIDE DEF e
  <2> QED
    BY <1>3, <2>1 DEF RegionDone, e
<1>4. CASE ~(s.i > Len(r1) \/ s.j > Len(r2))
  <2>1. e = [i |-> ie, j |-> je, ybot |-> ybot, out |-> out]
    BY <1>4, Zenon DEF RegionTurn
  <2>2. s.i \in DOMAIN r1 /\ s.j \in DOMAIN r2 /\ s.i <= Len(r1) /\ s.j <= Len(r2)
    BY <1>1, <1>4
  <2>3. AtBands(r1, r2, s.i, s.j, s.ybot)
    BY <1>1, <2>2 DEF RegionDone, AtBands
  <2>4. /\ h1.top \in Nat /\ h1.bottom \in Nat /\ h1.top < h1.bottom
        /\ h2.top \in Nat /\ h2.bottom \in Nat /\ h2.top < h2.bottom
        /\ s.ybot \in Nat /\ s.ybot < h1.bottom /\ s.ybot < h2.bottom
    BY <2>3, TwoBands
  <2>5. s.ybot <= h1.top \/ s.ybot <= h2.top
    BY <2>3 DEF AtBands
  <2>6. Part(only, op, r1, r2, s.ybot, Lower(ytop, ybot))
    BY <2>3, OnlyPart
  <2>7. Part(both, op, r1, r2, Lower(ytop, ybot), ybot)
    BY <2>3, BothPart
  <2> HIDE DEF e, only, both, h1, h2
  <2>8. /\ ytop \in Nat /\ ybot \in Nat /\ ytop >= s.ybot /\ ybot > s.ybot
        /\ ybot <= h1.bottom /\ ybot <= h2.bottom /\ (ybot = h1.bottom \/ ybot = h2.bottom)
    BY <2>4, <2>5, SMTT(60) DEF Greater, Lower
  <2> HIDE DEF ytop, ybot
  <2>9. Lower(ytop, ybot) \in Nat /\ s.ybot <= Lower(ytop, ybot) /\ Lower(ytop, ybot) <= ybot
    BY <2>4, <2>8 DEF Lower
  <2>10. Swept(Added(s.out, only), op, r1, r2, Lower(ytop, ybot))
    BY <1>1, <2>6, <2>9, PartAdded
  <2>11. Swept(out, op, r1, r2, ybot)
    BY <2>7, <2>8, <2>9, <2>10, PartAdded
  <2>12. /\ ie \in 1 .. Len(r1) + 1 /\ ie >= s.i /\ Side(r1, ie, ybot)
         /\ h1.bottom = ybot => ie >= s.i + 1 /\ (ie <= Len(r1) => ybot <= r1[ie].top)
    BY <1>1, <2>2, <2>8, Advance, SMTT(60) DEF h1
  <2>13. /\ je \in 1 .. Len(r2) + 1 /\ je >= s.j /\ Side(r2, je, ybot)
         /\ h2.bottom = ybot => je >= s.j + 1 /\ (je <= Len(r2) => ybot <= r2[je].top)
    BY <1>1, <2>2, <2>8, Advance, SMTT(60) DEF h2
  <2>14. ie \in Nat /\ je \in Nat
    BY <1>1, <2>12, <2>13
  <2>15. out \in Outs
    BY <2>11 DEF Swept, OutGood
  <2> HIDE DEF ie, je, out
  <2>16. e \in RegionWalks /\ e.i = ie /\ e.j = je /\ e.ybot = ybot /\ e.out = out
    BY <2>1, <2>8, <2>14, <2>15 DEF RegionWalks
  <2>17. ie + je >= k + 2
    <3>1. ie + je >= s.i + s.j + 1
      BY <1>1, <2>8, <2>12, <2>13, <2>14, SMTT(60)
    <3> QED
      BY <1>1, <1>2, <2>2, <2>14, <3>1, SMTT(60)
  <2>18. ie <= Len(r1) /\ je <= Len(r2) => (ybot <= r1[ie].top \/ ybot <= r2[je].top)
    BY <2>8, <2>12, <2>13
  <2>19. RegionDone(op, r1, r2, e, k)
    BY <2>11, <2>12, <2>13, <2>16, <2>17, <2>18 DEF RegionDone
  <2> QED
    BY <2>19 DEF e
<1> QED
  BY <1>3, <1>4

-----------------------------------------------------------------------------
(* The bands that are left over, from the height on that is done.          *)
LEMMA LeftOverIs ==
    ASSUME NEW r, Formed(r), NEW i \in 1 .. Len(r) + 1, NEW ybot \in Nat, Side(r, i, ybot)
    PROVE  LET o == LeftOver(r, i, ybot)
           IN  /\ Formed(o) /\ Below(o, ybot)
               /\ \A x, y \in Int : Covered(o, x, y) <=> ybot <= y /\ Covered(r, x, y)
<1> DEFINE o == LeftOver(r, i, ybot)
           n == Len(r) + 1 - i
           q(k) == [r[i + k - 1] EXCEPT !.top = Greater(@, ybot)]
<1>1. r \in Seq(Rects) /\ Banded(r) /\ Joinless(r) /\ Len(r) \in Nat /\ DOMAIN r = 1 .. Len(r)
  BY DEF Formed
<1>2. n \in Nat /\ \A k \in 1 .. n : i + k - 1 \in DOMAIN r /\ ~(i + k - 1 < i)
  BY <1>1
<1>3. ASSUME NEW k \in 1 .. n
      PROVE  LET h == r[i + k - 1]
             IN  /\ q(k) \in Rects /\ q(k).left = h.left /\ q(k).right = h.right
                 /\ q(k).bottom = h.bottom /\ q(k).top = Greater(h.top, ybot)
                 /\ q(k).top >= ybot /\ q(k).top >= h.top /\ (h.top >= ybot => q(k).top = h.top)
  <2> DEFINE h == r[i + k - 1]
             g == Greater(h.top, ybot)
  <2>1. h \in Rects /\ ybot < h.bottom
    BY <1>1, <1>2 DEF Side
  <2>2. q(k) = [h EXCEPT !.top = g]
    OBVIOUS
  <2> HIDE DEF h
  <2>3. /\ h.left \in Nat /\ h.top \in Nat /\ h.right \in Nat /\ h.bottom \in Nat
        /\ h.left < h.right /\ h.top < h.bottom /\ h.right <= Width /\ h.bottom <= Height
        /\ h = Rect(h.left, h.top, h.right, h.bottom)
    BY <2>1, RectTyped
  <2>4. g \in Nat /\ g < h.bottom /\ g >= ybot /\ g >= h.top /\ (h.top >= ybot => g = h.top)
    BY <2>1, <2>3 DEF Greater
  <2> HIDE DEF g
  <2>5. q(k) = Rect(h.left, g, h.right, h.bottom)
    <3>1. ASSUME NEW a, NEW b, NEW c, NEW d, h = Rect(a, b, c, d)
          PROVE  [h EXCEPT !.top = g] = Rect(a, g, c, d)
      BY <3>1 DEF Rect
    <3> QED
      BY <2>2, <2>3, <3>1, SMTT(60)
  <2> HIDE DEF q
  <2>6. /\ q(k) \in Rects /\ q(k).left = h.left /\ q(k).top = g
        /\ q(k).right = h.right /\ q(k).bottom = h.bottom
    BY <2>3, <2>4, <2>5, RectMade, SMTT(60)
  <2> QED
    BY <2>4, <2>6 DEF h, g
<1>4. o = [k \in 1 .. n |-> q(k)]
  BY DEF LeftOver
<1> HIDE DEF o, q
<1>5. o \in Seq(Rects) /\ DOMAIN o = 1 .. n /\ \A k \in 1 .. n : o[k] = q(k)
  <2>1. \A k \in 1 .. n : q(k) \in Rects
    BY <1>3
  <2> HIDE DEF n
  <2>2. o \in [1 .. n -> Rects]
    BY <1>4, <2>1
  <2>3. ASSUME NEW m \in Nat, o \in [1 .. m -> Rects]
        PROVE  o \in Seq(Rects)
    BY <2>3
  <2> QED
    BY <1>2, <1>4, <2>2, <2>3
<1> HIDE DEF n
<1>6. Banded(o)
  <2>1. ASSUME NEW k \in DOMAIN o, NEW m \in DOMAIN o, k < m
        PROVE  \/ o[k].top = o[m].top /\ o[k].bottom = o[m].bottom /\ o[k].right < o[m].left
               \/ o[k].bottom <= o[m].top
    <3> DEFINE u == i + k - 1
               v == i + m - 1
    <3>1. /\ k \in 1 .. n /\ m \in 1 .. n /\ k \in Int /\ m \in Int
          /\ u \in DOMAIN r /\ v \in DOMAIN r /\ u < v
      BY <1>1, <1>2, <1>5, <2>1, SMTT(60)
    <3>2. /\ o[k].left = r[u].left /\ o[k].right = r[u].right /\ o[k].bottom = r[u].bottom
          /\ o[k].top = Greater(r[u].top, ybot)
      BY <1>3, <1>5, <3>1
    <3>3. /\ o[m].left = r[v].left /\ o[m].right = r[v].right /\ o[m].bottom = r[v].bottom
          /\ o[m].top = Greater(r[v].top, ybot) /\ o[m].top >= r[v].top
      BY <1>3, <1>5, <3>1
    <3> HIDE DEF u, v
    <3>4. \/ r[u].top = r[v].top /\ r[u].bottom = r[v].bottom /\ r[u].right < r[v].left
          \/ r[u].bottom <= r[v].top
      BY <1>1, <3>1, BandedPair
    <3>5. CASE r[u].top = r[v].top /\ r[u].bottom = r[v].bottom /\ r[u].right < r[v].left
      BY <3>2, <3>3, <3>5
    <3>6. CASE r[u].bottom <= r[v].top
      <4>1. r[u].bottom \in Int /\ r[v].top \in Int /\ o[m].top \in Int
        BY <1>1, <1>5, <3>1, RectAt
      <4> QED
        BY <3>2, <3>3, <3>6, <4>1
    <3> QED
      BY <3>4, <3>5, <3>6
  <2> QED
    BY <2>1 DEF Banded
<1>7. Below(o, ybot)
  BY <1>3, <1>5 DEF Below
<1>8. ASSUME NEW x \in Int, NEW y \in Int
      PROVE  Covered(o, x, y) <=> ybot <= y /\ Covered(r, x, y)
  <2>1. ASSUME Covered(o, x, y)
        PROVE  ybot <= y /\ Covered(r, x, y)
    <3>1. PICK k \in 1 .. n : InRect(o[k], x, y)
      BY <1>5, <2>1 DEF Covered
    <3>2. /\ o[k].top >= ybot /\ o[k].top >= r[i + k - 1].top /\ o[k].left = r[i + k - 1].left
          /\ o[k].right = r[i + k - 1].right /\ o[k].bottom = r[i + k - 1].bottom
      BY <1>3, <1>5
    <3>3. o[k].top \in Int /\ r[i + k - 1].top \in Int /\ i + k - 1 \in DOMAIN r
      BY <1>1, <1>2, <1>5, RectAt
    <3>4. InRect(r[i + k - 1], x, y) /\ ybot <= y
      BY <3>1, <3>2, <3>3 DEF InRect
    <3> QED
      BY <3>3, <3>4 DEF Covered
  <2>2. ASSUME ybot <= y, Covered(r, x, y)
        PROVE  Covered(o, x, y)
    <3>1. PICK m \in DOMAIN r : InRect(r[m], x, y)
      BY <2>2 DEF Covered
    <3>2. m \in 1 .. Len(r) /\ r[m].bottom \in Int /\ r[m].top \in Int
      BY <1>1, <3>1, RectAt
    <3>3. ~(m < i)
      BY <2>2, <3>1, <3>2 DEF Side, InRect
    <3> DEFINE k == m + 1 - i
    <3>4. k \in 1 .. n /\ i + k - 1 = m
      BY <1>1, <3>2, <3>3 DEF n
    <3> HIDE DEF k
    <3>5. /\ o[k].left = r[m].left /\ o[k].right = r[m].right
          /\ o[k].bottom = r[m].bottom /\ o[k].top = Greater(r[m].top, ybot)
      BY <1>3, <1>5, <3>4
    <3>6. o[k].top <= y
      BY <2>2, <3>1, <3>2, <3>5 DEF Greater, InRect
    <3>7. InRect(o[k], x, y) /\ k \in DOMAIN o
      BY <1>5, <3>1, <3>4, <3>5, <3>6 DEF InRect
    <3> QED
      BY <3>7 DEF Covered
  <2> QED
    BY <2>1, <2>2
<1>9. Joinless(o)
  <2>1. ASSUME NEW k \in DOMAIN o
        PROVE  Row(o, o[k].bottom - 1) # Row(o, o[k].bottom)
    <3> DEFINE m == i + k - 1
               b == r[m].bottom
    <3>1. m \in DOMAIN r /\ o[k].bottom = b /\ k \in 1 .. n
      BY <1>2, <1>3, <1>5, <2>1
    <3>2. b \in Int /\ ybot < b /\ Row(r, b - 1) # Row(r, b)
      BY <1>1, <1>2, <1>5, <3>1, RectAt DEF Side, Joinless
    <3> HIDE DEF b
    <3>3. ybot <= b - 1 /\ ybot <= b /\ b - 1 \in Int
      BY <3>2
    <3>4. Row(o, b - 1) = Row(r, b - 1) /\ Row(o, b) = Row(r, b)
      <4>1. ASSUME NEW y \in Int, ybot <= y
            PROVE  Row(o, y) = Row(r, y)
        <5>1. \A x \in Int : Covered(o, x, y) <=> Covered(r, x, y)
          BY <1>8, <4>1
        <5> QED
          BY <1>1, <1>5, <5>1, RowSame
      <4> QED
        BY <3>2, <3>3, <4>1
    <3> QED
      BY <3>1, <3>2, <3>4
  <2> QED
    BY <2>1 DEF Joinless
<1> QED
  BY <1>5, <1>6, <1>7, <1>8, <1>9 DEF Formed, o

(* What is left over of an operation where only one region has points.     *)
LEMMA OnlyLeft ==
    ASSUME NEW op \in Ops, NEW rects, NEW x, NEW y
    PROVE  /\ NonOverlap1Func(op, rects) \in {rects, <<>>}
           /\ Covered(NonOverlap1Func(op, rects), x, y) <=> Made(op, Covered(rects, x, y), FALSE)
           /\ NonOverlap2Func(op, rects) \in {rects, <<>>}
           /\ Covered(NonOverlap2Func(op, rects), x, y) <=> Made(op, FALSE, Covered(rects, x, y))
<1>1. ~Covered(<<>>, x, y)
  BY NothingSlice
<1>2. CASE op = "union"
  <2>1. NonOverlap1Func(op, rects) = rects /\ NonOverlap2Func(op, rects) = rects
    BY <1>2 DEF NonOverlap1Func, NonOverlap2Func
  <2> QED
    BY <1>2, <2>1 DEF Made
<1>3. CASE op = "intersect"
  <2>1. NonOverlap1Func(op, rects) = <<>> /\ NonOverlap2Func(op, rects) = <<>>
    BY <1>3 DEF NonOverlap1Func, NonOverlap2Func
  <2> QED
    BY <1>1, <1>3, <2>1 DEF Made
<1>4. CASE op = "subtract"
  <2>1. NonOverlap1Func(op, rects) = rects /\ NonOverlap2Func(op, rects) = <<>>
    BY <1>4 DEF NonOverlap1Func, NonOverlap2Func
  <2> QED
    BY <1>1, <1>4, <2>1 DEF Made
<1> QED
  BY <1>2, <1>3, <1>4 DEF Ops

(* No array is nothing that begins above a height.                         *)
LEMMA NothingFormed ==
    ASSUME NEW y
    PROVE  Formed(<<>>) /\ Below(<<>>, y)
BY DEF Formed, Below, Banded, Joinless

(* Below where a region ends it covers nothing.                            *)
LEMMA BelowAll ==
    ASSUME NEW r \in Seq(Rects), NEW i, i > Len(r), i \in Nat, NEW ybot \in Int, Side(r, i, ybot),
           NEW x, NEW y \in Int, ybot <= y
    PROVE  ~Covered(r, x, y)
<1> SUFFICES ASSUME NEW k \in DOMAIN r, InRect(r[k], x, y)
             PROVE  FALSE
  BY DEF Covered
<1>1. k \in 1 .. Len(r) /\ Len(r) \in Nat /\ r[k].bottom \in Int
  BY RectAt
<1>2. r[k].bottom <= ybot
  BY <1>1 DEF Side
<1> QED
  BY <1>1, <1>2 DEF InRect

(* At the height where REGION_RegionOp begins there is nothing above.      *)
Topped(reg) ==
    /\ reg.extents.top \in Nat
    /\ \A k \in DOMAIN reg.rects : reg.extents.top <= reg.rects[k].top

(* REGION_RegionOp begins so.                                              *)
LEMMA StartGood ==
    ASSUME NEW op, NEW reg1, NEW reg2, Formed(reg1.rects), Formed(reg2.rects), Topped(reg1), Topped(reg2)
    PROVE  RegionDone(op, reg1.rects, reg2.rects,
                      [i |-> 1, j |-> 1, ybot |-> Lower(reg1.extents.top, reg2.extents.top),
                       out |-> [rects |-> <<>>, prevBand |-> 0]], 0)
<1> DEFINE r1 == reg1.rects
           r2 == reg2.rects
           y0 == Lower(reg1.extents.top, reg2.extents.top)
           out == [rects |-> <<>>, prevBand |-> 0]
           s == [i |-> 1, j |-> 1, ybot |-> y0, out |-> out]
<1>1. /\ y0 \in Nat
      /\ \A k \in DOMAIN r1 : y0 <= r1[k].top /\ y0 < r1[k].bottom /\ r1[k].bottom \in Int
      /\ \A k \in DOMAIN r2 : y0 <= r2[k].top /\ y0 < r2[k].bottom /\ r2[k].bottom \in Int
  <2>1. y0 \in Nat /\ y0 <= reg1.extents.top /\ y0 <= reg2.extents.top
    BY DEF Topped, Lower
  <2>2. r1 \in Seq(Rects) /\ r2 \in Seq(Rects)
    BY DEF Formed
  <2>3. ASSUME NEW k \in DOMAIN r1
        PROVE  y0 <= r1[k].top /\ y0 < r1[k].bottom /\ r1[k].bottom \in Int
    <3>1. reg1.extents.top <= r1[k].top /\ reg1.extents.top \in Nat
      BY DEF Topped
    <3>2. r1[k].top \in Int /\ r1[k].bottom \in Int /\ r1[k].top < r1[k].bottom
      BY <2>2, RectAt
    <3> QED
      BY <2>1, <3>1, <3>2
  <2>4. ASSUME NEW k \in DOMAIN r2
        PROVE  y0 <= r2[k].top /\ y0 < r2[k].bottom /\ r2[k].bottom \in Int
    <3>1. reg2.extents.top <= r2[k].top /\ reg2.extents.top \in Nat
      BY DEF Topped
    <3>2. r2[k].top \in Int /\ r2[k].bottom \in Int /\ r2[k].top < r2[k].bottom
      BY <2>2, RectAt
    <3> QED
      BY <2>1, <3>1, <3>2
  <2> QED
    BY <2>1, <2>3, <2>4
<1>2. r1 \in Seq(Rects) /\ r2 \in Seq(Rects) /\ Len(r1) \in Nat /\ Len(r2) \in Nat
  BY DEF Formed
<1> HIDE DEF r1, r2, y0
<1>3. out \in Outs /\ out.rects = <<>> /\ out.prevBand = 0
  BY DEF Outs
<1>4. Formed(<<>>) /\ Above(<<>>, y0)
  BY NothingFormed DEF Above
<1>5. ASSUME NEW x \in Int, NEW z \in Int, z < y0
      PROVE  ~Covered(r1, x, z) /\ ~Covered(r2, x, z)
  <2>1. \A r \in {r1, r2} : \A k \in DOMAIN r : r[k].top \in Int /\ y0 <= r[k].top
    BY <1>1, <1>2, RectAt
  <2> QED
    BY <1>1, <1>5, <2>1 DEF Covered, InRect
<1>6. OutGood(out, y0)
  BY <1>3, <1>4 DEF OutGood
<1>7. \A x, z \in Int : Covered(<<>>, x, z) <=> z < y0 /\ Made(op, Covered(r1, x, z), Covered(r2, x, z))
  <2>1. ASSUME NEW x \in Int, NEW z \in Int
        PROVE  ~Covered(<<>>, x, z) /\ ~(z < y0 /\ Made(op, Covered(r1, x, z), Covered(r2, x, z)))
    BY <1>5, NothingSlice DEF Made
  <2> QED
    BY <2>1
<1>8. Swept(out, op, r1, r2, y0)
  BY <1>3, <1>6, <1>7 DEF Swept
<1>9. Side(r1, 1, y0) /\ Side(r2, 1, y0)
  <2>1. \A k \in DOMAIN r1 : ~(k < 1)
    BY <1>2
  <2>2. \A k \in DOMAIN r2 : ~(k < 1)
    BY <1>2
  <2> QED
    BY <1>1, <2>1, <2>2 DEF Side
<1>10. 1 <= Len(r1) => y0 <= r1[1].top
  BY <1>1, <1>2
<1> HIDE DEF out
<1>11. s \in RegionWalks /\ s.i = 1 /\ s.j = 1 /\ s.ybot = y0 /\ s.out = out
  BY <1>1, <1>3 DEF RegionWalks
<1> HIDE DEF s
<1>12. RegionDone(op, r1, r2, s, 0)
  BY <1>2, <1>8, <1>9, <1>10, <1>11 DEF RegionDone
<1> QED
  BY <1>12 DEF s, r1, r2, out, y0

(* REGION_RegionOp makes an array of the form that its operands have, of   *)
(* exactly the points that the operation makes.                            *)
THEOREM RegionOpIs ==
    ASSUME NEW op \in Ops, NEW reg1, NEW reg2,
           Formed(reg1.rects), Formed(reg2.rects), Topped(reg1), Topped(reg2)
    PROVE  LET o == REGION_RegionOp(op, reg1, reg2)
           IN  /\ Formed(o)
               /\ \A x, y \in Int : Covered(o, x, y) <=>
                      Made(op, Covered(reg1.rects, x, y), Covered(reg2.rects, x, y))
<1> DEFINE r1 == reg1.rects
           r2 == reg2.rects
           N == Len(r1) + Len(r2)
           a == [i |-> 1, j |-> 1, ybot |-> Lower(reg1.extents.top, reg2.extents.top),
                 out |-> [rects |-> <<>>, prevBand |-> 0]]
           D(k) == {s \in RegionWalks : RegionDone(op, r1, r2, s, k)}
           T == [k \in 0 .. N |-> D(k)]
           G == [q \in RegionWalks \X (1 .. N) |-> RegionTurn(op, r1, r2, q[1])]
           turn == CHOOSE f :
                       f = [n \in 0 .. N |-> IF n = 0 THEN a ELSE RegionTurn(op, r1, r2, f[n - 1])]
           left == IF turn[N].i <= Len(r1)
                   THEN NonOverlap1Func(op, LeftOver(r1, turn[N].i, turn[N].ybot))
                   ELSE NonOverlap2Func(op, LeftOver(r2, turn[N].j, turn[N].ybot))
           o == REGION_RegionOp(op, reg1, reg2)
<1>1. /\ N \in Nat /\ Len(r1) \in Nat /\ Len(r2) \in Nat
      /\ r1 \in Seq(Rects) /\ Banded(r1) /\ r2 \in Seq(Rects) /\ Banded(r2)
  <2>1. r1 \in Seq(Rects) /\ Banded(r1) /\ r2 \in Seq(Rects) /\ Banded(r2)
    BY Zenon DEF Formed
  <2> HIDE DEF r1, r2
  <2> QED
    BY <2>1
<1>2. o = Added(turn[N].out, left).rects
  BY Zenon DEF REGION_RegionOp
<1> HIDE DEF left, o
<1>3. a \in D(0)
  <2>1. RegionDone(op, r1, r2, a, 0)
    BY StartGood
  <2>2. a \in RegionWalks
    BY <2>1 DEF RegionDone
  <2> QED
    BY <2>1, <2>2
<1> HIDE DEF r1, r2
<1>4. ASSUME NEW k \in 1 .. N, NEW s \in D(k - 1)
      PROVE  RegionTurn(op, r1, r2, s) \in D(k)
  <2>1. RegionDone(op, r1, r2, s, k - 1) /\ k \in Nat /\ k > 0
    BY <1>1
  <2>2. RegionDone(op, r1, r2, RegionTurn(op, r1, r2, s), k)
    BY <1>1, <2>1, RegionTurnGood
  <2>3. RegionTurn(op, r1, r2, s) \in RegionWalks
    BY <2>2 DEF RegionDone
  <2> QED
    BY <2>2, <2>3
<1>5. \A k \in 0 .. N : D(k) \subseteq RegionWalks
  OBVIOUS
<1>6. \A s \in D(N) : s \in RegionWalks /\ RegionDone(op, r1, r2, s, N)
  OBVIOUS
<1> HIDE DEF N, D, a
<1>7. \A k \in 0 .. N : T[k] = D(k)
  OBVIOUS
<1>8. \A k \in 1 .. N : T[k - 1] = D(k - 1) /\ k - 1 \in 0 .. N /\ k \in 0 .. N
  BY <1>1
<1>9. 0 \in 0 .. N /\ N \in 0 .. N
  BY <1>1
<1> HIDE DEF T
<1>10. \A k \in 1 .. N : \A s \in RegionWalks : G[<<s, k>>] = RegionTurn(op, r1, r2, s)
  OBVIOUS
<1> HIDE DEF G
<1>11. PICK f : Looped(f, N, a, G) /\ \A k \in 0 .. N : f[k] \in T[k]
  <2>1. a \in T[0] /\ \A k \in 0 .. N : T[k] \subseteq RegionWalks
    BY <1>1, <1>3, <1>5, <1>7, <1>9
  <2>2. ASSUME NEW k \in 1 .. N, NEW s \in T[k - 1]
        PROVE  G[<<s, k>>] \in T[k]
    <3>1. s \in D(k - 1) /\ T[k] = D(k) /\ s \in RegionWalks
      BY <1>5, <1>7, <1>8
    <3>2. G[<<s, k>>] = RegionTurn(op, r1, r2, s)
      BY <1>10, <3>1
    <3> QED
      BY <1>4, <3>1, <3>2
  <2> QED
    BY <1>1, <2>1, <2>2, LoopRuns
<1>12. f = [k \in 0 .. N |-> IF k = 0 THEN a ELSE RegionTurn(op, r1, r2, f[k - 1])]
  <2>1. ASSUME NEW k \in 1 .. N
        PROVE  G[<<f[k - 1], k>>] = RegionTurn(op, r1, r2, f[k - 1])
    BY <1>5, <1>7, <1>8, <1>10, <1>11
  <2>2. f = [k \in 0 .. N |-> IF k = 0 THEN a ELSE G[<<f[k - 1], k>>]]
    BY <1>11 DEF Looped
  <2>3. \A k \in 0 .. N : k = 0 \/ k \in 1 .. N
    BY <1>1
  <2> QED
    BY <2>1, <2>2, <2>3
<1>13. turn = [k \in 0 .. N |-> IF k = 0 THEN a ELSE RegionTurn(op, r1, r2, turn[k - 1])]
  BY <1>12, Zenon
<1> HIDE DEF turn
<1>14. turn[0] = a /\ \A k \in 1 .. N : turn[k] = RegionTurn(op, r1, r2, turn[k - 1])
  BY <1>1, <1>13
<1>15. \A k \in 0 .. N : turn[k] \in T[k]
  <2>1. turn[0] \in T[0]
    BY <1>3, <1>7, <1>9, <1>14
  <2>2. \A k \in 1 .. N : turn[k - 1] \in T[k - 1] => turn[k] \in T[k]
    BY <1>4, <1>7, <1>8, <1>14
  <2> QED
    BY <1>1, <2>1, <2>2, LoopKeeps
<1>16. turn[N] \in D(N)
  BY <1>7, <1>9, <1>15
<1>17. RegionDone(op, r1, r2, turn[N], N)
  BY <1>6, <1>16
<1> DEFINE s == turn[N]
<1>18. /\ s.i \in Nat /\ s.j \in Nat /\ s.ybot \in Nat
       /\ s.i \in 1 .. Len(r1) + 1 /\ s.j \in 1 .. Len(r2) + 1
       /\ s.i > Len(r1) \/ s.j > Len(r2)
       /\ Side(r1, s.i, s.ybot) /\ Side(r2, s.j, s.ybot)
       /\ Swept(s.out, op, r1, r2, s.ybot)
  <2>1. /\ s \in RegionWalks
        /\ s.i \in 1 .. Len(r1) + 1 /\ s.j \in 1 .. Len(r2) + 1
        /\ (s.i + s.j >= N + 2 \/ s.i > Len(r1) \/ s.j > Len(r2))
        /\ Side(r1, s.i, s.ybot) /\ Side(r2, s.j, s.ybot)
        /\ Swept(s.out, op, r1, r2, s.ybot)
    BY <1>17 DEF RegionDone
  <2>2. s.i > Len(r1) \/ s.j > Len(r2)
    BY <1>1, <2>1 DEF N
  <2>3. s.i \in Nat /\ s.j \in Nat /\ s.ybot \in Nat
    BY <2>1 DEF RegionWalks
  <2> QED
    BY <2>1, <2>2, <2>3
<1> HIDE DEF s
<1>19. left = IF s.i <= Len(r1) THEN NonOverlap1Func(op, LeftOver(r1, s.i, s.ybot))
              ELSE NonOverlap2Func(op, LeftOver(r2, s.j, s.ybot))
  BY Zenon DEF left, s
<1>20. /\ Formed(left) /\ Below(left, s.ybot)
       /\ \A x, y \in Int : Covered(left, x, y) <=>
              s.ybot <= y /\ Made(op, Covered(r1, x, y), Covered(r2, x, y))
  <2>1. CASE s.i <= Len(r1)
    <3> DEFINE l == LeftOver(r1, s.i, s.ybot)
    <3>1. Formed(r1)
      BY DEF r1
    <3>2. /\ Formed(l) /\ Below(l, s.ybot)
          /\ \A x, y \in Int : Covered(l, x, y) <=> s.ybot <= y /\ Covered(r1, x, y)
      BY <1>18, <3>1, LeftOverIs
    <3>3. left = NonOverlap1Func(op, l)
      BY <1>19, <2>1
    <3> HIDE DEF l
    <3>4. left \in {l, <<>>}
      BY <3>3, OnlyLeft
    <3>5. Formed(left) /\ Below(left, s.ybot)
      BY <3>2, <3>4, NothingFormed
    <3>6. s.j > Len(r2)
      BY <1>1, <1>18, <2>1
    <3>7. ASSUME NEW x \in Int, NEW y \in Int
          PROVE  Covered(left, x, y) <=>
                     s.ybot <= y /\ Made(op, Covered(r1, x, y), Covered(r2, x, y))
      <4>1. Covered(left, x, y) <=> Made(op, Covered(l, x, y), FALSE)
        BY <3>3, OnlyLeft
      <4>2. s.ybot <= y => ~Covered(r2, x, y)
        BY <1>1, <1>18, <3>6, BelowAll
      <4>3. Covered(l, x, y) <=> s.ybot <= y /\ Covered(r1, x, y)
        BY <3>2
      <4> QED
        BY <4>1, <4>2, <4>3 DEF Made
    <3> QED
      BY <3>5, <3>7
  <2>2. CASE ~(s.i <= Len(r1))
    <3> DEFINE l == LeftOver(r2, s.j, s.ybot)
    <3>1. Formed(r2)
      BY DEF r2
    <3>2. /\ Formed(l) /\ Below(l, s.ybot)
          /\ \A x, y \in Int : Covered(l, x, y) <=> s.ybot <= y /\ Covered(r2, x, y)
      BY <1>18, <3>1, LeftOverIs
    <3>3. left = NonOverlap2Func(op, l)
      BY <1>19, <2>2
    <3> HIDE DEF l
    <3>4. left \in {l, <<>>}
      BY <3>3, OnlyLeft
    <3>5. Formed(left) /\ Below(left, s.ybot)
      BY <3>2, <3>4, NothingFormed
    <3>6. s.i > Len(r1)
      BY <1>1, <1>18, <2>2
    <3>7. ASSUME NEW x \in Int, NEW y \in Int
          PROVE  Covered(left, x, y) <=>
                     s.ybot <= y /\ Made(op, Covered(r1, x, y), Covered(r2, x, y))
      <4>1. Covered(left, x, y) <=> Made(op, FALSE, Covered(l, x, y))
        BY <3>3, OnlyLeft
      <4>2. s.ybot <= y => ~Covered(r1, x, y)
        BY <1>1, <1>18, <3>6, BelowAll
      <4>3. Covered(l, x, y) <=> s.ybot <= y /\ Covered(r2, x, y)
        BY <3>2
      <4> QED
        BY <4>1, <4>2, <4>3 DEF Made
    <3> QED
      BY <3>5, <3>7
  <2> QED
    BY <2>1, <2>2
<1>21. o = Added(s.out, left).rects
  BY <1>2 DEF s
<1>22. Formed(o) /\ Covers(o, s.out.rects, left)
  <2>1. OutGood(s.out, s.ybot) /\ s.ybot \in Int
    BY <1>18 DEF Swept
  <2> QED
    BY <1>20, <1>21, <2>1, AddedGood
<1>23. ASSUME NEW x \in Int, NEW y \in Int
       PROVE  Covered(o, x, y) <=> Made(op, Covered(r1, x, y), Covered(r2, x, y))
  <2>1. Covered(o, x, y) <=> Covered(s.out.rects, x, y) \/ Covered(left, x, y)
    BY <1>22 DEF Covers
  <2>2. Covered(s.out.rects, x, y) <=>
            y < s.ybot /\ Made(op, Covered(r1, x, y), Covered(r2, x, y))
    BY <1>18 DEF Swept
  <2>3. Covered(left, x, y) <=> s.ybot <= y /\ Made(op, Covered(r1, x, y), Covered(r2, x, y))
    BY <1>20
  <2>4. y < s.ybot \/ s.ybot <= y
    BY <1>18
  <2> QED
    BY <2>1, <2>2, <2>3, <2>4
<1> QED
  BY <1>22, <1>23 DEF o, r1, r2

-----------------------------------------------------------------------------
(* Regions: an array and its box.                                          *)

(* The box of what an array covers.                                        *)
Boxed(e, r) ==
    /\ e.left \in Nat /\ e.top \in Nat /\ e.right \in Nat /\ e.bottom \in Nat
    /\ e = Rect(e.left, e.top, e.right, e.bottom)
    /\ \A x, y \in Int : Covered(r, x, y) => InRect(e, x, y)
    /\ \E y \in Int : Covered(r, e.left, y)
    /\ \E y \in Int : Covered(r, e.right - 1, y)
    /\ \E x \in Int : Covered(r, x, e.top)
    /\ \E x \in Int : Covered(r, x, e.bottom - 1)

(* There is only one.                                                      *)
LEMMA BoxSame ==
    ASSUME NEW e, NEW r, Boxed(e, r), NEW f, NEW s, Boxed(f, s),
           \A x, y \in Int : Covered(r, x, y) => Covered(s, x, y),
           \A x, y \in Int : Covered(s, x, y) => Covered(r, x, y)
    PROVE  e = f
<1>1. /\ e.left \in Nat /\ e.top \in Nat /\ e.right \in Nat /\ e.bottom \in Nat
      /\ f.left \in Nat /\ f.top \in Nat /\ f.right \in Nat /\ f.bottom \in Nat
      /\ e = Rect(e.left, e.top, e.right, e.bottom) /\ f = Rect(f.left, f.top, f.right, f.bottom)
  BY DEF Boxed
<1>2. \A x, y \in Int : Covered(r, x, y) \/ Covered(s, x, y) => InRect(e, x, y) /\ InRect(f, x, y)
  BY DEF Boxed
<1>3. e.left = f.left
  <2>1. PICK y \in Int : Covered(r, e.left, y)
    BY DEF Boxed
  <2>2. PICK z \in Int : Covered(s, f.left, z)
    BY DEF Boxed
  <2>3. InRect(f, e.left, y) /\ InRect(e, f.left, z)
    BY <1>1, <1>2, <2>1, <2>2
  <2> QED
    BY <1>1, <2>3 DEF InRect
<1>4. e.right = f.right
  <2>1. PICK y \in Int : Covered(r, e.right - 1, y)
    BY DEF Boxed
  <2>2. PICK z \in Int : Covered(s, f.right - 1, z)
    BY DEF Boxed
  <2>3. e.right - 1 \in Int /\ f.right - 1 \in Int
    BY <1>1
  <2>4. InRect(f, e.right - 1, y) /\ InRect(e, f.right - 1, z)
    BY <1>2, <2>1, <2>2, <2>3
  <2> QED
    BY <1>1, <2>4 DEF InRect
<1>5. e.top = f.top
  <2>1. PICK x \in Int : Covered(r, x, e.top)
    BY DEF Boxed
  <2>2. PICK z \in Int : Covered(s, z, f.top)
    BY DEF Boxed
  <2>3. InRect(f, x, e.top) /\ InRect(e, z, f.top)
    BY <1>1, <1>2, <2>1, <2>2
  <2> QED
    BY <1>1, <2>3 DEF InRect
<1>6. e.bottom = f.bottom
  <2>1. PICK x \in Int : Covered(r, x, e.bottom - 1)
    BY DEF Boxed
  <2>2. PICK z \in Int : Covered(s, z, f.bottom - 1)
    BY DEF Boxed
  <2>3. e.bottom - 1 \in Int /\ f.bottom - 1 \in Int
    BY <1>1
  <2>4. InRect(f, x, e.bottom - 1) /\ InRect(e, z, f.bottom - 1)
    BY <1>2, <2>1, <2>2, <2>3
  <2> QED
    BY <1>1, <2>4 DEF InRect
<1> QED
  BY <1>1, <1>3, <1>4, <1>5, <1>6

(* REGION_SetExtents finds it: the first band is the highest.              *)
LEMMA SetExtentsIs ==
    ASSUME NEW r \in Seq(Rects), Banded(r), r # <<>>
    PROVE  Boxed(REGION_SetExtents(r), r)
<1> DEFINE L == {r[i].left : i \in DOMAIN r}
           R == {r[i].right : i \in DOMAIN r}
           n == Len(r)
           l == Min(L)
           g == Max(R)
           e == REGION_SetExtents(r)
<1>1. Len(r) \in Nat /\ 1 \in DOMAIN r /\ n \in DOMAIN r /\ DOMAIN r = 1 .. n
  OBVIOUS
<1>2. e = Rect(l, r[1].top, g, r[n].bottom)
  BY Zenon DEF REGION_SetExtents
<1>3. \A k \in DOMAIN r :
        /\ r[k].left \in Nat /\ r[k].right \in Nat /\ r[k].top \in Nat /\ r[k].bottom \in Nat
        /\ r[k].right <= Width /\ r[k].left < r[k].right /\ r[k].top < r[k].bottom
  BY RectTyped
<1>4. Width \in Int
  BY RegionAssumption
<1>5. l \in L /\ \A s \in L : l <= s
  <2>1. L \subseteq Int /\ L # {} /\ 0 \in Int /\ \A s \in L : 0 <= s
    BY <1>1, <1>3
  <2> QED
    BY <2>1, MinIsLeast
<1>6. g \in R /\ \A s \in R : s <= g
  <2>1. R \subseteq Int /\ R # {} /\ \A s \in R : s <= Width
    BY <1>1, <1>3
  <2> QED
    BY <1>4, <2>1, MaxIsGreatest
<1>7. PICK kl \in DOMAIN r : l = r[kl].left
  BY <1>5
<1>8. PICK kr \in DOMAIN r : g = r[kr].right
  BY <1>6
<1>9. \A k \in DOMAIN r : l <= r[k].left /\ r[k].right <= g
  BY <1>5, <1>6
<1> HIDE DEF e, l, g, L, R
<1>10. ASSUME NEW k \in DOMAIN r
       PROVE  r[1].top <= r[k].top /\ r[k].bottom <= r[n].bottom
  <2>1. r[1].top <= r[k].top
    <3>1. CASE k = 1
      BY <1>1, <1>3, <3>1
    <3>2. CASE k # 1
      <4>1. 1 < k
        BY <1>1, <3>2
      <4>2. r[1].top = r[k].top \/ r[1].bottom <= r[k].top
        BY <1>1, <4>1, BandedPair
      <4> QED
        BY <1>1, <1>3, <4>2
    <3> QED
      BY <3>1, <3>2
  <2>2. r[k].bottom <= r[n].bottom
    <3>1. CASE k = n
      BY <1>1, <1>3, <3>1
    <3>2. CASE k # n
      <4>1. k < n
        BY <1>1, <3>2
      <4>2. r[k].bottom = r[n].bottom \/ r[k].bottom <= r[n].top
        BY <1>1, <4>1, BandedPair
      <4> QED
        BY <1>1, <1>3, <4>2
    <3> QED
      BY <3>1, <3>2
  <2> QED
    BY <2>1, <2>2
<1>11. e.left = l /\ e.top = r[1].top /\ e.right = g /\ e.bottom = r[n].bottom
  BY <1>2 DEF Rect
<1>12. ASSUME NEW x \in Int, NEW y \in Int, Covered(r, x, y)
       PROVE  InRect(e, x, y)
  <2>1. PICK k \in DOMAIN r : InRect(r[k], x, y)
    BY <1>12 DEF Covered
  <2>2. l \in Nat /\ g \in Nat
    BY <1>3, <1>7, <1>8
  <2> QED
    BY <1>1, <1>3, <1>9, <1>10, <1>11, <2>1, <2>2, SMTT(60) DEF InRect
<1>13. Covered(r, e.left, r[kl].top) /\ r[kl].top \in Int
  BY <1>3, <1>7, <1>11, CornersCovered
<1>14. Covered(r, e.right - 1, r[kr].top) /\ r[kr].top \in Int
  BY <1>3, <1>8, <1>11, CornersCovered
<1>15. Covered(r, r[1].left, e.top) /\ r[1].left \in Int
  BY <1>1, <1>3, <1>11, CornersCovered
<1>16. Covered(r, r[n].left, e.bottom - 1) /\ r[n].left \in Int
  BY <1>1, <1>3, <1>11, CornersCovered, SMTT(60)
<1>17. e.left \in Nat /\ e.top \in Nat /\ e.right \in Nat /\ e.bottom \in Nat
  BY <1>1, <1>3, <1>7, <1>8, <1>11
<1>18. e = Rect(e.left, e.top, e.right, e.bottom)
  BY <1>2, <1>11
<1>19. Boxed(e, r)
  BY <1>12, <1>13, <1>14, <1>15, <1>16, <1>17, <1>18 DEF Boxed
<1> QED
  BY <1>19 DEF e

-----------------------------------------------------------------------------
(* A region that is made of the points A.                                  *)
Good(reg, A) ==
    /\ reg = [rects |-> reg.rects, extents |-> reg.extents]
    /\ Formed(reg.rects) /\ A \subseteq Cells
    /\ \A x, y \in Int : Covered(reg.rects, x, y) <=> <<x, y>> \in A
    /\ IF reg.rects = <<>> THEN reg.extents = Rect(0, 0, 0, 0) ELSE Boxed(reg.extents, reg.rects)

(* REGION_RegionOp may begin at its top.                                   *)
LEMMA GoodTopped ==
    ASSUME NEW reg, NEW A, Good(reg, A)
    PROVE  Topped(reg)
<1> DEFINE r == reg.rects
           e == reg.extents
<1>1. r \in Seq(Rects)
  BY DEF Good, Formed
<1>2. CASE r = <<>>
  <2>1. e.top = 0
    BY <1>2 DEF Good, Rect
  <2>2. DOMAIN r = {}
    BY <1>2
  <2> QED
    BY <2>1, <2>2 DEF Topped
<1>3. CASE r # <<>>
  <2>1. Boxed(e, r)
    BY <1>3 DEF Good
  <2>2. ASSUME NEW k \in DOMAIN r
        PROVE  e.top <= r[k].top
    <3>1. Covered(r, r[k].left, r[k].top) /\ r[k].left \in Int /\ r[k].top \in Int
      BY <1>1, CornersCovered, RectAt
    <3>2. InRect(e, r[k].left, r[k].top)
      BY <2>1, <3>1 DEF Boxed
    <3> QED
      BY <3>2 DEF InRect
  <2> QED
    BY <2>1, <2>2 DEF Topped, Boxed
<1> QED
  BY <1>2, <1>3

(* It is empty just when it has no rectangle.                              *)
LEMMA GoodEmpty ==
    ASSUME NEW reg, NEW A, Good(reg, A)
    PROVE  reg.rects = <<>> <=> A = {}
<1> DEFINE r == reg.rects
<1>1. r \in Seq(Rects) /\ A \subseteq Cells /\ \A x, y \in Int : Covered(r, x, y) <=> <<x, y>> \in A
  BY DEF Good, Formed
<1>2. ASSUME r = <<>>, A # {}
      PROVE  FALSE
  <2>1. PICK p \in A : TRUE
    BY <1>2
  <2>2. p \in Cells
    BY <1>1, <2>1
  <2>3. p = <<p[1], p[2]>> /\ p[1] \in Int /\ p[2] \in Int
    BY <2>2, RegionAssumption DEF Cells
  <2>4. Covered(r, p[1], p[2])
    BY <1>1, <2>1, <2>3
  <2> QED
    BY <1>2, <2>4, NothingSlice
<1>3. ASSUME r # <<>>
      PROVE  A # {}
  <2>1. 1 \in DOMAIN r
    BY <1>1, <1>3
  <2>2. Covered(r, r[1].left, r[1].top) /\ r[1].left \in Int /\ r[1].top \in Int
    BY <1>1, <2>1, CornersCovered, RectAt
  <2> QED
    BY <1>1, <2>2
<1> QED
  BY <1>2, <1>3

-----------------------------------------------------------------------------
(* The operations on regions.                                              *)

(* No rectangles: no points.                                               *)
LEMMA GoodNothing ==
    Good([rects |-> <<>>, extents |-> REGION_SetExtents(<<>>)], {}) /\ Good(EMPTY_REGION, {})
<1> DEFINE g == [rects |-> <<>>, extents |-> Rect(0, 0, 0, 0)]
<1>1. REGION_SetExtents(<<>>) = Rect(0, 0, 0, 0)
  BY DEF REGION_SetExtents
<1>2. EMPTY_REGION = g
  BY DEF EMPTY_REGION
<1>3. g.rects = <<>> /\ g.extents = Rect(0, 0, 0, 0) /\ g = [rects |-> g.rects, extents |-> g.extents]
  OBVIOUS
<1>4. Formed(<<>>) /\ \A x, y : ~Covered(<<>>, x, y)
  BY NothingFormed, NothingSlice
<1> HIDE DEF g
<1>5. Good(g, {})
  BY <1>3, <1>4 DEF Good
<1> QED
  BY <1>1, <1>2, <1>5 DEF g

(* An array made of C, with its extents set, is the region of C.           *)
LEMMA SetGood ==
    ASSUME NEW o, Formed(o), NEW C, C \subseteq Cells,
           \A x, y \in Int : Covered(o, x, y) <=> <<x, y>> \in C
    PROVE  Good([rects |-> o, extents |-> REGION_SetExtents(o)], C)
<1> DEFINE e == REGION_SetExtents(o)
           g == [rects |-> o, extents |-> e]
<1>1. o = <<>> => e = Rect(0, 0, 0, 0)
  BY DEF REGION_SetExtents
<1>2. o # <<>> => Boxed(e, o)
  BY SetExtentsIs DEF Formed
<1> HIDE DEF e
<1>3. g.rects = o /\ g.extents = e /\ g = [rects |-> g.rects, extents |-> g.extents]
  OBVIOUS
<1> HIDE DEF g
<1>4. Good(g, C)
  BY <1>1, <1>2, <1>3 DEF Good
<1> QED
  BY <1>4 DEF g, e

(* The points that an operation makes of two sets of points.               *)
Comes(op, A, B, C) == \A p : p \in C <=> Made(op, p \in A, p \in B)

(* The array that REGION_RegionOp makes is one of the points it should be. *)
LEMMA OpGood ==
    ASSUME NEW op \in Ops, NEW reg1, NEW A, Good(reg1, A), NEW reg2, NEW B, Good(reg2, B),
           NEW C, Comes(op, A, B, C)
    PROVE  LET o == REGION_RegionOp(op, reg1, reg2)
           IN  /\ Formed(o) /\ C \subseteq Cells
               /\ \A x, y \in Int : Covered(o, x, y) <=> <<x, y>> \in C
<1> DEFINE o == REGION_RegionOp(op, reg1, reg2)
<1>1. /\ Formed(reg1.rects) /\ A \subseteq Cells
      /\ \A x, y \in Int : Covered(reg1.rects, x, y) <=> <<x, y>> \in A
  BY DEF Good
<1>2. /\ Formed(reg2.rects) /\ B \subseteq Cells
      /\ \A x, y \in Int : Covered(reg2.rects, x, y) <=> <<x, y>> \in B
  BY DEF Good
<1>3. Topped(reg1) /\ Topped(reg2)
  BY GoodTopped
<1>4. C \subseteq Cells
  BY <1>1, <1>2 DEF Made, Comes
<1>5. /\ Formed(o)
      /\ \A x, y \in Int : Covered(o, x, y) <=>
             Made(op, Covered(reg1.rects, x, y), Covered(reg2.rects, x, y))
  BY <1>1, <1>2, <1>3, RegionOpIs
<1> HIDE DEF o
<1>6. ASSUME NEW x \in Int, NEW y \in Int
      PROVE  Covered(o, x, y) <=> <<x, y>> \in C
  <2>1. Covered(o, x, y) <=> Made(op, Covered(reg1.rects, x, y), Covered(reg2.rects, x, y))
    BY <1>5
  <2>2. /\ Covered(reg1.rects, x, y) <=> <<x, y>> \in A
        /\ Covered(reg2.rects, x, y) <=> <<x, y>> \in B
    BY <1>1, <1>2
  <2>3. <<x, y>> \in C <=> Made(op, <<x, y>> \in A, <<x, y>> \in B)
    BY DEF Comes
  <2> QED
    BY <2>1, <2>2, <2>3 DEF Made
<1> QED
  BY <1>4, <1>5, <1>6 DEF o

(* Regions whose extents do not meet have no point in common.              *)
LEMMA ApartIs ==
    ASSUME NEW reg1, NEW A, Good(reg1, A), NEW reg2, NEW B, Good(reg2, B), Apart(reg1, reg2)
    PROVE  A \cap B = {}
<1>1. CASE reg1.rects = <<>> \/ reg2.rects = <<>>
  BY <1>1, GoodEmpty
<1>2. CASE reg1.rects # <<>> /\ reg2.rects # <<>>
  <2> DEFINE e == reg1.extents
             f == reg2.extents
  <2>1. Boxed(e, reg1.rects) /\ Boxed(f, reg2.rects) /\ ~EXTENTCHECK(e, f)
    BY <1>2 DEF Good, Apart
  <2>2. /\ e.left \in Nat /\ e.top \in Nat /\ e.right \in Nat /\ e.bottom \in Nat
        /\ f.left \in Nat /\ f.top \in Nat /\ f.right \in Nat /\ f.bottom \in Nat
    BY <2>1 DEF Boxed
  <2>3. ASSUME NEW p \in A, p \in B
        PROVE  FALSE
    <3>1. p \in Cells
      BY DEF Good
    <3>2. p = <<p[1], p[2]>> /\ p[1] \in Int /\ p[2] \in Int
      BY <3>1, RegionAssumption DEF Cells
    <3> DEFINE x == p[1]
               y == p[2]
    <3>3. <<x, y>> \in A /\ <<x, y>> \in B /\ x \in Int /\ y \in Int
      BY <2>3, <3>2
    <3> HIDE DEF x, y
    <3>4. Covered(reg1.rects, x, y) /\ Covered(reg2.rects, x, y)
      BY <3>3 DEF Good
    <3>5. InRect(e, x, y) /\ InRect(f, x, y)
      BY <2>1, <3>3, <3>4 DEF Boxed
    <3> HIDE DEF e, f
    <3> QED
      BY <2>1, <2>2, <3>3, <3>5 DEF EXTENTCHECK, InRect
  <2> QED
    BY <2>3
<1> QED
  BY <1>1, <1>2

(* GdIntersectRegion makes the region of the common points.                *)
LEMMA IntersectGood ==
    ASSUME NEW reg1, NEW A, Good(reg1, A), NEW reg2, NEW B, Good(reg2, B)
    PROVE  Good(GdIntersectRegion(reg1, reg2), A \cap B)
<1> DEFINE o == REGION_RegionOp("intersect", reg1, reg2)
<1>1. CASE Apart(reg1, reg2)
  <2>1. GdIntersectRegion(reg1, reg2) = [rects |-> <<>>, extents |-> REGION_SetExtents(<<>>)]
    BY <1>1 DEF GdIntersectRegion
  <2> QED
    BY <1>1, <2>1, ApartIs, GoodNothing
<1>2. CASE ~Apart(reg1, reg2)
  <2>1. GdIntersectRegion(reg1, reg2) = [rects |-> o, extents |-> REGION_SetExtents(o)]
    BY <1>2 DEF GdIntersectRegion
  <2>2. "intersect" \in Ops /\ Comes("intersect", A, B, A \cap B)
    BY DEF Ops, Made, Comes
  <2>3. /\ Formed(o) /\ A \cap B \subseteq Cells
        /\ \A x, y \in Int : Covered(o, x, y) <=> <<x, y>> \in A \cap B
    BY <2>2, OpGood
  <2> HIDE DEF o
  <2> QED
    BY <2>1, <2>3, SetGood
<1> QED
  BY <1>1, <1>2

(* GdSubtractRegion makes the region of the points of the minuend alone.   *)
LEMMA SubtractGood ==
    ASSUME NEW reg1, NEW A, Good(reg1, A), NEW reg2, NEW B, Good(reg2, B)
    PROVE  Good(GdSubtractRegion(reg1, reg2), A \ B)
<1> DEFINE o == REGION_RegionOp("subtract", reg1, reg2)
<1>1. CASE Apart(reg1, reg2)
  <2>1. GdSubtractRegion(reg1, reg2) = reg1
    BY <1>1 DEF GdSubtractRegion
  <2>2. A \ B = A
    BY <1>1, ApartIs
  <2> QED
    BY <2>1, <2>2
<1>2. CASE ~Apart(reg1, reg2)
  <2>1. GdSubtractRegion(reg1, reg2) = [rects |-> o, extents |-> REGION_SetExtents(o)]
    BY <1>2 DEF GdSubtractRegion
  <2>2. "subtract" \in Ops /\ Comes("subtract", A, B, A \ B)
    BY DEF Ops, Made, Comes
  <2>3. /\ Formed(o) /\ A \ B \subseteq Cells
        /\ \A x, y \in Int : Covered(o, x, y) <=> <<x, y>> \in A \ B
    BY <2>2, OpGood
  <2> HIDE DEF o
  <2> QED
    BY <2>1, <2>3, SetGood
<1> QED
  BY <1>1, <1>2

(* A region of one rectangle that holds the extents of another holds it.   *)
LEMMA SubsumesIs ==
    ASSUME NEW reg1, NEW A, Good(reg1, A), NEW reg2, NEW B, Good(reg2, B), reg2.rects # <<>>,
           Subsumes(reg1, reg2)
    PROVE  B \subseteq A
<1> DEFINE r == reg1.rects
           e == reg1.extents
           f == reg2.extents
<1>1. r \in Seq(Rects) /\ Len(r) = 1 /\ r # <<>> /\ DOMAIN r = {1}
  <2>1. r \in Seq(Rects)
    BY DEF Good, Formed
  <2>2. Len(r) = 1
    BY DEF Subsumes
  <2> HIDE DEF r
  <2> QED
    BY <2>1, <2>2
<1>2. Boxed(e, r) /\ Boxed(f, reg2.rects)
  BY <1>1 DEF Good
<1>3. /\ e.left \in Nat /\ e.top \in Nat /\ e.right \in Nat /\ e.bottom \in Nat
      /\ f.left \in Nat /\ f.top \in Nat /\ f.right \in Nat /\ f.bottom \in Nat
  BY <1>2 DEF Boxed
<1>4. e.left <= f.left /\ e.right >= f.right /\ e.top <= f.top /\ e.bottom >= f.bottom
  BY DEF Subsumes
<1>5. /\ r[1].left \in Int /\ r[1].right \in Int /\ r[1].top \in Int /\ r[1].bottom \in Int
  BY <1>1, RectAt
<1>6. \A x, y : Covered(r, x, y) <=> InRect(r[1], x, y)
  BY <1>1 DEF Covered
<1>7. r[1].left <= e.left /\ e.right <= r[1].right /\ r[1].top <= e.top /\ e.bottom <= r[1].bottom
  <2>1. PICK y \in Int : Covered(r, e.left, y)
    BY <1>2 DEF Boxed
  <2>2. PICK z \in Int : Covered(r, e.right - 1, z)
    BY <1>2 DEF Boxed
  <2>3. PICK x \in Int : Covered(r, x, e.top)
    BY <1>2 DEF Boxed
  <2>4. PICK u \in Int : Covered(r, u, e.bottom - 1)
    BY <1>2 DEF Boxed
  <2>5. /\ InRect(r[1], e.left, y) /\ InRect(r[1], e.right - 1, z)
        /\ InRect(r[1], x, e.top) /\ InRect(r[1], u, e.bottom - 1)
    BY <1>6, <2>1, <2>2, <2>3, <2>4
  <2> QED
    BY <1>3, <1>5, <2>5, SMTT(60) DEF InRect
<1>8. ASSUME NEW p \in B
      PROVE  p \in A
  <2>1. p \in Cells
    BY DEF Good
  <2>2. p = <<p[1], p[2]>> /\ p[1] \in Int /\ p[2] \in Int
    BY <2>1, RegionAssumption DEF Cells
  <2> DEFINE x == p[1]
             y == p[2]
  <2>3. <<x, y>> \in B /\ x \in Int /\ y \in Int /\ p = <<x, y>>
    BY <2>2
  <2> HIDE DEF x, y
  <2>4. Covered(reg2.rects, x, y)
    BY <2>3 DEF Good
  <2>5. InRect(f, x, y)
    BY <1>2, <2>3, <2>4 DEF Boxed
  <2> HIDE DEF e, f, r
  <2>6. InRect(r[1], x, y)
    <3>1. f.left <= x /\ x < f.right /\ f.top <= y /\ y < f.bottom
      BY <2>5 DEF InRect
    <3>2. r[1].left <= x /\ x < r[1].right /\ r[1].top <= y /\ y < r[1].bottom
      <4>1. \A i, j, k, n \in Int : /\ i <= j /\ j <= k /\ k <= n => i <= n
                                    /\ n < k /\ k <= j /\ j <= i => n < i
        OBVIOUS
      <4>2. r[1].left <= x
        BY <1>3, <1>4, <1>5, <1>7, <2>3, <3>1, <4>1, SMTT(60)
      <4>3. x < r[1].right
        BY <1>3, <1>4, <1>5, <1>7, <2>3, <3>1, <4>1, SMTT(60)
      <4>4. r[1].top <= y
        BY <1>3, <1>4, <1>5, <1>7, <2>3, <3>1, <4>1, SMTT(60)
      <4>5. y < r[1].bottom
        BY <1>3, <1>4, <1>5, <1>7, <2>3, <3>1, <4>1
      <4> QED
        BY <4>2, <4>3, <4>4, <4>5
    <3> QED
      BY <3>2 DEF InRect
  <2>7. Covered(r, x, y)
    BY <1>6, <2>6
  <2> QED
    BY <2>3, <2>7 DEF Good, r
<1> QED
  BY <1>8

(* The box of a union is that of the boxes.                                *)
LEMMA UnionBoxed ==
    ASSUME NEW e, NEW r, Boxed(e, r), NEW f, NEW s, Boxed(f, s), NEW o,
           \A x, y \in Int : Covered(o, x, y) <=> Covered(r, x, y) \/ Covered(s, x, y)
    PROVE  Boxed(Rect(Lower(e.left, f.left), Lower(e.top, f.top),
                      Greater(e.right, f.right), Greater(e.bottom, f.bottom)), o)
<1> DEFINE l == Lower(e.left, f.left)
           t == Lower(e.top, f.top)
           g == Greater(e.right, f.right)
           b == Greater(e.bottom, f.bottom)
           u == Rect(l, t, g, b)
<1>1. /\ e.left \in Nat /\ e.top \in Nat /\ e.right \in Nat /\ e.bottom \in Nat
      /\ f.left \in Nat /\ f.top \in Nat /\ f.right \in Nat /\ f.bottom \in Nat
  BY DEF Boxed
<1>2. /\ l \in Nat /\ t \in Nat /\ g \in Nat /\ b \in Nat
      /\ l <= e.left /\ l <= f.left /\ t <= e.top /\ t <= f.top
      /\ e.right <= g /\ f.right <= g /\ e.bottom <= b /\ f.bottom <= b
      /\ l \in {e.left, f.left} /\ t \in {e.top, f.top}
      /\ g \in {e.right, f.right} /\ b \in {e.bottom, f.bottom}
  BY <1>1 DEF Lower, Greater
<1> HIDE DEF l, t, g, b
<1>3. u.left = l /\ u.top = t /\ u.right = g /\ u.bottom = b
  BY DEF Rect
<1> HIDE DEF u
<1>4. ASSUME NEW x \in Int, NEW y \in Int, Covered(o, x, y)
      PROVE  InRect(u, x, y)
  <2>1. InRect(e, x, y) \/ InRect(f, x, y)
    BY <1>4 DEF Boxed
  <2> QED
    BY <1>1, <1>2, <1>3, <2>1 DEF InRect
<1>5. \E y \in Int : Covered(o, l, y)
  <2>1. (\E y \in Int : Covered(r, e.left, y)) /\ \E y \in Int : Covered(s, f.left, y)
    BY DEF Boxed
  <2> QED
    BY <1>2, <2>1
<1>6. \E y \in Int : Covered(o, g - 1, y)
  <2>1. (\E y \in Int : Covered(r, e.right - 1, y)) /\ \E y \in Int : Covered(s, f.right - 1, y)
    BY DEF Boxed
  <2> QED
    BY <1>2, <2>1
<1>7. \E x \in Int : Covered(o, x, t)
  <2>1. (\E x \in Int : Covered(r, x, e.top)) /\ \E x \in Int : Covered(s, x, f.top)
    BY DEF Boxed
  <2> QED
    BY <1>2, <2>1
<1>8. \E x \in Int : Covered(o, x, b - 1)
  <2>1. (\E x \in Int : Covered(r, x, e.bottom - 1)) /\ \E x \in Int : Covered(s, x, f.bottom - 1)
    BY DEF Boxed
  <2> QED
    BY <1>2, <2>1
<1>9. u = Rect(u.left, u.top, u.right, u.bottom)
  BY <1>3 DEF u
<1>10. Boxed(u, o)
  BY <1>2, <1>3, <1>4, <1>5, <1>6, <1>7, <1>8, <1>9 DEF Boxed
<1> QED
  BY <1>10 DEF u, l, t, g, b

(* GdUnionRegion makes the region of the points of both; the same region   *)
(* for both operands is not looked at.                                     *)
LEMMA UnionGood ==
    ASSUME NEW reg1, NEW A, Good(reg1, A), NEW reg2, NEW B, Good(reg2, B),
           NEW same, same => A = B
    PROVE  Good(GdUnionRegion(reg1, reg2, same), A \cup B)
<1> DEFINE g == GdUnionRegion(reg1, reg2, same)
<1>1. CASE same \/ reg1.rects = <<>>
  <2>1. g = reg2
    BY <1>1 DEF GdUnionRegion
  <2>2. A \cup B = B
    BY <1>1, GoodEmpty
  <2> QED
    BY <2>1, <2>2
<1>2. CASE ~(same \/ reg1.rects = <<>>) /\ (reg2.rects = <<>> \/ Subsumes(reg1, reg2))
  <2>1. g = reg1
    BY <1>2 DEF GdUnionRegion
  <2>2. CASE reg2.rects = <<>>
    <3>1. A \cup B = A
      BY <2>2, GoodEmpty
    <3> QED
      BY <2>1, <3>1
  <2>3. CASE reg2.rects # <<>>
    <3>1. B \subseteq A
      BY <1>2, <2>3, SubsumesIs
    <3>2. A \cup B = A
      BY <3>1
    <3> QED
      BY <2>1, <3>2
  <2> QED
    BY <2>2, <2>3
<1>3. CASE /\ ~(same \/ reg1.rects = <<>>) /\ ~(reg2.rects = <<>> \/ Subsumes(reg1, reg2))
           /\ Subsumes(reg2, reg1)
  <2>1. g = reg2
    BY <1>3 DEF GdUnionRegion
  <2>2. A \subseteq B
    BY <1>3, SubsumesIs
  <2>3. A \cup B = B
    BY <2>2
  <2> QED
    BY <2>1, <2>3
<1>4. CASE /\ ~(same \/ reg1.rects = <<>>) /\ ~(reg2.rects = <<>> \/ Subsumes(reg1, reg2))
           /\ ~Subsumes(reg2, reg1)
  <2> DEFINE o == REGION_RegionOp("union", reg1, reg2)
             e == reg1.extents
             f == reg2.extents
             u == Rect(Lower(e.left, f.left), Lower(e.top, f.top),
                       Greater(e.right, f.right), Greater(e.bottom, f.bottom))
  <2>1. g = [rects |-> o, extents |-> u]
    BY <1>4 DEF GdUnionRegion
  <2>2. "union" \in Ops /\ Comes("union", A, B, A \cup B)
    BY DEF Ops, Made, Comes
  <2>3. /\ Formed(o) /\ A \cup B \subseteq Cells
        /\ \A x, y \in Int : Covered(o, x, y) <=> <<x, y>> \in A \cup B
    BY <2>2, OpGood
  <2>4. Boxed(e, reg1.rects) /\ Boxed(f, reg2.rects)
    BY <1>4 DEF Good
  <2> HIDE DEF o
  <2>5. \A x, y \in Int : Covered(o, x, y) <=> Covered(reg1.rects, x, y) \/ Covered(reg2.rects, x, y)
    <3>1. \A x, y \in Int : Covered(reg1.rects, x, y) <=> <<x, y>> \in A
      BY DEF Good
    <3>2. \A x, y \in Int : Covered(reg2.rects, x, y) <=> <<x, y>> \in B
      BY DEF Good
    <3> QED
      BY <2>3, <3>1, <3>2
  <2>6. Boxed(u, o)
    BY <2>4, <2>5, UnionBoxed
  <2>7. o # <<>>
    <3>1. A # {}
      BY <1>4, GoodEmpty
    <3>2. PICK p \in A : TRUE
      BY <3>1
    <3>3. p \in Cells
      BY DEF Good
    <3>4. p = <<p[1], p[2]>> /\ p[1] \in Int /\ p[2] \in Int
      BY <3>3, RegionAssumption DEF Cells
    <3>5. Covered(o, p[1], p[2])
      BY <2>3, <3>2, <3>4
    <3> QED
      BY <3>5, NothingSlice
  <2> HIDE DEF g, u
  <2>8. g.rects = o /\ g.extents = u /\ g = [rects |-> g.rects, extents |-> g.extents]
    BY <2>1
  <2>9. Good(g, A \cup B)
    BY <2>3, <2>6, <2>7, <2>8 DEF Good
  <2> QED
    BY <2>9 DEF g
<1> QED
  BY <1>1, <1>2, <1>3, <1>4

(* A region of one rectangle.                                              *)
LEMMA SingleGood ==
    ASSUME NEW rect \in Rects
    PROVE  Good(Single(rect), PointsOf(rect))
<1> DEFINE o == <<rect>>
           g == [rects |-> o, extents |-> rect]
<1>1. /\ rect.left \in Nat /\ rect.top \in Nat /\ rect.right \in Nat /\ rect.bottom \in Nat
      /\ rect.left < rect.right /\ rect.top < rect.bottom
      /\ rect.right <= Width /\ rect.bottom <= Height
      /\ rect = Rect(rect.left, rect.top, rect.right, rect.bottom)
  BY RectTyped
<1>2. o \in Seq(Rects) /\ DOMAIN o = {1} /\ o[1] = rect /\ o # <<>>
  OBVIOUS
<1>3. Single(rect) = g /\ g.rects = o /\ g.extents = rect /\ g = [rects |-> g.rects, extents |-> g.extents]
  BY DEF Single
<1> HIDE DEF o, g
<1>4. Formed(o)
  <2>1. Slice(o, rect.top, rect.bottom)
    BY <1>2 DEF Slice, Sorted
  <2> QED
    BY <2>1, SliceFormed
<1>5. \A x, y : Covered(o, x, y) <=> InRect(rect, x, y)
  BY <1>2 DEF Covered
<1>6. ASSUME NEW x \in Int, NEW y \in Int
      PROVE  Covered(o, x, y) <=> <<x, y>> \in PointsOf(rect)
  <2>1. InRect(rect, x, y) => <<x, y>> \in Cells
    BY <1>1, RegionAssumption DEF InRect, Cells
  <2> QED
    BY <1>5, <2>1 DEF PointsOf
<1>7. PointsOf(rect) \subseteq Cells
  BY DEF PointsOf
<1>8. Boxed(rect, o)
  <2>1. /\ Covered(o, rect.left, rect.top) /\ Covered(o, rect.left, rect.bottom - 1)
        /\ Covered(o, rect.right - 1, rect.top)
    BY <1>2, CornersCovered
  <2>2. /\ \E y \in Int : Covered(o, rect.left, y)
        /\ \E y \in Int : Covered(o, rect.right - 1, y)
        /\ \E x \in Int : Covered(o, x, rect.top)
        /\ \E x \in Int : Covered(o, x, rect.bottom - 1)
    BY <1>1, <2>1
  <2> QED
    BY <1>1, <1>5, <2>2 DEF Boxed
<1> QED
  BY <1>2, <1>3, <1>4, <1>6, <1>7, <1>8 DEF Good

(* GdUnionRectWithRegion adds the points of a rectangle.                   *)
LEMMA UnionRectGood ==
    ASSUME NEW reg, NEW A, Good(reg, A), NEW rect \in Rects
    PROVE  Good(GdUnionRectWithRegion(reg, rect), A \cup PointsOf(rect))
<1>1. Good(Single(rect), PointsOf(rect))
  BY SingleGood
<1> QED
  BY <1>1, UnionGood DEF GdUnionRectWithRegion

(* GdXorRegion makes the region of the points of just one.                 *)
LEMMA XorGood ==
    ASSUME NEW reg1, NEW A, Good(reg1, A), NEW reg2, NEW B, Good(reg2, B)
    PROVE  Good(GdXorRegion(reg1, reg2), (A \ B) \cup (B \ A))
<1>1. Good(GdSubtractRegion(reg1, reg2), A \ B) /\ Good(GdSubtractRegion(reg2, reg1), B \ A)
  BY SubtractGood
<1> QED
  BY <1>1, UnionGood DEF GdXorRegion

-----------------------------------------------------------------------------
(* The rectangles of a region that has been moved.                         *)
MovedAll(r, dx, dy) == [i \in DOMAIN r |-> Moved(r[i], dx, dy)]

(* It is in form, and covers the points moved.                             *)
LEMMA MovedIs ==
    ASSUME NEW r, Formed(r), NEW dx \in Int, NEW dy \in Int,
           \A x, y \in Int : Covered(r, x, y) => <<x + dx, y + dy>> \in Cells
    PROVE  LET o == MovedAll(r, dx, dy)
           IN  /\ Formed(o) /\ (o = <<>> <=> r = <<>>)
               /\ \A x, y \in Int : Covered(o, x, y) <=> Covered(r, x - dx, y - dy)
<1> DEFINE o == MovedAll(r, dx, dy)
<1>1. r \in Seq(Rects) /\ Banded(r) /\ Joinless(r) /\ Len(r) \in Nat /\ DOMAIN r = 1 .. Len(r)
  BY DEF Formed
<1>2. ASSUME NEW k \in DOMAIN r
      PROVE  LET m == Moved(r[k], dx, dy)
             IN  /\ m \in Rects
                 /\ m.left = r[k].left + dx /\ m.right = r[k].right + dx
                 /\ m.top = r[k].top + dy /\ m.bottom = r[k].bottom + dy
  <2> DEFINE h == r[k]
  <2>1. /\ h.left \in Int /\ h.right \in Int /\ h.top \in Int /\ h.bottom \in Int
        /\ h.left < h.right /\ h.top < h.bottom
    BY <1>1, RectAt
  <2>2. /\ Covered(r, h.left, h.top) /\ Covered(r, h.left, h.bottom - 1)
        /\ Covered(r, h.right - 1, h.top)
    BY <1>1, CornersCovered
  <2> HIDE DEF h
  <2>3. h.bottom - 1 \in Int /\ h.right - 1 \in Int
    BY <2>1
  <2>4. /\ <<h.left + dx, h.top + dy>> \in Cells /\ <<h.left + dx, (h.bottom - 1) + dy>> \in Cells
        /\ <<(h.right - 1) + dx, h.top + dy>> \in Cells
    BY <2>1, <2>2, <2>3
  <2>5. ASSUME NEW x, NEW y, <<x, y>> \in Cells
        PROVE  x \in 0 .. Width - 1 /\ y \in 0 .. Height - 1
    BY <2>5 DEF Cells
  <2>6. /\ h.left + dx \in 0 .. Width - 1 /\ h.top + dy \in 0 .. Height - 1
        /\ (h.right - 1) + dx \in 0 .. Width - 1 /\ (h.bottom - 1) + dy \in 0 .. Height - 1
    BY <2>4, <2>5
  <2> DEFINE a == h.left + dx
             b == h.top + dy
             c == h.right + dx
             d == h.bottom + dy
  <2>7. a \in Nat /\ b \in Nat /\ c \in Nat /\ d \in Nat /\ a < c /\ b < d /\ c <= Width /\ d <= Height
    BY <2>1, <2>6, RegionAssumption
  <2>8. Moved(h, dx, dy) = Rect(a, b, c, d)
    BY DEF Moved
  <2> HIDE DEF a, b, c, d
  <2>9. LET m == Moved(h, dx, dy)
        IN  m \in Rects /\ m.left = a /\ m.right = c /\ m.top = b /\ m.bottom = d
    BY <2>7, <2>8, RectMade
  <2> QED
    BY <2>9 DEF a, b, c, d, h
<1>3. o = [i \in DOMAIN r |-> Moved(r[i], dx, dy)]
  BY DEF MovedAll
<1> HIDE DEF o
<1>4. o \in Seq(Rects) /\ DOMAIN o = DOMAIN r /\ (o = <<>> <=> r = <<>>)
  <2>1. o \in [1 .. Len(r) -> Rects]
    BY <1>1, <1>2, <1>3
  <2>2. ASSUME NEW m \in Nat, o \in [1 .. m -> Rects]
        PROVE  o \in Seq(Rects)
    BY <2>2, SMTT(60)
  <2>3. o \in Seq(Rects) /\ DOMAIN o = DOMAIN r
    BY <1>1, <1>3, <2>1, <2>2
  <2>4. \A s \in Seq(Rects) : s = <<>> <=> DOMAIN s = {}
    OBVIOUS
  <2> QED
    BY <1>1, <2>3, <2>4
<1>5. ASSUME NEW k \in DOMAIN r
      PROVE  /\ o[k].left = r[k].left + dx /\ o[k].right = r[k].right + dx
             /\ o[k].top = r[k].top + dy /\ o[k].bottom = r[k].bottom + dy
             /\ r[k].left \in Int /\ r[k].right \in Int /\ r[k].top \in Int /\ r[k].bottom \in Int
  BY <1>1, <1>2, <1>3, RectAt
<1>6. Banded(o)
  <2>1. ASSUME NEW k \in DOMAIN r, NEW m \in DOMAIN r, k < m
        PROVE  \/ o[k].top = o[m].top /\ o[k].bottom = o[m].bottom /\ o[k].right < o[m].left
               \/ o[k].bottom <= o[m].top
    <3>1. \/ r[k].top = r[m].top /\ r[k].bottom = r[m].bottom /\ r[k].right < r[m].left
          \/ r[k].bottom <= r[m].top
      BY <1>1, <2>1, BandedPair
    <3> QED
      BY <1>5, <3>1
  <2> QED
    BY <1>4, <2>1 DEF Banded
<1>7. ASSUME NEW x \in Int, NEW y \in Int
      PROVE  Covered(o, x, y) <=> Covered(r, x - dx, y - dy)
  <2>1. ASSUME NEW k \in DOMAIN r
        PROVE  InRect(o[k], x, y) <=> InRect(r[k], x - dx, y - dy)
    BY <1>5 DEF InRect
  <2> QED
    BY <1>4, <2>1 DEF Covered
<1>8. Joinless(o)
  <2>1. ASSUME NEW k \in DOMAIN r, Row(o, o[k].bottom - 1) = Row(o, o[k].bottom)
        PROVE  FALSE
    <3> DEFINE b == r[k].bottom
    <3>1. b \in Int /\ o[k].bottom = b + dy /\ Row(r, b - 1) # Row(r, b)
      BY <1>1, <1>5 DEF Joinless
    <3> HIDE DEF b
    <3>2. /\ b - 1 \in Int /\ b + dy \in Int /\ b + dy - 1 \in Int
          /\ (b + dy) - dy = b /\ (b + dy - 1) - dy = b - 1
      BY <3>1
    <3>3. Row(o, b + dy - 1) = Row(o, b + dy)
      BY <2>1, <3>1
    <3>4. \A x \in Int : Covered(o, x, b + dy - 1) <=> Covered(o, x, b + dy)
      BY <1>4, <3>2, <3>3, RowSame
    <3>5. ASSUME NEW x \in Int
          PROVE  Covered(r, x, b - 1) <=> Covered(r, x, b)
      <4>1. x + dx \in Int /\ (x + dx) - dx = x
        OBVIOUS
      <4>2. Covered(o, x + dx, b + dy - 1) <=> Covered(r, x, b - 1)
        BY <1>7, <3>2, <4>1
      <4>3. Covered(o, x + dx, b + dy) <=> Covered(r, x, b)
        BY <1>7, <3>2, <4>1
      <4> QED
        BY <3>4, <4>1, <4>2, <4>3
    <3>6. Row(r, b - 1) = Row(r, b)
      BY <1>1, <3>1, <3>2, <3>5, RowSame
    <3> QED
      BY <3>1, <3>6
  <2> QED
    BY <1>4, <2>1 DEF Joinless
<1> QED
  BY <1>4, <1>6, <1>7, <1>8 DEF Formed, o

(* GdOffsetRegion moves the points of a region, if they stay in the area.  *)
LEMMA OffsetGood ==
    ASSUME NEW reg, NEW A, Good(reg, A), NEW dx \in Int, NEW dy \in Int,
           {<<p[1] + dx, p[2] + dy>> : p \in A} \subseteq Cells
    PROVE  Good(GdOffsetRegion(reg, dx, dy), {<<p[1] + dx, p[2] + dy>> : p \in A})
<1> DEFINE M == {<<p[1] + dx, p[2] + dy>> : p \in A}
           r == reg.rects
           e == reg.extents
           o == MovedAll(r, dx, dy)
           u == Moved(e, dx, dy)
           g == GdOffsetRegion(reg, dx, dy)
<1>1. /\ Formed(r) /\ A \subseteq Cells /\ M \subseteq Cells
      /\ \A x, y \in Int : Covered(r, x, y) <=> <<x, y>> \in A
  BY DEF Good
<1>2. \A p \in A : p = <<p[1], p[2]>> /\ p[1] \in Int /\ p[2] \in Int
  BY <1>1, RegionAssumption DEF Cells
<1>3. CASE r = <<>>
  <2>1. A = {} /\ g = reg
    BY <1>3, GoodEmpty DEF GdOffsetRegion
  <2> HIDE DEF g
  <2>2. M = A
    BY <2>1
  <2> QED
    BY <2>1, <2>2 DEF g
<1>4. CASE r # <<>>
  <2>1. g = [rects |-> o, extents |-> u]
    BY <1>4 DEF GdOffsetRegion, MovedAll
  <2>2. ASSUME NEW x \in Int, NEW y \in Int
        PROVE  <<x, y>> \in M <=> <<x - dx, y - dy>> \in A
    <3>1. ASSUME NEW p \in A, <<x, y>> = <<p[1] + dx, p[2] + dy>>
          PROVE  <<x - dx, y - dy>> \in A
      <4>1. p[1] \in Int /\ p[2] \in Int /\ x = p[1] + dx /\ y = p[2] + dy
        BY <1>2, <3>1
      <4>2. x - dx = p[1] /\ y - dy = p[2]
        BY <4>1
      <4> QED
        BY <1>2, <4>2
    <3>2. ASSUME <<x - dx, y - dy>> \in A
          PROVE  <<x, y>> \in M
      <4> DEFINE q == <<x - dx, y - dy>>
      <4>1. q \in A /\ <<q[1] + dx, q[2] + dy>> = <<x, y>>
        BY <3>2
      <4> HIDE DEF q
      <4> QED
        BY <4>1
    <3> QED
      BY <3>1, <3>2
  <2> HIDE DEF M, r, e, g
  <2>3. \A x, y \in Int : Covered(r, x, y) => <<x + dx, y + dy>> \in Cells
    <3>1. ASSUME NEW x \in Int, NEW y \in Int, Covered(r, x, y)
          PROVE  <<x + dx, y + dy>> \in Cells
      <4>1. x + dx \in Int /\ y + dy \in Int /\ (x + dx) - dx = x /\ (y + dy) - dy = y
        OBVIOUS
      <4>2. <<x, y>> \in A
        BY <1>1, <3>1
      <4>3. <<x + dx, y + dy>> \in M
        BY <2>2, <4>1, <4>2
      <4> QED
        BY <1>1, <4>3
    <3> QED
      BY <3>1
  <2>4. /\ Formed(o) /\ (o = <<>> <=> r = <<>>)
        /\ \A x, y \in Int : Covered(o, x, y) <=> Covered(r, x - dx, y - dy)
    BY <1>1, <2>3, MovedIs
  <2> HIDE DEF o
  <2>5. ASSUME NEW x \in Int, NEW y \in Int
        PROVE  Covered(o, x, y) <=> <<x, y>> \in M
    <3>1. x - dx \in Int /\ y - dy \in Int
      OBVIOUS
    <3> QED
      BY <1>1, <2>2, <2>4, <3>1
  <2>6. Boxed(e, r)
    BY <1>4 DEF Good, e, r
  <2>7. /\ e.left \in Nat /\ e.top \in Nat /\ e.right \in Nat /\ e.bottom \in Nat
    BY <2>6 DEF Boxed
  <2>8. /\ u.left = e.left + dx /\ u.right = e.right + dx
        /\ u.top = e.top + dy /\ u.bottom = e.bottom + dy
        /\ u = Rect(u.left, u.top, u.right, u.bottom)
    BY DEF Moved, Rect
  <2> HIDE DEF u
  <2>9. ASSUME NEW x \in Int, NEW y \in Int, Covered(o, x, y)
        PROVE  InRect(u, x, y)
    <3>1. x - dx \in Int /\ y - dy \in Int
      OBVIOUS
    <3>2. InRect(e, x - dx, y - dy)
      BY <2>4, <2>6, <2>9, <3>1 DEF Boxed
    <3> QED
      BY <2>7, <2>8, <3>2 DEF InRect
  <2>10. ASSUME NEW x \in Int, NEW y \in Int, Covered(r, x, y)
         PROVE  Covered(o, x + dx, y + dy) /\ x + dx \in 0 .. Width - 1 /\ y + dy \in 0 .. Height - 1
    <3>1. x + dx \in Int /\ y + dy \in Int /\ (x + dx) - dx = x /\ (y + dy) - dy = y
      OBVIOUS
    <3>2. Covered(o, x + dx, y + dy)
      BY <2>4, <2>10, <3>1
    <3>3. o \in Seq(Rects)
      BY <2>4 DEF Formed
    <3> QED
      BY <3>1, <3>2, <3>3, CoveredCells
  <2>11. u.left \in Nat /\ \E y \in Int : Covered(o, u.left, y)
    <3>1. PICK y \in Int : Covered(r, e.left, y)
      BY <2>6 DEF Boxed
    <3>2. Covered(o, e.left + dx, y + dy) /\ e.left + dx \in 0 .. Width - 1 /\ y + dy \in Int
      BY <2>7, <2>10, <3>1
    <3> QED
      BY <2>8, <3>2, RegionAssumption
  <2>12. u.right \in Nat /\ \E y \in Int : Covered(o, u.right - 1, y)
    <3>1. PICK y \in Int : Covered(r, e.right - 1, y)
      BY <2>6 DEF Boxed
    <3>2. e.right - 1 \in Int /\ (e.right - 1) + dx = u.right - 1 /\ u.right \in Int
      BY <2>7, <2>8
    <3>3. Covered(o, u.right - 1, y + dy) /\ u.right - 1 \in 0 .. Width - 1 /\ y + dy \in Int
      <4>1. Covered(o, (e.right - 1) + dx, y + dy) /\ (e.right - 1) + dx \in 0 .. Width - 1
        BY <2>10, <3>1, <3>2
      <4> QED
        BY <3>2, <4>1
    <3> QED
      BY <3>2, <3>3, RegionAssumption
  <2>13. u.top \in Nat /\ \E x \in Int : Covered(o, x, u.top)
    <3>1. PICK x \in Int : Covered(r, x, e.top)
      BY <2>6 DEF Boxed
    <3>2. Covered(o, x + dx, e.top + dy) /\ e.top + dy \in 0 .. Height - 1 /\ x + dx \in Int
      BY <2>7, <2>10, <3>1
    <3> QED
      BY <2>8, <3>2, RegionAssumption
  <2>14. u.bottom \in Nat /\ \E x \in Int : Covered(o, x, u.bottom - 1)
    <3>1. PICK x \in Int : Covered(r, x, e.bottom - 1)
      BY <2>6 DEF Boxed
    <3>2. e.bottom - 1 \in Int /\ (e.bottom - 1) + dy = u.bottom - 1 /\ u.bottom \in Int
      BY <2>7, <2>8
    <3>3. Covered(o, x + dx, u.bottom - 1) /\ u.bottom - 1 \in 0 .. Height - 1 /\ x + dx \in Int
      <4>1. Covered(o, x + dx, (e.bottom - 1) + dy) /\ (e.bottom - 1) + dy \in 0 .. Height - 1
        BY <2>10, <3>1, <3>2
      <4> QED
        BY <3>2, <4>1
    <3> QED
      BY <3>2, <3>3, RegionAssumption
  <2>15. Boxed(u, o)
    BY <2>8, <2>9, <2>11, <2>12, <2>13, <2>14 DEF Boxed
  <2>16. g.rects = o /\ g.extents = u /\ g = [rects |-> g.rects, extents |-> g.extents]
    BY <2>1
  <2>17. Good(g, M)
    BY <1>1, <1>4, <2>4, <2>5, <2>15, <2>16 DEF Good
  <2> QED
    BY <2>17 DEF g, M
<1> QED
  BY <1>3, <1>4

-----------------------------------------------------------------------------
(* GdAllocBitmapRegion.                                                    *)

(* Regions by their type.                                                  *)
Regs == [rects : Seq(Rects), extents : [left : Nat, top : Nat, right : Nat, bottom : Nat]]

(* A region is a record of its rectangles and extents.                     *)
LEMMA GoodReg ==
    ASSUME NEW reg, NEW A, Good(reg, A)
    PROVE  reg \in Regs
<1>1. reg = [rects |-> reg.rects, extents |-> reg.extents] /\ reg.rects \in Seq(Rects)
  BY DEF Good, Formed
<1>2. reg.extents \in [left : Nat, top : Nat, right : Nat, bottom : Nat]
  <2> DEFINE e == reg.extents
  <2>1. /\ e.left \in Nat /\ e.top \in Nat /\ e.right \in Nat /\ e.bottom \in Nat
        /\ e = Rect(e.left, e.top, e.right, e.bottom)
    <3>1. CASE reg.rects = <<>>
      <4>1. e = Rect(0, 0, 0, 0)
        BY <3>1 DEF Good
      <4> HIDE DEF e
      <4> QED
        BY <4>1 DEF Rect
    <3>2. CASE reg.rects # <<>>
      BY <3>2 DEF Good, Boxed
    <3> QED
      BY <3>1, <3>2
  <2> HIDE DEF e
  <2>2. e \in [left : Nat, top : Nat, right : Nat, bottom : Nat]
    <3>1. ASSUME NEW a \in Nat, NEW b \in Nat, NEW c \in Nat, NEW d \in Nat
          PROVE  Rect(a, b, c, d) \in [left : Nat, top : Nat, right : Nat, bottom : Nat]
      BY DEF Rect
    <3>2. Rect(e.left, e.top, e.right, e.bottom)
              \in [left : Nat, top : Nat, right : Nat, bottom : Nat]
      BY <2>1, <3>1
    <3> QED
      BY <2>1, <3>2, Zenon
  <2> QED
    BY <2>2 DEF e
<1> QED
  BY <1>1, <1>2 DEF Regs

(* The set bits of a row that the runs begun before x make: those further  *)
(* left, and those that a run goes on to from there.                       *)
Begun(bits, x, y) ==
    {p \in bits : p[2] = y /\ (p[1] < x \/ \A v \in x - 1 .. p[1] : <<v, y>> \in bits)}

(* Where a run of set bits ends.                                           *)
LEMMA RunEndIs ==
    ASSUME NEW bits, bits \subseteq Cells, NEW x \in 0 .. Width - 1, NEW y \in Int
    PROVE  LET e == RunEnd(bits, x, y)
           IN  /\ e \in x + 1 .. Width /\ <<e, y>> \notin bits
               /\ \A v \in x + 1 .. e - 1 : <<v, y>> \in bits
<1> DEFINE S == {e \in x + 1 .. Width : <<e, y>> \notin bits}
           e == RunEnd(bits, x, y)
<1>1. Width \in Nat /\ x \in Int
  BY RegionAssumption
<1>2. <<Width, y>> \notin bits
  <2>1. ASSUME NEW c, NEW d, <<c, d>> \in Cells
        PROVE  c \in 0 .. Width - 1
    BY <2>1 DEF Cells
  <2>2. ~(Width \in 0 .. Width - 1)
    BY <1>1
  <2> QED
    BY <2>1, <2>2
<1>3. S \subseteq Int /\ Width \in S /\ \A s \in S : x <= s
  BY <1>1, <1>2
<1>4. Min(S) \in S /\ \A s \in S : Min(S) <= s
  BY <1>1, <1>3, MinIsLeast
<1>5. e = Min(S)
  BY DEF RunEnd
<1> HIDE DEF e
<1>6. e \in x + 1 .. Width /\ <<e, y>> \notin bits
  BY <1>4, <1>5
<1>7. ASSUME NEW v \in x + 1 .. e - 1, <<v, y>> \notin bits
      PROVE  FALSE
  <2>1. v \in S
    BY <1>1, <1>6, <1>7
  <2>2. e <= v
    BY <1>4, <1>5, <2>1
  <2> QED
    BY <1>1, <1>6, <2>2
<1> QED
  BY <1>6, <1>7 DEF e

(* A turn of the walk along a row.                                         *)
LEMMA BegunNext ==
    ASSUME NEW bits, bits \subseteq Cells, NEW x \in 0 .. Width - 1, NEW y \in 0 .. Height - 1
    PROVE  Begun(bits, x + 1, y) =
               IF <<x, y>> \in bits /\ <<x - 1, y>> \notin bits
               THEN Begun(bits, x, y) \cup PointsOf(Rect(x, y, RunEnd(bits, x, y), y + 1))
               ELSE Begun(bits, x, y)
<1> DEFINE e == RunEnd(bits, x, y)
           R == Rect(x, y, e, y + 1)
           starts == <<x, y>> \in bits /\ <<x - 1, y>> \notin bits
<1>1. /\ e \in x + 1 .. Width /\ <<e, y>> \notin bits
      /\ \A v \in x + 1 .. e - 1 : <<v, y>> \in bits
  <2>1. y \in Int
    OBVIOUS
  <2> QED
    BY <2>1, RunEndIs
<1>2. Width \in Nat /\ Height \in Nat /\ x \in Int /\ y \in Int /\ e \in Int
  BY <1>1, RegionAssumption
<1> HIDE DEF e
<1>3. \A p \in Cells : p = <<p[1], p[2]>> /\ p[1] \in Int /\ p[2] \in Int
  BY <1>2 DEF Cells
<1>4. ASSUME NEW p \in Cells
      PROVE  p \in PointsOf(R) <=> p[2] = y /\ x <= p[1] /\ p[1] < e
  BY <1>2, <1>3 DEF PointsOf, InRect, Rect
<1>5. ASSUME NEW u \in Int, <<u, y>> \in bits
      PROVE  LET r1 == u < x + 1 \/ \A v \in x .. u : <<v, y>> \in bits
                 r0 == u < x \/ \A v \in x - 1 .. u : <<v, y>> \in bits
             IN  IF starts THEN r1 <=> (r0 \/ (x <= u /\ u < e)) ELSE r1 <=> r0
  <2>1. CASE u < x
    BY <1>2, <2>1
  <2>2. CASE u >= x
    <3>1. x \in x .. u /\ x - 1 \in x - 1 .. u
      BY <1>2, <2>2
    <3>2. CASE <<x, y>> \notin bits
      <4>1. u # x
        BY <1>5, <3>2
      <4>2. x \in x - 1 .. u
        BY <1>2, <2>2
      <4>3. ~(u < x + 1) /\ ~(u < x)
        BY <1>2, <2>2, <4>1
      <4> QED
        BY <3>1, <3>2, <4>2, <4>3
    <3>3. CASE <<x, y>> \in bits /\ <<x - 1, y>> \notin bits
      <4>1. ~(u < x) /\ ~(\A v \in x - 1 .. u : <<v, y>> \in bits)
        BY <1>2, <2>2, <3>1, <3>3
      <4>2. ASSUME u < e
            PROVE  \A v \in x .. u : <<v, y>> \in bits
        <5>1. \A v \in x .. u : v = x \/ v \in x + 1 .. e - 1
          BY <1>2, <4>2
        <5> QED
          BY <1>1, <3>3, <5>1
      <4>3. ASSUME ~(u < e)
            PROVE  ~(u < x + 1) /\ ~(\A v \in x .. u : <<v, y>> \in bits)
        <5>1. e \in x .. u /\ ~(u < x + 1)
          BY <1>1, <1>2, <4>3
        <5> QED
          BY <1>1, <5>1
      <4>4. u < x + 1 => u < e
        BY <1>1, <1>2
      <4> QED
        BY <2>2, <3>3, <4>1, <4>2, <4>3, <4>4
    <3>4. CASE <<x, y>> \in bits /\ <<x - 1, y>> \in bits
      <4>1. \A v \in x - 1 .. u : v = x - 1 \/ v \in x .. u
        BY <1>2
      <4>2. \A v \in x .. u : v \in x - 1 .. u
        BY <1>2
      <4>3. u < x + 1 => \A v \in x .. u : v = x
        BY <1>2
      <4>4. (\A v \in x .. u : <<v, y>> \in bits) <=> \A v \in x - 1 .. u : <<v, y>> \in bits
        BY <3>4, <4>1, <4>2
      <4>5. u < x + 1 => \A v \in x .. u : <<v, y>> \in bits
        BY <3>4, <4>3
      <4>6. ~(u < x)
        BY <1>2, <2>2
      <4> QED
        BY <3>4, <4>4, <4>5, <4>6
    <3> QED
      BY <3>2, <3>3, <3>4
  <2> QED
    BY <1>2, <2>1, <2>2
<1>6. (x + 1) - 1 = x
  BY <1>2
<1>7. ASSUME NEW p \in Cells
      PROVE  p \in Begun(bits, x + 1, y) <=>
                 p \in Begun(bits, x, y) \/ (starts /\ p \in PointsOf(R))
  <2> DEFINE u == p[1]
  <2>1. p = <<u, p[2]>> /\ u \in Int
    BY <1>3
  <2>2. p \in PointsOf(R) <=> p[2] = y /\ x <= u /\ u < e
    BY <1>4
  <2>3. /\ p \in Begun(bits, x + 1, y) <=>
            p \in bits /\ p[2] = y /\ (u < x + 1 \/ \A v \in x .. u : <<v, y>> \in bits)
        /\ p \in Begun(bits, x, y) <=>
            p \in bits /\ p[2] = y /\ (u < x \/ \A v \in x - 1 .. u : <<v, y>> \in bits)
    BY <1>6 DEF Begun
  <2> HIDE DEF u, R
  <2>4. CASE p \in bits /\ p[2] = y
    <3>1. <<u, y>> \in bits
      BY <2>1, <2>4
    <3> QED
      BY <1>5, <2>1, <2>2, <2>3, <2>4, <3>1
  <2>5. CASE p[2] # y
    BY <2>2, <2>3, <2>5
  <2>6. CASE p[2] = y /\ p \notin bits
    <3>1. ASSUME starts
          PROVE  ~(x <= u /\ u < e)
      <4>1. <<u, y>> \notin bits
        BY <2>1, <2>6
      <4>2. u # x /\ ~(u \in x + 1 .. e - 1)
        BY <1>1, <3>1, <4>1
      <4> QED
        BY <1>2, <2>1, <4>2
    <3> QED
      BY <2>2, <2>3, <2>6, <3>1
  <2> QED
    BY <2>4, <2>5, <2>6
<1>8. Begun(bits, x + 1, y) \subseteq Cells /\ Begun(bits, x, y) \subseteq Cells /\ PointsOf(R) \subseteq Cells
  BY DEF Begun, PointsOf
<1> HIDE DEF R
<1>9. CASE starts
  <2>1. Begun(bits, x + 1, y) = Begun(bits, x, y) \cup PointsOf(R)
    BY <1>7, <1>8, <1>9
  <2> QED
    BY <1>9, <2>1 DEF R, e
<1>10. CASE ~starts
  <2>1. Begun(bits, x + 1, y) = Begun(bits, x, y)
    BY <1>7, <1>8, <1>10
  <2> QED
    BY <1>10, <2>1
<1> QED
  BY <1>9, <1>10

(* After the bit at x the region has the runs that begin up to there.      *)
LEMMA RunGood ==
    ASSUME NEW bits, bits \subseteq Cells, NEW x \in 0 .. Width - 1, NEW y \in 0 .. Height - 1,
           NEW A, NEW reg, Good(reg, A \cup Begun(bits, x, y))
    PROVE  Good(RunAdded(reg, bits, x, y), A \cup Begun(bits, x + 1, y))
<1> DEFINE e == RunEnd(bits, x, y)
           R == Rect(x, y, e, y + 1)
<1>1. CASE <<x, y>> \in bits /\ <<x - 1, y>> \notin bits
  <2>1. RunAdded(reg, bits, x, y) = GdUnionRectWithRegion(reg, R)
    BY <1>1 DEF RunAdded
  <2>2. e \in x + 1 .. Width
    <3>1. y \in Int
      OBVIOUS
    <3> QED
      BY <3>1, RunEndIs
  <2> HIDE DEF e
  <2>3. R \in Rects
    <3>1. x \in Nat /\ y \in Nat /\ e \in Nat /\ y + 1 \in Nat /\ x < e /\ y < y + 1
          /\ e <= Width /\ y + 1 <= Height
      BY <2>2, RegionAssumption
    <3> QED
      BY <3>1, RectMade
  <2>4. Begun(bits, x + 1, y) = Begun(bits, x, y) \cup PointsOf(R)
    BY <1>1, BegunNext DEF e
  <2> HIDE DEF R
  <2>5. Good(GdUnionRectWithRegion(reg, R), (A \cup Begun(bits, x, y)) \cup PointsOf(R))
    BY <2>3, UnionRectGood
  <2>6. (A \cup Begun(bits, x, y)) \cup PointsOf(R) = A \cup Begun(bits, x + 1, y)
    BY <2>4
  <2> QED
    BY <2>1, <2>5, <2>6
<1>2. CASE ~(<<x, y>> \in bits /\ <<x - 1, y>> \notin bits)
  <2>1. RunAdded(reg, bits, x, y) = reg
    BY <1>2 DEF RunAdded
  <2>2. Begun(bits, x + 1, y) = Begun(bits, x, y)
    BY <1>2, BegunNext
  <2> QED
    BY <2>1, <2>2
<1> QED
  BY <1>1, <1>2

(* The bits of a row, and of the rows above it.                            *)
RowOf(bits, y)     == {p \in bits : p[2] = y}
RowsAbove(bits, y) == {p \in bits : p[2] < y}

(* A row of bits is added to what there is.                                *)
LEMMA RowGood ==
    ASSUME NEW bits, bits \subseteq Cells, NEW y \in 0 .. Height - 1, NEW A, NEW reg, Good(reg, A)
    PROVE  Good(RowAdded(reg, bits, y), A \cup RowOf(bits, y))
<1> DEFINE N == Width
           D(k) == {s \in Regs : Good(s, A \cup Begun(bits, k, y))}
           T == [k \in 0 .. N |-> D(k)]
           G == [q \in Regs \X (1 .. N) |-> RunAdded(q[1], bits, q[2] - 1, y)]
           turn == CHOOSE f :
                       f = [x \in 0 .. N |-> IF x = 0 THEN reg ELSE RunAdded(f[x - 1], bits, x - 1, y)]
<1>1. N \in Nat
  BY RegionAssumption
<1>2. RowAdded(reg, bits, y) = turn[N]
  BY DEF RowAdded
<1> HIDE DEF turn
<1>3. reg \in D(0)
  <2>1. Begun(bits, 0, y) = {}
    <3>1. ASSUME NEW p \in Begun(bits, 0, y)
          PROVE  FALSE
      <4>1. /\ p \in Cells /\ (p[1] < 0 \/ \A v \in 0 - 1 .. p[1] : <<v, y>> \in bits)
        BY DEF Begun
      <4>2. p[1] \in Int /\ ~(p[1] < 0)
        BY <4>1, <1>1 DEF Cells
      <4>3. <<0 - 1, y>> \in Cells
        BY <4>1, <4>2
      <4>4. ASSUME NEW c, NEW d, <<c, d>> \in Cells
            PROVE  c \in 0 .. Width - 1
        BY <4>4 DEF Cells
      <4>5. 0 - 1 \in 0 .. Width - 1
        BY <4>3, <4>4
      <4> QED
        BY <4>5, <1>1
    <3> QED
      BY <3>1
  <2>2. A \cup Begun(bits, 0, y) = A
    BY <2>1
  <2> QED
    BY <2>2, GoodReg
<1>4. ASSUME NEW k \in 1 .. N, NEW s \in D(k - 1)
      PROVE  RunAdded(s, bits, k - 1, y) \in D(k)
  <2>1. k - 1 \in 0 .. Width - 1 /\ (k - 1) + 1 = k
    BY <1>1
  <2>2. Good(s, A \cup Begun(bits, k - 1, y))
    OBVIOUS
  <2>3. Good(RunAdded(s, bits, k - 1, y), A \cup Begun(bits, (k - 1) + 1, y))
    BY <2>1, <2>2, RunGood
  <2>4. Good(RunAdded(s, bits, k - 1, y), A \cup Begun(bits, k, y))
    BY <2>1, <2>3
  <2> QED
    BY <2>4, GoodReg
<1>5. \A k \in 0 .. N : D(k) \subseteq Regs
  OBVIOUS
<1>6. \A s \in D(N) : Good(s, A \cup Begun(bits, N, y))
  OBVIOUS
<1> USE DEF turn
<1> HIDE DEF N, D
<1>7. \A k \in 0 .. N : T[k] = D(k)
  OBVIOUS
<1>8. \A k \in 1 .. N : T[k - 1] = D(k - 1) /\ k - 1 \in 0 .. N /\ k \in 0 .. N
  BY <1>1
<1>9. 0 \in 0 .. N /\ N \in 0 .. N
  BY <1>1
<1> HIDE DEF T
<1>10. \A k \in 1 .. N : \A s \in Regs : G[<<s, k>>] = RunAdded(s, bits, k - 1, y)
  OBVIOUS
<1> HIDE DEF G
<1>11. PICK f : Looped(f, N, reg, G) /\ \A k \in 0 .. N : f[k] \in T[k]
  <2>1. reg \in T[0] /\ \A k \in 0 .. N : T[k] \subseteq Regs
    BY <1>1, <1>3, <1>5, <1>7, <1>9
  <2>2. ASSUME NEW k \in 1 .. N, NEW s \in T[k - 1]
        PROVE  G[<<s, k>>] \in T[k]
    <3>1. s \in D(k - 1) /\ T[k] = D(k) /\ s \in Regs
      BY <1>5, <1>7, <1>8
    <3>2. G[<<s, k>>] = RunAdded(s, bits, k - 1, y)
      BY <1>10, <3>1
    <3> QED
      BY <1>4, <3>1, <3>2
  <2> QED
    BY <1>1, <2>1, <2>2, LoopRuns
<1>12. f = [k \in 0 .. N |-> IF k = 0 THEN reg ELSE RunAdded(f[k - 1], bits, k - 1, y)]
  <2>1. ASSUME NEW k \in 1 .. N
        PROVE  G[<<f[k - 1], k>>] = RunAdded(f[k - 1], bits, k - 1, y)
    BY <1>5, <1>7, <1>8, <1>10, <1>11
  <2>2. f = [k \in 0 .. N |-> IF k = 0 THEN reg ELSE G[<<f[k - 1], k>>]]
    BY <1>11 DEF Looped
  <2>3. \A k \in 0 .. N : k = 0 \/ k \in 1 .. N
    BY <1>1
  <2> QED
    BY <2>1, <2>2, <2>3
<1>13. turn = [k \in 0 .. N |-> IF k = 0 THEN reg ELSE RunAdded(turn[k - 1], bits, k - 1, y)]
  BY <1>12, Zenon
<1> HIDE DEF turn
<1>14. turn[0] = reg /\ \A k \in 1 .. N : turn[k] = RunAdded(turn[k - 1], bits, k - 1, y)
  BY <1>1, <1>13
<1>15. \A k \in 0 .. N : turn[k] \in T[k]
  <2>1. turn[0] \in T[0]
    BY <1>3, <1>7, <1>9, <1>14
  <2>2. \A k \in 1 .. N : turn[k - 1] \in T[k - 1] => turn[k] \in T[k]
    BY <1>4, <1>7, <1>8, <1>14
  <2> QED
    BY <1>1, <2>1, <2>2, LoopKeeps
<1>16. turn[N] \in D(N)
  BY <1>7, <1>9, <1>15
<1>17. Good(turn[N], A \cup Begun(bits, N, y))
  BY <1>6, <1>16
<1>18. Begun(bits, N, y) = RowOf(bits, y)
  <2>1. \A p \in bits : p[1] < N
    <3>1. \A p \in Cells : p[1] < Width
      BY RegionAssumption DEF Cells
    <3> QED
      BY <3>1 DEF N
  <2> QED
    BY <2>1 DEF Begun, RowOf
<1> QED
  BY <1>2, <1>17, <1>18

(* GdAllocBitmapRegion makes the region of the set bits.                   *)
LEMMA BitmapGood ==
    ASSUME NEW bits, bits \subseteq Cells
    PROVE  Good(GdAllocBitmapRegion(bits), bits)
<1> DEFINE N == Height
           D(k) == {s \in Regs : Good(s, RowsAbove(bits, k))}
           T == [k \in 0 .. N |-> D(k)]
           G == [q \in Regs \X (1 .. N) |-> RowAdded(q[1], bits, q[2] - 1)]
           turn == CHOOSE f :
                       f = [y \in 0 .. N |-> IF y = 0 THEN EMPTY_REGION ELSE RowAdded(f[y - 1], bits, y - 1)]
<1>1. N \in Nat
  BY RegionAssumption
<1>2. GdAllocBitmapRegion(bits) = turn[N]
  BY DEF GdAllocBitmapRegion
<1> HIDE DEF turn
<1>3. EMPTY_REGION \in D(0)
  <2>1. \A p \in Cells : p[2] \in 0 .. Height - 1
    BY DEF Cells
  <2>2. RowsAbove(bits, 0) = {}
    BY <1>1, <2>1 DEF RowsAbove
  <2> QED
    BY <2>2, GoodNothing, GoodReg
<1>4. ASSUME NEW k \in 1 .. N, NEW s \in D(k - 1)
      PROVE  RowAdded(s, bits, k - 1) \in D(k)
  <2>1. k - 1 \in 0 .. Height - 1 /\ k \in Int
    BY <1>1
  <2>2. Good(s, RowsAbove(bits, k - 1))
    OBVIOUS
  <2>3. Good(RowAdded(s, bits, k - 1), RowsAbove(bits, k - 1) \cup RowOf(bits, k - 1))
    BY <2>1, <2>2, RowGood
  <2>4. RowsAbove(bits, k - 1) \cup RowOf(bits, k - 1) = RowsAbove(bits, k)
    <3>1. \A p \in bits : p[2] \in Int
      <4>1. \A p \in Cells : p[2] \in Int
        BY <1>1 DEF Cells
      <4> QED
        BY <4>1
    <3>2. \A n \in Int : n < k <=> n < k - 1 \/ n = k - 1
      BY <2>1
    <3> QED
      BY <3>1, <3>2 DEF RowsAbove, RowOf
  <2>5. Good(RowAdded(s, bits, k - 1), RowsAbove(bits, k))
    BY <2>3, <2>4
  <2> QED
    BY <2>5, GoodReg
<1>5. \A k \in 0 .. N : D(k) \subseteq Regs
  OBVIOUS
<1>6. \A s \in D(N) : Good(s, RowsAbove(bits, N))
  OBVIOUS
<1> USE DEF turn
<1> HIDE DEF N, D
<1>7. \A k \in 0 .. N : T[k] = D(k)
  OBVIOUS
<1>8. \A k \in 1 .. N : T[k - 1] = D(k - 1) /\ k - 1 \in 0 .. N /\ k \in 0 .. N
  BY <1>1
<1>9. 0 \in 0 .. N /\ N \in 0 .. N
  BY <1>1
<1> HIDE DEF T
<1>10. \A k \in 1 .. N : \A s \in Regs : G[<<s, k>>] = RowAdded(s, bits, k - 1)
  OBVIOUS
<1> HIDE DEF G
<1>11. PICK f : Looped(f, N, EMPTY_REGION, G) /\ \A k \in 0 .. N : f[k] \in T[k]
  <2>1. EMPTY_REGION \in T[0] /\ \A k \in 0 .. N : T[k] \subseteq Regs
    BY <1>1, <1>3, <1>5, <1>7, <1>9
  <2>2. ASSUME NEW k \in 1 .. N, NEW s \in T[k - 1]
        PROVE  G[<<s, k>>] \in T[k]
    <3>1. s \in D(k - 1) /\ T[k] = D(k) /\ s \in Regs
      BY <1>5, <1>7, <1>8
    <3>2. G[<<s, k>>] = RowAdded(s, bits, k - 1)
      BY <1>10, <3>1
    <3> QED
      BY <1>4, <3>1, <3>2
  <2> QED
    BY <1>1, <2>1, <2>2, LoopRuns
<1>12. f = [k \in 0 .. N |-> IF k = 0 THEN EMPTY_REGION ELSE RowAdded(f[k - 1], bits, k - 1)]
  <2>1. ASSUME NEW k \in 1 .. N
        PROVE  G[<<f[k - 1], k>>] = RowAdded(f[k - 1], bits, k - 1)
    BY <1>5, <1>7, <1>8, <1>10, <1>11
  <2>2. f = [k \in 0 .. N |-> IF k = 0 THEN EMPTY_REGION ELSE G[<<f[k - 1], k>>]]
    BY <1>11 DEF Looped
  <2>3. \A k \in 0 .. N : k = 0 \/ k \in 1 .. N
    BY <1>1
  <2> QED
    BY <2>1, <2>2, <2>3
<1>13. turn = [k \in 0 .. N |-> IF k = 0 THEN EMPTY_REGION ELSE RowAdded(turn[k - 1], bits, k - 1)]
  BY <1>12, Zenon
<1> HIDE DEF turn
<1>14. turn[0] = EMPTY_REGION /\ \A k \in 1 .. N : turn[k] = RowAdded(turn[k - 1], bits, k - 1)
  BY <1>1, <1>13
<1>15. \A k \in 0 .. N : turn[k] \in T[k]
  <2>1. turn[0] \in T[0]
    BY <1>3, <1>7, <1>9, <1>14
  <2>2. \A k \in 1 .. N : turn[k - 1] \in T[k - 1] => turn[k] \in T[k]
    BY <1>4, <1>7, <1>8, <1>14
  <2> QED
    BY <1>1, <2>1, <2>2, LoopKeeps
<1>16. turn[N] \in D(N)
  BY <1>7, <1>9, <1>15
<1>17. Good(turn[N], RowsAbove(bits, N))
  BY <1>6, <1>16
<1>18. RowsAbove(bits, N) = bits
  <2>1. \A p \in Cells : p[2] < Height
    BY RegionAssumption DEF Cells
  <2> QED
    BY <2>1 DEF RowsAbove, N
<1> QED
  BY <1>2, <1>17, <1>18

-----------------------------------------------------------------------------
(* The requests.                                                           *)

(* Each region is made of the points that the requests make it of.         *)
RegionsGood ==
    /\ rgn \in [Ids -> Regs] /\ area \in [Ids -> SUBSET Cells]
    /\ \A i \in Ids : Good(rgn[i], area[i])

(* A region is replaced by one made of the points it is to have.           *)
LEMMA BecomesGood ==
    ASSUME RegionsGood, NEW dst \in Ids, NEW reg, NEW points, Good(reg, points),
           Becomes(dst, reg, points)
    PROVE  RegionsGood'
<1>1. rgn' = [rgn EXCEPT ![dst] = reg] /\ area' = [area EXCEPT ![dst] = points]
  BY DEF Becomes
<1>2. reg \in Regs /\ points \in SUBSET Cells
  BY GoodReg DEF Good
<1>3. rgn' \in [Ids -> Regs] /\ area' \in [Ids -> SUBSET Cells]
  BY <1>1, <1>2 DEF RegionsGood
<1>4. ASSUME NEW i \in Ids
      PROVE  Good(rgn'[i], area'[i])
  <2>1. CASE i = dst
    BY <1>1, <2>1 DEF RegionsGood
  <2>2. CASE i # dst
    BY <1>1, <2>2 DEF RegionsGood
  <2> QED
    BY <2>1, <2>2
<1> QED
  BY <1>3, <1>4 DEF RegionsGood

(* There are no points in the beginning.                                   *)
LEMMA InitGood == Init => RegionsGood
<1> SUFFICES ASSUME Init
             PROVE  RegionsGood
  OBVIOUS
<1>1. rgn = [i \in Ids |-> EMPTY_REGION] /\ area = [i \in Ids |-> {}]
  BY DEF Init
<1>2. Good(EMPTY_REGION, {})
  BY GoodNothing
<1>3. EMPTY_REGION \in Regs
  BY <1>2, GoodReg
<1> QED
  BY <1>1, <1>2, <1>3 DEF RegionsGood

(* Every request makes the points that it should.                          *)
LEMMA NextGood == RegionsGood /\ [Next]_vars => RegionsGood'
<1> SUFFICES ASSUME RegionsGood, [Next]_vars
             PROVE  RegionsGood'
  OBVIOUS
<1>0. 1 \in Ids /\ 2 \in Ids /\ \A i \in Ids : Good(rgn[i], area[i])
  BY DEF Ids, RegionsGood
<1>1. ASSUME NEW bits \in SUBSET Cells, GrNewBitmapRegion(bits)
      PROVE  RegionsGood'
  <2>1. Good(GdAllocBitmapRegion(bits), bits)
    BY BitmapGood
  <2> QED
    BY <1>0, <1>1, <2>1, BecomesGood DEF GrNewBitmapRegion
<1>2. CASE GrNewRegion(1)
  <2>1. Good(EMPTY_REGION, {})
    BY GoodNothing
  <2> QED
    BY <1>0, <1>2, <2>1, BecomesGood DEF GrNewRegion
<1>3. ASSUME NEW dst \in Ids, NEW a \in Ids, NEW b \in Ids, GrUnionRegion(dst, a, b)
      PROVE  RegionsGood'
  <2>1. a = b => area[a] = area[b]
    OBVIOUS
  <2>2. Good(GdUnionRegion(rgn[a], rgn[b], a = b), area[a] \cup area[b])
    BY <1>0, <2>1, UnionGood
  <2> QED
    BY <1>3, <2>2, BecomesGood DEF GrUnionRegion
<1>4. ASSUME NEW rect \in Asked, GrUnionRectWithRegion(1, rect)
      PROVE  RegionsGood'
  <2>1. rect \in Rects
    BY DEF Asked
  <2>2. Good(GdUnionRectWithRegion(rgn[1], rect), area[1] \cup PointsOf(rect))
    BY <1>0, <2>1, UnionRectGood
  <2> QED
    BY <1>0, <1>4, <2>2, BecomesGood DEF GrUnionRectWithRegion
<1>5. ASSUME NEW dx \in Int, NEW dy \in Int, GrOffsetRegion(1, dx, dy)
      PROVE  RegionsGood'
  <2> DEFINE moved == {<<p[1] + dx, p[2] + dy>> : p \in area[1]}
  <2>1. moved \subseteq Cells /\ Becomes(1, GdOffsetRegion(rgn[1], dx, dy), moved)
    BY <1>5 DEF GrOffsetRegion
  <2>2. Good(GdOffsetRegion(rgn[1], dx, dy), moved)
    BY <1>0, <2>1, OffsetGood
  <2> HIDE DEF moved
  <2> QED
    BY <1>0, <2>1, <2>2, BecomesGood
<1>6. ASSUME NEW a \in Ids, NEW b \in Ids, GrIntersectRegion(1, a, b)
      PROVE  RegionsGood'
  <2>1. Good(GdIntersectRegion(rgn[a], rgn[b]), area[a] \cap area[b])
    BY <1>0, IntersectGood
  <2> QED
    BY <1>0, <1>6, <2>1, BecomesGood DEF GrIntersectRegion
<1>7. ASSUME NEW a \in Ids, NEW b \in Ids, GrSubtractRegion(1, a, b)
      PROVE  RegionsGood'
  <2>1. Good(GdSubtractRegion(rgn[a], rgn[b]), area[a] \ area[b])
    BY <1>0, SubtractGood
  <2> QED
    BY <1>0, <1>7, <2>1, BecomesGood DEF GrSubtractRegion
<1>8. ASSUME NEW a \in Ids, NEW b \in Ids, GrXorRegion(1, a, b)
      PROVE  RegionsGood'
  <2>1. Good(GdXorRegion(rgn[a], rgn[b]), (area[a] \ area[b]) \cup (area[b] \ area[a]))
    BY <1>0, XorGood
  <2> QED
    BY <1>0, <1>8, <2>1, BecomesGood DEF GrXorRegion
<1>9. CASE UNCHANGED vars
  BY <1>9 DEF vars, RegionsGood
<1>10. CASE Next
  <2>1. CASE \E d \in {-1, 1} : GrOffsetRegion(1, d, 0) \/ GrOffsetRegion(1, 0, d)
    BY <1>5, <2>1
  <2> QED
    BY <1>0, <1>1, <1>2, <1>3, <1>4, <1>6, <1>7, <1>8, <1>10, <2>1 DEF Next
<1> QED
  BY <1>9, <1>10

(* The inductive invariant: each region is in form, has the points that    *)
(* the requests make it of, and their box as its extents.                  *)
LEMMA AlwaysGood == Spec => []RegionsGood
BY InitGood, NextGood, PTL DEF Spec

-----------------------------------------------------------------------------
(* After any sequence of requests a region covers exactly the points that  *)
(* union, intersection, difference and the rest make it of.                *)
LEMMA GoodArea == RegionsGood => AreaExact
<1> SUFFICES ASSUME RegionsGood, NEW i \in Ids
             PROVE  {p \in Cells : Covered(rgn[i].rects, p[1], p[2])} = area[i]
  BY DEF AreaExact
<1>1. /\ area[i] \subseteq Cells
      /\ \A x, y \in Int : Covered(rgn[i].rects, x, y) <=> <<x, y>> \in area[i]
  BY DEF RegionsGood, Good
<1>2. \A p \in Cells : p = <<p[1], p[2]>> /\ p[1] \in Int /\ p[2] \in Int
  BY RegionAssumption DEF Cells
<1>3. \A p \in Cells : Covered(rgn[i].rects, p[1], p[2]) <=> p \in area[i]
  BY <1>1, <1>2
<1> QED
  BY <1>1, <1>3

(* After any sequence of requests a region covers exactly the points that  *)
(* union, intersection, difference and the rest make it of.                *)
THEOREM RegionsExact == Spec => []AreaExact
BY AlwaysGood, GoodArea, PTL

(* The extents of a region are the box of its points.                      *)
LEMMA BoxIs ==
    ASSUME NEW reg, NEW A, Good(reg, A), A # {}
    PROVE  reg.extents = Rect(Min({p[1] : p \in A}), Min({p[2] : p \in A}),
                              Max({p[1] : p \in A}) + 1, Max({p[2] : p \in A}) + 1)
<1> DEFINE X == {p[1] : p \in A}
           Y == {p[2] : p \in A}
           e == reg.extents
           r == reg.rects
<1>1. Boxed(e, r) /\ A \subseteq Cells /\ \A x, y \in Int : Covered(r, x, y) <=> <<x, y>> \in A
  BY GoodEmpty DEF Good
<1>2. \A p \in A : p = <<p[1], p[2]>> /\ p[1] \in Int /\ p[2] \in Int
  BY <1>1, RegionAssumption DEF Cells
<1>3. X \subseteq Int /\ Y \subseteq Int /\ X # {} /\ Y # {}
  BY <1>2
<1> HIDE DEF e, r
<1>4. /\ e.left \in Int /\ e.top \in Int /\ e.right \in Int /\ e.bottom \in Int
      /\ e.right - 1 \in Int /\ e.bottom - 1 \in Int
      /\ e = Rect(e.left, e.top, e.right, e.bottom)
  BY <1>1 DEF Boxed
<1>5. ASSUME NEW p \in A
      PROVE  /\ e.left <= p[1] /\ p[1] <= e.right - 1
             /\ e.top <= p[2] /\ p[2] <= e.bottom - 1
  <2>1. Covered(r, p[1], p[2]) /\ p[1] \in Int /\ p[2] \in Int
    BY <1>1, <1>2
  <2>2. InRect(e, p[1], p[2])
    BY <1>1, <2>1 DEF Boxed
  <2> QED
    BY <1>4, <2>1, <2>2 DEF InRect
<1>6. e.left \in X /\ e.right - 1 \in X
  <2>1. PICK y \in Int : Covered(r, e.left, y)
    BY <1>1 DEF Boxed
  <2>2. PICK z \in Int : Covered(r, e.right - 1, z)
    BY <1>1 DEF Boxed
  <2>3. <<e.left, y>> \in A /\ <<e.right - 1, z>> \in A
    BY <1>1, <1>4, <2>1, <2>2
  <2>4. ASSUME NEW c, NEW d, <<c, d>> \in A
        PROVE  c \in X
    <3>1. <<c, d>>[1] = c
      OBVIOUS
    <3> QED
      BY <2>4, <3>1
  <2> QED
    BY <2>3, <2>4
<1>7. e.top \in Y /\ e.bottom - 1 \in Y
  <2>1. PICK x \in Int : Covered(r, x, e.top)
    BY <1>1 DEF Boxed
  <2>2. PICK z \in Int : Covered(r, z, e.bottom - 1)
    BY <1>1 DEF Boxed
  <2>3. <<x, e.top>> \in A /\ <<z, e.bottom - 1>> \in A
    BY <1>1, <1>4, <2>1, <2>2
  <2>4. ASSUME NEW c, NEW d, <<c, d>> \in A
        PROVE  d \in Y
    <3>1. <<c, d>>[2] = d
      OBVIOUS
    <3> QED
      BY <2>4, <3>1
  <2> QED
    BY <2>3, <2>4
<1>8. /\ \A s \in X : e.left <= s /\ s <= e.right - 1
      /\ \A s \in Y : e.top <= s /\ s <= e.bottom - 1
  BY <1>5
<1> HIDE DEF X, Y
<1>9. ASSUME NEW S, S \subseteq Int, NEW lo \in S, NEW hi \in S, \A s \in S : lo <= s /\ s <= hi
      PROVE  Min(S) = lo /\ Max(S) = hi
  <2>1. S # {} /\ lo \in Int /\ hi \in Int /\ (\A s \in S : lo <= s) /\ (\A s \in S : s <= hi)
    BY <1>9
  <2>2. Min(S) \in S /\ \A s \in S : Min(S) <= s
    BY <1>9, <2>1, MinIsLeast
  <2>3. Max(S) \in S /\ \A s \in S : s <= Max(S)
    BY <1>9, <2>1, MaxIsGreatest
  <2>4. Min(S) \in Int /\ Max(S) \in Int
    BY <1>9, <2>2, <2>3
  <2>5. Min(S) <= lo /\ lo <= Min(S) /\ hi <= Max(S) /\ Max(S) <= hi
    BY <1>9, <2>2, <2>3
  <2> QED
    BY <2>1, <2>4, <2>5
<1>10. Min(X) = e.left /\ Max(X) = e.right - 1
  BY <1>3, <1>6, <1>8, <1>9
<1>11. Min(Y) = e.top /\ Max(Y) = e.bottom - 1
  BY <1>3, <1>7, <1>8, <1>9
<1>12. Max(X) + 1 = e.right /\ Max(Y) + 1 = e.bottom
  BY <1>4, <1>10, <1>11
<1>13. e = Rect(Min(X), Min(Y), Max(X) + 1, Max(Y) + 1)
  BY <1>4, <1>10, <1>11, <1>12
<1> QED
  BY <1>13 DEF X, Y, e

(* So its array has the form, and its extents are the box of its points.   *)
LEMMA GoodBands == RegionsGood => BandsKept
<1> SUFFICES ASSUME RegionsGood, NEW i \in Ids
             PROVE  /\ \A k \in DOMAIN rgn[i].rects : rgn[i].rects[k] \in Rects
                    /\ Banded(rgn[i].rects)
                    /\ Joinless(rgn[i].rects)
                    /\ area[i] # {} =>
                          rgn[i].extents = Rect(Min({p[1] : p \in area[i]}), Min({p[2] : p \in area[i]}),
                                                Max({p[1] : p \in area[i]}) + 1, Max({p[2] : p \in area[i]}) + 1)
  BY Zenon DEF BandsKept
<1>1. Good(rgn[i], area[i])
  BY DEF RegionsGood
<1>2. Formed(rgn[i].rects)
  BY <1>1 DEF Good
<1>3. rgn[i].rects \in Seq(Rects) /\ Banded(rgn[i].rects) /\ Joinless(rgn[i].rects)
  BY <1>2 DEF Formed
<1>4. \A k \in DOMAIN rgn[i].rects : rgn[i].rects[k] \in Rects
  BY <1>3
<1>5. area[i] # {} =>
          rgn[i].extents = Rect(Min({p[1] : p \in area[i]}), Min({p[2] : p \in area[i]}),
                                Max({p[1] : p \in area[i]}) + 1, Max({p[2] : p \in area[i]}) + 1)
  BY <1>1, BoxIs
<1> QED
  BY <1>3, <1>4, <1>5

(* The array of every region keeps the form that its users rely on.        *)
THEOREM FormKept == Spec => []BandsKept
BY AlwaysGood, GoodBands, PTL

(* Of two rectangles of a region the first is above or left of the other,  *)
(* which the drawing engine relies on (GdDraw.OrderAssumption).            *)
InOrder(rects) ==
    \A i, j \in DOMAIN rects :
        i < j => rects[i].bottom <= rects[j].top \/ rects[i].right <= rects[j].left

(* Which bands give.                                                       *)
LEMMA BandedInOrder ==
    ASSUME NEW r \in Seq(Rects), Banded(r)
    PROVE  InOrder(r)
<1>1. ASSUME NEW i \in DOMAIN r, NEW j \in DOMAIN r, i < j
      PROVE  r[i].bottom <= r[j].top \/ r[i].right <= r[j].left
  <2>1. r[i].right \in Int /\ r[j].left \in Int
    BY RectAt
  <2> QED
    BY <1>1, <2>1, BandedPair
<1> QED
  BY <1>1 DEF InOrder

(* The engine's regions meet what the drawing routines assume of theirs.   *)
THEOREM RectsInOrder == Spec => [](\A i \in Ids : InOrder(rgn[i].rects))
<1>1. RegionsGood => \A i \in Ids : InOrder(rgn[i].rects)
  BY BandedInOrder DEF RegionsGood, Good, Formed
<1> QED
  BY <1>1, AlwaysGood, PTL

-----------------------------------------------------------------------------
(* GdRectInRegion.                                                         *)

(* The states of GdRectInRegion's walk.                                    *)
ScanWalks == [i : Nat, ry : Int, partIn : BOOLEAN, partOut : BOOLEAN]

(* The points of rect between two heights.                                 *)
NoneOf(r, rect, top, bottom) ==
    \A x, y \in Int : rect.left <= x /\ x < rect.right /\ top <= y /\ y < bottom => ~Covered(r, x, y)
AllOf(r, rect, top, bottom) ==
    \A x, y \in Int : rect.left <= x /\ x < rect.right /\ top <= y /\ y < bottom => Covered(r, x, y)

(* Some points of rect are in the region and some are not.                 *)
SomeIn(r, rect)  == \E x, y \in Int : InRect(rect, x, y) /\ Covered(r, x, y)
SomeOut(r, rect) == \E x, y \in Int : InRect(rect, x, y) /\ ~Covered(r, x, y)

(* GdRectInRegion has found its answer.                                    *)
Answered(r, rect, s) ==
    \/ s.partIn /\ s.ry >= rect.bottom /\ AllOf(r, rect, rect.top, rect.bottom)
    \/ s.partIn /\ s.ry < rect.bottom /\ SomeIn(r, rect) /\ SomeOut(r, rect)
    \/ ~s.partIn /\ NoneOf(r, rect, rect.top, rect.bottom)

(* It has not: down to ry rect is wholly inside, or wholly outside, and    *)
(* what is behind in the array is above ry or left of rect.                *)
Undecided(r, rect, s) ==
    /\ s.i >= 1 /\ s.i <= Len(r) + 1
    /\ rect.top <= s.ry /\ s.ry < rect.bottom
    /\ \A m \in DOMAIN r : m < s.i => (r[m].bottom <= s.ry \/ r[m].right <= rect.left)
    /\ IF s.partIn THEN ~s.partOut /\ s.ry > rect.top /\ AllOf(r, rect, rect.top, s.ry)
       ELSE (s.partOut <=> s.ry > rect.top) /\ NoneOf(r, rect, rect.top, s.ry)

ScanDone(r, rect, s, k) ==
    \/ s.i > Len(r) /\ Answered(r, rect, s)
    \/ s.i > k /\ Undecided(r, rect, s)

(* What there is of rect from ry on, seen from the i-th rectangle.         *)
LEMMA Ahead ==
    ASSUME NEW r \in Seq(Rects), Banded(r), NEW rect \in Rects, NEW s \in ScanWalks,
           Undecided(r, rect, s), s.i \in DOMAIN r,
           NEW x \in Int, rect.left <= x, NEW y \in Int, s.ry <= y
    PROVE  /\ y < r[s.i].top => ~Covered(r, x, y)
           /\ y < r[s.i].bottom /\ x < r[s.i].left => ~Covered(r, x, y)
           /\ y < r[s.i].bottom /\ x = r[s.i].right => ~Covered(r, x, y)
           /\ Covered(r, x, y) => ~(y < r[s.i].bottom) \/ x >= r[s.i].left
<1> DEFINE c == r[s.i]
<1>1. /\ c.left \in Int /\ c.right \in Int /\ c.top \in Int /\ c.bottom \in Int
      /\ c.left < c.right /\ c.top < c.bottom /\ s.i \in Int /\ s.ry \in Int
      /\ rect.left \in Int
  BY RectAt, RectTyped DEF ScanWalks
<1>2. ASSUME NEW m \in DOMAIN r, InRect(r[m], x, y)
      PROVE  ~(y < c.top) /\ (y < c.bottom => x >= c.left /\ x # c.right)
  <2>1. /\ r[m].left \in Int /\ r[m].right \in Int /\ r[m].top \in Int /\ r[m].bottom \in Int
        /\ r[m].left < r[m].right /\ r[m].top < r[m].bottom /\ m \in Int
    BY RectAt
  <2>2. r[m].left <= x /\ x < r[m].right /\ r[m].top <= y /\ y < r[m].bottom
    BY <1>2 DEF InRect
  <2>3. ~(m < s.i)
    <3>1. m < s.i => (r[m].bottom <= s.ry \/ r[m].right <= rect.left)
      BY DEF Undecided
    <3> QED
      BY <1>1, <2>1, <2>2, <3>1, SMTT(60)
  <2>4. CASE m = s.i
    BY <1>1, <2>2, <2>4
  <2>5. CASE s.i < m
    <3>1. \/ c.top = r[m].top /\ c.bottom = r[m].bottom /\ c.right < r[m].left
          \/ c.bottom <= r[m].top
      BY <2>5, BandedPair
    <3> HIDE DEF c
    <3> QED
      BY <1>1, <2>1, <2>2, <3>1, SMTT(60)
  <2> QED
    BY <1>1, <2>1, <2>3, <2>4, <2>5
<1> HIDE DEF c
<1>3. ASSUME Covered(r, x, y)
      PROVE  ~(y < c.top) /\ (y < c.bottom => x >= c.left /\ x # c.right)
  BY <1>2, <1>3 DEF Covered
<1>4. /\ y < c.top => ~Covered(r, x, y)
      /\ y < c.bottom /\ x < c.left => ~Covered(r, x, y)
      /\ y < c.bottom /\ x = c.right => ~Covered(r, x, y)
      /\ Covered(r, x, y) => ~(y < c.bottom) \/ x >= c.left
  BY <1>1, <1>3
<1> QED
  BY <1>4 DEF c

(* At the end of the array there is nothing more.                          *)
LEMMA ScanEnd ==
    ASSUME NEW r \in Seq(Rects), Banded(r), NEW rect \in Rects, NEW s \in ScanWalks,
           Undecided(r, rect, s), s.i > Len(r)
    PROVE  Answered(r, rect, s)
<1>1. /\ rect.left \in Int /\ rect.right \in Int /\ rect.top \in Int /\ rect.bottom \in Int
      /\ rect.left < rect.right /\ rect.top < rect.bottom /\ s.ry \in Int /\ s.partIn \in BOOLEAN
      /\ s.i \in Int /\ Len(r) \in Nat
  BY RectTyped DEF ScanWalks
<1>2. rect.top <= s.ry /\ s.ry < rect.bottom
  BY DEF Undecided
<1>3. ASSUME NEW x \in Int, rect.left <= x, NEW y \in Int, s.ry <= y
      PROVE  ~Covered(r, x, y)
  <2>1. ASSUME NEW m \in DOMAIN r, InRect(r[m], x, y)
        PROVE  FALSE
    <3>1. r[m].bottom \in Int /\ r[m].right \in Int /\ m \in 1 .. Len(r)
      BY RectAt
    <3>2. r[m].bottom <= s.ry \/ r[m].right <= rect.left
      BY <1>1, <3>1 DEF Undecided
    <3> QED
      BY <1>1, <1>3, <2>1, <3>1, <3>2 DEF InRect
  <2> QED
    BY <2>1 DEF Covered
<1>4. CASE s.partIn
  <2>1. s.ry > rect.top /\ AllOf(r, rect, rect.top, s.ry)
    BY <1>4 DEF Undecided
  <2>2. InRect(rect, rect.left, rect.top) /\ Covered(r, rect.left, rect.top)
    BY <1>1, <2>1 DEF InRect, AllOf
  <2>3. InRect(rect, rect.left, s.ry) /\ ~Covered(r, rect.left, s.ry)
    BY <1>1, <1>2, <1>3 DEF InRect
  <2>4. SomeIn(r, rect) /\ SomeOut(r, rect)
    BY <1>1, <2>2, <2>3 DEF SomeIn, SomeOut
  <2> QED
    BY <1>2, <1>4, <2>4 DEF Answered
<1>5. CASE ~s.partIn
  <2>1. NoneOf(r, rect, rect.top, s.ry)
    BY <1>5 DEF Undecided
  <2>2. NoneOf(r, rect, rect.top, rect.bottom)
    BY <1>1, <1>3, <2>1 DEF NoneOf
  <2> QED
    BY <1>5, <2>2 DEF Answered
<1> QED
  BY <1>4, <1>5

(* The walk with other values.                                             *)
LEMMA ScanSkips ==
    ASSUME NEW s \in ScanWalks, NEW i \in Nat
    PROVE  LET e == [s EXCEPT !.i = i]
           IN  /\ e \in ScanWalks /\ e.i = i /\ e.ry = s.ry
               /\ e.partIn = s.partIn /\ e.partOut = s.partOut
BY DEF ScanWalks

(* On with another rectangle, and out of the loop.                         *)
Goes(s, i, ry, pout)  == [s EXCEPT !.i = i, !.ry = ry, !.partOut = pout]
Breaks(s, i, pin, ry) == [s EXCEPT !.i = i, !.partIn = pin, !.ry = ry]

LEMMA ScanGoes ==
    ASSUME NEW s \in ScanWalks, NEW i \in Nat, NEW ry \in Int, NEW pout \in BOOLEAN
    PROVE  LET e == Goes(s, i, ry, pout)
           IN  /\ e \in ScanWalks /\ e.i = i /\ e.ry = ry
               /\ e.partIn = s.partIn /\ e.partOut = pout
BY DEF ScanWalks, Goes

LEMMA ScanBreaks ==
    ASSUME NEW s \in ScanWalks, NEW i \in Nat, NEW ry \in Int, NEW pin \in BOOLEAN
    PROVE  LET e == Breaks(s, i, pin, ry)
           IN  e \in ScanWalks /\ e.i = i /\ e.ry = ry /\ e.partIn = pin
BY DEF ScanWalks, Breaks

(* It goes on behind a rectangle that is above, or left of rect.           *)
LEMMA ScanPassed ==
    ASSUME NEW r \in Seq(Rects), Banded(r), NEW rect \in Rects, NEW s \in ScanWalks,
           Undecided(r, rect, s), s.i \in DOMAIN r, NEW e \in ScanWalks,
           e.i = s.i + 1, e.ry >= s.ry, e.ry < rect.bottom, e.partIn = s.partIn,
           e.ry > s.ry => ~s.partIn /\ e.ry <= r[s.i].top,
           e.partOut <=> s.partOut \/ e.ry > s.ry,
           r[s.i].bottom <= e.ry \/ r[s.i].right <= rect.left
    PROVE  Undecided(r, rect, e)
<1>1. /\ rect.left \in Int /\ rect.right \in Int /\ rect.top \in Int /\ rect.bottom \in Int
      /\ s.ry \in Int /\ e.ry \in Int /\ s.i \in Int /\ Len(r) \in Nat /\ s.i \in 1 .. Len(r)
      /\ s.partIn \in BOOLEAN /\ s.partOut \in BOOLEAN /\ e.partOut \in BOOLEAN
      /\ r[s.i].top \in Int /\ r[s.i].bottom \in Int
  BY RectTyped, RectAt DEF ScanWalks
<1>2. rect.top <= s.ry /\ s.ry < rect.bottom
  BY DEF Undecided
<1>3. ASSUME NEW m \in DOMAIN r, m < s.i + 1
      PROVE  r[m].bottom <= e.ry \/ r[m].right <= rect.left
  <2>1. m \in Int /\ r[m].bottom \in Int
    BY RectAt
  <2>2. CASE m = s.i
    BY <2>2
  <2>3. CASE m < s.i
    <3>1. r[m].bottom <= s.ry \/ r[m].right <= rect.left
      BY <2>3 DEF Undecided
    <3> QED
      BY <1>1, <2>1, <3>1
  <2> QED
    BY <1>1, <1>3, <2>1, <2>2, <2>3
<1>4. CASE s.partIn
  <2>1. e.ry = s.ry
    BY <1>1, <1>4
  <2>2. ~s.partOut /\ s.ry > rect.top /\ AllOf(r, rect, rect.top, s.ry)
    BY <1>4 DEF Undecided
  <2>3. ~e.partOut /\ e.partIn
    BY <1>1, <1>4, <2>1, <2>2
  <2> QED
    BY <1>1, <1>2, <1>3, <2>1, <2>2, <2>3 DEF Undecided
<1>5. CASE ~s.partIn
  <2>1. (s.partOut <=> s.ry > rect.top) /\ NoneOf(r, rect, rect.top, s.ry)
    BY <1>5 DEF Undecided
  <2>2. e.partOut <=> e.ry > rect.top
    BY <1>1, <1>2, <2>1
  <2>3. ASSUME NEW x \in Int, rect.left <= x, NEW y \in Int, s.ry <= y, y < e.ry
        PROVE  ~Covered(r, x, y)
    <3>1. y < r[s.i].top
      BY <1>1, <2>3, SMTT(60)
    <3> QED
      BY <2>3, <3>1, Ahead
  <2>4. NoneOf(r, rect, rect.top, e.ry)
    BY <1>1, <2>1, <2>3 DEF NoneOf
  <2>5. /\ e.i >= 1 /\ e.i <= Len(r) + 1 /\ rect.top <= e.ry
    BY <1>1, <1>2, SMTT(60)
  <2> QED
    BY <1>3, <1>5, <2>2, <2>4, <2>5 DEF Undecided
<1> QED
  BY <1>1, <1>4, <1>5

(* A turn of GdRectInRegion's walk.                                        *)
LEMMA ScanTurnGood ==
    ASSUME NEW r \in Seq(Rects), Banded(r), NEW rect \in Rects, NEW s \in ScanWalks,
           Undecided(r, rect, s), s.i <= Len(r)
    PROVE  LET e == ScanTurn(s, r, rect)
           IN  /\ e \in ScanWalks
               /\ \/ e.i > Len(r) /\ Answered(r, rect, e)
                  \/ e.i = s.i + 1 /\ Undecided(r, rect, e)
<1> DEFINE e       == ScanTurn(s, r, rect)
           c       == r[s.i]
           below   == c.top > s.ry
           y       == Greater(s.ry, c.top)
           beside  == c.left > rect.left
           missed  == s.partOut \/ below \/ beside
           touches == s.partIn \/ c.left < rect.right
           n       == Len(r) + 1
           Step(i, ry, pin, pout) == [i |-> i, ry |-> ry, partIn |-> pin, partOut |-> pout]
<1>1. /\ rect.left \in Int /\ rect.right \in Int /\ rect.top \in Int /\ rect.bottom \in Int
      /\ rect.left < rect.right /\ rect.top < rect.bottom
      /\ s.ry \in Int /\ s.i \in Int /\ Len(r) \in Nat /\ s.i \in DOMAIN r /\ s.i \in Nat
      /\ s.partIn \in BOOLEAN /\ s.partOut \in BOOLEAN
      /\ rect.top <= s.ry /\ s.ry < rect.bottom
  BY RectTyped DEF ScanWalks, Undecided
<1>2. /\ c.left \in Int /\ c.right \in Int /\ c.top \in Int /\ c.bottom \in Int
      /\ c.left < c.right /\ c.top < c.bottom
  BY <1>1, RectAt
<1>3. ASSUME NEW x \in Int, rect.left <= x, NEW v \in Int, s.ry <= v
      PROVE  /\ v < c.top => ~Covered(r, x, v)
             /\ v < c.bottom /\ x < c.left => ~Covered(r, x, v)
             /\ v < c.bottom /\ x = c.right => ~Covered(r, x, v)
  BY <1>1, <1>3, Ahead
<1>4. ASSUME NEW x \in Int, NEW v \in Int, c.left <= x, x < c.right, c.top <= v, v < c.bottom
      PROVE  Covered(r, x, v)
  BY <1>1, <1>4 DEF Covered, InRect
<1>5. ASSUME NEW i \in Nat, NEW ry \in Int, NEW pin \in BOOLEAN, NEW pout \in BOOLEAN
      PROVE  /\ Step(i, ry, pin, pout) \in ScanWalks
             /\ Step(i, ry, pin, pout).i = i /\ Step(i, ry, pin, pout).ry = ry
             /\ Step(i, ry, pin, pout).partIn = pin /\ Step(i, ry, pin, pout).partOut = pout
  BY DEF ScanWalks
<1>6. n \in Nat /\ s.i + 1 \in Nat /\ n > Len(r)
  BY <1>1
<1> HIDE DEF c, n
<1>7. y \in Int /\ y >= s.ry /\ y >= c.top /\ (below => y = c.top) /\ (~below => y = s.ry)
  BY <1>1, <1>2 DEF Greater
<1>8. missed \in BOOLEAN /\ touches \in BOOLEAN /\ below \in BOOLEAN /\ beside \in BOOLEAN
  BY <1>1, <1>2
<1>9. s.partIn => ~s.partOut /\ s.ry > rect.top /\ AllOf(r, rect, rect.top, s.ry)
  BY DEF Undecided
<1>10. ~s.partIn => (s.partOut <=> s.ry > rect.top) /\ NoneOf(r, rect, rect.top, s.ry)
  BY DEF Undecided
<1>11. e = IF c.bottom <= s.ry THEN [s EXCEPT !.i = s.i + 1]
           ELSE IF below /\ (s.partIn \/ c.top >= rect.bottom)
                THEN Breaks(s, n, s.partIn, s.ry)
           ELSE IF c.right <= rect.left
                THEN Goes(s, s.i + 1, y, s.partOut \/ below)
           ELSE IF beside /\ s.partIn THEN Breaks(s, n, s.partIn, y)
           ELSE IF c.left < rect.right /\ missed THEN Breaks(s, n, TRUE, y)
           ELSE IF c.right < rect.right THEN Breaks(s, n, touches, y)
           ELSE IF c.bottom >= rect.bottom
                THEN Breaks(s, n, touches, c.bottom)
           ELSE Step(s.i + 1, c.bottom, touches, missed)
  <2>1. ~(s.i > Len(r))
    BY <1>1
  <2>2. ScanTurn(s, r, rect) =
          IF c.bottom <= s.ry THEN [s EXCEPT !.i = s.i + 1]
           ELSE IF below /\ (s.partIn \/ c.top >= rect.bottom)
                THEN Breaks(s, n, s.partIn, s.ry)
           ELSE IF c.right <= rect.left
                THEN Goes(s, s.i + 1, y, s.partOut \/ below)
           ELSE IF beside /\ s.partIn THEN Breaks(s, n, s.partIn, y)
           ELSE IF c.left < rect.right /\ missed THEN Breaks(s, n, TRUE, y)
           ELSE IF c.right < rect.right THEN Breaks(s, n, touches, y)
           ELSE IF c.bottom >= rect.bottom
                THEN Breaks(s, n, touches, c.bottom)
           ELSE Step(s.i + 1, c.bottom, touches, missed)
    BY <2>1, Zenon DEF ScanTurn, c, n, Breaks, Goes
  <2> QED
    BY <2>2
<1> HIDE DEF e, Step, y, missed, touches
<1>12. CASE c.bottom <= s.ry
  <2>1. e = [s EXCEPT !.i = s.i + 1]
    BY <1>11, <1>12
  <2>3. /\ e \in ScanWalks /\ e.i = s.i + 1 /\ e.ry = s.ry
        /\ e.partIn = s.partIn /\ e.partOut = s.partOut
    BY <1>6, <2>1, ScanSkips
  <2>4. Undecided(r, rect, e)
    BY <1>1, <1>12, <2>3, ScanPassed DEF c
  <2> QED
    BY <2>3, <2>4 DEF e
<1>13. CASE ~(c.bottom <= s.ry) /\ below /\ (s.partIn \/ c.top >= rect.bottom)
  <2>1. e = Breaks(s, n, s.partIn, s.ry)
    BY <1>11, <1>13
  <2>3. e \in ScanWalks /\ e.i = n /\ e.ry = s.ry /\ e.partIn = s.partIn
    BY <1>1, <1>2, <1>6, <1>7, <1>8, <2>1, ScanBreaks, SMTT(60)
  <2>4. Answered(r, rect, e)
    <3>1. CASE s.partIn
      <4>1. InRect(rect, rect.left, s.ry) /\ ~Covered(r, rect.left, s.ry)
        BY <1>1, <1>3, <1>13 DEF InRect
      <4>2. InRect(rect, rect.left, rect.top) /\ Covered(r, rect.left, rect.top)
        BY <1>1, <1>9, <3>1 DEF InRect, AllOf
      <4>3. SomeIn(r, rect) /\ SomeOut(r, rect)
        BY <1>1, <4>1, <4>2 DEF SomeIn, SomeOut
      <4> QED
        BY <1>1, <2>3, <3>1, <4>3 DEF Answered
    <3>2. CASE ~s.partIn
      <4>1. c.top >= rect.bottom
        BY <1>13, <3>2
      <4>2. NoneOf(r, rect, rect.top, rect.bottom)
        BY <1>1, <1>2, <1>3, <1>10, <3>2, <4>1, SMTT(60) DEF NoneOf
      <4> QED
        BY <2>3, <3>2, <4>2 DEF Answered
    <3> QED
      BY <3>1, <3>2
  <2> QED
    BY <1>6, <2>3, <2>4 DEF e
<1>14. ASSUME ~(c.bottom <= s.ry), ~(below /\ (s.partIn \/ c.top >= rect.bottom))
       PROVE  /\ rect.top <= y /\ y < rect.bottom /\ c.top <= y /\ y < c.bottom /\ s.ry <= y
              /\ below => ~s.partIn
  BY <1>1, <1>2, <1>7, <1>14, SMTT(60)
<1> DEFINE on == ~(c.bottom <= s.ry) /\ ~(below /\ (s.partIn \/ c.top >= rect.bottom))
<1>15. CASE on /\ c.right <= rect.left
  <2>1. e = Goes(s, s.i + 1, y, s.partOut \/ below)
    BY <1>11, <1>15
  <2>2. (s.partOut \/ below) \in BOOLEAN
    OBVIOUS
  <2> DEFINE pout == s.partOut \/ below
  <2>3. pout \in BOOLEAN /\ e = Goes(s, s.i + 1, y, pout)
    BY <2>1, <2>2
  <2> HIDE DEF pout
  <2>4. /\ e \in ScanWalks /\ e.i = s.i + 1 /\ e.ry = y
        /\ e.partIn = s.partIn /\ (e.partOut <=> s.partOut \/ below)
    <3>1. /\ e \in ScanWalks /\ e.i = s.i + 1 /\ e.ry = y
          /\ e.partIn = s.partIn /\ e.partOut = pout
      BY <1>6, <1>7, <2>3, ScanGoes
    <3> QED
      BY <3>1 DEF pout
  <2>5. /\ y >= s.ry /\ y < rect.bottom /\ (y > s.ry <=> below) /\ (y > s.ry => ~s.partIn /\ y <= c.top)
    BY <1>1, <1>2, <1>7, <1>14, <1>15
  <2>6. Undecided(r, rect, e)
    <3>1. /\ e.ry >= s.ry /\ e.ry < rect.bottom
          /\ e.ry > s.ry => ~s.partIn /\ e.ry <= r[s.i].top
          /\ e.partOut <=> s.partOut \/ e.ry > s.ry
          /\ r[s.i].right <= rect.left
      BY <1>15, <2>4, <2>5 DEF c
    <3> QED
      BY <1>1, <2>4, <3>1, ScanPassed
  <2> QED
    BY <2>4, <2>6 DEF e
<1>16. CASE on /\ ~(c.right <= rect.left) /\ beside /\ s.partIn
  <2>1. e = Breaks(s, n, s.partIn, y)
    BY <1>11, <1>16
  <2>3. e \in ScanWalks /\ e.i = n /\ e.ry = y /\ e.partIn = s.partIn
    BY <1>1, <1>2, <1>6, <1>7, <1>8, <2>1, ScanBreaks, SMTT(60)
  <2>4. InRect(rect, rect.left, y) /\ ~Covered(r, rect.left, y)
    BY <1>1, <1>2, <1>3, <1>7, <1>14, <1>16 DEF InRect
  <2>5. InRect(rect, rect.left, rect.top) /\ Covered(r, rect.left, rect.top)
    BY <1>1, <1>9, <1>16 DEF InRect, AllOf
  <2>6. SomeIn(r, rect) /\ SomeOut(r, rect)
    BY <1>1, <1>7, <2>4, <2>5 DEF SomeIn, SomeOut
  <2>7. Answered(r, rect, e)
    BY <1>14, <1>16, <2>3, <2>6 DEF Answered
  <2> QED
    BY <1>6, <2>3, <2>7 DEF e
<1> DEFINE at == on /\ ~(c.right <= rect.left) /\ ~(beside /\ s.partIn)
<1>17. ASSUME at, c.left < rect.right
       PROVE  SomeIn(r, rect)
  <2> DEFINE x == Greater(c.left, rect.left)
  <2>1. x \in Int /\ c.left <= x /\ x < c.right /\ rect.left <= x /\ x < rect.right
    BY <1>1, <1>2, <1>17, SMTT(60) DEF Greater
  <2> HIDE DEF x
  <2>2. InRect(rect, x, y) /\ Covered(r, x, y)
    BY <1>4, <1>7, <1>14, <1>17, <2>1 DEF InRect
  <2> QED
    BY <1>7, <2>1, <2>2 DEF SomeIn
<1>18. CASE at /\ c.left < rect.right /\ missed
  <2>1. e = Breaks(s, n, TRUE, y)
    BY <1>11, <1>18
  <2> DEFINE pin == TRUE
  <2>2. pin \in BOOLEAN /\ e = Breaks(s, n, pin, y)
    BY <2>1
  <2>3. e \in ScanWalks /\ e.i = n /\ e.ry = y /\ e.partIn
    <3> HIDE DEF pin
    <3>1. e \in ScanWalks /\ e.i = n /\ e.ry = y /\ e.partIn = pin
      BY <1>6, <1>7, <2>2, ScanBreaks
    <3> QED
      BY <3>1 DEF pin
  <2>4. SomeOut(r, rect)
    <3>1. CASE s.partOut
      <4>1. ~s.partIn /\ s.ry > rect.top /\ NoneOf(r, rect, rect.top, s.ry)
        BY <1>9, <1>10, <3>1
      <4>2. InRect(rect, rect.left, rect.top) /\ ~Covered(r, rect.left, rect.top)
        BY <1>1, <4>1 DEF InRect, NoneOf
      <4> QED
        BY <1>1, <4>2 DEF SomeOut
    <3>2. CASE below
      <4>1. InRect(rect, rect.left, s.ry) /\ ~Covered(r, rect.left, s.ry)
        BY <1>1, <1>3, <3>2 DEF InRect
      <4> QED
        BY <1>1, <4>1 DEF SomeOut
    <3>3. CASE beside
      <4>1. InRect(rect, rect.left, y) /\ ~Covered(r, rect.left, y)
        BY <1>1, <1>2, <1>3, <1>7, <1>14, <1>18, <3>3 DEF InRect
      <4> QED
        BY <1>1, <1>7, <4>1 DEF SomeOut
    <3> QED
      BY <1>18, <3>1, <3>2, <3>3 DEF missed
  <2>5. Answered(r, rect, e)
    BY <1>14, <1>17, <1>18, <2>3, <2>4 DEF Answered
  <2> QED
    BY <1>6, <2>3, <2>5 DEF e
<1> DEFINE full == at /\ ~(c.left < rect.right /\ missed)
<1>19. CASE full /\ c.right < rect.right
  <2>1. e = Breaks(s, n, touches, y)
    BY <1>11, <1>19
  <2>3. e \in ScanWalks /\ e.i = n /\ e.ry = y /\ e.partIn = touches
    BY <1>1, <1>2, <1>6, <1>7, <1>8, <2>1, ScanBreaks, SMTT(60)
  <2>4. c.left < rect.right /\ touches
    BY <1>1, <1>2, <1>19 DEF touches
  <2>5. SomeIn(r, rect)
    BY <1>17, <1>19, <2>4
  <2>6. InRect(rect, c.right, y) /\ ~Covered(r, c.right, y)
    BY <1>1, <1>2, <1>3, <1>7, <1>14, <1>19 DEF InRect
  <2>7. SomeOut(r, rect)
    BY <1>2, <1>7, <2>6 DEF SomeOut
  <2>8. Answered(r, rect, e)
    BY <1>14, <1>19, <2>3, <2>4, <2>5, <2>7 DEF Answered
  <2> QED
    BY <1>6, <2>3, <2>8 DEF e
<1>20. ASSUME full, ~(c.right < rect.right)
       PROVE  IF c.left < rect.right
              THEN /\ ~s.partOut /\ touches /\ c.top <= s.ry
                   /\ \A v \in Int : rect.top <= v /\ v < c.bottom => AllOf(r, rect, v, v + 1)
              ELSE /\ ~s.partIn /\ ~touches /\ missed
                   /\ \A v \in Int : rect.top <= v /\ v < c.bottom => NoneOf(r, rect, v, v + 1)
  <2>1. CASE c.left < rect.right
    <3>1. ~s.partOut /\ ~below /\ ~beside /\ touches
      BY <1>20, <2>1 DEF missed, touches
    <3>2. c.top <= s.ry /\ c.left <= rect.left
      BY <1>1, <1>2, <3>1
    <3>3. ASSUME NEW v \in Int, rect.top <= v, v < c.bottom,
                 NEW x \in Int, rect.left <= x, x < rect.right
          PROVE  Covered(r, x, v)
      <4>1. CASE s.ry <= v
        <5>1. c.left <= x /\ x < c.right /\ c.top <= v
          BY <1>1, <1>2, <1>20, <3>2, <3>3, <4>1, SMTT(60)
        <5> QED
          BY <1>4, <3>3, <5>1
      <4>2. CASE v < s.ry
        <5>1. s.partIn
          BY <1>1, <1>10, <3>1, <3>3, <4>2
        <5> QED
          BY <1>9, <3>3, <4>2, <5>1 DEF AllOf
      <4> QED
        BY <1>1, <4>1, <4>2
    <3>4. ASSUME NEW v \in Int, rect.top <= v, v < c.bottom
          PROVE  AllOf(r, rect, v, v + 1)
      <4>1. \A z \in Int : v <= z /\ z < v + 1 => z = v
        OBVIOUS
      <4> QED
        BY <3>3, <3>4, <4>1 DEF AllOf
    <3> QED
      BY <2>1, <3>1, <3>2, <3>4
  <2>2. CASE ~(c.left < rect.right)
    <3>1. beside
      BY <1>1, <1>2, <2>2
    <3>2. ~s.partIn /\ ~touches /\ missed
      BY <1>20, <2>2, <3>1 DEF touches, missed
    <3>3. ASSUME NEW v \in Int, rect.top <= v, v < c.bottom,
                 NEW x \in Int, rect.left <= x, x < rect.right
          PROVE  ~Covered(r, x, v)
      <4>1. CASE s.ry <= v
        <5>1. x < c.left
          BY <1>1, <1>2, <2>2, <3>3
        <5> QED
          BY <1>3, <3>3, <4>1, <5>1
      <4>2. CASE v < s.ry
        BY <1>10, <3>2, <3>3, <4>2 DEF NoneOf
      <4> QED
        BY <1>1, <4>1, <4>2
    <3>4. ASSUME NEW v \in Int, rect.top <= v, v < c.bottom
          PROVE  NoneOf(r, rect, v, v + 1)
      <4>1. \A z \in Int : v <= z /\ z < v + 1 => z = v
        OBVIOUS
      <4> QED
        BY <3>3, <3>4, <4>1 DEF NoneOf
    <3> QED
      BY <2>2, <3>2, <3>4
  <2> QED
    BY <2>1, <2>2
<1>21. ASSUME NEW to \in Int, to <= c.bottom
       PROVE  /\ (\A v \in Int : rect.top <= v /\ v < c.bottom => AllOf(r, rect, v, v + 1))
                     => AllOf(r, rect, rect.top, to)
              /\ (\A v \in Int : rect.top <= v /\ v < c.bottom => NoneOf(r, rect, v, v + 1))
                     => NoneOf(r, rect, rect.top, to)
  <2>1. \A v \in Int : v <= v /\ v < v + 1 /\ (v < to => v < c.bottom)
    BY <1>2, <1>21
  <2> QED
    BY <2>1 DEF AllOf, NoneOf
<1>22. CASE full /\ ~(c.right < rect.right) /\ c.bottom >= rect.bottom
  <2>1. e = Breaks(s, n, touches, c.bottom)
    BY <1>11, <1>22
  <2>3. e \in ScanWalks /\ e.i = n /\ e.ry = c.bottom /\ e.partIn = touches
    BY <1>1, <1>2, <1>6, <1>7, <1>8, <2>1, ScanBreaks, SMTT(60)
  <2>4. rect.bottom <= c.bottom
    BY <1>1, <1>2, <1>22
  <2>5. CASE c.left < rect.right
    <3>1. touches /\ AllOf(r, rect, rect.top, rect.bottom)
      BY <1>1, <1>20, <1>21, <1>22, <2>4, <2>5
    <3>2. Answered(r, rect, e)
      BY <1>22, <2>3, <3>1 DEF Answered
    <3> QED
      BY <1>6, <2>3, <3>2 DEF e
  <2>6. CASE ~(c.left < rect.right)
    <3>1. ~touches /\ NoneOf(r, rect, rect.top, rect.bottom)
      BY <1>1, <1>20, <1>21, <1>22, <2>4, <2>6
    <3>2. Answered(r, rect, e)
      BY <2>3, <3>1 DEF Answered
    <3> QED
      BY <1>6, <2>3, <3>2 DEF e
  <2> QED
    BY <2>5, <2>6
<1>23. CASE full /\ ~(c.right < rect.right) /\ ~(c.bottom >= rect.bottom)
  <2>1. e = Step(s.i + 1, c.bottom, touches, missed)
    BY <1>11, <1>23
  <2>2. /\ e \in ScanWalks /\ e.i = s.i + 1 /\ e.ry = c.bottom
        /\ e.partIn = touches /\ e.partOut = missed
    BY <1>2, <1>5, <1>6, <1>8, <2>1, SMTT(60)
  <2>3. ASSUME NEW m \in DOMAIN r, m < s.i + 1
        PROVE  r[m].bottom <= c.bottom \/ r[m].right <= rect.left
    <3>1. m \in Int /\ r[m].bottom \in Int
      BY RectAt
    <3>2. CASE m = s.i
      BY <1>2, <3>2 DEF c
    <3>3. CASE m < s.i
      <4>1. r[m].bottom <= s.ry \/ r[m].right <= rect.left
        BY <3>3 DEF Undecided
      <4> QED
        BY <1>1, <1>2, <1>23, <3>1, <4>1, SMTT(60)
    <3> QED
      BY <1>1, <2>3, <3>1, <3>2, <3>3
  <2>4. /\ e.i >= 1 /\ e.i <= Len(r) + 1 /\ rect.top <= c.bottom /\ c.bottom < rect.bottom
        /\ c.bottom > rect.top
    BY <1>1, <1>2, <1>23, <2>2, SMTT(60)
  <2>5. c.bottom <= c.bottom
    BY <1>2
  <2>6. CASE c.left < rect.right
    <3>1. touches /\ AllOf(r, rect, rect.top, c.bottom)
      BY <1>2, <1>20, <1>21, <1>23, <2>5, <2>6
    <3>2. ~missed
      BY <1>23, <2>6
    <3>3. Undecided(r, rect, e)
      BY <2>2, <2>3, <2>4, <3>1, <3>2 DEF Undecided
    <3> QED
      BY <2>2, <3>3 DEF e
  <2>7. CASE ~(c.left < rect.right)
    <3>1. ~touches /\ missed /\ NoneOf(r, rect, rect.top, c.bottom)
      BY <1>2, <1>20, <1>21, <1>23, <2>5, <2>7
    <3>2. Undecided(r, rect, e)
      BY <2>2, <2>3, <2>4, <3>1 DEF Undecided
    <3> QED
      BY <2>2, <3>2 DEF e
  <2> QED
    BY <2>6, <2>7
<1> QED
  BY <1>12, <1>13, <1>15, <1>16, <1>18, <1>19, <1>22, <1>23

-----------------------------------------------------------------------------
(* The answers.                                                            *)

(* A turn of GdRectInRegion's walk, on with the next rectangle or done.    *)
LEMMA ScanTurnDone ==
    ASSUME NEW r \in Seq(Rects), Banded(r), NEW rect \in Rects, NEW s \in ScanWalks,
           NEW k \in 1 .. Len(r), ScanDone(r, rect, s, k - 1)
    PROVE  ScanTurn(s, r, rect) \in ScanWalks /\ ScanDone(r, rect, ScanTurn(s, r, rect), k)
<1> DEFINE e == ScanTurn(s, r, rect)
<1>1. s.i \in Nat /\ Len(r) \in Nat /\ k \in Int
  BY DEF ScanWalks
<1>2. CASE s.i > Len(r)
  <2>1. e = s
    BY <1>2 DEF ScanTurn
  <2>2. Answered(r, rect, s)
    BY <1>2, ScanEnd DEF ScanDone
  <2> HIDE DEF e
  <2>3. e \in ScanWalks /\ ScanDone(r, rect, e, k)
    BY <1>2, <2>1, <2>2 DEF ScanDone
  <2> QED
    BY <2>3 DEF e
<1>3. CASE ~(s.i > Len(r))
  <2>1. s.i > k - 1 /\ Undecided(r, rect, s)
    BY <1>3 DEF ScanDone
  <2>2. s.i <= Len(r) /\ s.i + 1 > k
    BY <1>1, <1>3, <2>1
  <2>3. /\ e \in ScanWalks
        /\ \/ e.i > Len(r) /\ Answered(r, rect, e)
           \/ e.i = s.i + 1 /\ Undecided(r, rect, e)
    BY <2>1, <2>2, ScanTurnGood
  <2> HIDE DEF e
  <2>4. ScanDone(r, rect, e, k)
    BY <2>2, <2>3 DEF ScanDone
  <2> QED
    BY <2>3, <2>4 DEF e
<1> QED
  BY <1>2, <1>3

(* GdRectInRegion's walk comes to the answer.                              *)
LEMMA ScanIs ==
    ASSUME NEW r \in Seq(Rects), Banded(r), NEW rect \in Rects
    PROVE  Scan(r, rect) \in ScanWalks /\ Answered(r, rect, Scan(r, rect))
<1> DEFINE N == Len(r)
           start == [i |-> 1, ry |-> rect.top, partIn |-> FALSE, partOut |-> FALSE]
           D(k) == {s \in ScanWalks : ScanDone(r, rect, s, k)}
           T == [k \in 0 .. N |-> D(k)]
           G == [q \in ScanWalks \X (1 .. N) |-> ScanTurn(q[1], r, rect)]
           turn == CHOOSE f :
                       f = [n \in 0 .. N |-> IF n = 0 THEN start ELSE ScanTurn(f[n - 1], r, rect)]
<1>1. N \in Nat
  OBVIOUS
<1>2. Scan(r, rect) = turn[N]
  BY DEF Scan
<1> HIDE DEF turn
<1>3. start \in D(0)
  <2>1. /\ rect.top \in Int /\ rect.bottom \in Int /\ rect.top < rect.bottom /\ rect.left \in Int
    BY RectTyped
  <2>2. start \in ScanWalks
    BY <2>1 DEF ScanWalks
  <2>3. start.i = 1 /\ start.ry = rect.top /\ ~start.partIn /\ ~start.partOut
    OBVIOUS
  <2> HIDE DEF start
  <2>4. NoneOf(r, rect, rect.top, rect.top)
    BY <2>1 DEF NoneOf
  <2>5. \A m \in DOMAIN r : ~(m < 1)
    BY RectAt
  <2>6. Undecided(r, rect, start)
    BY <1>1, <2>1, <2>3, <2>4, <2>5 DEF Undecided
  <2> QED
    BY <2>2, <2>3, <2>6 DEF ScanDone
<1>4. ASSUME NEW k \in 1 .. N, NEW s \in D(k - 1)
      PROVE  ScanTurn(s, r, rect) \in D(k)
  BY ScanTurnDone
<1>5. \A k \in 0 .. N : D(k) \subseteq ScanWalks
  OBVIOUS
<1>6. \A s \in D(N) : s \in ScanWalks /\ Answered(r, rect, s)
  <2>1. ASSUME NEW s \in ScanWalks, ScanDone(r, rect, s, N)
        PROVE  Answered(r, rect, s)
    BY <2>1, ScanEnd DEF ScanDone
  <2> QED
    BY <2>1
<1> USE DEF turn
<1> HIDE DEF start
<1> HIDE DEF N, D
<1>7. \A k \in 0 .. N : T[k] = D(k)
  OBVIOUS
<1>8. \A k \in 1 .. N : T[k - 1] = D(k - 1) /\ k - 1 \in 0 .. N /\ k \in 0 .. N
  BY <1>1
<1>9. 0 \in 0 .. N /\ N \in 0 .. N
  BY <1>1
<1> HIDE DEF T
<1>10. \A k \in 1 .. N : \A s \in ScanWalks : G[<<s, k>>] = ScanTurn(s, r, rect)
  OBVIOUS
<1> HIDE DEF G
<1>11. PICK f : Looped(f, N, start, G) /\ \A k \in 0 .. N : f[k] \in T[k]
  <2>1. start \in T[0] /\ \A k \in 0 .. N : T[k] \subseteq ScanWalks
    BY <1>1, <1>3, <1>5, <1>7, <1>9
  <2>2. ASSUME NEW k \in 1 .. N, NEW s \in T[k - 1]
        PROVE  G[<<s, k>>] \in T[k]
    <3>1. s \in D(k - 1) /\ T[k] = D(k) /\ s \in ScanWalks
      BY <1>5, <1>7, <1>8
    <3>2. G[<<s, k>>] = ScanTurn(s, r, rect)
      BY <1>10, <3>1
    <3> QED
      BY <1>4, <3>1, <3>2
  <2> QED
    BY <1>1, <2>1, <2>2, LoopRuns
<1>12. f = [k \in 0 .. N |-> IF k = 0 THEN start ELSE ScanTurn(f[k - 1], r, rect)]
  <2>1. ASSUME NEW k \in 1 .. N
        PROVE  G[<<f[k - 1], k>>] = ScanTurn(f[k - 1], r, rect)
    BY <1>5, <1>7, <1>8, <1>10, <1>11
  <2>2. f = [k \in 0 .. N |-> IF k = 0 THEN start ELSE G[<<f[k - 1], k>>]]
    BY <1>11 DEF Looped
  <2>3. \A k \in 0 .. N : k = 0 \/ k \in 1 .. N
    BY <1>1
  <2> QED
    BY <2>1, <2>2, <2>3
<1>13. turn = [k \in 0 .. N |-> IF k = 0 THEN start ELSE ScanTurn(turn[k - 1], r, rect)]
  BY <1>12, Zenon
<1> HIDE DEF turn
<1>14. turn[0] = start /\ \A k \in 1 .. N : turn[k] = ScanTurn(turn[k - 1], r, rect)
  BY <1>1, <1>13
<1>15. \A k \in 0 .. N : turn[k] \in T[k]
  <2>1. turn[0] \in T[0]
    BY <1>3, <1>7, <1>9, <1>14
  <2>2. \A k \in 1 .. N : turn[k - 1] \in T[k - 1] => turn[k] \in T[k]
    BY <1>4, <1>7, <1>8, <1>14
  <2> QED
    BY <1>1, <2>1, <2>2, LoopKeeps
<1>16. turn[N] \in D(N)
  BY <1>7, <1>9, <1>15
<1> QED
  BY <1>2, <1>6, <1>16

(* The points of a rectangle that are in a region, and those that are not. *)
LEMMA PointsIn ==
    ASSUME NEW reg, NEW A, Good(reg, A), NEW rect \in Rects
    PROVE  /\ SomeIn(reg.rects, rect) <=> PointsOf(rect) \cap A # {}
           /\ SomeOut(reg.rects, rect) <=> ~(PointsOf(rect) \subseteq A)
<1> DEFINE r == reg.rects
           P == PointsOf(rect)
<1>1. /\ rect.left \in Nat /\ rect.right \in Nat /\ rect.top \in Nat /\ rect.bottom \in Nat
      /\ rect.right <= Width /\ rect.bottom <= Height
  BY RectTyped
<1>2. \A x, y \in Int : Covered(r, x, y) <=> <<x, y>> \in A
  BY DEF Good
<1>3. \A p \in Cells : p = <<p[1], p[2]>> /\ p[1] \in Int /\ p[2] \in Int
  BY RegionAssumption DEF Cells
<1>4. ASSUME NEW x \in Int, NEW y \in Int
      PROVE  <<x, y>> \in P <=> InRect(rect, x, y)
  <2>1. InRect(rect, x, y) => x \in 0 .. Width - 1 /\ y \in 0 .. Height - 1
    BY <1>1, RegionAssumption DEF InRect
  <2>2. <<x, y>> \in Cells <=> x \in 0 .. Width - 1 /\ y \in 0 .. Height - 1
    BY DEF Cells
  <2>3. <<x, y>>[1] = x /\ <<x, y>>[2] = y
    OBVIOUS
  <2> QED
    BY <2>1, <2>2, <2>3 DEF PointsOf
<1>5. P \subseteq Cells
  BY DEF PointsOf
<1> HIDE DEF P, r
<1>6. ASSUME NEW p \in P
      PROVE  /\ p = <<p[1], p[2]>> /\ p[1] \in Int /\ p[2] \in Int
             /\ InRect(rect, p[1], p[2]) /\ (Covered(r, p[1], p[2]) <=> p \in A)
  <2>1. p = <<p[1], p[2]>> /\ p[1] \in Int /\ p[2] \in Int
    BY <1>3, <1>5
  <2> QED
    BY <1>2, <1>4, <2>1
<1>7. ASSUME NEW x \in Int, NEW y \in Int, InRect(rect, x, y)
      PROVE  <<x, y>> \in P /\ (Covered(r, x, y) <=> <<x, y>> \in A)
  BY <1>2, <1>4, <1>7
<1>8. SomeIn(r, rect) <=> P \cap A # {}
  BY <1>6, <1>7 DEF SomeIn
<1>9. SomeOut(r, rect) <=> ~(P \subseteq A)
  BY <1>6, <1>7 DEF SomeOut
<1> QED
  BY <1>8, <1>9 DEF r, P

(* GdRectInRegion tells rectangles inside, outside and in between apart.   *)
LEMMA RectInIs ==
    ASSUME NEW reg, NEW A, Good(reg, A), NEW rect \in Rects
    PROVE  GdRectInRegion(reg, rect) =
               CASE PointsOf(rect) \cap A = {} -> "OUT"
                 [] PointsOf(rect) \subseteq A -> "ALLIN"
                 [] OTHER -> "PARTIN"
<1> DEFINE r == reg.rects
           P == PointsOf(rect)
           end == Scan(r, rect)
<1>1. /\ rect.left \in Int /\ rect.right \in Int /\ rect.top \in Int /\ rect.bottom \in Int
      /\ rect.left < rect.right /\ rect.top < rect.bottom
  BY RectTyped
<1>2. P # {}
  <2>1. Good(Single(rect), P) /\ Single(rect).rects # <<>>
    BY SingleGood DEF Single
  <2> QED
    BY <2>1, GoodEmpty
<1>3. CASE r = <<>> \/ ~EXTENTCHECK(reg.extents, rect)
  <2>1. GdRectInRegion(reg, rect) = "OUT"
    BY <1>3 DEF GdRectInRegion
  <2>2. Apart(reg, Single(rect))
    BY <1>3 DEF Apart, Single
  <2>3. Good(Single(rect), P)
    BY SingleGood
  <2> HIDE DEF P
  <2>4. P \cap A = {}
    BY <2>2, <2>3, ApartIs
  <2>5. ~(P \subseteq A)
    BY <1>2, <2>4
  <2> QED
    BY <2>1, <2>4, <2>5 DEF P
<1>4. CASE ~(r = <<>> \/ ~EXTENTCHECK(reg.extents, rect))
  <2>1. GdRectInRegion(reg, rect) =
            IF ~end.partIn THEN "OUT" ELSE IF end.ry < rect.bottom THEN "PARTIN" ELSE "ALLIN"
    BY <1>4 DEF GdRectInRegion
  <2>2. Answered(r, rect, end) /\ end \in ScanWalks
    BY ScanIs DEF Good, Formed
  <2>3. /\ SomeIn(r, rect) <=> P \cap A # {}
        /\ SomeOut(r, rect) <=> ~(P \subseteq A)
    BY PointsIn
  <2> HIDE DEF end, P, r
  <2>4. end.ry \in Int
    BY <2>2 DEF ScanWalks
  <2>5. InRect(rect, rect.left, rect.top)
    BY <1>1 DEF InRect
  <2>6. ASSUME AllOf(r, rect, rect.top, rect.bottom)
        PROVE  SomeIn(r, rect) /\ ~SomeOut(r, rect)
    BY <1>1, <2>5, <2>6 DEF AllOf, SomeIn, SomeOut, InRect
  <2>7. ASSUME NoneOf(r, rect, rect.top, rect.bottom)
        PROVE  ~SomeIn(r, rect)
    BY <2>7 DEF NoneOf, SomeIn, InRect
  <2>8. CASE end.partIn /\ end.ry >= rect.bottom /\ AllOf(r, rect, rect.top, rect.bottom)
    <3>1. ~(P \cap A = {}) /\ P \subseteq A
      BY <2>3, <2>6, <2>8
    <3>2. ~(end.ry < rect.bottom)
      BY <1>1, <2>8, <2>4
    <3> QED
      BY <2>1, <2>8, <3>1, <3>2 DEF P
  <2>9. CASE end.partIn /\ end.ry < rect.bottom /\ SomeIn(r, rect) /\ SomeOut(r, rect)
    <3>1. ~(P \cap A = {}) /\ ~(P \subseteq A)
      BY <2>3, <2>9
    <3> QED
      BY <2>1, <2>9, <3>1 DEF P
  <2>10. CASE ~end.partIn /\ NoneOf(r, rect, rect.top, rect.bottom)
    <3>1. P \cap A = {}
      BY <2>3, <2>7, <2>10
    <3>2. ~(P \subseteq A)
      BY <1>2, <3>1
    <3> QED
      BY <2>1, <2>10, <3>1, <3>2 DEF P
  <2> QED
    BY <2>2, <2>8, <2>9, <2>10 DEF Answered
<1> QED
  BY <1>3, <1>4

(* GdPtInRegion knows the points of a region.                              *)
LEMMA PtInIs ==
    ASSUME NEW reg, NEW A, Good(reg, A)
    PROVE  {p \in Cells : GdPtInRegion(reg, p[1], p[2])} = A
<1>1. A \subseteq Cells /\ \A x, y \in Int : Covered(reg.rects, x, y) <=> <<x, y>> \in A
  BY DEF Good
<1>2. \A p \in Cells : p = <<p[1], p[2]>> /\ p[1] \in Int /\ p[2] \in Int
  BY RegionAssumption DEF Cells
<1>3. ASSUME NEW x \in Int, NEW y \in Int
      PROVE  GdPtInRegion(reg, x, y) <=> Covered(reg.rects, x, y)
  <2>1. CASE reg.rects = <<>>
    <3>1. ~GdPtInRegion(reg, x, y)
      BY <2>1 DEF GdPtInRegion
    <3>2. ~Covered(reg.rects, x, y)
      BY <2>1, NothingSlice
    <3> QED
      BY <3>1, <3>2
  <2>2. CASE reg.rects # <<>>
    <3>1. Covered(reg.rects, x, y) => InRect(reg.extents, x, y)
      BY <2>2 DEF Good, Boxed
    <3> QED
      BY <2>2, <3>1 DEF GdPtInRegion
  <2> QED
    BY <2>1, <2>2
<1>4. \A p \in Cells : GdPtInRegion(reg, p[1], p[2]) <=> p \in A
  BY <1>1, <1>2, <1>3
<1> QED
  BY <1>1, <1>4

(* GdEqualRegion compares arrays, and equal regions have equal ones.       *)
LEMMA EqualIs ==
    ASSUME NEW reg1, NEW A, Good(reg1, A), NEW reg2, NEW B, Good(reg2, B)
    PROVE  GdEqualRegion(reg1, reg2) <=> A = B
<1>1. /\ A \subseteq Cells /\ B \subseteq Cells
      /\ \A x, y \in Int : Covered(reg1.rects, x, y) <=> <<x, y>> \in A
      /\ \A x, y \in Int : Covered(reg2.rects, x, y) <=> <<x, y>> \in B
      /\ Formed(reg1.rects) /\ Formed(reg2.rects)
  BY DEF Good
<1>2. ASSUME A = B
      PROVE  GdEqualRegion(reg1, reg2)
  <2>1. \A x, y \in Int : Covered(reg1.rects, x, y) <=> Covered(reg2.rects, x, y)
    BY <1>1, <1>2
  <2>2. reg1.rects = reg2.rects
    BY <1>1, <2>1, Canonical
  <2>3. CASE reg1.rects = <<>>
    BY <2>2, <2>3 DEF GdEqualRegion
  <2>4. CASE reg1.rects # <<>>
    <3>1. Boxed(reg1.extents, reg1.rects) /\ Boxed(reg2.extents, reg2.rects)
      BY <2>2, <2>4 DEF Good
    <3>2. reg1.extents = reg2.extents
      BY <2>2, <3>1, BoxSame
    <3> QED
      BY <2>2, <3>2 DEF GdEqualRegion
  <2> QED
    BY <2>3, <2>4
<1>3. ASSUME GdEqualRegion(reg1, reg2)
      PROVE  A = B
  <2>1. reg1.rects = reg2.rects
    <3>1. CASE reg1.rects = <<>>
      <4>1. Len(reg2.rects) = 0 /\ reg2.rects \in Seq(Rects)
        BY <1>1, <1>3, <3>1 DEF GdEqualRegion, Formed
      <4> QED
        BY <3>1, <4>1
    <3>2. CASE reg1.rects # <<>>
      BY <1>3, <3>2 DEF GdEqualRegion
    <3> QED
      BY <3>1, <3>2
  <2>2. \A p \in Cells : p = <<p[1], p[2]>> /\ p[1] \in Int /\ p[2] \in Int
    BY RegionAssumption DEF Cells
  <2>3. \A p \in Cells : p \in A <=> p \in B
    BY <1>1, <2>1, <2>2
  <2> QED
    BY <1>1, <2>3
<1> QED
  BY <1>2, <1>3

(* Every question about a region is answered about its points.             *)
LEMMA GoodAnswers == RegionsGood => AnswersExact
<1> SUFFICES ASSUME RegionsGood
             PROVE  AnswersExact
  OBVIOUS
<1>1. Good(rgn[1], area[1]) /\ Good(rgn[2], area[2])
  BY DEF RegionsGood, Ids
<1>2. GdEqualRegion(rgn[1], rgn[2]) <=> area[1] = area[2]
  BY <1>1, EqualIs
<1>3. {p \in Cells : GdPtInRegion(rgn[1], p[1], p[2])} = area[1]
  BY <1>1, PtInIs
<1>4. \A rect \in Rects :
          GdRectInRegion(rgn[1], rect) =
              CASE PointsOf(rect) \cap area[1] = {} -> "OUT"
                [] PointsOf(rect) \subseteq area[1] -> "ALLIN"
                [] OTHER -> "PARTIN"
  BY <1>1, RectInIs
<1> QED
  BY <1>2, <1>3, <1>4, Zenon DEF AnswersExact

(* GdEqualRegion, GdPtInRegion and GdRectInRegion answer for the points of *)
(* a region.                                                               *)
THEOREM AnsweredExactly == Spec => []AnswersExact
BY AlwaysGood, GoodAnswers, PTL
=============================================================================
