---------------------------- MODULE NxClipProofs ----------------------------
(***************************************************************************)
(* Proofs about the window whose clip region is installed: the server with *)
(* its clip region implements the server with pointer and focus, no        *)
(* request leaves the region of a window that went off the screen, and the *)
(* region left is stale only inside windows that were left unpainted.      *)
(***************************************************************************)
EXTENDS NxClip, NxWindowsProofs

Draws(w) ==
    \/ \E changed \in BOOLEAN : GsPrepareDrawing(w, changed)
    \/ \E flush \in BOOLEAN : GrClearArea(w, flush)

LEMMA ClipStepOnWindows == [ClipNext]_<<vars, paintVars>> => [Next]_vars
<1> SUFFICES ASSUME ClipNext PROVE Next \/ UNCHANGED vars
  OBVIOUS
<1>1. ASSUME NEW c \in Clients,
             \/ Accept(c) \/ GsClose(c)
             \/ \E p \in Wids, nx \in Cells, size \in Sizes :
                   GrNewWindow(c, p, nx, size) \/ GrNewInputWindow(c, p, nx, size)
      PROVE  Next
  BY <1>1 DEF Next
<1>2. ASSUME NEW w \in Wids, Draws(w) PROVE UNCHANGED vars
  BY <1>2 DEF Draws, GrClearArea, GsPrepareDrawing
<1>3. ASSUME NEW w \in Wids,
             \/ ClipGrMapWindow(w) \/ ClipGrUnmapWindow(w) \/ ClipGrRaiseWindow(w)
             \/ ClipGrLowerWindow(w) \/ ClipGrDestroyWindow(w) \/ GrKillWindow(w)
             \/ ClipDestroyOwned(w)
             \/ \E nx \in Cells : ClipGrMoveWindow(w, nx)
             \/ \E size \in Sizes : ClipGrResizeWindow(w, size)
             \/ \E p \in Wids, nx \in Cells : ClipGrReparentWindow(w, p, nx)
      PROVE  Next
  BY <1>3 DEF ClipGrMapWindow, ClipGrUnmapWindow, ClipGrRaiseWindow, ClipGrLowerWindow,
      ClipGrDestroyWindow, ClipDestroyOwned, ClipGrMoveWindow, ClipGrResizeWindow,
      ClipGrReparentWindow, Next
<1>4. ASSUME ClipDropDone PROVE Next
  BY <1>4 DEF ClipDropDone, Next
<1>5. ASSUME NEW w \in Wids, ClipGrSetWMProperties(w) PROVE Next \/ UNCHANGED vars
  BY <1>5 DEF ClipGrSetWMProperties, Next
<1>6. ASSUME DrawOnPixmap PROVE UNCHANGED vars
  BY <1>6 DEF DrawOnPixmap
<1> QED BY <1>1, <1>2, <1>3, <1>4, <1>5, <1>6 DEF ClipNext, Draws

(* The clip region is added to the windows without a hand in what becomes  *)
(* of them: all that is proved of the windows holds with it.               *)
THEOREM ClipImplementsWindows == ClipSpec => Spec
BY ClipStepOnWindows, PTL DEF ClipSpec, ClipInit, Spec

-----------------------------------------------------------------------------
LEMMA ForgetKeepsLive ==
    ASSUME ClipLive, NEW cleared, NEW gone, Forget(cleared, gone),
           (realized \cap output) \ (realized' \cap output') \subseteq gone
    PROVE  ClipLive'
BY DEF ClipLive, Forget, Forgotten, Skip

(* What leaves the screen is among the windows the walk came to.           *)
LEMMA HiddenLeave ==
    ASSUME NEW w
    PROVE  realized \ Unrealize(w, realized, parent) \subseteq Hidden(w)
BY DEF Unrealize, Hidden

LEMMA HiddenAreGone ==
    ASSUME NEW w \in listwp, realized \in SUBSET listwp
    PROVE  Hidden(w) \subseteq Gone(w)
<1>1. Closed(Below(w, listwp, parent), realized, parent)
  BY BelowClosed DEF Closed
<1>2. Below(w, realized, parent) \subseteq Below(w, listwp, parent)
  BY <1>1, BelowLive, BelowSelf, BelowLeast
<1> QED BY <1>2 DEF Hidden, Gone

LEMMA ClipLiveStep ==
    TypeInv /\ ClipLive /\ [ClipNext]_<<vars, paintVars>> => ClipLive'
<1> SUFFICES ASSUME TypeInv, ClipLive, [ClipNext]_<<vars, paintVars>> PROVE ClipLive'
  OBVIOUS
<1>a. realized \in SUBSET listwp
  BY DEF TypeInv, TreeTypeOK
<1>b. ASSUME clipwp' \in {clipwp, NoWin}, realized \subseteq realized', output \subseteq output'
      PROVE  ClipLive'
  BY <1>b DEF ClipLive
<1>c. ASSUME NEW cleared, NEW gone, Forget(cleared, gone) PROVE clipwp' \in {clipwp, NoWin}
  BY <1>c DEF Forget, Forgotten, Skip
<1>1. ASSUME NEW w \in Wids, Draws(w) PROVE ClipLive'
  <2>1. UNCHANGED <<realized, output>>
    BY <1>1 DEF Draws, GrClearArea, GsPrepareDrawing, vars, treeVars
  <2>2. (w \in realized \cap output /\ clipwp' = w) \/ clipwp' \in {clipwp, NoWin}
    BY <1>1 DEF Draws, GrClearArea, GsPrepareDrawing, Install, Forgotten, clipVars
  <2> QED
    BY <2>1, <2>2 DEF ClipLive
<1>2. ASSUME NEW w \in Wids, ClipGrMapWindow(w) PROVE ClipLive'
  BY <1>2, <1>b, <1>c DEF ClipGrMapWindow, GrMapWindow, TreeGrMapWindow, Realize
<1>3. ASSUME NEW w \in Wids, ClipGrUnmapWindow(w) PROVE ClipLive'
  BY <1>3, HiddenLeave, ForgetKeepsLive DEF ClipGrUnmapWindow, GrUnmapWindow, TreeGrUnmapWindow
<1>4. ASSUME NEW w \in Wids, NEW gone, DestroyWindow(w), w \in listwp, Forget(gone, Gone(w))
      PROVE  ClipLive'
  <2>1. (realized \cap output) \ (realized' \cap output') \subseteq Gone(w)
    BY <1>4, <1>a, HiddenLeave, HiddenAreGone DEF DestroyWindow
  <2> QED BY <1>4, <2>1, ForgetKeepsLive
<1>5. ASSUME NEW w \in Wids, ClipGrDestroyWindow(w) \/ ClipDestroyOwned(w) PROVE ClipLive'
  BY <1>4, <1>5 DEF ClipGrDestroyWindow, ClipDestroyOwned, GrDestroyWindow, DestroyOwned,
      TreeGrDestroyWindow, TreeDestroyOwned, Owned
<1>6. ASSUME NEW w, TreeRemap(w), ForgetRemapped(w) PROVE ClipLive'
  <2>1. realized \ realized' \subseteq Hidden(w) /\ output' = output
    BY <1>6, HiddenLeave DEF TreeRemap, Remap, Realize
  <2> QED BY <1>6, <2>1, ForgetKeepsLive DEF ForgetRemapped
<1>7. ASSUME NEW w \in Wids, NEW nx \in Cells, ClipGrMoveWindow(w, nx) PROVE ClipLive'
  <2>1. CASE w \in mapped /\ IsUnobscuredBySiblings(w)
    BY <1>7, <2>1, <1>b DEF ClipGrMoveWindow, GrMoveWindow, Forgotten, treeVars
  <2>2. CASE ~(w \in mapped /\ IsUnobscuredBySiblings(w))
    BY <1>6, <1>7, <2>2 DEF ClipGrMoveWindow, GrMoveWindow
  <2> QED BY <2>1, <2>2
<1>8. ASSUME NEW w \in Wids, NEW p \in Wids, NEW nx \in Cells, ClipGrReparentWindow(w, p, nx)
      PROVE  ClipLive'
  <2>1. realized \ realized' \subseteq Hidden(w) /\ output' = output
    BY <1>8, HiddenLeave DEF ClipGrReparentWindow, GrReparentWindow, TreeGrReparentWindow, Realize
  <2> QED BY <1>8, <2>1, ForgetKeepsLive DEF ClipGrReparentWindow, ForgetRemapped
<1>9. ASSUME NEW w \in Wids, ClipGrSetWMProperties(w) PROVE ClipLive'
  <2>1. CASE UNCHANGED vars /\ clipwp' \in {clipwp, NoWin}
    BY <2>1, <1>b DEF vars, treeVars
  <2>2. ASSUME NEW P, SetPaintProps(w, P) PROVE clipwp' \in {clipwp, NoWin}
    BY <2>2 DEF SetPaintProps, Forgotten, clipVars
  <2>3. CASE GrSetWMProperties(w) /\ nofocus' # nofocus /\ UNCHANGED clipVars
    BY <2>3, <1>b DEF GrSetWMProperties, clipVars, treeVars
  <2>4. CASE TreeRemap(w) /\ ForgetRemapped(w)
    BY <1>6, <2>4
  <2>5. CASE UNCHANGED treeVars /\ ForgetRemapped(w)
    BY <2>5, <1>b, <1>c DEF ForgetRemapped, treeVars
  <2> QED BY <1>9, <1>c, <2>1, <2>2, <2>3, <2>4, <2>5 DEF ClipGrSetWMProperties, GrSetWMProperties
<1>10. ASSUME NEW w \in Wids,
              \/ ClipGrRaiseWindow(w) \/ ClipGrLowerWindow(w)
              \/ \E size \in Sizes : ClipGrResizeWindow(w, size)
       PROVE  ClipLive'
  <2>1. clipwp' \in {clipwp, NoWin}
    BY <1>10, <1>c DEF ClipGrRaiseWindow, ClipGrLowerWindow, ClipGrResizeWindow, Forgotten
  <2> QED BY <1>10, <2>1, <1>b DEF ClipGrRaiseWindow, ClipGrLowerWindow, ClipGrResizeWindow,
      GrRaiseWindow, GrLowerWindow, GrResizeWindow, TreeGrRaiseWindow, TreeGrLowerWindow, treeVars
<1>11. ASSUME NEW c \in Clients, UNCHANGED clipVars,
              \/ Accept(c) \/ GsClose(c)
              \/ \E p \in Wids, nx \in Cells, size \in Sizes :
                    GrNewWindow(c, p, nx, size) \/ GrNewInputWindow(c, p, nx, size)
       PROVE  ClipLive'
  BY <1>11, <1>b DEF Accept, GsClose, GrNewWindow, GrNewInputWindow, GsAcceptClientFd,
      TreeGsClose, TreeGrNewWindow, TreeGrNewInputWindow, NewWindow, clipVars
<1>12. ASSUME NEW w \in Wids, GrKillWindow(w), UNCHANGED clipVars PROVE ClipLive'
  BY <1>12, <1>b DEF GrKillWindow, TreeGrKillWindow, TreeGsClose, clipVars
<1>13. ASSUME ClipDropDone \/ DrawOnPixmap \/ UNCHANGED <<vars, paintVars>> PROVE ClipLive'
  BY <1>13, <1>b DEF ClipDropDone, DrawOnPixmap, Forgotten, paintVars, DropDone, TreeDropDone, vars, treeVars, clipVars
<1> QED BY <1>1, <1>2, <1>3, <1>5, <1>7, <1>8, <1>9, <1>10, <1>11, <1>12, <1>13
   DEF ClipNext, Draws, paintVars

(* The clip region installed is never that of a window off the screen,     *)
(* however windows are hidden, reparented, destroyed or dropped with their *)
(* client: GsPrepareDrawing, which compares pointers, is not deceived.     *)
THEOREM ClipLiveCorrect == ClipSpec => []ClipLive
<1>1. ClipInit => ClipLive
  BY DEF ClipInit, ClipLive
<1>2. ClipSpec => []TypeInv
  BY ClipImplementsWindows, WindowsImplementTree, TypesCorrect, PTL
<1> QED BY <1>1, <1>2, ClipLiveStep, PTL DEF ClipSpec

-----------------------------------------------------------------------------
(***************************************************************************)
(* Stale regions.  What GsSetClipWindow gives a window k is the cells that *)
(* k and its ancestors cover and that no window hides.  A cell is Reached  *)
(* by a window that, were nothing in front of it, would be drawn there.    *)
(***************************************************************************)
Sound == TypeInv /\ TypeOK /\ StackingOrder /\ Rooted /\ RealizedIffViewable

Stands(k, cell)   == \A a \in UpFrom(k) : Covers(a, x, cell)
Hides(o, k, cell) == o \in Obscuring(k) /\ o \in Shown /\ Covers(o, x, cell)
Reached(n, cell)  == n \in listwp /\ \A a \in UpFrom(n) : a \in Shown /\ Covers(a, x, cell)

(* Only windows skipped since the region was set, there on the screen,     *)
(* excuse a cell.  What hides them has its parent cleared, and that either *)
(* forgets the region or skips the parent.                                 *)
StaleInv ==
    clipwp # NoWin /\ UpFrom(clipwp) \subseteq output =>
        \A cell \in Cells :
            \/ cell \in clipregion <=> cell \in GsSetClipWindow(clipwp)
            \/ \E n \in skipped : Reached(n, cell)

LEMMA InExtent ==
    ASSUME NEW v, NEW xs, NEW ws, xs[v] \in Int, ws[v] \in Int, NEW cell \in Int
    PROVE  cell \in Extent(v, xs, ws) <=> xs[v] <= cell /\ cell < xs[v] + ws[v]
BY DEF Extent

LEMMA InArea ==
    ASSUME TypeOK, NEW v \in Wids, NEW cell \in Cells
    PROVE  cell \in Area(v) <=> Covers(v, x, cell)
<1>1. x[v] \in Int /\ width[v] \in Int /\ cell \in Int
  <2>1. x[v] \in Cells /\ width[v] \in Nat
    BY DEF TypeOK
  <2>2. \A n \in Cells : n \in Nat
    BY CellsNumbered
  <2>3. \A n \in Nat : n \in Int
    OBVIOUS
  <2> QED
    BY <2>1, <2>2, <2>3
<1> QED
  BY <1>1, InExtent DEF Area, Covers

(* Facts about one state that are needed of the next one too.              *)
RealizedUp ==
    TypeInv /\ RealizedIffViewable => \A w \in realized : UpFrom(w) \subseteq realized

ObscuringUp ==
    TypeInv /\ StackingOrder => \A k \in listwp : \A o \in Obscuring(k) :
        o \in listwp \ {Root} /\ parent[o] \in UpFrom(k) /\ UpFrom(o) \subseteq {o} \cup UpFrom(k)

ObscuringIs ==
    TypeInv => \A k : \A o : o \in Obscuring(k) <=> \/ o \in Kids(k)
                                                  \/ \E a \in UpFrom(k) : <<o, a>> \in above

LEMMA RealizedUpHolds == RealizedUp
BY UpRealized DEF RealizedUp

LEMMA ObscuringUpHolds == ObscuringUp
<1> SUFFICES ASSUME TypeInv, StackingOrder, NEW k \in listwp, NEW o \in Obscuring(k)
             PROVE  /\ o \in listwp \ {Root} /\ parent[o] \in UpFrom(k)
                    /\ UpFrom(o) \subseteq {o} \cup UpFrom(k)
  BY DEF ObscuringUp
<1>0. parent[Root] \notin listwp /\ listwp \subseteq Wids /\ k \in UpFrom(k) /\ UpFrom(k) \subseteq listwp
  BY LiveWids, BelowSelf DEF TypeInv, ParentsLive, NoWin, Wids, UpFrom
<1>1. o \in listwp \ {Root} /\ parent[o] \in UpFrom(k)
  <2>1. CASE o \in Kids(k)
    BY <1>0, <2>1 DEF Kids
  <2>2. CASE o \notin Kids(k)
    <3>1. PICK e \in above : e[2] \in UpFrom(k) /\ o = e[1]
      BY <2>2 DEF Obscuring
    <3> DEFINE a == e[2]
    <3>2. <<o, a>> \in above /\ a \in UpFrom(k) /\ o \in listwp /\ a \in listwp
      <4>1. e = <<e[1], e[2]>> /\ e[1] \in listwp
        BY DEF TypeInv, TreeTypeOK
      <4> QED
        BY <1>0, <3>1, <4>1
    <3> HIDE DEF a
    <3>3. o # a /\ parent[o] = parent[a]
      BY <3>2 DEF StackingOrder
    <3>4. o # Root /\ a # Root
      BY <1>0, <3>2, <3>3 DEF TypeInv, ParentsLive
    <3>5. k \in Below(a, listwp, parent) /\ a \in Below(parent[a], listwp, parent)
      BY <3>2, <3>4, BelowSelf, BelowClosed DEF UpFrom, TypeInv, ParentsLive
    <3>6. k \in Below(parent[a], listwp, parent)
      BY <3>5, BelowTransitive
    <3> QED
      BY <3>2, <3>3, <3>4, <3>6 DEF UpFrom, TypeInv, ParentsLive
  <2> QED
    BY <2>1, <2>2
<1>2. ASSUME NEW a \in UpFrom(o), a # o PROVE a \in UpFrom(k)
  <2>1. a \in listwp /\ parent[o] \in Below(a, listwp, parent)
    BY <1>1, <1>2, BelowUp DEF UpFrom
  <2>2. k \in Below(parent[o], listwp, parent)
    BY <1>1 DEF UpFrom
  <2> QED
    BY <2>1, <2>2, BelowTransitive DEF UpFrom
<1> QED
  BY <1>1, <1>2

LEMMA ObscuringIsHolds == ObscuringIs
<1> SUFFICES ASSUME TypeInv, NEW k, NEW o
             PROVE  o \in Obscuring(k) <=> o \in Kids(k) \/ \E a \in UpFrom(k) : <<o, a>> \in above
  BY DEF ObscuringIs
<1>1. ASSUME o \in Obscuring(k), o \notin Kids(k) PROVE \E a \in UpFrom(k) : <<o, a>> \in above
  <2>1. PICK e \in above : e[2] \in UpFrom(k) /\ o = e[1]
    BY <1>1 DEF Obscuring
  <2>2. e = <<e[1], e[2]>>
    BY DEF TypeInv, TreeTypeOK
  <2> QED
    BY <2>1, <2>2
<1>2. ASSUME NEW a \in UpFrom(k), <<o, a>> \in above PROVE o \in Obscuring(k)
  BY <1>2 DEF Obscuring
<1> QED
  BY <1>1, <1>2 DEF Obscuring

LEMMA NextFacts == RealizedUp' /\ ObscuringUp' /\ ObscuringIs'
BY RealizedUpHolds, ObscuringUpHolds, ObscuringIsHolds, PTL

(* Windows whose parents stay have the same ancestors in the next state.   *)
LEMMA UpSame ==
    ASSUME TypeInv, Rooted, TypeInv', NEW v \in listwp,
           \A a \in UpFrom(v) : a \in listwp' /\ parent'[a] = parent[a]
    PROVE  UpFrom(v)' = UpFrom(v)
<1> DEFINE U == UpFrom(v)
<1>0. /\ v \in U /\ U \subseteq listwp
      /\ \A a \in U : a # Root => parent[a] \in U
      /\ parent[Root] \notin listwp /\ parent'[Root] \notin listwp'
  <2>1. v \in U
    BY BelowSelf DEF UpFrom
  <2>2. U \subseteq listwp /\ \A a \in U : a # Root => parent[a] \in U
    BY UpChain DEF UpFrom
  <2>3. parent[Root] \notin listwp /\ parent'[Root] \notin listwp'
    BY LiveWids, LiveWidsNext DEF TypeInv, ParentsLive, NoWin, Wids
  <2> QED
    BY <2>1, <2>2, <2>3
<1>1. U = {a \in listwp : v \in Below(a, listwp, parent)}
  BY DEF UpFrom
<1>2. UpFrom(v)' = {a \in listwp' : v \in Below(a, listwp, parent)'}
  BY DEF UpFrom
<1>3. \A a \in U : a \in listwp' /\ parent'[a] = parent[a]
  OBVIOUS
<1> HIDE DEF U
<1>4. ASSUME NEW a \in U PROVE v \in Below(a, listwp, parent)'
  <2> SUFFICES ASSUME NEW S \in SUBSET listwp', a \in S, Closed(S, listwp', parent')
               PROVE  v \in S
    BY <1>0, <1>3 DEF Below
  <2> DEFINE T == {u \in listwp : u \in U => u \in S}
  <2>1. Closed(T, listwp, parent)
    <3> SUFFICES ASSUME NEW c \in listwp, parent[c] \in T, c \in U PROVE c \in S
      BY DEF Closed
    <3>1. parent[c] \in U /\ parent[c] \in S /\ c \in listwp' /\ parent'[c] = parent[c]
      BY <1>0, <1>3
    <3> QED
      BY <3>1 DEF Closed
  <2>2. a \in T /\ T \in SUBSET listwp
    BY <1>0
  <2> HIDE DEF T
  <2>3. v \in T
    BY <1>1, <2>1, <2>2, BelowLeast
  <2> QED
    BY <1>0, <2>3 DEF T
<1>5. ASSUME NEW a \in listwp', v \in Below(a, listwp, parent)' PROVE a \in U
  <2> SUFFICES ASSUME a \notin U PROVE FALSE
    OBVIOUS
  <2> DEFINE T == listwp' \ U
  <2>1. a \in T /\ T \in SUBSET listwp'
    OBVIOUS
  <2>2. \A c \in listwp' : parent'[c] \in T => c \in T
    BY <1>0, <1>3
  <2> HIDE DEF T
  <2>3. v \in T
    BY <1>5, <2>1, <2>2 DEF Below, Closed
  <2> QED
    BY <1>0, <2>3 DEF T
<1> QED
  BY <1>0, <1>2, <1>3, <1>4, <1>5 DEF U

-----------------------------------------------------------------------------
(* A walk from an ancestor of k comes to k if it may enter all between.    *)
LEMMA ChainDown ==
    ASSUME TypeInv, Rooted, NEW k \in listwp, NEW a \in UpFrom(k),
           NEW M \in SUBSET listwp, UpFrom(k) \cap Below(a, listwp, parent) \subseteq M
    PROVE  k \in Below(a, M, parent)
<1> DEFINE B == Below(a, M, parent)
           T == {v \in listwp : v \in Below(a, listwp, parent) /\ (v \in UpFrom(k) => v \in B)}
<1>0. a \in listwp /\ k \in Below(a, listwp, parent) /\ k \in UpFrom(k) /\ a \in B
  BY BelowSelf DEF UpFrom
<1>1. Closed(T, listwp, parent)
  <2> SUFFICES ASSUME NEW c \in listwp, parent[c] \in T PROVE c \in T
    BY DEF Closed
  <2>1. c \in Below(a, listwp, parent)
    BY BelowClosed
  <2>2. ASSUME c \in UpFrom(k) PROVE c \in B
    <3>1. c # Root
      BY LiveWids DEF TypeInv, ParentsLive, NoWin, Wids
    <3>2. parent[c] \in UpFrom(k) /\ c \in M
      BY <2>1, <2>2, <3>1, UpChain
    <3> QED
      BY <3>2, BelowClosed
  <2> QED
    BY <2>1, <2>2
<1>2. a \in T /\ T \in SUBSET listwp
  BY <1>0, BelowSelf
<1> HIDE DEF T
<1>3. k \in T
  BY <1>0, <1>1, <1>2, BelowLeast
<1> QED
  BY <1>0, <1>3 DEF T

LEMMA BelowHidden ==
    ASSUME TypeInv, Rooted, RealizedIffViewable, NEW w \in listwp \ {Root},
           NEW k \in realized, k \in Below(w, listwp, parent)
    PROVE  k \in Hidden(w)
<1>1. k \in listwp /\ w \in UpFrom(k) /\ realized \in SUBSET listwp
  BY DEF TypeInv, TreeTypeOK, UpFrom
<1>2. UpFrom(k) \subseteq realized
  BY UpRealized
<1> QED
  BY <1>1, <1>2, ChainDown DEF Hidden

LEMMA ExposedChain ==
    ASSUME TypeInv, Rooted, NEW k \in listwp, NEW a \in UpFrom(k), NEW area, NEW R, NEW ws,
           NEW cell \in area,
           \A v \in UpFrom(k) : v \in R /\ v \in output /\ cell \in Extent(v, x, ws)
    PROVE  k \in GsExposeArea(a, area, R, ws)
<1> DEFINE M == {v \in R \cap output : Extent(v, x, ws) \cap area # {}}
<1>1. UpFrom(k) \subseteq M /\ M \in SUBSET listwp
  BY DEF TypeInv, TreeTypeOK
<1>2. GsExposeArea(a, area, R, ws) = Below(a, M, parent)
  BY <1>1 DEF GsExposeArea
<1> HIDE DEF M
<1> QED
  BY <1>1, <1>2, ChainDown

LEMMA ExposedSelf ==
    ASSUME TypeInv, NEW a \in listwp, NEW area, NEW R, NEW ws, NEW cell \in area,
           a \in R, a \in output, cell \in Extent(a, x, ws)
    PROVE  a \in GsExposeArea(a, area, R, ws)
BY BelowSelf DEF GsExposeArea

(* Of what lies below w only w itself can hide a part of a window outside. *)
LEMMA OnlyItHides ==
    ASSUME Sound, NEW w \in listwp, NEW k \in listwp, k \notin Below(w, listwp, parent),
           NEW o \in Below(w, listwp, parent), o # w,
           NEW U, parent[o] \in U, U = UpFrom(k)
    PROVE  FALSE
<1>1. parent[o] \in Below(w, listwp, parent) /\ k \in Below(parent[o], listwp, parent)
  BY BelowUp DEF UpFrom
<1> QED
  BY <1>1, BelowTransitive

(* What w hid of k is cleared when w goes, and so is k.                    *)
LEMMA KeepsUp ==
    ASSUME Sound, NEW w \in listwp, NEW k \in listwp, k \notin Below(w, listwp, parent),
           UpFrom(k) \subseteq realized
    PROVE  UpFrom(k) \subseteq Unrealize(w, realized, parent)
<1> SUFFICES ASSUME NEW a \in UpFrom(k), a \notin Unrealize(w, realized, parent) PROVE FALSE
  OBVIOUS
<1>1. a \in Below(w, realized, parent)
  BY DEF Unrealize
<1>2. Below(w, realized, parent) \subseteq Below(w, listwp, parent)
  <2>1. Closed(Below(w, listwp, parent), realized, parent)
    BY BelowClosed DEF Closed, Sound, TypeInv, TreeTypeOK
  <2> QED
    BY <2>1, BelowLive, BelowSelf, BelowLeast
<1>3. k \in Below(a, listwp, parent)
  BY DEF UpFrom
<1> QED
  BY <1>1, <1>2, <1>3, BelowTransitive

LEMMA Uncovers ==
    ASSUME Sound, NEW w \in listwp \ {Root}, NEW k \in listwp,
           k \notin Below(w, listwp, parent), UpFrom(k) \subseteq Shown,
           NEW cell \in Cells, Stands(k, cell), Hides(w, k, cell)
    PROVE  k \in Uncovered(w)
<1> DEFINE R == Unrealize(w, realized, parent)
<1>0. /\ TypeInv /\ Rooted /\ TypeOK /\ listwp \in SUBSET Wids
      /\ k \in UpFrom(k) /\ UpFrom(k) \subseteq listwp /\ UpFrom(k) \subseteq output
      /\ w \in (realized \cap output) \ {Root} /\ w \in Obscuring(k)
  BY LiveWids, BelowSelf DEF Sound, UpFrom, Shown, Hides
<1>1. UpFrom(k) \subseteq R
  BY KeepsUp DEF Shown
<1> HIDE DEF R
<1>2. cell \in Area(w) /\ \A v \in UpFrom(k) : cell \in Area(v)
  BY <1>0, InArea DEF Stands, Hides
<1>3. Uncovered(w) = {v \in {parent[w]} \cap R \cap output : Area(v) \cap Area(w) # {}}
         \cup UNION {GsExposeArea(e[2], Area(w), R, width) : e \in {f \in above : f[1] = w}}
  BY <1>0 DEF Uncovered, R
<1>4. CASE w \in Kids(k)
  <2>1. parent[w] = k
    BY <1>4 DEF Kids
  <2> QED
    BY <1>0, <1>1, <1>2, <1>3, <2>1
<1>5. CASE w \notin Kids(k)
  <2>1. PICK e \in above : e[2] \in UpFrom(k) /\ w = e[1]
    BY <1>0, <1>5 DEF Obscuring
  <2>2. \A v \in UpFrom(k) : v \in R /\ v \in output /\ cell \in Extent(v, x, width)
    BY <1>0, <1>1, <1>2 DEF Area
  <2>3. k \in GsExposeArea(e[2], Area(w), R, width)
    BY <1>0, <1>2, <2>1, <2>2, ExposedChain
  <2> QED
    BY <1>3, <2>1, <2>3
<1> QED
  BY <1>4, <1>5

-----------------------------------------------------------------------------
(* What a step leaves Reached.                                             *)
LEMMA ReachedKept ==
    ASSUME Sound, Sound', NEW n, NEW cell, Reached(n, cell),
           \A a \in UpFrom(n) : /\ a \in listwp' /\ a \in Shown' /\ parent'[a] = parent[a]
                                /\ x'[a] = x[a] /\ width'[a] = width[a]
    PROVE  Reached(n, cell)'
<1>1. n \in listwp /\ n \in UpFrom(n)
  BY BelowSelf DEF Reached, UpFrom
<1>2. UpFrom(n)' = UpFrom(n)
  BY <1>1, UpSame DEF Sound
<1> QED
  BY <1>1, <1>2 DEF Reached, Covers

(* w and what is below it are taken away or moved: a cell that a window    *)
(* among them reached is reached by the parent of w, which is cleared.     *)
LEMMA StillReached ==
    ASSUME Sound, Sound', skipped \subseteq skipped',
           NEW w \in listwp \ {Root}, Uncovered(w) \subseteq skipped',
           \A v \in listwp \ Below(w, listwp, parent) :
               /\ v \in listwp' /\ parent'[v] = parent[v] /\ (v \in Shown => v \in Shown')
               /\ x'[v] = x[v] /\ width'[v] = width[v],
           NEW n \in skipped, NEW cell \in Cells, Reached(n, cell)
    PROVE  \E m \in skipped' : Reached(m, cell)'
<1> DEFINE B == Below(w, listwp, parent)
<1>0. n \in listwp /\ TypeInv /\ TypeOK /\ Rooted /\ listwp \in SUBSET Wids /\ w \in listwp
  BY LiveWids DEF Reached, Sound
<1>1. ASSUME NEW v \in listwp \ B, Reached(v, cell) PROVE Reached(v, cell)'
  <2>1. ASSUME NEW a \in UpFrom(v) PROVE a \in listwp \ B
    <3>1. a \in listwp /\ v \in Below(a, listwp, parent)
      BY DEF UpFrom
    <3> QED
      BY <3>1, BelowTransitive
  <2>2. \A a \in UpFrom(v) : a \in Shown
    BY <1>1 DEF Reached
  <2> HIDE DEF B
  <2>3. \A a \in UpFrom(v) : /\ a \in listwp' /\ a \in Shown' /\ parent'[a] = parent[a]
                             /\ x'[a] = x[a] /\ width'[a] = width[a]
    BY <2>1, <2>2 DEF B
  <2> QED
    BY <1>1, <2>3, ReachedKept
<1>2. CASE n \in B
  <2> DEFINE p == parent[w]
  <2>1. w \in UpFrom(n) /\ p \in listwp /\ p \in UpFrom(n) /\ w \in Kids(p)
    <3>1. w \in UpFrom(n)
      BY <1>0, <1>2 DEF UpFrom
    <3>2. p \in listwp
      BY <1>0 DEF TypeInv, ParentsLive
    <3> QED
      BY <1>0, <3>1, <3>2, UpChain DEF Kids
  <2>2. p \notin B
    BY <1>0, <2>1, NotBelowKid
  <2>3. Reached(p, cell)
    <3>1. ASSUME NEW a \in UpFrom(p) PROVE a \in UpFrom(n)
      <4>1. a \in listwp /\ p \in Below(a, listwp, parent) /\ n \in Below(p, listwp, parent)
        BY <2>1 DEF UpFrom
      <4> QED
        BY <4>1, BelowTransitive DEF UpFrom
    <3> QED
      BY <2>1, <3>1 DEF Reached
  <2>4. /\ p \in realized /\ p \in output /\ w \in (realized \cap output) \ {Root}
        /\ cell \in Area(p) /\ cell \in Area(w)
    BY <1>0, <2>1, InArea DEF Reached, Shown
  <2>5. p \in Unrealize(w, realized, parent)
    <3>1. UpFrom(p) \subseteq realized
      BY <2>3 DEF Reached, Shown
    <3>2. p \in UpFrom(p)
      BY <2>1, BelowSelf DEF UpFrom
    <3> QED
      BY <2>1, <2>2, <3>1, <3>2, KeepsUp
  <2>6. p \in Uncovered(w)
    BY <2>4, <2>5 DEF Uncovered
  <2> QED
    BY <1>1, <2>1, <2>2, <2>3, <2>6
<1>3. CASE n \notin B
  BY <1>0, <1>1, <1>3
<1> QED
  BY <1>2, <1>3

-----------------------------------------------------------------------------
(***************************************************************************)
(* A step that keeps the region of k, whose ancestors stay where they are: *)
(* what it takes from in front of k has k cleared, what it puts there is   *)
(* cleared, and cells that were excused still are.                         *)
(***************************************************************************)
Parted(o, k, cell) ==
    /\ UpFrom(k) \subseteq Shown /\ Stands(k, cell)
    /\ Hides(o, k, cell) /\ ~(Hides(o, k, cell))'

Joined(o, k, cell) ==
    /\ UpFrom(k) \subseteq Shown /\ Stands(k, cell)
    /\ ~Hides(o, k, cell) /\ (Hides(o, k, cell))'

Kept(k) ==
    clipwp = k /\ clipwp' = k /\ clipregion' = clipregion /\ skipped \subseteq skipped'

Stays(k) ==
    \A a \in UpFrom(k) : /\ a \in listwp' /\ parent'[a] = parent[a]
                         /\ a \in output' => a \in output
                         /\ x'[a] = x[a] /\ width'[a] = width[a]

LEMMA KeptShown ==
    ASSUME Sound, Sound', ClipLive, ClipLive', NEW k, k # NoWin, Kept(k), Stays(k),
           UpFrom(k)' \subseteq output'
    PROVE  /\ k \in listwp /\ UpFrom(k)' = UpFrom(k)
           /\ UpFrom(k) \subseteq Shown /\ UpFrom(k) \subseteq Shown'
<1>1. k \in realized /\ k \in realized' /\ k \in listwp /\ k \in listwp'
  BY DEF ClipLive, Kept, Sound, TypeInv, TreeTypeOK
<1>2. UpFrom(k)' = UpFrom(k)
  BY <1>1, UpSame DEF Stays, Sound
<1>3. UpFrom(k) \subseteq realized
  BY <1>1, UpRealized DEF Sound
<1>4. UpFrom(k)' \subseteq realized'
  BY <1>1, NextFacts DEF RealizedUp, Sound
<1> QED
  BY <1>1, <1>2, <1>3, <1>4 DEF Shown, Stays

LEMMA StaysStale ==
    ASSUME Sound, Sound', ClipLive, ClipLive', StaleInv,
           NEW k, k # NoWin, Kept(k), Stays(k),
           \A cell \in Cells : \A o : Parted(o, k, cell) => k \in skipped',
           \A cell \in Cells : \A o : Joined(o, k, cell) => o \in skipped',
           \A cell \in Cells : \A n \in skipped :
               Reached(n, cell) => \E m \in skipped' : Reached(m, cell)'
    PROVE  StaleInv'
<1> SUFFICES ASSUME UpFrom(k)' \subseteq output', NEW cell \in Cells,
                    ~(\E n \in skipped' : Reached(n, cell)')
             PROVE  (cell \in clipregion <=> cell \in GsSetClipWindow(k))'
  BY DEF StaleInv, Kept
<1>0. /\ k \in listwp /\ UpFrom(k)' = UpFrom(k)
      /\ UpFrom(k) \subseteq Shown /\ UpFrom(k) \subseteq Shown'
  BY KeptShown
<1>1. cell \in clipregion' <=> cell \in GsSetClipWindow(k)
  BY <1>0 DEF StaleInv, Kept, Shown
<1>2. cell \in GsSetClipWindow(k) <=> Stands(k, cell) /\ ~\E o : Hides(o, k, cell)
  BY DEF GsSetClipWindow, Stands, Hides, Shown
<1>3. cell \in GsSetClipWindow(k)' <=> Stands(k, cell)' /\ ~\E o : Hides(o, k, cell)'
  BY DEF GsSetClipWindow, Stands, Hides, Shown
<1>4. Stands(k, cell)' <=> Stands(k, cell)
  BY <1>0 DEF Stands, Covers, Stays
<1>5. k \in listwp'
  BY DEF Kept, ClipLive, Sound, TypeInv, TreeTypeOK
<1>6. ASSUME NEW o, Joined(o, k, cell) PROVE FALSE
  <2>1. o \in skipped' /\ o \in Shown' /\ (Covers(o, x, cell))' /\ o \in Obscuring(k)'
    BY <1>6 DEF Joined, Hides
  <2>2. o \in listwp' /\ UpFrom(o)' \subseteq {o} \cup UpFrom(k)'
    BY <1>5, <2>1, NextFacts DEF ObscuringUp, Sound
  <2>3. \A a \in UpFrom(k)' : a \in Shown' /\ (Covers(a, x, cell))'
    BY <1>0, <1>4, <1>6 DEF Joined, Stands
  <2>4. Reached(o, cell)'
    BY <2>1, <2>2, <2>3 DEF Reached
  <2> QED
    BY <2>1, <2>4
<1>7. ASSUME NEW o, Parted(o, k, cell) PROVE FALSE
  <2>1. k \in skipped' /\ Stands(k, cell)'
    BY <1>4, <1>7 DEF Parted
  <2>2. Reached(k, cell)'
    BY <1>0, <1>5, <2>1 DEF Reached, Stands
  <2> QED
    BY <2>1, <2>2
<1>8. Stands(k, cell) => \A o : (Hides(o, k, cell))' <=> Hides(o, k, cell)
  BY <1>0, <1>6, <1>7 DEF Parted, Joined
<1> QED
  BY <1>1, <1>2, <1>3, <1>4, <1>8

(* w and what is below it, k not among them, are taken away, moved or      *)
(* taken elsewhere, and w is cleared where it comes to be seen again.      *)
LEMMA AroundStale ==
    ASSUME Sound, Sound', ClipLive, ClipLive', StaleInv,
           NEW k, k # NoWin, Kept(k), NEW w \in listwp \ {Root},
           k \notin Below(w, listwp, parent),
           Uncovered(w) \subseteq skipped', w \in Shown' => w \in skipped',
           listwp' \subseteq listwp,
           \A v \in listwp \ Below(w, listwp, parent) :
               /\ v \in listwp' /\ parent'[v] = parent[v] /\ (v \in Shown' <=> v \in Shown)
               /\ v \in output' => v \in output
               /\ x'[v] = x[v] /\ width'[v] = width[v],
           \A v \in listwp' \ {w} : parent'[v] = parent[v],
           \A u, v \in listwp \ Below(w, listwp, parent) : <<u, v>> \in above' <=> <<u, v>> \in above
    PROVE  StaleInv'
<1> DEFINE B == Below(w, listwp, parent)
<1>0. k \in listwp /\ w \in listwp
  BY DEF ClipLive, Kept, Sound, TypeInv, TreeTypeOK
<1>1. UpFrom(k) \subseteq listwp \ B
  <2>1. ASSUME NEW a \in UpFrom(k) PROVE a \in listwp \ B
    <3>1. a \in listwp /\ k \in Below(a, listwp, parent)
      BY DEF UpFrom
    <3> QED
      BY <3>1, BelowTransitive
  <2> QED
    BY <2>1
<1>2. Stays(k)
  BY <1>1 DEF Stays
<1>3. UpFrom(k)' = UpFrom(k)
  <2>1. \A a \in UpFrom(k) : a \in listwp' /\ parent'[a] = parent[a]
    BY <1>2 DEF Stays
  <2> QED
    BY <1>0, <2>1, UpSame DEF Sound
<1> DEFINE U == UpFrom(k)
<1>4. ASSUME NEW o \in listwp \ B
      PROVE  o \in Obscuring(k)' <=> o \in Obscuring(k)
  <2>1. o \in Kids(k)' <=> o \in Kids(k)
    BY <1>4 DEF Kids
  <2>2. \A a \in U : <<o, a>> \in above' <=> <<o, a>> \in above
    BY <1>1, <1>4
  <2>3. o \in Obscuring(k) <=> o \in Kids(k) \/ \E a \in U : <<o, a>> \in above
    BY ObscuringIsHolds DEF ObscuringIs, Sound
  <2>4. o \in Obscuring(k)' <=> o \in Kids(k)' \/ \E a \in U : <<o, a>> \in above'
    BY <1>3, NextFacts DEF ObscuringIs, Sound
  <2> QED
    BY <2>1, <2>2, <2>3, <2>4
<1>5. ASSUME NEW o \in B, o # w PROVE o \notin Obscuring(k) /\ o \notin Obscuring(k)'
  <2>1. o \notin Obscuring(k)
    BY <1>0, <1>5, OnlyItHides, ObscuringUpHolds DEF ObscuringUp, Sound
  <2>2. ASSUME o \in Obscuring(k)' PROVE FALSE
    <3>1. k \in listwp'
      BY <1>1, <1>0, BelowSelf DEF UpFrom
    <3>2. o \in listwp' /\ parent'[o] \in UpFrom(k)'
      BY <2>2, <3>1, NextFacts DEF ObscuringUp, Sound
    <3>3. parent[o] \in UpFrom(k)
      BY <1>3, <1>5, <3>2
    <3> QED
      BY <1>0, <1>5, <3>3, OnlyItHides
  <2> QED
    BY <2>1, <2>2
<1>6. ASSUME NEW cell \in Cells, NEW o, o # w
      PROVE  (Hides(o, k, cell))' <=> Hides(o, k, cell)
  <2>1. CASE o \in B
    BY <1>5, <1>6, <2>1 DEF Hides
  <2>2. CASE o \in listwp \ B
    BY <1>4, <2>2 DEF Hides, Covers
  <2>3. CASE o \notin listwp
    BY <2>3 DEF Hides, Shown, Sound, TypeInv, TreeTypeOK
  <2> QED
    BY <2>1, <2>2, <2>3
<1>7. \A cell \in Cells : \A o : Parted(o, k, cell) => k \in skipped'
  <2> SUFFICES ASSUME NEW cell \in Cells, NEW o, Parted(o, k, cell) PROVE k \in skipped'
    OBVIOUS
  <2>1. o = w
    BY <1>6 DEF Parted
  <2> QED
    BY <1>0, <2>1, Uncovers DEF Parted
<1>8. \A cell \in Cells : \A o : Joined(o, k, cell) => o \in skipped'
  <2> SUFFICES ASSUME NEW cell \in Cells, NEW o, Joined(o, k, cell) PROVE o \in skipped'
    OBVIOUS
  <2>1. o = w
    BY <1>6 DEF Joined
  <2> QED
    BY <2>1 DEF Joined, Hides
<1>9. \A cell \in Cells : \A n \in skipped :
          Reached(n, cell) => \E m \in skipped' : Reached(m, cell)'
  BY StillReached DEF Kept
<1> QED
  BY <1>2, <1>7, <1>8, <1>9, StaysStale

-----------------------------------------------------------------------------
(* What the drawing of windows depends on.                                 *)
places == <<listwp, parent, above, realized, output, x, width>>

LEMMA SameWalks ==
    ASSUME UNCHANGED <<listwp, parent>>
    PROVE  \A v : UpFrom(v)' = UpFrom(v) /\ Kids(v)' = Kids(v)
BY DEF UpFrom, Kids, Below, Closed

LEMMA SamePlaces ==
    ASSUME UNCHANGED places, NEW v
    PROVE  /\ UpFrom(v)' = UpFrom(v)
           /\ GsSetClipWindow(v)' = GsSetClipWindow(v)
           /\ \A cell : Reached(v, cell)' <=> Reached(v, cell)
<1>0. UNCHANGED <<listwp, parent, above, realized, output, x, width>>
  BY DEF places
<1>1. UpFrom(v)' = UpFrom(v) /\ Kids(v)' = Kids(v)
  BY <1>0, SameWalks
<1>2. Obscuring(v)' = Obscuring(v)
  BY <1>0, <1>1 DEF Obscuring
<1>3. GsSetClipWindow(v)' = GsSetClipWindow(v)
  BY <1>0, <1>1, <1>2 DEF GsSetClipWindow, Covers
<1>4. \A cell : Reached(v, cell)' <=> Reached(v, cell)
  BY <1>0, <1>1 DEF Reached, Shown, Covers
<1> QED
  BY <1>1, <1>3, <1>4

LEMMA SameStale ==
    ASSUME StaleInv, UNCHANGED places, Kept(clipwp)
    PROVE  StaleInv'
<1>1. /\ clipwp' = clipwp /\ clipregion' = clipregion /\ output' = output
      /\ skipped \subseteq skipped'
  BY DEF Kept, places
<1>2. UpFrom(clipwp)' = UpFrom(clipwp) /\ GsSetClipWindow(clipwp)' = GsSetClipWindow(clipwp)
  BY SamePlaces, <1>1
<1>3. \A n : \A cell : Reached(n, cell)' <=> Reached(n, cell)
  BY SamePlaces
<1> QED
  BY <1>1, <1>2, <1>3 DEF StaleInv

LEMMA ForgottenOrKept ==
    ASSUME NEW cleared, NEW gone, Forget(cleared, gone), clipwp' # NoWin
    PROVE  /\ Kept(clipwp) /\ clipwp' = clipwp
           /\ cleared \subseteq skipped' /\ clipwp \notin gone
BY DEF Forget, Forgotten, Skip, Kept

LEMMA Untouched ==
    ASSUME UNCHANGED clipVars
    PROVE  Kept(clipwp)
BY DEF Kept, clipVars

LEMMA UnrealizeAway ==
    ASSUME TypeInv, NEW w \in listwp, NEW v, v \notin Below(w, listwp, parent)
    PROVE  v \in Unrealize(w, realized, parent) <=> v \in realized
<1>1. Below(w, realized, parent) \subseteq Below(w, listwp, parent)
  <2>1. Closed(Below(w, listwp, parent), realized, parent)
    BY BelowClosed DEF Closed, TypeInv, TreeTypeOK
  <2> QED
    BY <2>1, BelowLive, BelowSelf, BelowLeast
<1> QED
  BY <1>1 DEF Unrealize

LEMMA UnrealizedGone ==
    ASSUME NEW w \in listwp \ {Root}
    PROVE  w \notin Unrealize(w, realized, parent)
BY BelowSelf DEF Unrealize

(* A step that moves no window and hides none.                             *)
LEMMA GrowStale ==
    ASSUME Sound, Sound', ClipLive, ClipLive', StaleInv,
           NEW k, k # NoWin, Kept(k),
           \A v \in listwp : /\ v \in listwp' /\ parent'[v] = parent[v]
                             /\ v \in output' => v \in output
                             /\ v \in Shown => v \in Shown'
                             /\ x'[v] = x[v] /\ width'[v] = width[v],
           \A cell \in Cells : \A o : Parted(o, k, cell) => k \in skipped',
           \A cell \in Cells : \A o : Joined(o, k, cell) => o \in skipped'
    PROVE  StaleInv'
<1>1. \A v : UpFrom(v) \subseteq listwp
  BY DEF UpFrom
<1>2. Stays(k)
  BY <1>1 DEF Stays
<1>3. ASSUME NEW cell \in Cells, NEW n \in skipped, Reached(n, cell)
      PROVE  Reached(n, cell)'
  <2>1. \A a \in UpFrom(n) : /\ a \in listwp' /\ a \in Shown' /\ parent'[a] = parent[a]
                             /\ x'[a] = x[a] /\ width'[a] = width[a]
    BY <1>1, <1>3 DEF Reached
  <2> QED
    BY <1>3, <2>1, ReachedKept
<1>4. skipped \subseteq skipped'
  BY DEF Kept
<1> QED
  BY <1>2, <1>3, <1>4, StaysStale

-----------------------------------------------------------------------------
LEMMA NewStale ==
    ASSUME Sound, Sound', ClipLive, ClipLive', StaleInv, clipwp' # NoWin, UNCHANGED clipVars,
           NEW c, NEW p, NewWindow(c, p), output' \subseteq output \cup {nextid},
           output \subseteq output', NEW nx, NEW size, Place(p, nx, size)
    PROVE  StaleInv'
<1> SUFFICES ASSUME NEW k, k = clipwp PROVE StaleInv'
  OBVIOUS
<1>0. /\ Kept(k) /\ k # NoWin /\ nextid \notin listwp /\ listwp \in SUBSET Wids
      /\ realized \in SUBSET listwp /\ realized' = realized
  BY LiveWids DEF Kept, clipVars, NewWindow, Sound, TypeInv, TreeTypeOK
<1>1. \A v \in listwp : /\ v \in listwp' /\ parent'[v] = parent[v]
                        /\ v \in output' => v \in output
                        /\ v \in Shown => v \in Shown'
                        /\ x'[v] = x[v] /\ width'[v] = width[v]
  <2>1. \A v \in listwp : v # nextid /\ v \in Wids
    BY <1>0
  <2> QED
    BY <1>0, <2>1 DEF NewWindow, Place, Shown, TypeOK, Sound, TypeInv, TreeTypeOK
<1>2. UpFrom(k)' = UpFrom(k) /\ UpFrom(k) \subseteq listwp /\ k \in listwp
  <2>1. k \in listwp
    BY <1>0 DEF ClipLive
  <2>2. UpFrom(k) \subseteq listwp
    BY DEF UpFrom
  <2> QED
    <3>1. \A a \in UpFrom(k) : a \in listwp' /\ parent'[a] = parent[a]
      BY <1>1, <2>2
    <3> QED
      BY <2>1, <2>2, <3>1, UpSame DEF Sound
<1>3. ASSUME NEW cell, NEW o PROVE Hides(o, k, cell)' <=> Hides(o, k, cell)
  <2>1. CASE o \in listwp
    <3>1. o \in Kids(k)' <=> o \in Kids(k)
      BY <1>1, <1>2, <2>1 DEF Kids
    <3>2. \A a \in UpFrom(k) : <<o, a>> \in above' <=> <<o, a>> \in above
      BY <1>0, <2>1 DEF NewWindow, FrontOf
    <3>3. o \in Obscuring(k)' <=> o \in Obscuring(k)
      BY <1>2, <3>1, <3>2, NextFacts, ObscuringIsHolds DEF ObscuringIs, Sound
    <3>4. o \in Shown' <=> o \in Shown
      BY <1>0, <1>1, <2>1 DEF Shown
    <3> QED
      BY <1>1, <2>1, <3>3, <3>4 DEF Hides, Covers
  <2>2. CASE o \notin listwp
    BY <1>0, <2>2 DEF Hides, Shown
  <2> QED
    BY <2>1, <2>2
<1> QED
  BY <1>0, <1>1, <1>3, GrowStale DEF Parted, Joined

LEMMA MapStale ==
    ASSUME Sound, Sound', ClipLive, ClipLive', StaleInv, clipwp' # NoWin,
           NEW w \in Wids, ClipGrMapWindow(w)
    PROVE  StaleInv'
<1> SUFFICES ASSUME NEW k, k = clipwp PROVE StaleInv'
  OBVIOUS
<1>0. /\ Kept(k) /\ k # NoWin /\ (realized' \ realized) \cap output \subseteq skipped'
      /\ UNCHANGED <<listwp, parent, above, output, x, width>>
      /\ realized \subseteq realized'
  BY ForgottenOrKept DEF ClipGrMapWindow, GrMapWindow, TreeGrMapWindow, Realize
<1>1. Obscuring(k)' = Obscuring(k)
  BY <1>0, SameWalks DEF Obscuring
<1>2. ASSUME NEW cell, NEW o, Joined(o, k, cell) PROVE o \in skipped'
  BY <1>0, <1>1, <1>2 DEF Joined, Hides, Covers, Shown
<1>3. ASSUME NEW cell, NEW o, Parted(o, k, cell) PROVE FALSE
  BY <1>0, <1>1, <1>3 DEF Parted, Hides, Covers, Shown
<1> QED
  BY <1>0, <1>2, <1>3, GrowStale DEF Shown

LEMMA UnmapStale ==
    ASSUME Sound, Sound', ClipLive, ClipLive', StaleInv, clipwp' # NoWin,
           NEW w \in Wids, ClipGrUnmapWindow(w)
    PROVE  StaleInv'
<1> DEFINE k == clipwp
<1>0. /\ Kept(k) /\ k # NoWin /\ Uncovered(w) \subseteq skipped' /\ k \notin Hidden(w)
      /\ UNCHANGED <<listwp, parent, above, output, x, width>>
      /\ realized' = Unrealize(w, realized, parent) /\ w \in listwp
  BY ForgottenOrKept DEF ClipGrUnmapWindow, GrUnmapWindow, TreeGrUnmapWindow, Sound,
     TypeInv, TreeTypeOK
<1>1. CASE w = Root
  <2>1. realized' = realized
    BY <1>0, <1>1 DEF Unrealize
  <2> QED
    BY <1>0, <2>1, SameStale DEF places
<1>2. CASE w # Root
  <2>1. k \in realized
    BY <1>0 DEF ClipLive
  <2>2. k \notin Below(w, listwp, parent)
    BY <1>0, <1>2, <2>1, BelowHidden DEF Sound
  <2>3. \A v \in listwp \ Below(w, listwp, parent) : v \in realized' <=> v \in realized
    BY <1>0, UnrealizeAway DEF Sound
  <2>4. w \notin Shown'
    BY <1>0, <1>2, UnrealizedGone DEF Shown
  <2> HIDE DEF k
  <2> QED
    BY <1>0, <1>2, <2>2, <2>3, <2>4, AroundStale DEF Shown
<1> QED
  BY <1>1, <1>2

LEMMA DestroyStale ==
    ASSUME Sound, Sound', ClipLive, ClipLive', StaleInv, clipwp' # NoWin,
           NEW w \in listwp, NEW s, DestroyWindow(w), DestroyEffect(w, s),
           Forget(Uncovered(w), Gone(w))
    PROVE  StaleInv'
<1> DEFINE k == clipwp
           B == Below(w, listwp, parent)
<1>0. /\ Kept(k) /\ k # NoWin /\ Uncovered(w) \subseteq skipped' /\ k \notin B
      /\ w # Root /\ listwp \in SUBSET Wids /\ B \subseteq listwp
  BY ForgottenOrKept, LiveWids, BelowLive DEF DestroyWindow, Gone, Sound
<1>1. /\ listwp' = listwp \ B
      /\ above' = {e \in above : e[1] \notin B /\ e[2] \notin B}
      /\ realized' = Unrealize(w, realized, parent) \ B
      /\ output' = output \ B
      /\ \A v \in listwp \ B : parent'[v] = parent[v] /\ x'[v] = x[v] /\ width'[v] = width[v]
  BY <1>0 DEF DestroyWindow, DestroyEffect, Gone
<1>2. \A v \in listwp \ B : v \in realized' <=> v \in realized
  BY <1>1, UnrealizeAway DEF Sound
<1>3. w \notin Shown'
  BY <1>0, <1>1, BelowSelf DEF Shown
<1>4. \A u, v \in listwp \ B : <<u, v>> \in above' <=> <<u, v>> \in above
  BY <1>1
<1> HIDE DEF k
<1> QED
  BY <1>0, <1>1, <1>2, <1>3, <1>4, AroundStale DEF Shown

LEMMA MoveStale ==
    ASSUME Sound, Sound', ClipLive, ClipLive', StaleInv, clipwp' # NoWin,
           NEW w \in Wids, NEW nx \in Cells, ClipGrMoveWindow(w, nx)
    PROVE  StaleInv'
<1> DEFINE k == clipwp
           B == Below(w, listwp, parent)
<1>0. w \in listwp \ {Root} /\ x' = OffsetTo(w, nx) /\ width' = width /\ listwp \in SUBSET Wids
  BY LiveWids DEF ClipGrMoveWindow, GrMoveWindow, Sound
<1>1. CASE w \in mapped /\ IsUnobscuredBySiblings(w)
  BY <1>1 DEF ClipGrMoveWindow, Forgotten
<1>2. CASE ~(w \in mapped /\ IsUnobscuredBySiblings(w))
  <2>1. TreeRemap(w) /\ ForgetRemapped(w)
    BY <1>2 DEF ClipGrMoveWindow, GrMoveWindow
  <2>2. UNCHANGED <<listwp, parent, above, output, mapped>>
    BY <2>1 DEF TreeRemap
  <2>3. realized' = realized
    BY <2>2, SameFlags DEF Sound
  <2>4. /\ Kept(k) /\ k # NoWin /\ Uncovered(w) \subseteq skipped' /\ k \notin Hidden(w)
        /\ B \cap realized' \cap output \subseteq skipped'
    BY <2>1, ForgottenOrKept DEF ForgetRemapped
  <2>5. k \notin B
    BY <1>0, <2>4, BelowHidden DEF Sound, ClipLive
  <2>6. w \in Shown' => w \in skipped'
    BY <1>0, <2>2, <2>4, BelowSelf DEF Shown
  <2>7. \A v \in listwp \ B : x'[v] = x[v]
    BY <1>0 DEF OffsetTo
  <2> HIDE DEF k
  <2> QED
    BY <1>0, <2>2, <2>3, <2>4, <2>5, <2>6, <2>7, AroundStale DEF Shown
<1> QED
  BY <1>1, <1>2

LEMMA ReparentStale ==
    ASSUME Sound, Sound', ClipLive, ClipLive', StaleInv, clipwp' # NoWin,
           NEW w \in Wids, NEW p \in Wids, NEW nx \in Cells, ClipGrReparentWindow(w, p, nx)
    PROVE  StaleInv'
<1> DEFINE k == clipwp
           B == Below(w, listwp, parent)
           U == Unrealize(w, realized, parent)
<1>0. /\ w \in listwp \ {Root} /\ x' = OffsetTo(w, nx) /\ width' = width /\ listwp \in SUBSET Wids
      /\ listwp' = listwp /\ mapped' = mapped /\ output' = output
      /\ parent' = [parent EXCEPT ![w] = p] /\ mapped \in SUBSET listwp /\ realized \in SUBSET listwp
      /\ above' = Unlinked(w) \cup FrontOf(w, Kids(p))
      /\ realized' = Realize(w, U, mapped, parent')
      /\ TypeInv
  BY LiveWids DEF ClipGrReparentWindow, GrReparentWindow, TreeGrReparentWindow, Sound,
     TypeInv, TreeTypeOK
<1>1. /\ Kept(k) /\ k # NoWin /\ Uncovered(w) \subseteq skipped' /\ k \notin Hidden(w)
      /\ B \cap realized' \cap output \subseteq skipped'
  BY ForgottenOrKept DEF ClipGrReparentWindow, ForgetRemapped
<1>2. k \notin B /\ w \in B /\ B \in SUBSET listwp
  BY <1>0, <1>1, BelowHidden, BelowSelf, BelowLive DEF Sound, ClipLive
<1>3. w \in Shown' => w \in skipped'
  BY <1>0, <1>1, <1>2 DEF Shown
<1>4. \A v \in listwp \ B : x'[v] = x[v]
  BY <1>0 DEF OffsetTo
<1>5. \A v \in listwp : v # w => parent'[v] = parent[v]
  BY <1>0
<1>6. \A v \in listwp \ B : v \in realized' <=> v \in realized
  <2>1. Below(w, mapped \ U, parent') \subseteq B
    <3>1. Closed(B, mapped \ U, parent')
      <4> SUFFICES ASSUME NEW c \in mapped \ U, parent'[c] \in B PROVE c \in B
        BY DEF Closed
      <4>1. CASE c = w
        BY <1>2, <4>1
      <4>2. CASE c # w
        <5>1. c \in listwp /\ parent[c] \in B
          BY <1>0, <1>5, <4>2
        <5> QED
          BY <5>1, BelowClosed
      <4> QED
        BY <4>1, <4>2
    <3> QED
      BY <1>2, <3>1, BelowLeast
  <2>2. \A v \in listwp \ B : v \in U <=> v \in realized
    BY <1>0, UnrealizeAway
  <2>3. U \subseteq realized' /\ realized' \subseteq U \cup Below(w, mapped \ U, parent')
    BY <1>0 DEF Realize
  <2> HIDE DEF U, B
  <2> QED
    BY <2>1, <2>2, <2>3
<1>7. \A u, v \in listwp \ B : <<u, v>> \in above' <=> <<u, v>> \in above
  BY <1>0, <1>2 DEF Unlinked, FrontOf
<1> HIDE DEF k
<1> QED
  BY <1>0, <1>1, <1>2, <1>3, <1>4, <1>5, <1>6, <1>7, AroundStale DEF Shown

-----------------------------------------------------------------------------
(* Raising and lowering.                                                   *)
Meet(o, a, k, cell) ==
    /\ UpFrom(k) \subseteq Shown /\ Stands(k, cell) /\ a \in UpFrom(k)
    /\ o \in Shown /\ Covers(o, x, cell)

LEMMA OverlapAt ==
    ASSUME Sound, NEW o \in Shown, NEW a \in Shown, NEW cell \in Cells,
           Covers(o, x, cell), Covers(a, x, cell)
    PROVE  Overlap(o, a)
<1>1. o \in Wids /\ a \in Wids
  BY LiveWids DEF Sound, Shown, TypeInv, TreeTypeOK
<1>2. x[o] \in Int /\ x[a] \in Int /\ width[o] \in Int /\ width[a] \in Int /\ cell \in Int
  <2>1. x[o] \in Cells /\ x[a] \in Cells /\ width[o] \in Nat /\ width[a] \in Nat
    BY <1>1 DEF Sound, TypeOK
  <2>2. \A n \in Cells : n \in Nat
    BY CellsNumbered
  <2>3. \A n \in Nat : n \in Int
    OBVIOUS
  <2> QED
    BY <2>1, <2>2, <2>3
<1>3. x[o] < x[a] + width[a] /\ x[a] < x[o] + width[o]
  BY <1>2 DEF Covers
<1> QED
  BY <1>3 DEF Overlap, Shown

LEMMA ClearedChain ==
    ASSUME Sound, NEW k \in listwp, NEW a, NEW o, NEW cell \in Cells, Meet(o, a, k, cell),
           NEW area, cell \in area
    PROVE  k \in GsExposeArea(a, area, realized, width)
<1>1. \A v \in UpFrom(k) : v \in Wids
  BY LiveWids DEF Sound, UpFrom
<1>2. \A v \in UpFrom(k) : v \in realized /\ v \in output /\ cell \in Extent(v, x, width)
  BY <1>1, InArea DEF Meet, Shown, Stands, Area, Sound
<1> QED
  BY <1>2, ExposedChain DEF Meet, Sound

LEMMA RestackStale ==
    ASSUME Sound, Sound', ClipLive, ClipLive', StaleInv,
           NEW k, k # NoWin, Kept(k),
           UNCHANGED <<listwp, parent, realized, output, x, width>>,
           \A cell \in Cells : \A o, a : Meet(o, a, k, cell) =>
               /\ <<o, a>> \in above /\ <<o, a>> \notin above' => k \in skipped'
               /\ <<o, a>> \notin above /\ <<o, a>> \in above' => o \in skipped'
    PROVE  StaleInv'
<1>1. UpFrom(k)' = UpFrom(k) /\ Kids(k)' = Kids(k)
  BY SameWalks
<1>2. ASSUME NEW o
      PROVE  /\ o \in Obscuring(k) <=> o \in Kids(k) \/ \E a \in UpFrom(k) : <<o, a>> \in above
             /\ o \in Obscuring(k)' <=> o \in Kids(k) \/ \E a \in UpFrom(k) : <<o, a>> \in above'
  <2>1. o \in Obscuring(k) <=> o \in Kids(k) \/ \E a \in UpFrom(k) : <<o, a>> \in above
    BY ObscuringIsHolds DEF ObscuringIs, Sound
  <2>2. o \in Obscuring(k)' <=> o \in Kids(k)' \/ \E a \in UpFrom(k)' : <<o, a>> \in above'
    BY NextFacts DEF ObscuringIs, Sound
  <2> QED
    BY <1>1, <2>1, <2>2
<1>3. ASSUME NEW cell \in Cells, NEW o, Parted(o, k, cell) PROVE k \in skipped'
  <2>1. o \in Obscuring(k) /\ o \notin Obscuring(k)' /\ o \in Shown /\ Covers(o, x, cell)
    BY <1>3 DEF Parted, Hides, Shown, Covers
  <2>2. PICK a \in UpFrom(k) : <<o, a>> \in above /\ <<o, a>> \notin above'
    BY <1>2, <2>1
  <2> QED
    BY <1>3, <2>1, <2>2 DEF Parted, Meet
<1>4. ASSUME NEW cell \in Cells, NEW o, Joined(o, k, cell) PROVE o \in skipped'
  <2>1. o \notin Obscuring(k) /\ o \in Obscuring(k)' /\ o \in Shown /\ Covers(o, x, cell)
    BY <1>4 DEF Joined, Hides, Shown, Covers
  <2>2. PICK a \in UpFrom(k) : <<o, a>> \notin above /\ <<o, a>> \in above'
    BY <1>2, <2>1
  <2> QED
    BY <1>4, <2>1, <2>2 DEF Joined, Meet
<1> QED
  BY <1>3, <1>4, GrowStale DEF Shown

LEMMA RaiseStale ==
    ASSUME Sound, Sound', ClipLive, ClipLive', StaleInv, clipwp' # NoWin,
           NEW w \in Wids, ClipGrRaiseWindow(w)
    PROVE  StaleInv'
<1> SUFFICES ASSUME NEW k, k = clipwp PROVE StaleInv'
  OBVIOUS
<1>0. /\ Kept(k) /\ k # NoWin /\ Raised(w) \subseteq skipped' /\ k \in listwp
      /\ UNCHANGED <<listwp, parent, realized, output, x, width>>
      /\ above' = Unlinked(w) \cup FrontOf(w, Kids(parent[w]))
      /\ w \in listwp \ {Root} /\ above \subseteq listwp \X listwp
  BY ForgottenOrKept DEF ClipGrRaiseWindow, GrRaiseWindow, TreeGrRaiseWindow, inputVars,
     Sound, TypeInv, TreeTypeOK, ClipLive
<1>1. ASSUME NEW cell \in Cells, NEW o, NEW a, Meet(o, a, k, cell)
      PROVE  /\ a \in Shown /\ a \in listwp /\ o \in Shown /\ o \in listwp
             /\ Covers(a, x, cell) /\ Covers(o, x, cell)
             /\ cell \in Area(a) /\ cell \in Area(o) /\ Overlap(o, a) /\ Overlap(a, o)
  <2>1. /\ a \in Shown /\ a \in listwp /\ o \in Shown /\ o \in listwp
        /\ Covers(a, x, cell) /\ Covers(o, x, cell)
    BY <1>1 DEF Meet, Stands, Shown, Sound, TypeInv, TreeTypeOK
  <2>2. a \in Wids /\ o \in Wids
    BY <2>1, LiveWids DEF Sound
  <2>3. cell \in Area(a) /\ cell \in Area(o)
    BY <2>1, <2>2, InArea DEF Sound
  <2>4. Overlap(o, a) /\ Overlap(a, o)
    BY <2>1, OverlapAt
  <2> QED
    BY <2>1, <2>3, <2>4
<1>2. ASSUME NEW cell \in Cells, NEW o, NEW a, Meet(o, a, k, cell),
             <<o, a>> \in above, <<o, a>> \notin above'
      PROVE  k \in skipped'
  <2>1. o \in listwp /\ a \in listwp /\ o # a /\ parent[o] = parent[a]
    BY <1>0, <1>2 DEF Sound, StackingOrder
  <2>2. a = w
    BY <1>0, <1>2, <2>1 DEF Unlinked, FrontOf, Kids
  <2>3. Raised(w) = GsExposeArea(w, Area(w), realized, width)
    <3>1. Overlap(o, w)
      BY <1>1, <1>2, <2>2
    <3> QED
      BY <1>2, <2>2, <3>1 DEF Raised
  <2>4. cell \in Area(w)
    BY <1>1, <1>2, <2>2
  <2> QED
    BY <1>0, <1>2, <2>2, <2>3, <2>4, ClearedChain
<1>3. ASSUME NEW cell \in Cells, NEW o, NEW a, Meet(o, a, k, cell),
             <<o, a>> \notin above, <<o, a>> \in above'
      PROVE  o \in skipped'
  <2>1. o = w /\ a \in listwp /\ parent[a] = parent[w] /\ a # w
    BY <1>0, <1>3 DEF Unlinked, FrontOf, Kids
  <2>2. <<a, w>> \in above
    BY <1>0, <1>3, <2>1 DEF Sound, StackingOrder
  <2>3. /\ Overlap(a, w) /\ w \in Shown /\ cell \in Area(w)
    BY <1>1, <1>3, <2>1
  <2>4. Raised(w) = GsExposeArea(w, Area(w), realized, width)
    BY <2>2, <2>3 DEF Raised
  <2>5. w \in GsExposeArea(w, Area(w), realized, width)
    BY <1>0, <2>3, ExposedSelf DEF Shown, Area, Sound
  <2> QED
    BY <1>0, <2>1, <2>4, <2>5
<1> QED
  BY <1>0, <1>2, <1>3, RestackStale

LEMMA LowerStale ==
    ASSUME Sound, Sound', ClipLive, ClipLive', StaleInv, clipwp' # NoWin,
           NEW w \in Wids, ClipGrLowerWindow(w)
    PROVE  StaleInv'
<1> SUFFICES ASSUME NEW k, k = clipwp PROVE StaleInv'
  OBVIOUS
<1>0. /\ Kept(k) /\ k # NoWin /\ Lowered(w) \subseteq skipped' /\ k \in listwp
      /\ UNCHANGED <<listwp, parent, realized, output, x, width>>
      /\ above' = Unlinked(w) \cup BackOf(w, Kids(parent[w]))
      /\ w \in listwp \ {Root} /\ above \subseteq listwp \X listwp
  BY ForgottenOrKept DEF ClipGrLowerWindow, GrLowerWindow, TreeGrLowerWindow, inputVars,
     Sound, TypeInv, TreeTypeOK, ClipLive
<1>1. ASSUME NEW cell \in Cells, NEW o, NEW a, Meet(o, a, k, cell)
      PROVE  /\ a \in Shown /\ a \in listwp /\ o \in Shown /\ o \in listwp
             /\ cell \in Area(a) /\ cell \in Area(o) /\ Overlap(o, a) /\ Overlap(a, o)
  <2>1. /\ a \in Shown /\ a \in listwp /\ o \in Shown /\ o \in listwp
        /\ Covers(a, x, cell) /\ Covers(o, x, cell)
    BY <1>1 DEF Meet, Stands, Shown, Sound, TypeInv, TreeTypeOK
  <2>2. a \in Wids /\ o \in Wids
    BY <2>1, LiveWids DEF Sound
  <2>3. cell \in Area(a) /\ cell \in Area(o)
    BY <2>1, <2>2, InArea DEF Sound
  <2>4. Overlap(o, a) /\ Overlap(a, o)
    BY <2>1, OverlapAt
  <2> QED
    BY <2>1, <2>3, <2>4
<1>a. ASSUME NEW v, <<w, v>> \in above, Overlap(w, v)
      PROVE  GsExposeArea(v, Area(w), realized, width) \subseteq skipped'
  <2> DEFINE E == {f \in above : f[1] = w /\ Overlap(w, f[2])}
  <2>1. <<w, v>> \in E /\ <<w, v>>[2] = v
    BY <1>a
  <2>2. Lowered(w) = UNION {GsExposeArea(e[2], Area(w), realized, width) : e \in E}
    BY DEF Lowered
  <2> HIDE DEF E
  <2>3. GsExposeArea(v, Area(w), realized, width) \subseteq Lowered(w)
    BY <2>1, <2>2
  <2> QED
    BY <1>0, <2>3
<1>2. ASSUME NEW cell \in Cells, NEW o, NEW a, Meet(o, a, k, cell),
             <<o, a>> \in above, <<o, a>> \notin above'
      PROVE  k \in skipped'
  <2>1. o \in listwp /\ a \in listwp /\ o # a /\ parent[o] = parent[a]
    BY <1>0, <1>2 DEF Sound, StackingOrder
  <2>2. o = w
    BY <1>0, <1>2, <2>1 DEF Unlinked, BackOf, Kids
  <2>3. GsExposeArea(a, Area(w), realized, width) \subseteq skipped' /\ cell \in Area(w)
    BY <1>1, <1>2, <1>a, <2>2
  <2> QED
    BY <1>0, <1>2, <2>3, ClearedChain
<1>3. ASSUME NEW cell \in Cells, NEW o, NEW a, Meet(o, a, k, cell),
             <<o, a>> \notin above, <<o, a>> \in above'
      PROVE  o \in skipped'
  <2>1. a = w /\ o \in listwp /\ parent[o] = parent[w] /\ o # w
    BY <1>0, <1>3 DEF Unlinked, BackOf, Kids
  <2>2. <<w, o>> \in above
    BY <1>0, <1>3, <2>1 DEF Sound, StackingOrder
  <2>3. Overlap(w, o) /\ o \in Shown /\ cell \in Area(w) /\ cell \in Area(o)
    BY <1>1, <1>3, <2>1
  <2>4. o \in GsExposeArea(o, Area(w), realized, width)
    BY <2>1, <2>3, ExposedSelf DEF Shown, Area, Sound
  <2> QED
    BY <1>a, <2>2, <2>3, <2>4
<1> QED
  BY <1>0, <1>2, <1>3, RestackStale

-----------------------------------------------------------------------------
(* Resizing.                                                               *)
LEMMA InAreaNext ==
    ASSUME TypeOK', x' = x, NEW v \in Wids, NEW cell \in Cells
    PROVE  cell \in Extent(v, x, width') <=> (Covers(v, x, cell))'
<1>1. x[v] \in Int /\ width'[v] \in Int /\ cell \in Int
  <2>1. x[v] \in Cells /\ width'[v] \in Nat
    BY DEF TypeOK
  <2>2. \A n \in Cells : n \in Nat
    BY CellsNumbered
  <2>3. \A n \in Nat : n \in Int
    OBVIOUS
  <2> QED
    BY <2>1, <2>2, <2>3
<1> QED
  BY <1>1, InExtent DEF Covers

ResizedTo(w, k) ==
    /\ w \in listwp \ {Root} /\ k # NoWin /\ Kept(k)
    /\ UNCHANGED <<listwp, parent, above, realized, output, x>>
    /\ \A v \in listwp : v # w => width'[v] = width[v]
    /\ Resized(w) \subseteq skipped'

LEMMA ResizedClears ==
    ASSUME Sound, Sound', NEW k, NEW w, ResizedTo(w, k), w \in Shown,
           NEW v \in listwp, UpFrom(v) \subseteq Shown, w \notin UpFrom(v),
           parent[w] \in UpFrom(v),
           NEW cell \in Cells, Stands(v, cell), Covers(w, x, cell), ~(Covers(w, x, cell))'
    PROVE  v \in skipped'
<1>0. /\ TypeInv /\ Rooted /\ TypeOK /\ TypeOK' /\ x' = x /\ w \in Wids /\ listwp \in SUBSET Wids
      /\ UpFrom(v) \subseteq listwp /\ w \in realized \cap output
  BY LiveWids DEF Sound, ResizedTo, UpFrom, Shown
<1>1. cell \in Area(w) /\ cell \notin Extent(w, x, width')
  BY <1>0, InArea, InAreaNext
<1>2. ASSUME NEW u \in UpFrom(v)
      PROVE  u \in realized /\ u \in output /\ cell \in Extent(u, x, width')
  <2>1. u \in Wids /\ u # w /\ u \in listwp /\ Covers(u, x, cell) /\ u \in Shown
    BY <1>0 DEF Stands
  <2>2. (Covers(u, x, cell))'
    BY <1>0, <2>1 DEF Covers, ResizedTo
  <2> QED
    BY <1>0, <2>1, <2>2, InAreaNext DEF Shown
<1> DEFINE area == Area(w) \ Extent(w, x, width')
<1>3. cell \in area
  BY <1>1
<1>4. GsExposeArea(parent[w], area, realized, width') \subseteq skipped'
  BY <1>0 DEF Resized, ResizedTo
<1> HIDE DEF area
<1>5. v \in GsExposeArea(parent[w], area, realized, width')
  BY <1>0, <1>2, <1>3, ExposedChain
<1> QED
  BY <1>4, <1>5

LEMMA ResizedReached ==
    ASSUME Sound, Sound', NEW k, NEW w, ResizedTo(w, k),
           NEW n \in skipped', NEW cell \in Cells, Reached(n, cell)
    PROVE  \E m \in skipped' : Reached(m, cell)'
<1>0. /\ n \in listwp /\ UpFrom(n) \subseteq Shown /\ UpFrom(n) \subseteq listwp
      /\ TypeInv /\ Rooted /\ w \in listwp \ {Root}
  BY DEF Reached, UpFrom, Sound, ResizedTo
<1>a. ASSUME NEW v, Reached(v, cell), w \notin UpFrom(v) PROVE Reached(v, cell)'
  <2>1. \A a \in UpFrom(v) : /\ a \in listwp' /\ a \in Shown' /\ parent'[a] = parent[a]
                             /\ x'[a] = x[a] /\ width'[a] = width[a]
    <3> TAKE a \in UpFrom(v)
    <3>1. a \in listwp /\ a # w /\ a \in Shown
      BY <1>a DEF UpFrom, Reached
    <3> QED
      BY <3>1 DEF ResizedTo, Shown
  <2> QED
    BY <1>a, <2>1, ReachedKept
<1>1. CASE w \notin UpFrom(n)
  BY <1>0, <1>a, <1>1
<1>2. CASE w \in UpFrom(n) /\ (Covers(w, x, cell))'
  <2>1. UpFrom(n)' = UpFrom(n)
    BY SameWalks DEF ResizedTo
  <2>2. \A a \in UpFrom(n) : (Covers(a, x, cell))' /\ a \in Shown'
    <3> TAKE a \in UpFrom(n)
    <3>1. a \in listwp /\ a \in Shown /\ Covers(a, x, cell)
      BY DEF UpFrom, Reached
    <3>2. CASE a = w
      BY <1>2, <3>1, <3>2 DEF ResizedTo, Shown
    <3>3. CASE a # w
      BY <3>1, <3>3 DEF ResizedTo, Shown, Covers
    <3> QED
      BY <3>2, <3>3
  <2>3. n \in listwp'
    BY <1>0 DEF ResizedTo
  <2> QED
    BY <1>0, <2>1, <2>2, <2>3 DEF Reached
<1>3. CASE w \in UpFrom(n) /\ ~(Covers(w, x, cell))'
  <2> DEFINE p == parent[w]
  <2>1. p \in listwp /\ p \in UpFrom(n) /\ w \in Kids(p) /\ w \in Shown /\ Covers(w, x, cell)
    BY <1>0, <1>3, UpChain DEF TypeInv, ParentsLive, Kids, Reached
  <2>2. w \notin UpFrom(p)
    BY <2>1, <1>0, NotBelowKid DEF UpFrom
  <2>3. UpFrom(p) \subseteq UpFrom(n)
    <3>1. ASSUME NEW a \in UpFrom(p) PROVE a \in UpFrom(n)
      <4>1. a \in listwp /\ p \in Below(a, listwp, parent) /\ n \in Below(p, listwp, parent)
        BY <2>1 DEF UpFrom
      <4> QED
        BY <4>1, BelowTransitive DEF UpFrom
    <3> QED
      BY <3>1
  <2>4. Reached(p, cell) /\ Stands(p, cell) /\ UpFrom(p) \subseteq Shown
    BY <1>0, <2>1, <2>3 DEF Reached, Stands
  <2>5. p \in UpFrom(p)
    BY <2>1, BelowSelf DEF UpFrom
  <2> HIDE DEF p
  <2>6. p \in skipped'
    BY <1>3, <2>1, <2>2, <2>4, <2>5, ResizedClears DEF p
  <2> QED
    BY <1>a, <2>2, <2>4, <2>6
<1> QED
  BY <1>1, <1>2, <1>3

LEMMA ResizedStale ==
    ASSUME Sound, Sound', ClipLive, ClipLive', StaleInv, NEW k, NEW w, ResizedTo(w, k)
    PROVE  StaleInv'
<1>0. /\ Kept(k) /\ k # NoWin /\ k \in listwp /\ k \in listwp' /\ w \in listwp \ {Root}
      /\ TypeInv /\ Rooted /\ k \in realized /\ UpFrom(k) \subseteq listwp /\ k \in UpFrom(k)
  BY BelowSelf DEF ResizedTo, ClipLive, Kept, Sound, TypeInv, TreeTypeOK, UpFrom
<1>1. /\ UpFrom(k)' = UpFrom(k) /\ Kids(k)' = Kids(k) /\ Obscuring(k)' = Obscuring(k)
      /\ Shown' = Shown
  BY SameWalks DEF ResizedTo, Obscuring, Shown
<1>2. \A cell \in Cells : \A n \in skipped \cup skipped' :
          Reached(n, cell) => \E m \in skipped' : Reached(m, cell)'
  BY <1>0, ResizedReached DEF Kept
<1>3. CASE w \notin UpFrom(k)
  <2>1. Stays(k)
    BY <1>0, <1>3 DEF Stays, ResizedTo
  <2>2. ASSUME NEW cell \in Cells, NEW o, Hides(o, k, cell) # (Hides(o, k, cell))'
        PROVE  o = w /\ w \in Shown /\ w \in Obscuring(k)
    <3>1. o \in Obscuring(k) /\ o \in Shown /\ Covers(o, x, cell) # (Covers(o, x, cell))'
      BY <1>1, <2>2 DEF Hides
    <3>2. o \in listwp
      BY <3>1 DEF Shown, Sound, TypeInv, TreeTypeOK
    <3> QED
      BY <3>1, <3>2 DEF Covers, ResizedTo
  <2>3. ASSUME NEW cell \in Cells, NEW o, Parted(o, k, cell) PROVE k \in skipped'
    <3>1. o = w /\ w \in Shown /\ w \in Obscuring(k) /\ Covers(w, x, cell) /\ ~(Covers(w, x, cell))'
      BY <1>1, <2>2, <2>3 DEF Parted, Hides
    <3>2. parent[w] \in UpFrom(k)
      BY <1>0, <3>1, ObscuringUpHolds DEF ObscuringUp, Sound
    <3>3. UpFrom(k) \subseteq Shown /\ Stands(k, cell)
      BY <2>3 DEF Parted
    <3> QED
      BY <1>0, <1>3, <3>1, <3>2, <3>3, ResizedClears
  <2>4. ASSUME NEW cell \in Cells, NEW o, Joined(o, k, cell) PROVE o \in skipped'
    <3>1. o = w /\ w \in Shown
      BY <2>2, <2>4 DEF Joined
    <3>2. w \in Resized(w)
      BY <1>0, <3>1, BelowSelf DEF Resized, Shown
    <3> QED
      BY <3>1, <3>2 DEF ResizedTo
  <2> QED
    BY <1>0, <1>2, <2>1, <2>3, <2>4, StaysStale
<1>4. CASE w \in UpFrom(k)
  <2> SUFFICES ASSUME UpFrom(k)' \subseteq output', NEW cell \in Cells,
                      ~(\E n \in skipped' : Reached(n, cell)')
               PROVE  (cell \in clipregion <=> cell \in GsSetClipWindow(k))'
    BY <1>0 DEF StaleInv, Kept
  <2>1. UpFrom(k) \subseteq Shown
    BY <1>0, <1>1, UpRealized DEF Shown, Sound, ResizedTo
  <2>2. k \in skipped'
    <3>1. k \in Below(w, listwp, parent) /\ k \in Shown /\ w \in Shown
      BY <1>0, <1>4, <2>1 DEF UpFrom
    <3>2. k \in Resized(w)
      BY <3>1 DEF Resized, Shown
    <3> QED
      BY <3>2 DEF ResizedTo
  <2>3. ASSUME cell \in GsSetClipWindow(k)' PROVE FALSE
    <3>1. \A a \in UpFrom(k)' : (Covers(a, x, cell))' /\ a \in Shown'
      BY <1>1, <2>1, <2>3 DEF GsSetClipWindow
    <3> QED
      BY <1>0, <2>2, <3>1 DEF Reached
  <2>4. ASSUME cell \in clipregion PROVE FALSE
    <3>1. UpFrom(k) \subseteq output /\ ~(\E n \in skipped : Reached(n, cell))
      BY <1>2, <2>1 DEF Shown
    <3>2. cell \in GsSetClipWindow(k)
      BY <1>0, <2>4, <3>1 DEF StaleInv, Kept
    <3>3. Reached(k, cell)
      BY <1>0, <2>1, <3>2 DEF Reached, GsSetClipWindow
    <3> QED
      BY <1>2, <2>2, <3>3
  <2> QED
    BY <1>0, <2>3, <2>4 DEF Kept
<1> QED
  BY <1>3, <1>4

LEMMA ResizeStale ==
    ASSUME Sound, Sound', ClipLive, ClipLive', StaleInv, clipwp' # NoWin,
           NEW w \in Wids, NEW size \in Sizes, ClipGrResizeWindow(w, size)
    PROVE  StaleInv'
<1>1. /\ w \in listwp \ {Root} /\ UNCHANGED <<listwp, parent, above, realized, output, x>>
      /\ width' = [width EXCEPT ![w] = size]
  BY DEF ClipGrResizeWindow, GrResizeWindow, treeVars
<1>2. \A v \in listwp : v # w => width'[v] = width[v]
  BY <1>1, LiveWids DEF Sound, TypeOK
<1>3. Kept(clipwp) /\ clipwp # NoWin /\ Resized(w) \subseteq skipped'
  <2>1. Forget(Resized(w), {})
    BY DEF ClipGrResizeWindow, Forgotten
  <2> QED
    BY <2>1, ForgottenOrKept
<1> SUFFICES ASSUME NEW k, k = clipwp PROVE StaleInv'
  OBVIOUS
<1>4. ResizedTo(w, k)
  BY <1>1, <1>2, <1>3 DEF ResizedTo
<1> QED
  BY <1>4, ResizedStale

-----------------------------------------------------------------------------
(* The requests that draw, and those that leave the windows in place.      *)
LEMMA DrawStale ==
    ASSUME StaleInv, clipwp' # NoWin, NEW w \in Wids, Draws(w)
    PROVE  StaleInv'
<1>0. UNCHANGED places
  BY DEF Draws, GrClearArea, GsPrepareDrawing, vars, treeVars, inputVars, places
<1>1. UNCHANGED clipVars \/ Install(w)
  BY DEF Draws, GrClearArea, GsPrepareDrawing, Forgotten
<1>2. CASE Install(w)
  <2>1. GsSetClipWindow(w)' = GsSetClipWindow(w)
    BY <1>0, SamePlaces
  <2> QED
    BY <1>2, <2>1 DEF Install, StaleInv
<1> QED
  BY <1>0, <1>1, <1>2, SameStale, Untouched

LEMMA PropsStale ==
    ASSUME Sound, Sound', StaleInv, clipwp' # NoWin, NEW w \in Wids, ClipGrSetWMProperties(w)
    PROVE  StaleInv'
<1>1. UNCHANGED <<listwp, parent, above, mapped, output, x, width>>
  BY DEF ClipGrSetWMProperties, GrSetWMProperties, TreeRemap, vars, inputVars, treeVars
<1>2. realized' = realized
  BY <1>1, SameFlags DEF Sound
<1>3. Kept(clipwp)
  <2>1. CASE UNCHANGED clipVars
    BY <2>1, Untouched
  <2>2. ASSUME NEW cleared, NEW gone, Forget(cleared, gone) PROVE Kept(clipwp)
    BY <2>2, ForgottenOrKept
  <2> QED
    BY <2>1, <2>2 DEF ClipGrSetWMProperties, SetPaintProps, Forgotten, ForgetRemapped
<1> QED
  BY <1>1, <1>2, <1>3, SameStale DEF places

LEMMA StaleStep ==
    /\ Sound /\ Sound' /\ ClipLive /\ ClipLive' /\ StaleInv
    /\ [ClipNext]_<<vars, paintVars>>
    => StaleInv'
<1> SUFFICES ASSUME Sound, Sound', ClipLive, ClipLive', StaleInv, clipwp' # NoWin,
                    [ClipNext]_<<vars, paintVars>>
             PROVE  StaleInv'
  BY DEF StaleInv
<1>1. ASSUME NEW c \in Clients, NEW p \in Wids, NEW nx \in Cells, NEW size \in Sizes,
             GrNewWindow(c, p, nx, size) \/ GrNewInputWindow(c, p, nx, size), UNCHANGED clipVars
      PROVE  StaleInv'
  <2>1. /\ NewWindow(c, p) /\ Place(p, nx, size)
        /\ output \subseteq output' /\ output' \subseteq output \cup {nextid}
    BY <1>1 DEF GrNewWindow, GrNewInputWindow, TreeGrNewWindow, TreeGrNewInputWindow
  <2> QED
    BY <1>1, <2>1, NewStale
<1>2. ASSUME NEW w \in Wids, Draws(w) PROVE StaleInv'
  BY <1>2, DrawStale
<1>3. ASSUME NEW w \in Wids, ClipGrDestroyWindow(w) PROVE StaleInv'
  <2>1. w \in listwp /\ DestroyWindow(w) /\ DestroyEffect(w, sel) /\ Forget(Uncovered(w), Gone(w))
    BY <1>3 DEF ClipGrDestroyWindow, GrDestroyWindow, TreeGrDestroyWindow
  <2> QED
    BY <2>1, DestroyStale
<1>4. ASSUME NEW w \in Wids, ClipDestroyOwned(w) PROVE StaleInv'
  <2>1. /\ w \in listwp /\ DestroyWindow(w) /\ DestroyEffect(w, Purged(w))
        /\ Forget(Uncovered(w), Gone(w))
    BY <1>4 DEF ClipDestroyOwned, DestroyOwned, TreeDestroyOwned, Owned
  <2> QED
    BY <2>1, DestroyStale
<1>5. ASSUME NEW w \in Wids,
             \/ ClipGrMapWindow(w) \/ ClipGrUnmapWindow(w)
             \/ ClipGrRaiseWindow(w) \/ ClipGrLowerWindow(w)
      PROVE  StaleInv'
  BY <1>5, MapStale, UnmapStale, RaiseStale, LowerStale
<1>6. ASSUME NEW w \in Wids, NEW nx \in Cells, ClipGrMoveWindow(w, nx) PROVE StaleInv'
  BY <1>6, MoveStale
<1>7. ASSUME NEW w \in Wids, NEW size \in Sizes, ClipGrResizeWindow(w, size) PROVE StaleInv'
  BY <1>7, ResizeStale
<1>8. ASSUME NEW w \in Wids, NEW p \in Wids, NEW nx \in Cells, ClipGrReparentWindow(w, p, nx)
      PROVE  StaleInv'
  BY <1>8, ReparentStale
<1>9. ASSUME NEW w \in Wids, ClipGrSetWMProperties(w) PROVE StaleInv'
  BY <1>9, PropsStale
<1>10. ASSUME \/ \E c \in Clients : Accept(c) \/ GsClose(c)
              \/ \E w \in Wids : GrKillWindow(w)
              \/ UNCHANGED <<vars, paintVars>>,
              UNCHANGED clipVars
       PROVE  StaleInv'
  <2>1. UNCHANGED places
    BY <1>10 DEF Accept, GsClose, GrKillWindow, GsAcceptClientFd, TreeGsClose, TreeGrKillWindow,
       vars, treeVars, inputVars, places
  <2> QED
    BY <1>10, <2>1, SameStale, Untouched
<1>11. ASSUME ClipDropDone \/ DrawOnPixmap PROVE FALSE
  BY <1>11 DEF ClipDropDone, DrawOnPixmap, Forgotten
<1> QED
  BY <1>1, <1>2, <1>3, <1>4, <1>5, <1>6, <1>7, <1>8, <1>9, <1>10, <1>11
   DEF ClipNext, Draws, paintVars

LEMMA ExcusedWhereSkipped ==
    Sound /\ StaleInv => StaleOnlyWhereSkipped
<1> SUFFICES ASSUME Sound, NEW n \in skipped, NEW cell \in Cells, Reached(n, cell)
             PROVE  n \in skipped \cap realized /\ cell \in Area(n)
  BY DEF StaleInv, StaleOnlyWhereSkipped
<1>1. n \in UpFrom(n) /\ n \in Wids
  BY BelowSelf, LiveWids DEF Reached, UpFrom, Sound
<1>2. n \in realized /\ Covers(n, x, cell)
  BY <1>1 DEF Reached, Shown
<1> QED
  BY <1>1, <1>2, InArea DEF Sound

(* The region a drawing request is clipped with is that of the windows as  *)
(* they are now, whatever was mapped, moved, stacked, resized, reparented  *)
(* or destroyed since it was set, but inside windows that were cleared     *)
(* since without being painted.                                            *)
THEOREM StaleCorrect == ClipSpec => []StaleOnlyWhereSkipped
<1>1. ClipInit => StaleInv
  BY DEF ClipInit, StaleInv
<1>2. ClipSpec => []Sound
  <2>1. TypeInv /\ TypeOK /\ StackingOrder /\ Rooted /\ RealizedIffViewable => Sound
    BY DEF Sound
  <2> QED
    BY <2>1, ClipImplementsWindows, WindowsImplementTree, TypesCorrect, WindowTypesCorrect,
       StackingCorrect, TreeRooted, RealizedCorrect, PTL
<1> QED
  BY <1>1, <1>2, ClipLiveCorrect, StaleStep, ExcusedWhereSkipped, PTL DEF ClipSpec
=============================================================================
