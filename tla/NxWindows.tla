------------------------------ MODULE NxWindows ------------------------------
(***************************************************************************)
(* The nano-X server's pointer and keyboard focus on top of its window     *)
(* tree: the window the mouse is in (mousewp), the window that gets the    *)
(* keyboard (focuswp, focusfixed), and the window that holds the implicit  *)
(* button grab (grabbuttonwp).  Each action is a whole request or device   *)
(* event: its effect on the tree (NxTree) and on these pointers.           *)
(*                                                                         *)
(* The screen is a row of cells; windows are intervals of it.  The events  *)
(* the handlers queue for clients are in NxEvents.                         *)
(***************************************************************************)
EXTENDS NxTree, Integers

CONSTANTS
    Cells,      \* the cells of the screen, and bound on window positions
    Sizes,      \* bound: widths clients ask for
    Masks,      \* bound: event masks clients select
    Buttons,    \* mouse buttons
    Scroll,     \* the scroll wheel's, which repeat while they are held
    PropsWids,  \* bound: windows whose NOFOCUS property clients change
    InputWids   \* bound: ids that input-only windows get

Grabbing == {"BUTTON_DOWN", "BUTTON_UP"}
Events   == {"KEY_DOWN"} \cup Grabbing

ASSUME InputAssumption ==
    /\ IsFiniteSet(Cells) /\ Cells # {} /\ Cells = 0 .. Cardinality(Cells) - 1
    /\ Sizes \subseteq Nat \ {0}
    /\ Masks \subseteq SUBSET Events
    /\ Scroll \subseteq Buttons
    /\ PropsWids \subseteq Wids \ {Root}
    /\ InputWids \subseteq Wids

VARIABLES
    x,              \* wp->x, absolute
    width,          \* wp->width
    nofocus,        \* windows with GR_WM_PROPS_NOFOCUS
    sel,            \* wp->eventclients: the mask each client selected
    mousewp,
    focuswp,
    focusfixed,
    grabbuttonwp,
    curbuttons,
    cursorx

inputVars == <<x, width, nofocus, sel, mousewp, focuswp, focusfixed,
               grabbuttonwp, curbuttons, cursorx>>
pointers  == <<mousewp, focuswp, focusfixed, grabbuttonwp, curbuttons, cursorx>>
vars      == <<treeVars, inputVars>>

-----------------------------------------------------------------------------
Covers(w, xs, cell)  == xs[w] <= cell /\ cell < xs[w] + width[w]

(* GsFindVisibleWindow: from the root, into the first realized child that  *)
(* covers the cell, until there is none.                                   *)
FindVisible(R, xs, cell) ==
    LET hit  == {c \in R : Covers(c, xs, cell)}
        top  == {c \in hit \ {Root} :
                    \A s \in hit \ {c} : parent[s] = parent[c] => <<c, s>> \in above}
        path == Below(Root, top, parent)
        leaf == {v \in path : \A c \in top : parent[c] # v}
    IN  IF leaf \subseteq {Root} THEN Root ELSE CHOOSE v \in leaf : v # Root

UpFrom(w) == {a \in listwp : w \in Below(a, listwp, parent)}

(* The windows that may hide parts of w: those in front of it, and of each *)
(* of its ancestors, among their siblings, and its own children.           *)
Obscuring(w) == {e[1] : e \in {f \in above : f[2] \in UpFrom(w)}} \cup Kids(w)

(* A plausible bug: the window is not limited by its parents.              *)
ClipUnlimited(w) ==
    {cell \in Cells : /\ Covers(w, x, cell)
                      /\ \A o \in Obscuring(w) \cap realized \cap output : ~Covers(o, x, cell)}

(* GsSetClipWindow: the cells that w may draw on, with no region of its    *)
(* own or of the user's and no borders.                                    *)
GsSetClipWindow(w) ==
    {cell \in Cells : /\ \A a \in UpFrom(w) : Covers(a, x, cell)
                      /\ \A o \in Obscuring(w) \cap realized \cap output : ~Covers(o, x, cell)}

(* The window of C met first on the way up from w: from it a walk down     *)
(* that enters no other window of C comes to w.                            *)
Nearest(w, C, none) ==
    LET near == {a \in C : w \in Below(a, listwp \ C, parent)}
    IN  IF near = {} THEN none ELSE CHOOSE a \in near : TRUE

(* GsCheckFocusWindow's walk from m, with the selections s.                *)
FocusFor(m, s) ==
    Nearest(m, {a \in listwp \ nofocus : \E c \in clients : "KEY_DOWN" \in s[a][c]}, Root)

(* A plausible bug: the focus follows the mouse even when it is fixed.     *)
FollowAlways(m) == FocusFor(m, sel)

Follow(m) == IF focusfixed THEN focuswp ELSE FocusFor(m, sel)

(* GsCheckMouseWindow and GsCheckFocusWindow, one after the other.         *)
Recheck ==
    /\ mousewp' = FindVisible(realized', x', cursorx')
    /\ focuswp' = Follow(mousewp')

(* GsUnrealizeWindow walks a window's children, in stacking order, before  *)
(* the window itself.                                                      *)
VisitedBefore(a, b) ==
    \/ a # b /\ a \in Below(b, listwp, parent)
    \/ \E e \in above : a \in Below(e[1], listwp, parent) /\ b \in Below(e[2], listwp, parent)

(* A plausible bug: nothing is done about the mouse window.                *)
MouseKept(hidden, R) == mousewp

MouseAfter(hidden, R) ==
    IF mousewp \in hidden THEN FindVisible(R, x, cursorx) ELSE mousewp

(* The focus once the windows of hidden are unrealized, m being the mouse  *)
(* window then.  A focus window visited before the old mouse window hands  *)
(* the focus on while mousewp still is that old window.                    *)
FocusAfter(hidden, m, s) ==
    CASE focuswp \notin hidden -> focuswp
      [] focuswp \in hidden /\ focusfixed -> Root
      [] OTHER -> IF /\ mousewp \in hidden
                     /\ VisitedBefore(focuswp, mousewp)
                     /\ FocusFor(mousewp, s) \notin hidden
                  THEN FocusFor(mousewp, s)
                  ELSE FocusFor(m, s)

NoSel == [c \in Clients |-> {}]

-----------------------------------------------------------------------------
Init ==
    /\ TreeInit
    /\ x = [w \in Wids |-> 0]
    /\ width = [w \in Wids |-> IF w = Root THEN Cardinality(Cells) ELSE 0]
    /\ nofocus = {}
    /\ sel = [w \in Wids |-> NoSel]
    /\ mousewp = Root
    /\ focuswp = Root
    /\ focusfixed = FALSE
    /\ grabbuttonwp = NoWin
    /\ curbuttons = {}
    /\ cursorx \in Cells

Accept(c) == GsAcceptClientFd(c) /\ UNCHANGED inputVars

Place(p, nx, size) ==
    /\ nx \in Cells /\ nx >= x[p]
    /\ size \in Sizes
    /\ x' = [x EXCEPT ![nextid] = nx]
    /\ width' = [width EXCEPT ![nextid] = size]
    /\ UNCHANGED <<nofocus, sel, pointers>>

GrNewWindow(c, p, nx, size) == TreeGrNewWindow(c, p) /\ Place(p, nx, size)

GrNewInputWindow(c, p, nx, size) ==
    nextid \in InputWids /\ TreeGrNewInputWindow(c, p) /\ Place(p, nx, size)

GrMapWindow(w) ==
    /\ TreeGrMapWindow(w)
    /\ UNCHANGED <<x, width, nofocus, sel, focusfixed, grabbuttonwp, curbuttons, cursorx>>
    /\ IF realized' = realized THEN UNCHANGED <<mousewp, focuswp>> ELSE Recheck

GrUnmapWindow(w) ==
    /\ TreeGrUnmapWindow(w)
    /\ mousewp' = MouseAfter(realized \ realized', realized')
    /\ focuswp' = FocusAfter(realized \ realized', mousewp', sel)
    /\ UNCHANGED <<x, width, nofocus, sel, focusfixed, grabbuttonwp, curbuttons, cursorx>>

GrRaiseWindow(w) == TreeGrRaiseWindow(w) /\ UNCHANGED inputVars
GrLowerWindow(w) == TreeGrLowerWindow(w) /\ UNCHANGED inputVars

(* OffsetWindow moves the window to nx, and all below it along.            *)
OffsetTo(w, nx) ==
    [v \in Wids |-> IF v \in Below(w, listwp, parent) THEN x[v] + nx - x[w] ELSE x[v]]

InBounds == \A v \in listwp : x'[v] \in Cells

Overlap(top, w) ==
    /\ top \in output \cap realized /\ w \in realized
    /\ x[top] < x[w] + width[w] /\ x[w] < x[top] + width[top]

IsUnobscuredBySiblings(w) ==
    \A a \in UpFrom(w) : \A e \in above : e[2] = a => ~Overlap(e[1], w)

(* GrMoveWindow: an unobscured mapped window is moved by copying its bits, *)
(* and the mouse and focus windows are not looked at again; any other one  *)
(* is unmapped temporarily, moved and mapped, and they are.                *)
GrMoveWindow(w, nx) ==
    /\ Serving
    /\ w \in listwp \ {Root}
    /\ nx # x[w]
    /\ x' = OffsetTo(w, nx)
    /\ InBounds
    /\ UNCHANGED <<width, nofocus, sel, focusfixed, grabbuttonwp, curbuttons, cursorx>>
    /\ \/ /\ w \in mapped /\ IsUnobscuredBySiblings(w)
          /\ UNCHANGED <<treeVars, mousewp, focuswp>>
       \/ /\ ~(w \in mapped /\ IsUnobscuredBySiblings(w))
          /\ TreeRemap(w)
          /\ IF w \in realized' THEN Recheck ELSE UNCHANGED <<mousewp, focuswp>>

GrResizeWindow(w, size) ==
    /\ Serving
    /\ w \in listwp \ {Root}
    /\ size \in Sizes \ {width[w]}
    /\ width' = [width EXCEPT ![w] = size]
    /\ UNCHANGED <<treeVars, x, nofocus, sel, pointers>>

(* The unmap and the map of the window are both temporary here, so that    *)
(* neither looks at the mouse and focus windows.                           *)
GrReparentWindow(w, p, nx) ==
    /\ TreeGrReparentWindow(w, p)
    /\ x' = OffsetTo(w, nx)
    /\ InBounds
    /\ UNCHANGED <<width, nofocus, sel, pointers>>

(* A plausible bug: the pointer is not reset.                              *)
KeptUnless(p, gone, none) == p

(* GsDestroyWindow's "if (wp == p) p = none" for each window it frees.     *)
ResetIf(p, gone, none) == IF p \in gone THEN none ELSE p

(* Destroying w, s being the selections left at that point.                *)
DestroyEffect(w, s) ==
    LET gone   == Gone(w)
        hidden == realized \ Unrealize(w, realized, parent)
        f      == FocusAfter(hidden, MouseAfter(hidden, realized'), s)
    IN  /\ mousewp' = FindVisible(realized', x, cursorx)
        /\ focuswp' = ResetIf(f, gone, Root)
        /\ grabbuttonwp' = ResetIf(grabbuttonwp, gone, NoWin)
        /\ sel' = [v \in Wids |-> IF v \in gone THEN NoSel ELSE s[v]]
        /\ nofocus' = nofocus \ gone
        /\ x' = [v \in Wids |-> IF v \in gone THEN 0 ELSE x[v]]
        /\ width' = [v \in Wids |-> IF v \in gone THEN 0 ELSE width[v]]
        /\ UNCHANGED <<focusfixed, curbuttons, cursorx>>

GrDestroyWindow(w) == TreeGrDestroyWindow(w) /\ DestroyEffect(w, sel)

GsClose(c)      == TreeGsClose(c) /\ UNCHANGED inputVars
GrKillWindow(w) == TreeGrKillWindow(w) /\ UNCHANGED inputVars

(* A plausible bug: the loop stops before the window it has come to.       *)
PurgedAbove(w) == [v \in Wids |-> IF v > w THEN [sel[v] EXCEPT ![closing] = {}] ELSE sel[v]]

(* The selections left when GsDestroyClientResources, which goes down the  *)
(* list from its newest window, has come to window w.                      *)
Purged(w) == [v \in Wids |-> IF v >= w THEN [sel[v] EXCEPT ![closing] = {}] ELSE sel[v]]

DestroyOwned(w) == TreeDestroyOwned(w) /\ DestroyEffect(w, Purged(w))

DropDone ==
    /\ TreeDropDone
    /\ sel' = Purged(Root)
    /\ UNCHANGED <<x, width, nofocus, pointers>>

GrSelectEvents(c, w, mask) ==
    /\ Serving
    /\ c \in clients
    /\ w \in listwp
    /\ sel' = [sel EXCEPT ![w][c] = mask]
    /\ UNCHANGED <<treeVars, x, width, nofocus, pointers>>

(* The loop of GsCheckFocusWindow runs off the tree when even the root has *)
(* the NOFOCUS property; no client is assumed to set it there.             *)
GrSetWMProperties(w) ==
    /\ Serving
    /\ \/ /\ w \in listwp \cap PropsWids
          /\ \/ nofocus' = nofocus \cup {w}
             \/ nofocus' = nofocus \ {w}
          /\ UNCHANGED treeVars
       \/ TreeRemap(w) /\ UNCHANGED nofocus
    /\ UNCHANGED <<x, width, sel, pointers>>

GrSetFocus(w) ==
    /\ Serving
    /\ w \in realized \ nofocus
    /\ focusfixed' = (w # Root)
    /\ focuswp' = w
    /\ UNCHANGED <<treeVars, x, width, nofocus, sel, mousewp, grabbuttonwp,
                   curbuttons, cursorx>>

GrMoveCursor(nx) ==
    /\ Serving
    /\ cursorx' = nx
    /\ UNCHANGED <<treeVars, x, width, nofocus, sel, focusfixed, grabbuttonwp, curbuttons>>
    /\ Recheck

(* The window that takes the implicit grab when a button goes down in m.   *)
GrabTarget(m) ==
    Nearest(m, {a \in listwp : \E c \in clients : Grabbing \subseteq sel[a][c]}, NoWin)

(* Plausible bugs: the grab ends only when the last button is released     *)
(* alone, or when any button is.                                           *)
UngrabsLast(buttons) ==
    grabbuttonwp # NoWin /\ buttons = {} /\ Cardinality(curbuttons) = 1
UngrabsAny(buttons) == grabbuttonwp # NoWin /\ curbuttons \ buttons # {}

(* A release ends the grab when it leaves no button down.                  *)
Ungrabs(buttons) ==
    grabbuttonwp # NoWin /\ curbuttons \ buttons # {} /\ buttons = {}

(* GsHandleMouseStatus, for a mouse report or GrInjectPointerEvent: the    *)
(* motion, the buttons released, the buttons pressed, the wheel held.      *)
GsHandleMouseStatus(nx, buttons) ==
    LET moved     == nx # cursorx
        pressed   == buttons \ curbuttons
        ungrabs   == Ungrabs(buttons)
        here      == FindVisible(realized, x, nx)
        repeated  == pressed = {} /\ buttons \cap Scroll # {}
    IN  /\ closing = NoClient
        /\ cursorx' = nx
        /\ curbuttons' = buttons
        /\ mousewp' = IF moved \/ ungrabs \/ pressed # {} THEN here ELSE mousewp
        /\ focuswp' = IF moved \/ ungrabs THEN Follow(here) ELSE focuswp
        /\ grabbuttonwp' = IF ungrabs THEN NoWin
                           ELSE IF grabbuttonwp = NoWin /\ (pressed # {} \/ repeated)
                           THEN GrabTarget(mousewp')
                           ELSE grabbuttonwp
        /\ UNCHANGED <<treeVars, x, width, nofocus, sel, focusfixed>>

Next ==
    \/ \E c \in Clients :
          \/ Accept(c)
          \/ GsClose(c)
          \/ \E p \in Wids, nx \in Cells, size \in Sizes :
                GrNewWindow(c, p, nx, size) \/ GrNewInputWindow(c, p, nx, size)
          \/ \E w \in Wids, mask \in Masks : GrSelectEvents(c, w, mask)
    \/ \E w \in Wids :
          \/ GrMapWindow(w)
          \/ GrUnmapWindow(w)
          \/ GrRaiseWindow(w)
          \/ GrLowerWindow(w)
          \/ GrDestroyWindow(w)
          \/ GrKillWindow(w)
          \/ DestroyOwned(w)
          \/ GrSetWMProperties(w)
          \/ GrSetFocus(w)
          \/ \E nx \in Cells : GrMoveWindow(w, nx)
          \/ \E size \in Sizes : GrResizeWindow(w, size)
          \/ \E p \in Wids, nx \in Cells : GrReparentWindow(w, p, nx)
    \/ DropDone
    \/ \E nx \in Cells : GrMoveCursor(nx)
    \/ \E nx \in Cells, buttons \in SUBSET Buttons : GsHandleMouseStatus(nx, buttons)

Spec == Init /\ [][Next]_vars

-----------------------------------------------------------------------------
TypeOK ==
    /\ TreeTypeOK
    /\ x \in [Wids -> Cells]
    /\ width \in [Wids -> Nat]
    /\ nofocus \subseteq listwp \ {Root}
    /\ sel \in [Wids -> [Clients -> SUBSET Events]]
    /\ mousewp \in Wids
    /\ focuswp \in Wids
    /\ focusfixed \in BOOLEAN
    /\ grabbuttonwp \in Wids \cup {NoWin}
    /\ curbuttons \subseteq Buttons
    /\ cursorx \in Cells

(* No window pointer the event code follows (mousewp, focuswp,             *)
(* grabbuttonwp) ever leads to a window that GsDestroyWindow has freed,    *)
(* alone, with its ancestors, or with its client.                          *)
PointersLive ==
    /\ mousewp \in listwp
    /\ focuswp \in listwp
    /\ grabbuttonwp \in listwp \cup {NoWin}

(* The implicit grab of GsDeliverButtonEvent is held only while a button   *)
(* is down, so that no lost release leaves the pointer grabbed for good.   *)
GrabHasButton == grabbuttonwp # NoWin => curbuttons # {}

(* A dropped client is in no window's list of event clients: no event is   *)
(* ever put on the queue of a client that was freed.                       *)
SelectionsConnected ==
    \A w \in Wids, c \in Clients :
        sel[w][c] # {} => w \in listwp /\ c \in clients

(* Drawing and pointing agree: GsSetClipWindow lets a window draw exactly  *)
(* on the cells where the descent of GsFindVisibleWindow ends in it, input *)
(* windows looked through, so that every cell has one window drawing on it *)
(* and a click never goes to another window than the one shown; but for a  *)
(* window that GrReparentWindow has put below an input-only one, which is  *)
(* not a place to create it in, and where nothing is cut out for it.       *)
DrawnWhereHit ==
    \A w \in realized \cap output :
        UpFrom(w) \subseteq output =>
            GsSetClipWindow(w) = {cell \in Cells : FindVisible(realized \cap output, x, cell) = w}

(* Only reparenting a window under one that is not realized can leave the  *)
(* mouse or the focus in a window that is not on the screen: every other   *)
(* request moves both pointers out of what it hides.                       *)
OnlyReparentHides ==
    [][{mousewp, focuswp} \subseteq realized =>
           \/ {mousewp', focuswp'} \subseteq realized'
           \/ \E w \in listwp' : parent'[w] # parent[w] /\ parent'[w] \notin realized]_vars

(* A focus that a client fixed with GrSetFocus stays where it is, however  *)
(* the mouse and the windows move, until a client sets it again or the     *)
(* window leaves the screen; then it goes to the root.                     *)
FixedFocusStays ==
    [][focusfixed /\ focuswp' # focuswp =>
           \/ \E w \in Wids : GrSetFocus(w)
           \/ focuswp' = Root /\ focuswp \notin realized']_vars

(* A window with the NOFOCUS property is never given the focus, neither by *)
(* GrSetFocus nor by following the mouse.                                  *)
NoFocusRespected ==
    [][focuswp' # focuswp => focuswp' \notin nofocus']_vars

(* Once a window has the grab it keeps it until all buttons are released   *)
(* or it is destroyed: no other press moves the grab to another window.    *)
GrabHeld ==
    [][grabbuttonwp # NoWin /\ grabbuttonwp' # grabbuttonwp =>
           grabbuttonwp' = NoWin /\ (curbuttons' = {} \/ grabbuttonwp \notin listwp')]_vars

=============================================================================
