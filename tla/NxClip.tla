-------------------------------- MODULE NxClip --------------------------------
(***************************************************************************)
(* The clip region the server keeps installed in the drawing engine.       *)
(* Drawing requests compute it only when the window drawn on is not        *)
(* clipwp, the window of the last drawing; so every request that changes   *)
(* what is visible of a window has to see that clipwp is forgotten.  Most  *)
(* do so by clearing the windows they uncover (GsClearWindow).             *)
(***************************************************************************)
EXTENDS NxWindows

CONSTANTS
    PaintWids,      \* bound: windows that clients flush or give painting properties
    PaintChoices    \* bound: the painting properties that clients ask for

PaintProps == {"NOBACKGROUND", "BUFFERED", "DRAWING_DONE"}

(* No client is assumed to change how the root window is painted.          *)
ASSUME ClipAssumption ==
    PaintWids \subseteq Wids \ {Root} /\ PaintChoices \subseteq SUBSET PaintProps

VARIABLES
    props,          \* wp->props: those of PaintProps
    clipwp,         \* window clipping is set for, or NoWin
    clipregion,     \* the cells of the region set for it
    skipped         \* history: windows GsClearWindow left alone since it was set

clipVars  == <<clipwp, clipregion, skipped>>
paintVars == <<props, clipVars>>

-----------------------------------------------------------------------------
Extent(w, xs, widths) == xs[w] .. xs[w] + widths[w] - 1
Area(w) == Extent(w, x, width)

(* GsExposeArea: the windows cleared, from w downwards, R being realized   *)
(* and widths the widths at that point.                                    *)
GsExposeArea(w, area, R, widths) ==
    LET M == {v \in R \cap output : Extent(v, x, widths) \cap area # {}}
    IN  IF w \in M THEN Below(w, M, parent) ELSE {}

(* What GsUnrealizeWindow clears of what was behind w: its parent, and the *)
(* siblings further back.                                                  *)
Uncovered(w) ==
    LET R == Unrealize(w, realized, parent)
    IN  IF w \notin (realized \cap output) \ {Root} THEN {}
        ELSE {v \in {parent[w]} \cap R \cap output : Area(v) \cap Area(w) # {}}
             \cup UNION {GsExposeArea(e[2], Area(w), R, width) : e \in {f \in above : f[1] = w}}

(* The windows a GsUnrealizeWindow comes to.                               *)
Hidden(w) == IF w = Root THEN {} ELSE Below(w, realized, parent)

(* Whether GsClearWindow paints a window that has the properties P: once   *)
(* its drawing is done a buffered one, unless it has no background another.*)
Paints(P) == IF "BUFFERED" \in P THEN "DRAWING_DONE" \in P ELSE "NOBACKGROUND" \notin P

Forgotten == clipwp' = NoWin /\ clipregion' = {} /\ skipped' = {}

Skip(cleared) ==
    /\ UNCHANGED <<clipwp, clipregion>>
    /\ skipped' = skipped \cup {v \in cleared : ~Paints(props'[v])}

(* Plausible bugs: the windows hidden or freed are not looked for, and     *)
(* clipwp is kept when the buffer of a window is copied to the screen.     *)
ForgetCleared(cleared, gone) ==
    IF \E v \in cleared : Paints(props'[v]) THEN Forgotten ELSE Skip(cleared)
ForgetErased(cleared, gone) ==
    IF \/ clipwp \in gone \cup {NoWin}
       \/ \E v \in cleared : Paints(props'[v]) /\ "BUFFERED" \notin props'[v]
    THEN Forgotten ELSE Skip(cleared)

(* Of the windows a request clears, GsClearWindow installs the region of   *)
(* those it paints, and forgets whose it is: the next drawing sets its own.*)
(* It returns early for the others.  The windows of gone are hidden or     *)
(* freed.                                                                  *)
Forget(cleared, gone) ==
    IF clipwp \in gone \cup {NoWin} \/ \E v \in cleared : Paints(props'[v])
    THEN Forgotten ELSE Skip(cleared)

(* GsSetClipWindow(w, ...), for a drawing on w.                            *)
Install(w) == clipwp' = w /\ clipregion' = GsSetClipWindow(w) /\ skipped' = {}

(* GsInitWindowBuffer for w, whose properties are P by then: a new buffer  *)
(* is cleared to the background, with clipping set for it; if there is no  *)
(* memory for one, w is no longer buffered.                                *)
BufferErased(w, P) ==
    "NOBACKGROUND" \notin P /\ props' = [props EXCEPT ![w] = P \ {"DRAWING_DONE"}]
BufferKept(w, P) ==
    \/ "NOBACKGROUND" \in P /\ props' = [props EXCEPT ![w] = P \ {"DRAWING_DONE"}]
    \/ props' = [props EXCEPT ![w] = P \ {"BUFFERED", "DRAWING_DONE"}]

-----------------------------------------------------------------------------
(* The mouse, which does not move here, is at the edge of the screen.      *)
ClipInit ==
    /\ Init /\ cursorx = 0
    /\ props = [w \in Wids |-> {}]
    /\ clipwp = NoWin /\ clipregion = {} /\ skipped = {}

(* GsPrepareDrawing, at the start of each drawing request, changed telling *)
(* that the graphics context is another one or was changed.  Drawing on a  *)
(* buffered window draws on its buffer.                                    *)
GsPrepareDrawing(w, changed) ==
    /\ Serving
    /\ w \in listwp \cap output
    /\ \/ "BUFFERED" \in props[w] /\ Forgotten
       \/ /\ "BUFFERED" \notin props[w] /\ w \in realized
          /\ IF w # clipwp \/ changed THEN Install(w) ELSE UNCHANGED clipVars
    /\ UNCHANGED <<vars, props>>

(* GsPrepareDrawing for a drawing on a pixmap.                             *)
DrawOnPixmap == Serving /\ Forgotten /\ UNCHANGED <<vars, props>>

(* GrClearArea, and GrFlushWindow, which is a clear with exposeflag 2.     *)
GrClearArea(w, flush) ==
    /\ Serving
    /\ w \in realized \cap output
    /\ flush => w \in PaintWids
    /\ props' = IF flush THEN [props EXCEPT ![w] = @ \cup {"DRAWING_DONE"}] ELSE props
    /\ CASE Paints(props'[w])                -> Forgotten
         [] ~Paints(props'[w]) /\ w # clipwp -> Install(w)
         [] OTHER                            -> UNCHANGED clipVars
    /\ UNCHANGED vars

ClipGrMapWindow(w) ==
    GrMapWindow(w) /\ UNCHANGED props /\ Forget((realized' \ realized) \cap output, {})

ClipGrUnmapWindow(w) ==
    GrUnmapWindow(w) /\ UNCHANGED props /\ Forget(Uncovered(w), Hidden(w))

Raised(w) ==
    IF \E e \in above : e[2] = w /\ Overlap(e[1], w)
    THEN GsExposeArea(w, Area(w), realized, width) ELSE {}

ClipGrRaiseWindow(w) == GrRaiseWindow(w) /\ UNCHANGED props /\ Forget(Raised(w), {})

Lowered(w) ==
    UNION {GsExposeArea(e[2], Area(w), realized, width) :
              e \in {f \in above : f[1] = w /\ Overlap(w, f[2])}}

ClipGrLowerWindow(w) == GrLowerWindow(w) /\ UNCHANGED props /\ Forget(Lowered(w), {})

(* A window unmapped and mapped in one request.                            *)
ForgetRemapped(w) ==
    Forget(Uncovered(w) \cup (Below(w, listwp, parent) \cap realized' \cap output), Hidden(w))

(* A move by copying bits forgets clipwp first, and clears the root        *)
(* window, which has a background, at its end.                             *)
ClipGrMoveWindow(w, nx) ==
    /\ GrMoveWindow(w, nx)
    /\ UNCHANGED props
    /\ IF w \in mapped /\ IsUnobscuredBySiblings(w) THEN Forgotten ELSE ForgetRemapped(w)

ClipGrReparentWindow(w, p, nx) ==
    GrReparentWindow(w, p, nx) /\ UNCHANGED props /\ ForgetRemapped(w)

(* drawBackgroundAndExpose, then the part of the parent that is no longer  *)
(* covered, if any.                                                        *)
Resized(w) ==
    IF w \notin realized \cap output THEN {}
    ELSE (Below(w, listwp, parent) \cap realized \cap output)
         \cup GsExposeArea(parent[w], Area(w) \ Extent(w, x, width'), realized, width')

ClipGrResizeWindow(w, size) ==
    /\ GrResizeWindow(w, size)
    /\ \/ "BUFFERED" \notin props[w] /\ UNCHANGED props /\ Forget(Resized(w), {})
       \/ "BUFFERED" \in props[w] /\ BufferErased(w, props[w]) /\ Forgotten
       \/ "BUFFERED" \in props[w] /\ BufferKept(w, props[w]) /\ Forget(Resized(w), {})

(* A window id is never given twice, so the properties of those freed may  *)
(* be forgotten.                                                           *)
Freed(w) == props' = [v \in Wids |-> IF v \in Gone(w) THEN {} ELSE props[v]]

ClipGrDestroyWindow(w) == GrDestroyWindow(w) /\ Freed(w) /\ Forget(Uncovered(w), Gone(w))

ClipDestroyOwned(w) == DestroyOwned(w) /\ Freed(w) /\ Forget(Uncovered(w), Gone(w))

ClipDropDone == DropDone /\ UNCHANGED props /\ Forgotten

(* GrSetWMProperties replaces the properties of w by P, making or freeing  *)
(* its buffer.                                                             *)
SetPaintProps(w, P) ==
    /\ Serving
    /\ w \in listwp \cap PaintWids
    /\ \/ /\ "BUFFERED" \in P \ props[w]
          /\ \/ BufferErased(w, P) /\ Forgotten
             \/ BufferKept(w, P) /\ UNCHANGED clipVars
       \/ /\ "BUFFERED" \notin P \ props[w]
          /\ props' = [props EXCEPT ![w] =
                          IF "BUFFERED" \in props[w] \ P THEN P \ {"DRAWING_DONE"} ELSE P]
          /\ UNCHANGED clipVars

(* What GrSetWMProperties clears for another background color.             *)
Recolored(w) == IF "BUFFERED" \in props[w] THEN {} ELSE GsExposeArea(w, Area(w), realized, width)

(* GrSetWMProperties: the properties, the background, and the border, the  *)
(* widths of which are left out.  A call that sets several does so in this *)
(* order.                                                                  *)
ClipGrSetWMProperties(w) ==
    \/ \E P \in PaintChoices : SetPaintProps(w, P) /\ UNCHANGED vars
    \/ /\ Serving /\ w \in listwp
       /\ UNCHANGED <<vars, props>>
       /\ Forget(Recolored(w), {})
    \/ /\ GrSetWMProperties(w)
       /\ UNCHANGED props
       /\ IF nofocus' # nofocus THEN UNCHANGED clipVars ELSE ForgetRemapped(w)

(* The requests and reports left out (focus, cursor, masks, the mouse) do  *)
(* not touch what the clip region depends on.                              *)
ClipNext ==
    \/ \E c \in Clients :
          /\ \/ Accept(c)
             \/ GsClose(c)
             \/ \E p \in Wids, nx \in Cells, size \in Sizes :
                   GrNewWindow(c, p, nx, size) \/ GrNewInputWindow(c, p, nx, size)
          /\ UNCHANGED paintVars
    \/ \E w \in Wids :
          \/ \E changed \in BOOLEAN : GsPrepareDrawing(w, changed)
          \/ \E flush \in BOOLEAN : GrClearArea(w, flush)
          \/ ClipGrMapWindow(w)
          \/ ClipGrUnmapWindow(w)
          \/ ClipGrRaiseWindow(w)
          \/ ClipGrLowerWindow(w)
          \/ ClipGrDestroyWindow(w)
          \/ GrKillWindow(w) /\ UNCHANGED paintVars
          \/ ClipDestroyOwned(w)
          \/ ClipGrSetWMProperties(w)
          \/ \E nx \in Cells : ClipGrMoveWindow(w, nx)
          \/ \E size \in Sizes : ClipGrResizeWindow(w, size)
          \/ \E p \in Wids, nx \in Cells : ClipGrReparentWindow(w, p, nx)
    \/ ClipDropDone
    \/ DrawOnPixmap

ClipSpec == ClipInit /\ [][ClipNext]_<<vars, paintVars>>

-----------------------------------------------------------------------------
(* GsPrepareDrawing compares with clipwp only, so a window that leaves the *)
(* screen must be forgotten before it comes back, elsewhere perhaps.       *)
ClipLive == clipwp \in (realized \cap output) \cup {NoWin}

(* Whatever became of the windows since it was installed, the region that  *)
(* the next drawing on clipwp uses is that of the windows as they are,     *)
(* with two exceptions: inside windows that GsClearWindow has come to      *)
(* since and has left alone, being without a background or buffered and    *)
(* not flushed, which are mapped, raised and resized without anything      *)
(* recomputing the region, and so are drawn over; and for output windows   *)
(* that were reparented into an input-only one, which is resized without   *)
(* being cleared.                                                          *)
StaleOnlyWhereSkipped ==
    clipwp # NoWin /\ UpFrom(clipwp) \subseteq output =>
        \A cell \in Cells :
            \/ cell \in clipregion <=> cell \in GsSetClipWindow(clipwp)
            \/ \E w \in skipped \cap realized : cell \in Area(w)
=============================================================================
