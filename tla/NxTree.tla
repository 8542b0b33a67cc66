------------------------------- MODULE NxTree -------------------------------
(***************************************************************************)
(* The window tree of the nano-X server (src/nanox/srvfunc.c, srvutil.c,   *)
(* srvnet.c, srvmain.c): which windows exist, how they nest and stack,     *)
(* which are mapped by their clients, which are realized (really on the    *)
(* screen), and what becomes of them when their client is dropped.         *)
(*                                                                         *)
(* The server is one thread that handles one request at a time, so every   *)
(* request is one action; dropping a client, a loop that destroys window   *)
(* after window, is one action per iteration, and while it runs (closing)  *)
(* nothing else does.  The pointer and the focus are added by NxWindows.   *)
(***************************************************************************)
EXTENDS Naturals, FiniteSets

CONSTANTS
    Clients,    \* connections a client may have to the server
    NoClient,   \* the owner of the root window, which is NULL in the code
    MaxWid      \* bound: the ids the server may give out (nextid is unbounded)

ASSUME TreeAssumption == MaxWid \in Nat \ {0} /\ NoClient \notin Clients

Root  == 1              \* GR_ROOT_WINDOW_ID
NoWin == 0              \* a NULL window pointer
Wids  == 1 .. MaxWid

VARIABLES
    nextid,     \* id of the next window
    listwp,     \* the windows of the server's list, by id
    parent,     \* wp->parent
    above,      \* <<a, b>>: a comes before b in the siblings chain of both
    mapped,     \* windows their client has mapped
    realized,   \* windows whose realized flag is set
    output,     \* windows that are not input-only
    owner,      \* the client that created each window
    clients,    \* the list of clients
    closing     \* the client whose resources are being destroyed, if any

treeVars == <<nextid, listwp, parent, above, mapped, realized, output, owner,
              clients, closing>>

-----------------------------------------------------------------------------
(* The recursive walks of the code.  A walk from w that enters only the    *)
(* windows of M reaches the least set of windows that holds w and, with    *)
(* each window in it, its children in M.  p is the parent of each window.  *)

Closed(S, M, p) == \A c \in M : p[c] \in S => c \in S

Below(w, M, p) ==
    {d \in listwp : \A S \in SUBSET listwp : w \in S /\ Closed(S, M, p) => d \in S}

Kids(w) == {c \in listwp : parent[c] = w}

(* A plausible bug: the windows below stay realized.                       *)
UnrealizeAlone(w, R, p) == R \ {w}

(* GsUnrealizeWindow: an error on the root, nothing on a window that is    *)
(* not realized; a realized one goes with the realized windows below it.   *)
Unrealize(w, R, p) ==
    IF w # Root /\ w \in R THEN R \ Below(w, R, p) ELSE R

(* GsRealizeWindow: a mapped window whose parent is realized becomes       *)
(* realized, and so do the mapped windows below it.                        *)
Realize(w, R, M, p) ==
    IF w # Root /\ w \notin R /\ w \in M /\ p[w] \in R
    THEN R \cup Below(w, M \ R, p)
    ELSE R

(* The temporary unmap around a move or a change of the border.            *)
Remap(w) == realized' = Realize(w, Unrealize(w, realized, parent), mapped, parent)

(* A plausible bug: the window is linked again without being unlinked.     *)
StillLinked(w) == above

Unlinked(w) == {e \in above : e[1] # w /\ e[2] # w}
FrontOf(w, S) == {<<w, s>> : s \in S \ {w}}
BackOf(w, S)  == {<<s, w>> : s \in S \ {w}}

Serving == closing = NoClient /\ clients # {}

-----------------------------------------------------------------------------
TreeInit ==
    /\ nextid = Root + 1
    /\ listwp = {Root}
    /\ parent = [w \in Wids |-> NoWin]
    /\ above = {}
    /\ mapped = {Root}
    /\ realized = {Root}
    /\ output = {Root}
    /\ owner = [w \in Wids |-> NoClient]
    /\ clients = {}
    /\ closing = NoClient

GsAcceptClientFd(c) ==
    /\ closing = NoClient
    /\ c \notin clients
    /\ clients' = clients \cup {c}
    /\ UNCHANGED <<nextid, listwp, parent, above, mapped, realized, output,
                   owner, closing>>

NewWindow(c, p) ==
    /\ Serving
    /\ c \in clients
    /\ p \in listwp
    /\ nextid <= MaxWid
    /\ nextid' = nextid + 1
    /\ listwp' = listwp \cup {nextid}
    /\ parent' = [parent EXCEPT ![nextid] = p]
    /\ above' = above \cup FrontOf(nextid, Kids(p))
    /\ owner' = [owner EXCEPT ![nextid] = c]
    /\ UNCHANGED <<mapped, realized, clients, closing>>

TreeGrNewWindow(c, p) ==
    /\ p \in output
    /\ NewWindow(c, p)
    /\ output' = output \cup {nextid}

TreeGrNewInputWindow(c, p) ==
    /\ NewWindow(c, p)
    /\ UNCHANGED output

TreeGrMapWindow(w) ==
    /\ Serving
    /\ w \in listwp \ mapped
    /\ mapped' = mapped \cup {w}
    /\ realized' = Realize(w, realized, mapped', parent)
    /\ UNCHANGED <<nextid, listwp, parent, above, output, owner, clients, closing>>

(* On the root GsUnrealizeWindow only reports an error, and the mapped     *)
(* flag is cleared all the same.                                           *)
TreeGrUnmapWindow(w) ==
    /\ Serving
    /\ w \in mapped
    /\ mapped' = mapped \ {w}
    /\ realized' = Unrealize(w, realized, parent)
    /\ UNCHANGED <<nextid, listwp, parent, above, output, owner, clients, closing>>

(* A plausible bug: the window changes places with the topmost sibling.    *)
SwapWithTopmost(w) ==
    LET f == CHOOSE s \in Kids(parent[w]) : \A e \in above : e[2] # s
        swap(v) == CASE v = w -> f [] v = f -> w [] OTHER -> v
    IN  /\ Serving
        /\ w \in listwp \ {Root}
        /\ above' = {<<swap(e[1]), swap(e[2])>> : e \in above}
        /\ UNCHANGED <<nextid, listwp, parent, mapped, realized, output, owner,
                       clients, closing>>

TreeGrRaiseWindow(w) ==
    /\ Serving
    /\ w \in listwp \ {Root}
    /\ above' = Unlinked(w) \cup FrontOf(w, Kids(parent[w]))
    /\ UNCHANGED <<nextid, listwp, parent, mapped, realized, output, owner,
                   clients, closing>>

TreeGrLowerWindow(w) ==
    /\ Serving
    /\ w \in listwp \ {Root}
    /\ above' = Unlinked(w) \cup BackOf(w, Kids(parent[w]))
    /\ UNCHANGED <<nextid, listwp, parent, mapped, realized, output, owner,
                   clients, closing>>

(* GrMoveWindow and the border of GrSetWMProperties, for the tree.         *)
TreeRemap(w) ==
    /\ Serving
    /\ w \in listwp \ {Root}
    /\ Remap(w)
    /\ UNCHANGED <<nextid, listwp, parent, above, mapped, output, owner,
                   clients, closing>>

(* The code accepts a new parent that lies inside the window itself, which *)
(* ties the tree in a knot that OffsetWindow then follows without end;     *)
(* the clients are assumed not to ask for it.                              *)
TreeGrReparentWindow(w, p) ==
    /\ Serving
    /\ w \in listwp \ {Root}
    /\ p \in listwp \ Below(w, listwp, parent)
    /\ parent' = [parent EXCEPT ![w] = p]
    /\ above' = Unlinked(w) \cup FrontOf(w, Kids(p))
    /\ realized' = Realize(w, Unrealize(w, realized, parent), mapped, parent')
    /\ UNCHANGED <<nextid, listwp, mapped, output, owner, clients, closing>>

(* A plausible bug: only the window and its own children are destroyed.    *)
GoneWithKids(w) == {w} \cup Kids(w)

(* GsDestroyWindow: the window goes with every window below it, whoever    *)
(* owns them.                                                              *)
Gone(w) == Below(w, listwp, parent)

DestroyWindow(w) ==
    LET gone == Gone(w) IN
    /\ w # Root
    /\ listwp' = listwp \ gone
    /\ parent' = [v \in Wids |-> IF v \in gone THEN NoWin ELSE parent[v]]
    /\ above' = {e \in above : e[1] \notin gone /\ e[2] \notin gone}
    /\ mapped' = mapped \ gone
    /\ realized' = Unrealize(w, realized, parent) \ gone
    /\ output' = output \ gone
    /\ owner' = [v \in Wids |-> IF v \in gone THEN NoClient ELSE owner[v]]
    /\ UNCHANGED <<nextid, clients, closing>>

TreeGrDestroyWindow(w) ==
    /\ Serving
    /\ w \in listwp
    /\ DestroyWindow(w)

(* GsDropClient starts: the client closed or lost its connection, or a     *)
(* client killed the owner of one of its windows.                          *)
TreeGsClose(c) ==
    /\ Serving
    /\ c \in clients
    /\ closing' = c
    /\ UNCHANGED <<nextid, listwp, parent, above, mapped, realized, output,
                   owner, clients>>

(* GrKillWindow follows wp->owner, which is NULL for the root: the clients *)
(* are assumed not to kill the root.                                       *)
TreeGrKillWindow(w) ==
    /\ w \in listwp \ {Root}
    /\ TreeGsClose(owner[w])

(* A plausible bug: input-only windows are left out.                       *)
OwnedOutput == {w \in listwp : owner[w] = closing /\ w \in output}

Owned == {w \in listwp : owner[w] = closing}

(* An iteration of the loop of GsDestroyClientResources: the first window  *)
(* of the list (the newest) that the client owns, then "goto again".       *)
TreeDestroyOwned(w) ==
    /\ closing # NoClient
    /\ w \in Owned
    /\ \A v \in Owned : v <= w
    /\ DestroyWindow(w)

TreeDropDone ==
    /\ closing # NoClient
    /\ Owned = {}
    /\ clients' = clients \ {closing}
    /\ closing' = NoClient
    /\ UNCHANGED <<nextid, listwp, parent, above, mapped, realized, output, owner>>

TreeNext ==
    \/ \E c \in Clients :
          \/ GsAcceptClientFd(c)
          \/ TreeGsClose(c)
          \/ \E p \in Wids : TreeGrNewWindow(c, p) \/ TreeGrNewInputWindow(c, p)
    \/ \E w \in Wids :
          \/ TreeGrMapWindow(w)
          \/ TreeGrUnmapWindow(w)
          \/ TreeGrRaiseWindow(w)
          \/ TreeGrLowerWindow(w)
          \/ TreeRemap(w)
          \/ TreeGrDestroyWindow(w)
          \/ TreeGrKillWindow(w)
          \/ TreeDestroyOwned(w)
          \/ \E p \in Wids : TreeGrReparentWindow(w, p)
    \/ TreeDropDone

TreeSpec == TreeInit /\ [][TreeNext]_treeVars

-----------------------------------------------------------------------------
(* Type correctness, with what the types of the C structures promise: the  *)
(* flags are those of windows on the list, and ids are never given twice.  *)
TreeTypeOK ==
    /\ nextid \in 2 .. MaxWid + 1
    /\ listwp \subseteq 1 .. nextid - 1
    /\ parent \in [Wids -> Wids \cup {NoWin}]
    /\ above \subseteq listwp \X listwp
    /\ mapped \subseteq listwp
    /\ realized \subseteq listwp
    /\ output \subseteq listwp
    /\ owner \in [Wids -> Clients \cup {NoClient}]
    /\ clients \subseteq Clients
    /\ closing \in clients \cup {NoClient}

(* The parent pointer of every window but the root leads to a window that  *)
(* is still on the list, whatever was destroyed (GsDestroyWindow frees).   *)
ParentsLive ==
    /\ Root \in listwp /\ parent[Root] = NoWin
    /\ \A w \in listwp \ {Root} : parent[w] \in listwp

(* The children lists of srvfunc.c, after any number of raises, lowers,    *)
(* reparents and destroys: each sibling chain is a strict total order of   *)
(* exactly the windows with that parent.                                   *)
StackingOrder ==
    /\ \A a, b \in listwp : <<a, b>> \in above => a # b /\ parent[a] = parent[b]
    /\ \A a, b \in listwp :
          a # b /\ parent[a] = parent[b] => (<<a, b>> \in above <=> <<b, a>> \notin above)
    /\ \A a, b, c \in listwp :
          <<a, b>> \in above /\ <<b, c>> \in above => <<a, c>> \in above

(* The windows form one tree: GsFindVisibleWindow, the clipping code and   *)
(* the event propagation walk it from the root and back to it.             *)
Rooted == \A w \in listwp : w \in Below(Root, listwp, parent)

(* The realized flag, kept incrementally by GsRealizeWindow and            *)
(* GsUnrealizeWindow through maps, unmaps, moves, reparents and destroys,  *)
(* is set exactly when the window is mapped and its parent is realized.    *)
RealizedIffViewable ==
    /\ Root \in realized
    /\ \A w \in listwp \ {Root} :
          w \in realized <=> w \in mapped /\ parent[w] \in realized

(* GsDestroyClientResources leaves nothing of a dropped client: every      *)
(* window but the root belongs to a client still on the list.              *)
OwnersConnected == \A w \in listwp \ {Root} : owner[w] \in clients

(* One request changes the place of at most one window among its siblings: *)
(* the others keep their relative order (the relinking in GrRaiseWindow,   *)
(* GrLowerWindow, GrReparentWindow and GsDestroyWindow loses no sibling).  *)
OthersKeepOrder ==
    [][\E w \in Wids :
          \A a, b \in (listwp \cap listwp') \ {w} :
              <<a, b>> \in above <=> <<a, b>> \in above']_treeVars
=============================================================================
