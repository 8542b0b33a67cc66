----------------------------- MODULE NxKeyboard -----------------------------
(***************************************************************************)
(* Keys in the nano-X server: which clients hear of a key press, by their  *)
(* key grabs (GrGrabKey) or by the keyboard focus, while windows come and  *)
(* go and clients close and kill each other (src/nanox/srvfunc.c,          *)
(* srvevent.c, srvnet.c).                                                  *)
(*                                                                         *)
(* The list of grabs is a set and its order, as the sibling chains are in  *)
(* NxTree: no grab is on it twice.                                         *)
(***************************************************************************)
EXTENDS NxWindows

CONSTANTS
    Keys,       \* keys that are grabbed and pressed
    GrabTypes,  \* the types of grab that clients ask for
    GrabWids,   \* bound: window ids that clients name in a grab, live or not
    MaxGrabs    \* bound: grabs at a time

AllGrabTypes == {"HOTKEY_EXCLUSIVE", "HOTKEY", "EXCLUSIVE", "EXCLUSIVE_MOUSE"}

ASSUME KeyAssumption ==
    /\ GrabTypes \subseteq AllGrabTypes
    /\ GrabWids \subseteq Wids
    /\ MaxGrabs \in Nat

VARIABLES
    grabs,      \* list_grabbed_keys
    before,     \* <<g, h>>: g comes before h on that list
    curclient,  \* the client whose request drops a client
    keysent     \* the events queued for the last key press

keyVars == <<grabs, before, curclient, keysent>>
allVars == <<vars, keyVars>>

Grab == [key : Keys, wid : Wids, type : GrabTypes, owner : Clients]

-----------------------------------------------------------------------------
(* The grabs of S leave the list.                                          *)
DropGrabs(S) ==
    /\ grabs' = grabs \ S
    /\ before' = {e \in before : e[1] \notin S /\ e[2] \notin S}

(* Plausible bugs: every grab is put at the start of the list, and only    *)
(* grabs of one type exclude each other.                                   *)
ListedFirst(g) == {g} \X grabs
ConflictsInType(g) == \E h \in grabs : h.key = g.key /\ h.type = g.type /\ g.type # "HOTKEY"

(* The order between the grabs on the list and g, which is added to it.    *)
Listed(g) == IF g.type = "HOTKEY" THEN grabs \X {g} ELSE {g} \X grabs

Conflicts(g) ==
    \E h \in grabs : h.key = g.key /\ g.type # "HOTKEY" /\ h.type # "HOTKEY"

GrGrabKey(g) ==
    /\ Serving
    /\ g.owner \in clients
    /\ g \notin grabs /\ ~Conflicts(g)
    /\ Cardinality(grabs) < MaxGrabs
    /\ grabs' = grabs \cup {g}
    /\ before' = before \cup Listed(g)
    /\ keysent' = {}
    /\ UNCHANGED <<vars, curclient>>

(* The first grab of the client on the list for the key and the window.    *)
GrUngrabKey(c, w, key) ==
    LET match == {g \in grabs : g.key = key /\ g.wid = w /\ g.owner = c}
        first == {g \in match : \A h \in match \ {g} : <<g, h>> \in before}
    IN  /\ Serving
        /\ match # {}
        /\ DropGrabs(first)
        /\ keysent' = {}
        /\ UNCHANGED <<vars, curclient>>

-----------------------------------------------------------------------------
(* GsDeliverKeyboardEvent.  Going down the list, it tells the HOTKEY grabs *)
(* of the key, until it comes to a grab of another type.                   *)
Matching(key)  == {g \in grabs : g.key = key}
Exclusive(key) == {g \in Matching(key) : g.type # "HOTKEY"}
Stopper(key)   == {g \in Exclusive(key) : \A h \in Exclusive(key) \ {g} : <<g, h>> \in before}

(* A plausible bug: an exclusive grab does not end the loop.               *)
AllHotkeys(key) == {g \in Matching(key) : g.type \in {"HOTKEY", "HOTKEY_EXCLUSIVE"}}

Hotkeys(key) ==
    {g \in Matching(key) \ Exclusive(key) : \A s \in Stopper(key) : <<g, s>> \in before}
        \cup {s \in Stopper(key) : s.type = "HOTKEY_EXCLUSIVE"}

(* The events queued when the walk upwards starts at w and may not go      *)
(* beyond top: one, to the first client found, whose order is left open.   *)
(* No window stops it by its nopropmask, which nothing ever sets.          *)
Offer(w, top) ==
    LET hears(a) == {c \in clients : "KEY_DOWN" \in sel[a][c]}
        found == Nearest(w, {a \in Below(top, listwp, parent) : hears(a) # {}}, NoWin)
    IN  IF found = NoWin THEN {{}}
        ELSE {{[client |-> c, wid |-> found, hot |-> FALSE]} : c \in hears(found)}

(* An exclusive grab s: for its window, if that is the focus window or     *)
(* above it, or for EXCLUSIVE_MOUSE if the mouse is in it.                 *)
Reserved(s) ==
    CASE s.wid \notin listwp -> {{}}
      [] s.wid \in UpFrom(focuswp) -> Offer(s.wid, s.wid)
      [] OTHER -> IF s.type = "EXCLUSIVE_MOUSE" /\ s.wid = mousewp THEN Offer(s.wid, Root) ELSE {{}}

(* A plausible bug: the mouse window need not be inside the focus window.  *)
OrdinaryFromMouse(wid) == Offer(mousewp, Root)

(* Otherwise the focus window, or the one that GrInjectKeyboardEvent names *)
(* (none if it is gone), and from the mouse window if that is inside it.   *)
Ordinary(wid) ==
    LET top == IF wid = NoWin THEN focuswp ELSE wid
    IN  IF top \notin listwp THEN {{}}
        ELSE IF top \in UpFrom(mousewp) THEN Offer(mousewp, top) ELSE Offer(top, top)

Others(key, wid) ==
    CASE \E s \in Stopper(key) : s.type = "HOTKEY_EXCLUSIVE" -> {{}}
      [] \E s \in Stopper(key) : s.type # "HOTKEY_EXCLUSIVE" ->
            UNION {Reserved(s) : s \in Stopper(key)}
      [] OTHER -> Ordinary(wid)

GsDeliverKeyboardEvent(key, wid) ==
    /\ closing = NoClient
    /\ UNCHANGED <<vars, grabs, before, curclient>>
    /\ \E offered \in Others(key, wid) :
          keysent' = {[client |-> g.owner, wid |-> g.wid, hot |-> TRUE] : g \in Hotkeys(key)}
                        \cup offered

-----------------------------------------------------------------------------
KeyInit == Init /\ grabs = {} /\ before = {} /\ curclient = NoClient /\ keysent = {}

(* The request of k drops a client: it closes its connection, or it kills  *)
(* the client of some window.                                              *)
DropStarts(k) ==
    /\ \/ GsClose(k)
       \/ k \in clients /\ \E w \in Wids : GrKillWindow(w)
    /\ curclient' = k
    /\ keysent' = {}
    /\ UNCHANGED <<grabs, before>>

(* GsDestroyClientResources ends with the key grabs, and takes those of    *)
(* the client whose request it is, not of the client that is dropped.      *)
KeysDropDone ==
    /\ DropDone
    /\ DropGrabs({g \in grabs : g.owner = curclient})
    /\ curclient' = NoClient
    /\ keysent' = {}

(* Any other request or report: the grabs of windows destroyed go.         *)
WindowsStep ==
    /\ Next
    /\ closing' = closing
    /\ DropGrabs({g \in grabs : g.wid \in listwp \ listwp'})
    /\ keysent' = {}
    /\ UNCHANGED curclient

KeyNext ==
    \/ \E g \in Grab : g.wid \in GrabWids /\ GrGrabKey(g)
    \/ \E c \in Clients, w \in Wids, key \in Keys : GrUngrabKey(c, w, key)
    \/ \E key \in Keys, wid \in Wids \cup {NoWin} : GsDeliverKeyboardEvent(key, wid)
    \/ \E k \in Clients : DropStarts(k)
    \/ KeysDropDone
    \/ WindowsStep

KeySpec == KeyInit /\ [][KeyNext]_allVars

-----------------------------------------------------------------------------
KeyTypeOK ==
    /\ grabs \subseteq Grab
    /\ before \subseteq grabs \X grabs
    /\ curclient \in Clients \cup {NoClient}
    /\ keysent \subseteq [client : Clients, wid : Wids, hot : BOOLEAN]

(* "This algorithm requires any GR_GRAB_HOTKEY grabs to be listed after    *)
(* any exclusive grabs for the same key.  The GrGrabKey() and              *)
(* GrUngrabKey() methods ensure this property holds."                      *)
HotkeysListedLast ==
    \A g, h \in grabs :
        g.key = h.key /\ g.type = "HOTKEY" /\ h.type # "HOTKEY" => <<h, g>> \in before

(* A key is reserved exclusively by one grab at a time, whichever clients  *)
(* ask for it and in whatever order grabs and windows go.                  *)
OneExclusiveGrab == \A key \in Keys : \A g, h \in Exclusive(key) : g = h

(* "If an application has an exclusive grab on a key, then any grabs of    *)
(* type GR_GRAB_HOTKEY will be ignored when dispatching that key event."   *)
ExclusiveSilencesHotkeys ==
    [][\A key \in Keys :
          (Exclusive(key) # {} /\ \E wid \in Wids \cup {NoWin} : GsDeliverKeyboardEvent(key, wid))
             => \A e \in keysent' : e.hot => \E g \in Exclusive(key) : g.type = "HOTKEY_EXCLUSIVE"]_allVars

(* A key that nobody reserves is heard by a client whenever one selected   *)
(* it in the focus window: the walk from the mouse window upwards never    *)
(* passes the focus window by.                                             *)
FocusHearsKeys ==
    [][\A key \in Keys :
          (Exclusive(key) = {} /\ GsDeliverKeyboardEvent(key, NoWin)
             /\ \E c \in Clients : "KEY_DOWN" \in sel[focuswp][c])
          => \E e \in keysent' : ~e.hot /\ e.wid \in Below(focuswp, listwp, parent)]_allVars

(* "Free key grabs associated with client": a client that was dropped      *)
(* owns no key grab, through which its freed structure would be sent       *)
(* events.                                                                 *)
GrabOwnersConnected == \A g \in grabs : g.owner \in clients
=============================================================================
