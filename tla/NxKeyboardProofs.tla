-------------------------- MODULE NxKeyboardProofs --------------------------
(***************************************************************************)
(* Proofs about key grabs: the algorithm of GsDeliverKeyboardEvent rests   *)
(* on how GrGrabKey and GrUngrabKey keep the list, and on the reservations *)
(* that exclude each other.                                                *)
(***************************************************************************)
EXTENDS NxKeyboard, NxWindowsProofs

(* The list is what it should be whatever the grabs are: it lists grabs,   *)
(* and in one order only.                                                  *)
ListInv ==
    /\ grabs \subseteq Grab
    /\ before \subseteq grabs \X grabs
    /\ \A g, h \in grabs : ~(<<g, h>> \in before /\ <<h, g>> \in before)

KeyInv == ListInv /\ HotkeysListedLast /\ OneExclusiveGrab

(* Each step of the composed system is one of NxWindows, or leaves the     *)
(* windows alone.                                                          *)
LEMMA KeyStepOnWindows == [KeyNext]_allVars => [Next]_vars
<1> SUFFICES ASSUME KeyNext PROVE Next \/ UNCHANGED vars
  BY DEF allVars
<1>1. CASE \E g \in Grab : g.wid \in GrabWids /\ GrGrabKey(g)
  BY <1>1 DEF GrGrabKey
<1>2. CASE \E c \in Clients, w \in Wids, key \in Keys : GrUngrabKey(c, w, key)
  BY <1>2 DEF GrUngrabKey
<1>3. CASE \E key \in Keys, wid \in Wids \cup {NoWin} : GsDeliverKeyboardEvent(key, wid)
  BY <1>3 DEF GsDeliverKeyboardEvent
<1>4. ASSUME NEW k \in Clients, DropStarts(k) PROVE Next
  <2>1. CASE GsClose(k) BY <2>1 DEF Next
  <2>2. CASE \E w \in Wids : GrKillWindow(w) BY <2>2 DEF Next
  <2> QED BY <1>4, <2>1, <2>2 DEF DropStarts
<1>5. CASE KeysDropDone BY <1>5 DEF KeysDropDone, Next
<1>6. CASE WindowsStep BY <1>6 DEF WindowsStep
<1> QED BY <1>1, <1>2, <1>3, <1>4, <1>5, <1>6 DEF KeyNext

(* The server with its key grabs implements the server with pointer and    *)
(* focus, and so the window tree: their theorems hold of it.               *)
THEOREM KeyboardImplementsWindows == KeySpec => Spec
BY KeyStepOnWindows, PTL DEF KeySpec, KeyInit, Spec

-----------------------------------------------------------------------------
(* Taking grabs off the list, any of them, breaks nothing.                 *)
LEMMA DropKeepsKeyInv ==
    ASSUME KeyInv, NEW S, DropGrabs(S)
    PROVE  KeyInv'
<1>1. /\ grabs' \subseteq grabs
      /\ \A g, h \in grabs' : <<g, h>> \in before' <=> <<g, h>> \in before
  BY DEF DropGrabs
<1>2. ListInv'
  BY <1>1 DEF KeyInv, ListInv, DropGrabs
<1>3. HotkeysListedLast'
  BY <1>1 DEF KeyInv, HotkeysListedLast
<1>4. OneExclusiveGrab'
  BY <1>1 DEF KeyInv, OneExclusiveGrab, Exclusive, Matching
<1> QED BY <1>2, <1>3, <1>4 DEF KeyInv

(* A grab is listed on the right side of the others, if it may be added.   *)
LEMMA GrabKeepsKeyInv ==
    ASSUME KeyInv, NEW g \in Grab, GrGrabKey(g)
    PROVE  KeyInv'
<1> USE DEF KeyInv, GrGrabKey
<1>1. ListInv'
  BY DEF ListInv, Listed
<1>2. HotkeysListedLast'
  BY DEF ListInv, HotkeysListedLast, Listed
<1>3. OneExclusiveGrab'
  BY DEF ListInv, OneExclusiveGrab, Exclusive, Matching, Conflicts
<1> QED BY <1>1, <1>2, <1>3

LEMMA KeyInvInductive == KeyInv /\ [KeyNext]_allVars => KeyInv'
<1> SUFFICES ASSUME KeyInv, [KeyNext]_allVars PROVE KeyInv'
  OBVIOUS
<1>1. CASE \E g \in Grab : g.wid \in GrabWids /\ GrGrabKey(g)
  BY <1>1, GrabKeepsKeyInv
<1>2. CASE \E S : DropGrabs(S)
  BY <1>2, DropKeepsKeyInv
<1>3. CASE UNCHANGED <<grabs, before>>
  BY <1>3 DEF KeyInv, ListInv, HotkeysListedLast, OneExclusiveGrab, Exclusive, Matching
<1>4. CASE \E c \in Clients, w \in Wids, key \in Keys : GrUngrabKey(c, w, key)
  BY <1>4, <1>2 DEF GrUngrabKey
<1>5. CASE KeysDropDone \/ WindowsStep
  BY <1>5, <1>2 DEF KeysDropDone, WindowsStep
<1>6. CASE \/ \E key \in Keys, wid \in Wids \cup {NoWin} : GsDeliverKeyboardEvent(key, wid)
           \/ \E k \in Clients : DropStarts(k)
           \/ UNCHANGED allVars
  BY <1>6, <1>3 DEF GsDeliverKeyboardEvent, DropStarts, allVars, keyVars
<1> QED BY <1>1, <1>4, <1>5, <1>6 DEF KeyNext

(* The list of key grabs is well formed, with the HOTKEY grabs of a key    *)
(* after the others and one exclusive grab of it, in every state.          *)
THEOREM KeyInvCorrect == KeySpec => []KeyInv
<1>1. KeyInit => KeyInv
  BY DEF KeyInit, KeyInv, ListInv, HotkeysListedLast, OneExclusiveGrab, Exclusive, Matching
<1> QED BY <1>1, KeyInvInductive, PTL DEF KeySpec

(* GrGrabKey and GrUngrabKey, and the end of windows and clients, keep     *)
(* what the comment of GsDeliverKeyboardEvent asks of the list.            *)
THEOREM HotkeysLastCorrect == KeySpec => []HotkeysListedLast
BY KeyInvCorrect, PTL DEF KeyInv

(* No two clients ever reserve a key at once.                              *)
THEOREM OneExclusiveCorrect == KeySpec => []OneExclusiveGrab
BY KeyInvCorrect, PTL DEF KeyInv

-----------------------------------------------------------------------------
(* With a key reserved, the loop stops before it comes to a HOTKEY grab.   *)
LEMMA HotkeysOfReserved ==
    ASSUME KeyInv, NEW key, Exclusive(key) # {}, key \in Keys
    PROVE  \A g \in Hotkeys(key) : g \in Exclusive(key) /\ g.type = "HOTKEY_EXCLUSIVE"
<1>1. PICK s \in Exclusive(key) : TRUE
  OBVIOUS
<1>2. s \in Stopper(key)
  BY <1>1 DEF KeyInv, OneExclusiveGrab, Stopper
<1>3. ASSUME NEW g \in Matching(key) \ Exclusive(key) PROVE <<g, s>> \notin before
  <2>1. g \in grabs /\ s \in grabs /\ g.key = key /\ s.key = key
    BY <1>1, <1>3 DEF Exclusive, Matching
  <2>2. g.type = "HOTKEY" /\ s.type # "HOTKEY"
    BY <1>1, <1>3 DEF Exclusive
  <2>3. <<s, g>> \in before
    BY <2>1, <2>2 DEF KeyInv, HotkeysListedLast
  <2> QED BY <2>1, <2>3 DEF KeyInv, ListInv
<1> QED BY <1>2, <1>3 DEF Hotkeys, Stopper

(* What the walk through the windows queues is no hotkey event.            *)
LEMMA OffersAreNotHot ==
    ASSUME NEW key, NEW wid, NEW offered \in Others(key, wid), NEW e \in offered
    PROVE  e.hot = FALSE
<1>1. ASSUME NEW w, NEW top, NEW o \in Offer(w, top), NEW f \in o PROVE f.hot = FALSE
  BY <1>1 DEF Offer
<1>2. ASSUME NEW s, NEW o \in Reserved(s), NEW f \in o PROVE f.hot = FALSE
  BY <1>1, <1>2 DEF Reserved
<1>3. ASSUME NEW o \in Ordinary(wid), NEW f \in o PROVE f.hot = FALSE
  BY <1>1, <1>3 DEF Ordinary
<1> QED BY <1>2, <1>3 DEF Others

(* An application that reserves a key hears it alone: the hotkey events of *)
(* others are not sent, as nano-X.h says of GR_GRAB_HOTKEY.                *)
THEOREM HotkeysSilenced == KeySpec => ExclusiveSilencesHotkeys
<1> DEFINE Silenced == \A key \in Keys :
              (Exclusive(key) # {} /\ \E wid \in Wids \cup {NoWin} : GsDeliverKeyboardEvent(key, wid))
                 => \A e \in keysent' : e.hot => \E g \in Exclusive(key) : g.type = "HOTKEY_EXCLUSIVE"
<1>1. KeyInv => Silenced
  <2> SUFFICES ASSUME KeyInv, NEW key \in Keys, Exclusive(key) # {},
                      NEW wid \in Wids \cup {NoWin}, GsDeliverKeyboardEvent(key, wid),
                      NEW e \in keysent', e.hot
               PROVE  \E g \in Exclusive(key) : g.type = "HOTKEY_EXCLUSIVE"
    OBVIOUS
  <2>1. PICK offered \in Others(key, wid) :
           keysent' = {[client |-> g.owner, wid |-> g.wid, hot |-> TRUE] : g \in Hotkeys(key)}
                         \cup offered
    BY DEF GsDeliverKeyboardEvent
  <2>2. e \notin offered
    BY OffersAreNotHot
  <2>3. PICK g \in Hotkeys(key) : TRUE
    BY <2>1, <2>2
  <2> QED BY <2>3, HotkeysOfReserved
<1> QED BY <1>1, KeyInvCorrect, PTL DEF ExclusiveSilencesHotkeys

-----------------------------------------------------------------------------
KeyEvents == [client : Clients, wid : Wids, hot : BOOLEAN]

LEMMA OffersTyped ==
    ASSUME TypeInv, NEW key, NEW wid \in Wids \cup {NoWin}, NEW offered \in Others(key, wid)
    PROVE  offered \subseteq KeyEvents
<1>1. listwp \subseteq Wids /\ clients \subseteq Clients
  BY LiveWids DEF TypeInv, TreeTypeOK
<1>2. ASSUME NEW w, NEW top, NEW o \in Offer(w, top) PROVE o \subseteq KeyEvents
  <2> DEFINE hears(a) == {c \in clients : "KEY_DOWN" \in sel[a][c]}
             C     == {a \in Below(top, listwp, parent) : hears(a) # {}}
             found == Nearest(w, C, NoWin)
  <2>1. CASE found = NoWin
    BY <1>2, <2>1 DEF Offer
  <2>2. CASE found # NoWin
    <3>1. found \in Wids
      <4>1. C \subseteq listwp
        BY BelowLive
      <4> HIDE DEF C
      <4> QED BY <1>1, <2>2, <4>1, NearestIn
    <3>2. PICK c \in hears(found) : o = {[client |-> c, wid |-> found, hot |-> FALSE]}
      BY <1>2, <2>2 DEF Offer
    <3> HIDE DEF found
    <3> QED BY <1>1, <3>1, <3>2 DEF KeyEvents
  <2> QED BY <2>1, <2>2
<1>3. ASSUME NEW s, NEW o \in Reserved(s) PROVE o \subseteq KeyEvents
  BY <1>2, <1>3 DEF Reserved
<1>4. ASSUME NEW o \in Ordinary(wid) PROVE o \subseteq KeyEvents
  BY <1>2, <1>4 DEF Ordinary
<1> QED BY <1>3, <1>4 DEF Others

LEMMA KeyTypesStep ==
    TypeInv /\ KeyInv /\ KeyInv' /\ KeyTypeOK /\ [KeyNext]_allVars => KeyTypeOK'
<1> SUFFICES ASSUME TypeInv, KeyInv, KeyInv', KeyTypeOK, [KeyNext]_allVars PROVE KeyTypeOK'
  OBVIOUS
<1>a. ASSUME curclient' \in Clients \cup {NoClient}, keysent' \subseteq KeyEvents
      PROVE  KeyTypeOK'
  BY <1>a DEF KeyTypeOK, KeyInv, ListInv, KeyEvents
<1>b. keysent \subseteq KeyEvents /\ curclient \in Clients \cup {NoClient}
  BY DEF KeyTypeOK, KeyEvents
<1>1. ASSUME NEW key \in Keys, NEW wid \in Wids \cup {NoWin}, GsDeliverKeyboardEvent(key, wid)
      PROVE  KeyTypeOK'
  <2>1. PICK offered \in Others(key, wid) :
           keysent' = {[client |-> g.owner, wid |-> g.wid, hot |-> TRUE] : g \in Hotkeys(key)}
                         \cup offered
    BY <1>1 DEF GsDeliverKeyboardEvent
  <2>2. Hotkeys(key) \subseteq Grab
    BY DEF Hotkeys, Stopper, Exclusive, Matching, KeyInv, ListInv
  <2>3. ASSUME NEW g \in Hotkeys(key)
        PROVE  [client |-> g.owner, wid |-> g.wid, hot |-> TRUE] \in KeyEvents
    <3>1. g.owner \in Clients /\ g.wid \in Wids
      BY <2>2 DEF Grab
    <3> QED BY <3>1 DEF KeyEvents
  <2>4. keysent' \subseteq KeyEvents
    BY <2>1, <2>3, OffersTyped
  <2> QED BY <1>1, <1>a, <1>b, <2>4 DEF GsDeliverKeyboardEvent
<1>2. ASSUME NEW k \in Clients, DropStarts(k) PROVE KeyTypeOK'
  BY <1>2, <1>a DEF DropStarts
<1>3. CASE \/ KeysDropDone \/ WindowsStep
           \/ \E g \in Grab : g.wid \in GrabWids /\ GrGrabKey(g)
           \/ \E c \in Clients, w \in Wids, key \in Keys : GrUngrabKey(c, w, key)
  BY <1>3, <1>a, <1>b DEF KeysDropDone, WindowsStep, GrGrabKey, GrUngrabKey
<1>4. CASE UNCHANGED allVars
  BY <1>4, <1>a, <1>b DEF allVars, keyVars
<1> QED BY <1>1, <1>2, <1>3, <1>4 DEF KeyNext

(* The grab list and the key events queued have their types: an event is   *)
(* queued for a client there can be, about a window id there can be.       *)
THEOREM KeyTypesCorrect == KeySpec => []KeyTypeOK
<1>1. KeyInit => KeyTypeOK
  BY DEF KeyInit, KeyTypeOK
<1>2. KeySpec => []TypeInv
  BY KeyboardImplementsWindows, WindowsImplementTree, TypesCorrect, PTL
<1> QED BY <1>1, <1>2, KeyTypesStep, KeyInvCorrect, PTL DEF KeySpec

-----------------------------------------------------------------------------
(***************************************************************************)
(* The walk upwards: when the window it may not go beyond is one that      *)
(* hears, it ends in one that hears, at that window or below it.           *)
(***************************************************************************)
LEMMA NearestExists ==
    ASSUME NEW C \in SUBSET listwp, NEW top \in C, NEW w \in Below(top, listwp, parent),
           NEW none
    PROVE  Nearest(w, C, none) \in C
<1> DEFINE near == {a \in C : w \in Below(a, listwp \ C, parent)}
           S    == {v \in listwp : \E a \in C : v \in Below(a, listwp \ C, parent)}
<1>1. Closed(S, listwp, parent)
  <2> SUFFICES ASSUME NEW c \in listwp, parent[c] \in S PROVE c \in S
    BY DEF Closed
  <2>1. CASE c \in C
    BY <2>1, BelowSelf
  <2>2. CASE c \notin C
    BY <2>2, BelowClosed
  <2> QED
    BY <2>1, <2>2
<1>2. top \in S /\ S \in SUBSET listwp
  BY BelowSelf
<1> HIDE DEF S
<1>3. w \in S
  BY <1>1, <1>2, BelowLeast
<1>4. near # {}
  BY <1>3 DEF S
<1>5. Nearest(w, C, none) = CHOOSE a \in near : TRUE
  BY <1>4 DEF Nearest
<1> HIDE DEF near
<1>6. Nearest(w, C, none) \in near
  BY <1>4, <1>5
<1> QED
  BY <1>6 DEF near

LEMMA OfferHeard ==
    ASSUME TypeInv, NEW top \in listwp, NEW w \in Below(top, listwp, parent),
           \E c \in clients : "KEY_DOWN" \in sel[top][c],
           NEW offered \in Offer(w, top)
    PROVE  \E e \in offered : ~e.hot /\ e.wid \in Below(top, listwp, parent)
<1> DEFINE hears(a) == {c \in clients : "KEY_DOWN" \in sel[a][c]}
           C     == {a \in Below(top, listwp, parent) : hears(a) # {}}
           found == Nearest(w, C, NoWin)
<1>1. C \in SUBSET listwp /\ top \in C /\ C \subseteq Below(top, listwp, parent)
  BY BelowLive, BelowSelf
<1> HIDE DEF C
<1>2. found \in C
  BY <1>1, NearestExists
<1>3. found # NoWin
  BY <1>1, <1>2, LiveWids DEF NoWin, Wids
<1>4. \E c \in hears(found) : offered = {[client |-> c, wid |-> found, hot |-> FALSE]}
  BY <1>3 DEF Offer, C
<1> HIDE DEF found
<1> QED
  BY <1>1, <1>2, <1>4

(* Whoever has grabbed what, and wherever the mouse is: a key that nobody  *)
(* reserves and that a client selected in the focus window is heard, in    *)
(* the focus window or in one inside it.                                   *)
THEOREM FocusHeard == KeySpec => FocusHearsKeys
<1> DEFINE Heard == \A key \in Keys :
          (Exclusive(key) = {} /\ GsDeliverKeyboardEvent(key, NoWin)
             /\ \E c \in Clients : "KEY_DOWN" \in sel[focuswp][c])
          => \E e \in keysent' : ~e.hot /\ e.wid \in Below(focuswp, listwp, parent)
<1>1. TypeInv /\ PointersLive /\ SelectionsConnected => Heard
  <2> SUFFICES ASSUME TypeInv, PointersLive, SelectionsConnected, NEW key \in Keys,
                      Exclusive(key) = {}, GsDeliverKeyboardEvent(key, NoWin),
                      NEW c \in Clients, "KEY_DOWN" \in sel[focuswp][c]
               PROVE  \E e \in keysent' : ~e.hot /\ e.wid \in Below(focuswp, listwp, parent)
    OBVIOUS
  <2>1. focuswp \in listwp /\ focuswp \in Wids /\ c \in clients
    BY LiveWids DEF PointersLive, SelectionsConnected
  <2>2. PICK offered \in Others(key, NoWin) : offered \subseteq keysent'
    BY DEF GsDeliverKeyboardEvent
  <2>3. offered \in Ordinary(NoWin)
    BY <2>2 DEF Others, Stopper
  <2>4. \E w \in Below(focuswp, listwp, parent) : offered \in Offer(w, focuswp)
    <3>1. CASE focuswp \in UpFrom(mousewp)
      BY <2>1, <2>3, <3>1 DEF Ordinary, UpFrom
    <3>2. CASE focuswp \notin UpFrom(mousewp)
      BY <2>1, <2>3, <3>2, BelowSelf DEF Ordinary
    <3> QED
      BY <3>1, <3>2
  <2> QED
    BY <2>1, <2>2, <2>4, OfferHeard
<1>2. KeySpec => [](TypeInv /\ PointersLive /\ SelectionsConnected)
  BY KeyboardImplementsWindows, WindowsImplementTree, TypesCorrect, PointersCorrect,
     SelectionsCorrect, PTL
<1> QED
  BY <1>1, <1>2, PTL DEF KeySpec, FocusHearsKeys
=============================================================================
