--------------------------- MODULE NxWindowsProofs ---------------------------
(***************************************************************************)
(* Proofs about the window tree of the nano-X server, and about its        *)
(* pointers into the tree.                                                 *)
(*                                                                         *)
(* First the tree alone (TreeSpec): type correctness, live parents,        *)
(* sibling chains that stay total orders, one rooted tree, and a realized  *)
(* flag that means what it says, for any number of windows and clients.    *)
(* Then the server with pointer and focus (Spec): it implements the tree,  *)
(* so that what is shown of the tree holds of it, and the pointers are     *)
(* added to it.                                                            *)
(***************************************************************************)
EXTENDS NxWindows, FiniteSetTheorems, TLAPS

(***************************************************************************)
(* The recursive walks of the code: Below(w, M, p) is the least set that   *)
(* holds w and is closed under children in M.                              *)
(***************************************************************************)
LEMMA BelowLive ==
    ASSUME NEW w, NEW M, NEW p
    PROVE  Below(w, M, p) \subseteq listwp
BY DEF Below

LEMMA BelowSelf ==
    ASSUME NEW w \in listwp, NEW M, NEW p
    PROVE  w \in Below(w, M, p)
BY DEF Below

LEMMA BelowClosed ==
    ASSUME NEW w, NEW M \in SUBSET listwp, NEW p,
           NEW c \in M, p[c] \in Below(w, M, p)
    PROVE  c \in Below(w, M, p)
BY DEF Below, Closed

LEMMA BelowLeast ==
    ASSUME NEW w, NEW M, NEW p,
           NEW S \in SUBSET listwp, w \in S, Closed(S, M, p)
    PROVE  Below(w, M, p) \subseteq S
BY DEF Below

(* Whatever a walk reaches other than its start, it reached from a parent. *)
LEMMA BelowUp ==
    ASSUME NEW w \in listwp, NEW M \in SUBSET listwp, NEW p,
           NEW d \in Below(w, M, p), d # w
    PROVE  d \in M /\ p[d] \in Below(w, M, p)
<1> DEFINE S == Below(w, M, p) \ {d}
<1> SUFFICES ASSUME ~(d \in M /\ p[d] \in Below(w, M, p)) PROVE FALSE
  OBVIOUS
<1>1. S \in SUBSET listwp /\ w \in S
  BY BelowLive, BelowSelf
<1>2. Closed(S, M, p)
  <2> SUFFICES ASSUME NEW c \in M, p[c] \in S PROVE c \in S
    BY DEF Closed
  <2>1. c \in Below(w, M, p)
    BY BelowClosed
  <2>2. c # d
    OBVIOUS
  <2> QED BY <2>1, <2>2
<1>3. Below(w, M, p) \subseteq S
  BY <1>1, <1>2, BelowLeast
<1> QED BY <1>3

LEMMA BelowTransitive ==
    ASSUME NEW w, NEW M \in SUBSET listwp, NEW p, NEW a \in Below(w, M, p)
    PROVE  Below(a, M, p) \subseteq Below(w, M, p)
<1>1. Closed(Below(w, M, p), M, p)
  BY BelowClosed DEF Closed
<1> QED BY <1>1, BelowLive, BelowLeast

-----------------------------------------------------------------------------
(***************************************************************************)
(* The flags.  Viewable(R, L, M, p): R is exactly the mapped windows of L  *)
(* whose parent is in R, with the root.                                    *)
(***************************************************************************)
Viewable(R, L, M, p) ==
    /\ Root \in R
    /\ R \subseteq L
    /\ \A v \in L \ {Root} : v \in R <=> v \in M /\ p[v] \in R

(* The same, but w and what is below it are off the screen.                *)
HiddenAt(w, R, M, p) ==
    /\ Root \in R
    /\ R \subseteq listwp
    /\ w \notin R
    /\ \A v \in listwp \ {Root, w} : v \in R <=> v \in M /\ p[v] \in R

(* Unrealizing w hides it and changes nothing else that matters.           *)
LEMMA UnrealizeHides ==
    ASSUME NEW w \in listwp \ {Root}, NEW M \in SUBSET listwp, NEW p,
           NEW R, Viewable(R, listwp, M, p), p[Root] \notin listwp
    PROVE  /\ HiddenAt(w, Unrealize(w, R, p), M, p)
           /\ Unrealize(w, R, p) \subseteq R
           /\ Unrealize(w, R, p) \cap Below(w, R, p) = {}
<1> R \in SUBSET listwp
  BY DEF Viewable
<1>1. CASE w \notin R
  <2>1. Below(w, R, p) \subseteq {w}
    <3>1. Closed({w}, R, p)
      BY <1>1 DEF Closed, Viewable
    <3> QED BY <3>1, BelowLeast
  <2> QED BY <1>1, <2>1 DEF Unrealize, HiddenAt, Viewable
<1>2. CASE w \in R
  <2> DEFINE B == Below(w, R, p)
             U == R \ B
  <2>1. Unrealize(w, R, p) = U
    BY <1>2 DEF Unrealize
  <2>2. w \in B
    BY BelowSelf
  <2>3. Root \in U
    <3>1. Root \notin B
      BY BelowUp, BelowLive
    <3> QED BY <3>1 DEF Viewable
  <2>4. ASSUME NEW v \in listwp \ {Root, w}
        PROVE  v \in U <=> v \in M /\ p[v] \in U
    <3>1. v \in B => v \in R /\ p[v] \in B
      BY BelowUp
    <3>2. v \in R /\ p[v] \in B => v \in B
      BY BelowClosed
    <3> HIDE DEF B
    <3> QED BY <3>1, <3>2 DEF Viewable
  <2>5. B = Below(w, R, p)
    OBVIOUS
  <2> HIDE DEF B
  <2> QED BY <2>1, <2>2, <2>3, <2>4, <2>5 DEF HiddenAt
<1> QED BY <1>1, <1>2

(* Realizing a hidden w brings back exactly what is viewable.              *)
LEMMA RealizeShows ==
    ASSUME NEW w \in listwp \ {Root}, NEW M \in SUBSET listwp, NEW p,
           NEW R, HiddenAt(w, R, M, p)
    PROVE  Viewable(Realize(w, R, M, p), listwp, M, p)
<1> R \in SUBSET listwp
  BY DEF HiddenAt
<1>1. CASE ~(w \in M /\ p[w] \in R)
  <2>1. Realize(w, R, M, p) = R
    BY <1>1 DEF Realize
  <2> QED BY <1>1, <2>1 DEF Viewable, HiddenAt
<1>2. CASE w \in M /\ p[w] \in R
  <2> DEFINE B == Below(w, M \ R, p)
             N == R \cup B
  <2>1. Realize(w, R, M, p) = N
    BY <1>2 DEF Realize, HiddenAt
  <2>2. w \in B /\ B \subseteq listwp
    BY BelowSelf, BelowLive
  <2>3. ASSUME NEW v \in B, v # w
        PROVE  v \in M \ R /\ p[v] \in B
    BY <2>3, BelowUp
  <2>4. ASSUME NEW v \in M \ R, p[v] \in B
        PROVE  v \in B
    BY <2>4, BelowClosed
  <2>5. ASSUME NEW v \in listwp \ {Root}
        PROVE  v \in N <=> v \in M /\ p[v] \in N
    <3> HIDE DEF B
    <3>1. CASE v = w
      BY <3>1, <1>2, <2>2
    <3>2. CASE v # w
      BY <3>2, <2>3, <2>4 DEF HiddenAt
    <3> QED BY <3>1, <3>2
  <2> HIDE DEF B
  <2> QED BY <2>1, <2>2, <2>5 DEF Viewable, HiddenAt
<1> QED BY <1>1, <1>2

LEMMA FlagsLive ==
    ASSUME NEW w \in listwp, NEW R \in SUBSET listwp, NEW M \in SUBSET listwp, NEW p
    PROVE  Unrealize(w, R, p) \subseteq R /\ Realize(w, R, M, p) \subseteq listwp
BY BelowLive DEF Unrealize, Realize

-----------------------------------------------------------------------------
(* Type correctness, and windows owned by connected clients only.          *)
TypeInv == TreeTypeOK /\ ParentsLive /\ OwnersConnected

LEMMA TypeInit == TreeInit => TypeInv
BY TreeAssumption DEF TreeInit, TypeInv, TreeTypeOK, ParentsLive, OwnersConnected,
    Root, NoWin, Wids

LEMMA DestroyKeepsTypes ==
    ASSUME TypeInv, NEW w \in listwp, DestroyWindow(w)
    PROVE  TypeInv'
<1> DEFINE gone == Below(w, listwp, parent)
<1> USE TreeAssumption
<1>1. gone \subseteq listwp
  BY BelowLive
<1>2. \A c \in listwp : parent[c] \in gone => c \in gone
  BY BelowClosed
<1>3. Root \notin gone
  <2>1. parent[Root] \notin gone
    BY <1>1 DEF TypeInv, TreeTypeOK, ParentsLive, NoWin
  <2> QED BY <2>1, BelowUp DEF DestroyWindow, Gone
<1>4. Unrealize(w, realized, parent) \subseteq realized
  BY FlagsLive DEF TypeInv, TreeTypeOK
<1>5. TreeTypeOK'
  <2>1. listwp' \subseteq listwp /\ nextid' = nextid
    BY DEF DestroyWindow, Gone
  <2>2. parent' \in [Wids -> Wids \cup {NoWin}] /\ owner' \in [Wids -> Clients \cup {NoClient}]
    BY DEF DestroyWindow, Gone, TypeInv, TreeTypeOK
  <2>3. above' \subseteq listwp' \X listwp'
    BY <1>1 DEF DestroyWindow, Gone, TypeInv, TreeTypeOK
  <2>4. mapped' \subseteq listwp' /\ realized' \subseteq listwp' /\ output' \subseteq listwp'
    BY <1>4 DEF DestroyWindow, Gone, TypeInv, TreeTypeOK
  <2> QED BY <2>1, <2>2, <2>3, <2>4 DEF DestroyWindow, Gone, TypeInv, TreeTypeOK
<1>6. listwp \subseteq Wids
  BY DEF TypeInv, TreeTypeOK, Wids
<1>7. ParentsLive'
  <2> HIDE DEF gone
  <2> QED BY <1>1, <1>2, <1>3, <1>6 DEF DestroyWindow, Gone, TypeInv, ParentsLive, gone
<1>8. OwnersConnected'
  <2> HIDE DEF gone
  <2> QED BY <1>1, <1>6 DEF DestroyWindow, Gone, TypeInv, OwnersConnected, gone
<1> QED BY <1>5, <1>7, <1>8 DEF TypeInv

LEMMA TypeStep == TypeInv /\ [TreeNext]_treeVars => TypeInv'
<1> SUFFICES ASSUME TypeInv, [TreeNext]_treeVars PROVE TypeInv'
  OBVIOUS
<1> USE TreeAssumption DEF Wids, Root, NoWin
<1>1. ASSUME NEW c \in Clients, GsAcceptClientFd(c) PROVE TypeInv'
  BY <1>1 DEF GsAcceptClientFd, TypeInv, TreeTypeOK, ParentsLive, OwnersConnected
<1>2. ASSUME NEW c \in Clients, NEW p \in Wids,
             TreeGrNewWindow(c, p) \/ TreeGrNewInputWindow(c, p)
      PROVE  TypeInv'
  <2>1. NewWindow(c, p) /\ output' \subseteq output \cup {nextid}
    BY <1>2 DEF TreeGrNewWindow, TreeGrNewInputWindow
  <2>2. TreeTypeOK'
    BY <2>1 DEF NewWindow, FrontOf, Kids, TypeInv, TreeTypeOK
  <2>3. ParentsLive' /\ OwnersConnected'
    BY <2>1 DEF NewWindow, TypeInv, TreeTypeOK, ParentsLive, OwnersConnected
  <2> QED BY <2>2, <2>3 DEF TypeInv
<1>3. ASSUME NEW w \in Wids, TreeGrMapWindow(w) PROVE TypeInv'
  <2>1. realized' \subseteq listwp
    BY <1>3, FlagsLive DEF TreeGrMapWindow, TypeInv, TreeTypeOK
  <2> QED BY <1>3, <2>1 DEF TreeGrMapWindow, TypeInv, TreeTypeOK, ParentsLive, OwnersConnected
<1>4. ASSUME NEW w \in Wids, TreeGrUnmapWindow(w) PROVE TypeInv'
  <2>1. realized' \subseteq listwp
    BY <1>4, FlagsLive DEF TreeGrUnmapWindow, TypeInv, TreeTypeOK
  <2> QED BY <1>4, <2>1 DEF TreeGrUnmapWindow, TypeInv, TreeTypeOK, ParentsLive, OwnersConnected
<1>5. ASSUME NEW w \in Wids, TreeGrRaiseWindow(w) \/ TreeGrLowerWindow(w) PROVE TypeInv'
  <2>1. above' \subseteq listwp \X listwp
    BY <1>5 DEF TreeGrRaiseWindow, TreeGrLowerWindow, Unlinked, FrontOf, BackOf, Kids,
        TypeInv, TreeTypeOK
  <2> QED BY <1>5, <2>1 DEF TreeGrRaiseWindow, TreeGrLowerWindow, TypeInv, TreeTypeOK,
        ParentsLive, OwnersConnected
<1>6. ASSUME NEW w \in Wids, TreeRemap(w) PROVE TypeInv'
  <2>1. realized' \subseteq listwp
    BY <1>6, FlagsLive DEF TreeRemap, Remap, TypeInv, TreeTypeOK
  <2> QED BY <1>6, <2>1 DEF TreeRemap, TypeInv, TreeTypeOK, ParentsLive, OwnersConnected
<1>7. ASSUME NEW w \in Wids, TreeGrDestroyWindow(w) PROVE TypeInv'
  BY <1>7, DestroyKeepsTypes DEF TreeGrDestroyWindow
<1>8. ASSUME NEW w \in Wids, TreeDestroyOwned(w) PROVE TypeInv'
  BY <1>8, DestroyKeepsTypes DEF TreeDestroyOwned, Owned
<1>9. ASSUME NEW c, TreeGsClose(c) PROVE TypeInv'
  BY <1>9 DEF TreeGsClose, TypeInv, TreeTypeOK, ParentsLive, OwnersConnected
<1>10. ASSUME NEW w \in Wids, NEW p \in Wids, TreeGrReparentWindow(w, p) PROVE TypeInv'
  <2>1. realized' \subseteq listwp
    BY <1>10, FlagsLive DEF TreeGrReparentWindow, TypeInv, TreeTypeOK
  <2>2. above' \subseteq listwp \X listwp
    BY <1>10 DEF TreeGrReparentWindow, Unlinked, FrontOf, Kids, TypeInv, TreeTypeOK
  <2>3. TreeTypeOK'
    BY <1>10, <2>1, <2>2 DEF TreeGrReparentWindow, TypeInv, TreeTypeOK
  <2>4. ParentsLive' /\ OwnersConnected'
    BY <1>10 DEF TreeGrReparentWindow, TypeInv, TreeTypeOK, ParentsLive, OwnersConnected
  <2> QED BY <2>3, <2>4 DEF TypeInv
<1>11. ASSUME TreeDropDone PROVE TypeInv'
  BY <1>11 DEF TreeDropDone, Owned, TypeInv, TreeTypeOK, ParentsLive, OwnersConnected
<1>12. ASSUME UNCHANGED treeVars PROVE TypeInv'
  BY <1>12 DEF treeVars, TypeInv, TreeTypeOK, ParentsLive, OwnersConnected
<1> QED BY <1>1, <1>2, <1>3, <1>4, <1>5, <1>6, <1>7, <1>8, <1>9, <1>10, <1>11, <1>12
        DEF TreeNext, TreeGrKillWindow

(* The types of the window tree, parent pointers to live windows and       *)
(* owners that are still connected hold in every state.                    *)
THEOREM TypesCorrect == TreeSpec => []TypeInv
BY TypeInit, TypeStep, PTL DEF TreeSpec

THEOREM TreeTypeCorrect == TreeSpec => []TreeTypeOK
BY TypesCorrect, PTL DEF TypeInv

(* Parent pointers never lead to a freed window.                           *)
THEOREM ParentsLiveCorrect == TreeSpec => []ParentsLive
BY TypesCorrect, PTL DEF TypeInv

(* A client that was dropped owns no window.                               *)
THEOREM DropLeavesNothing == TreeSpec => []OwnersConnected
BY TypesCorrect, PTL DEF TypeInv

-----------------------------------------------------------------------------
(* The realized flag.                                                      *)
Flags == Viewable(realized, listwp, mapped, parent)

(* What is destroyed with w has no surviving child and is not the root.    *)
LEMMA GoneIsClosed ==
    ASSUME TypeInv, NEW w \in listwp \ {Root}
    PROVE  LET gone == Below(w, listwp, parent) IN
           /\ w \in gone
           /\ gone \subseteq listwp
           /\ Root \notin gone
           /\ \A v \in listwp \ gone : parent[v] \notin gone
<1> DEFINE gone == Below(w, listwp, parent)
<1>1. w \in gone /\ gone \subseteq listwp
  BY BelowSelf, BelowLive
<1>2. Root \notin gone
  <2>1. parent[Root] \notin listwp
    BY DEF TypeInv, TreeTypeOK, ParentsLive, NoWin
  <2> QED BY <2>1, <1>1, BelowUp
<1>3. \A v \in listwp \ gone : parent[v] \notin gone
  BY BelowClosed
<1> QED BY <1>1, <1>2, <1>3

LEMMA DestroyKeepsFlags ==
    ASSUME TypeInv, Flags, NEW w \in listwp, DestroyWindow(w)
    PROVE  Flags'
<1> DEFINE gone == Below(w, listwp, parent)
           U    == Unrealize(w, realized, parent)
<1>1. w # Root
  BY DEF DestroyWindow, Gone
<1>2. HiddenAt(w, U, mapped, parent)
  <2>1. parent[Root] \notin listwp
    BY DEF TypeInv, TreeTypeOK, ParentsLive, NoWin
  <2> QED BY <1>1, <2>1, UnrealizeHides DEF Flags, TypeInv, TreeTypeOK
<1>3. w \in gone /\ Root \notin gone /\ \A v \in listwp \ gone : parent[v] \notin gone
  BY <1>1, GoneIsClosed
<1>4. listwp' = listwp \ gone /\ realized' = U \ gone /\ mapped' = mapped \ gone
  BY DEF DestroyWindow, Gone
<1>5. \A v \in listwp' : parent'[v] = parent[v]
  BY <1>4, TreeAssumption DEF DestroyWindow, Gone, TypeInv, TreeTypeOK, Wids
<1> HIDE DEF gone, U
<1> QED BY <1>2, <1>3, <1>4, <1>5 DEF Flags, Viewable, HiddenAt

LEMMA FlagsStep == TypeInv /\ Flags /\ [TreeNext]_treeVars => Flags'
<1> SUFFICES ASSUME TypeInv, Flags, [TreeNext]_treeVars PROVE Flags'
  OBVIOUS
<1> USE TreeAssumption
<1>a. parent[Root] \notin listwp /\ mapped \in SUBSET listwp /\ realized \in SUBSET listwp
  BY DEF TypeInv, TreeTypeOK, ParentsLive, NoWin
<1>b. ASSUME UNCHANGED <<listwp, mapped, realized, parent>> PROVE Flags'
  BY <1>b DEF Flags, Viewable
<1>1. ASSUME NEW c \in Clients, NEW p \in Wids, NewWindow(c, p) PROVE Flags'
  <2>1. nextid \notin listwp /\ nextid # Root
    BY DEF TypeInv, TreeTypeOK, Root
  <2>2. /\ listwp' = listwp \cup {nextid}
        /\ \A v \in listwp : parent'[v] = parent[v]
        /\ mapped' = mapped /\ realized' = realized
    BY <1>1, <2>1 DEF NewWindow, TypeInv, TreeTypeOK, Wids
  <2> QED BY <1>a, <2>1, <2>2 DEF Flags, Viewable
<1>2. ASSUME NEW w \in Wids, TreeGrMapWindow(w) PROVE Flags'
  <2>1. /\ w \in listwp \ mapped /\ mapped' = mapped \cup {w}
        /\ listwp' = listwp /\ parent' = parent
        /\ realized' = Realize(w, realized, mapped', parent)
    BY <1>2 DEF TreeGrMapWindow
  <2>2. CASE w = Root
    BY <2>1, <2>2 DEF Flags, Viewable, Realize
  <2>3. CASE w # Root
    <3>1. HiddenAt(w, realized, mapped', parent)
      BY <2>1, <2>3, <1>a DEF HiddenAt, Flags, Viewable
    <3>2. Viewable(realized', listwp, mapped', parent)
      BY <3>1, <2>1, <2>3, <1>a, RealizeShows
    <3> QED BY <3>2, <2>1 DEF Flags
  <2> QED BY <2>2, <2>3
<1>3. ASSUME NEW w \in Wids, TreeGrUnmapWindow(w) PROVE Flags'
  <2>1. /\ w \in mapped /\ mapped' = mapped \ {w}
        /\ listwp' = listwp /\ parent' = parent
        /\ realized' = Unrealize(w, realized, parent)
    BY <1>3 DEF TreeGrUnmapWindow
  <2>2. CASE w = Root
    BY <2>1, <2>2 DEF Flags, Viewable, Unrealize
  <2>3. CASE w # Root
    <3>1. HiddenAt(w, realized', mapped, parent)
      BY <2>1, <2>3, <1>a, UnrealizeHides DEF Flags
    <3> QED BY <3>1, <2>1, <2>3 DEF Flags, Viewable, HiddenAt
  <2> QED BY <2>2, <2>3
<1>4. ASSUME NEW w \in Wids, TreeRemap(w) PROVE Flags'
  <2>1. /\ w \in listwp \ {Root} /\ UNCHANGED <<listwp, mapped, parent>>
        /\ realized' = Realize(w, Unrealize(w, realized, parent), mapped, parent)
    BY <1>4 DEF TreeRemap, Remap
  <2>2. HiddenAt(w, Unrealize(w, realized, parent), mapped, parent)
    BY <2>1, <1>a, UnrealizeHides DEF Flags
  <2>3. Viewable(realized', listwp, mapped, parent)
    BY <2>1, <2>2, <1>a, RealizeShows
  <2> QED BY <2>1, <2>3 DEF Flags
<1>5. ASSUME NEW w \in Wids, NEW p \in Wids, TreeGrReparentWindow(w, p) PROVE Flags'
  <2> DEFINE U == Unrealize(w, realized, parent)
  <2>1. /\ w \in listwp \ {Root} /\ UNCHANGED <<listwp, mapped>>
        /\ parent' = [parent EXCEPT ![w] = p]
        /\ realized' = Realize(w, U, mapped, parent')
    BY <1>5 DEF TreeGrReparentWindow
  <2>2. HiddenAt(w, U, mapped, parent)
    BY <2>1, <1>a, UnrealizeHides DEF Flags
  <2> HIDE DEF U
  <2>3. HiddenAt(w, U, mapped, parent')
    BY <2>1, <2>2 DEF HiddenAt, TypeInv, TreeTypeOK, Wids
  <2>4. Viewable(realized', listwp, mapped, parent')
    BY <2>1, <2>3, <1>a, RealizeShows
  <2> QED BY <2>1, <2>4 DEF Flags
<1>6. ASSUME NEW w \in Wids, TreeGrDestroyWindow(w) \/ TreeDestroyOwned(w) PROVE Flags'
  BY <1>6, DestroyKeepsFlags DEF TreeGrDestroyWindow, TreeDestroyOwned, Owned
<1> QED BY <1>b, <1>1, <1>2, <1>3, <1>4, <1>5, <1>6
        DEF TreeNext, treeVars, GsAcceptClientFd, TreeGsClose, TreeGrKillWindow, TreeDropDone,
            TreeGrNewWindow, TreeGrNewInputWindow, TreeGrRaiseWindow, TreeGrLowerWindow

(* The realized flag that GsRealizeWindow and GsUnrealizeWindow keep piece *)
(* by piece is set exactly when a window is mapped under a realized one.   *)
THEOREM RealizedCorrect == TreeSpec => []RealizedIffViewable
<1>1. TreeInit => Flags
  BY DEF TreeInit, Flags, Viewable
<1>2. Flags => RealizedIffViewable
  BY DEF Flags, Viewable, RealizedIffViewable
<1> QED BY <1>1, <1>2, FlagsStep, TypesCorrect, PTL DEF TreeSpec

-----------------------------------------------------------------------------
(* One tree: every set of windows that holds the root and the children of  *)
(* its members holds all windows.                                          *)
Connected ==
    \A S \in SUBSET listwp : Root \in S /\ Closed(S, listwp, parent) => listwp \subseteq S

LEMMA ConnectedIsRooted == Rooted <=> Connected
BY DEF Rooted, Connected, Below

LEMMA DestroyKeepsConnected ==
    ASSUME TypeInv, Connected, NEW w \in listwp, DestroyWindow(w)
    PROVE  Connected'
<1> DEFINE gone == Below(w, listwp, parent)
<1> SUFFICES ASSUME NEW S \in SUBSET listwp', Root \in S, Closed(S, listwp', parent')
             PROVE  listwp' \subseteq S
  BY DEF Connected
<1>1. gone \subseteq listwp /\ listwp' = listwp \ gone
  BY BelowLive DEF DestroyWindow, Gone
<1>2. \A v \in listwp' : parent'[v] = parent[v]
  BY TreeAssumption, <1>1 DEF DestroyWindow, Gone, TypeInv, TreeTypeOK, Wids
<1>3. \A v \in listwp : parent[v] \in gone => v \in gone
  BY BelowClosed
<1> HIDE DEF gone
<1>4. Closed(S \cup gone, listwp, parent)
  BY <1>1, <1>2, <1>3 DEF Closed
<1>5. listwp \subseteq S \cup gone
  BY <1>1, <1>4 DEF Connected
<1> QED BY <1>1, <1>5

LEMMA ReparentKeepsConnected ==
    ASSUME TypeInv, Connected, NEW w \in Wids, NEW p \in Wids, TreeGrReparentWindow(w, p)
    PROVE  Connected'
<1> DEFINE B == Below(w, listwp, parent)
<1> SUFFICES ASSUME NEW S \in SUBSET listwp, Root \in S, Closed(S, listwp, parent')
             PROVE  listwp \subseteq S
  BY DEF Connected, TreeGrReparentWindow
<1>1. w \in listwp \ {Root} /\ p \in listwp \ B /\ w \in B
  BY BelowSelf DEF TreeGrReparentWindow
<1>2. parent'[w] = p /\ \A v \in Wids \ {w} : parent'[v] = parent[v]
  BY DEF TreeGrReparentWindow, TypeInv, TreeTypeOK
<1>3. listwp \subseteq Wids
  BY TreeAssumption DEF TypeInv, TreeTypeOK, Wids
<1>4. w \in S
  <2>1. \A v \in listwp : parent[v] \in B => v \in B
    BY BelowClosed
  <2> HIDE DEF B
  <2>2. Closed(S \cup (B \cap listwp), listwp, parent)
    BY <1>1, <1>2, <1>3, <2>1 DEF Closed
  <2>3. listwp \subseteq S \cup B
    BY <2>2 DEF Connected
  <2>4. p \in S
    BY <1>1, <2>3
  <2> QED BY <1>1, <1>2, <2>4 DEF Closed
<1>5. Closed(S, listwp, parent)
  BY <1>2, <1>3, <1>4 DEF Closed
<1> QED BY <1>5 DEF Connected

LEMMA ConnectedStep == TypeInv /\ Connected /\ [TreeNext]_treeVars => Connected'
<1> SUFFICES ASSUME TypeInv, Connected, [TreeNext]_treeVars PROVE Connected'
  OBVIOUS
<1>a. ASSUME UNCHANGED <<listwp, parent>> PROVE Connected'
  BY <1>a DEF Connected, Closed
<1>1. ASSUME NEW c \in Clients, NEW p \in Wids, NewWindow(c, p) PROVE Connected'
  <2> SUFFICES ASSUME NEW S \in SUBSET listwp', Root \in S, Closed(S, listwp', parent')
               PROVE  listwp' \subseteq S
    BY DEF Connected
  <2>1. nextid \notin listwp /\ nextid # Root
    BY DEF TypeInv, TreeTypeOK, Root
  <2>2. /\ listwp' = listwp \cup {nextid} /\ p \in listwp /\ parent'[nextid] = p
        /\ \A v \in listwp : parent'[v] = parent[v]
    BY <1>1, <2>1, TreeAssumption DEF NewWindow, TypeInv, TreeTypeOK, Wids
  <2>3. \A v \in listwp \ {Root} : parent[v] # nextid
    BY <2>1 DEF TypeInv, ParentsLive
  <2>4. Closed(S \cap listwp, listwp, parent)
    BY <2>2 DEF Closed
  <2>5. Root \in listwp
    BY DEF TypeInv, ParentsLive
  <2>6. listwp \subseteq S
    BY <2>4, <2>5 DEF Connected
  <2> QED BY <2>2, <2>6 DEF Closed
<1>2. ASSUME NEW w \in Wids, TreeGrDestroyWindow(w) \/ TreeDestroyOwned(w) PROVE Connected'
  BY <1>2, DestroyKeepsConnected DEF TreeGrDestroyWindow, TreeDestroyOwned, Owned
<1> QED BY <1>a, <1>1, <1>2, ReparentKeepsConnected
        DEF TreeNext, treeVars, GsAcceptClientFd, TreeGsClose, TreeGrKillWindow, TreeDropDone,
            TreeGrNewWindow, TreeGrNewInputWindow, TreeGrRaiseWindow, TreeGrLowerWindow,
            TreeGrMapWindow, TreeGrUnmapWindow, TreeRemap

(* However windows are created, reparented and destroyed, they form one    *)
(* tree under the root: what GrReparentWindow and GsDestroyWindow relink   *)
(* is never cut off from it, so the walks of the event code end there.     *)
THEOREM TreeRooted == TreeSpec => []Rooted
<1>1. TreeInit => Connected
  BY DEF TreeInit, Connected
<1> QED BY <1>1, ConnectedStep, TypesCorrect, ConnectedIsRooted, PTL DEF TreeSpec

-----------------------------------------------------------------------------
(* The sibling chains.                                                     *)
LEMMA StackingStep == TypeInv /\ StackingOrder /\ [TreeNext]_treeVars => StackingOrder'
<1> SUFFICES ASSUME TypeInv, StackingOrder, [TreeNext]_treeVars PROVE StackingOrder'
  OBVIOUS
<1> USE TreeAssumption
<1>a. ASSUME UNCHANGED <<listwp, parent, above>> PROVE StackingOrder'
  BY <1>a DEF StackingOrder
<1>b. above \subseteq listwp \X listwp /\ listwp \subseteq Wids /\ parent \in [Wids -> Wids \cup {NoWin}]
  BY DEF TypeInv, TreeTypeOK, Wids
<1>1. ASSUME NEW c \in Clients, NEW p \in Wids, NewWindow(c, p) PROVE StackingOrder'
  <2>1. nextid \notin listwp /\ nextid \in Wids
    BY <1>1 DEF TypeInv, TreeTypeOK, Wids, NewWindow
  <2>2. /\ listwp' = listwp \cup {nextid}
        /\ parent'[nextid] = p
        /\ \A v \in listwp : parent'[v] = parent[v]
    BY <1>1, <1>b, <2>1 DEF NewWindow
  <2>3. \A a, b \in listwp' : <<a, b>> \in above' <=>
            \/ <<a, b>> \in above
            \/ a = nextid /\ b \in listwp /\ parent[b] = p
    BY <1>1, <2>1, <2>2 DEF NewWindow, FrontOf, Kids
  <2>4. \A a, b : <<a, b>> \in above => a \in listwp /\ b \in listwp
    BY <1>b
  <2> QED BY <2>1, <2>2, <2>3, <2>4 DEF StackingOrder
<1>2. ASSUME NEW w \in Wids, TreeGrRaiseWindow(w) PROVE StackingOrder'
  <2>1. w \in listwp /\ listwp' = listwp /\ parent' = parent
    BY <1>2 DEF TreeGrRaiseWindow
  <2>2. \A a, b \in listwp : <<a, b>> \in above' <=>
            \/ a # w /\ b # w /\ <<a, b>> \in above
            \/ a = w /\ b # w /\ parent[b] = parent[w]
    BY <1>2 DEF TreeGrRaiseWindow, Unlinked, FrontOf, Kids
  <2> QED BY <2>1, <2>2 DEF StackingOrder
<1>3. ASSUME NEW w \in Wids, TreeGrLowerWindow(w) PROVE StackingOrder'
  <2>1. w \in listwp /\ listwp' = listwp /\ parent' = parent
    BY <1>3 DEF TreeGrLowerWindow
  <2>2. \A a, b \in listwp : <<a, b>> \in above' <=>
            \/ a # w /\ b # w /\ <<a, b>> \in above
            \/ b = w /\ a # w /\ parent[a] = parent[w]
    BY <1>3 DEF TreeGrLowerWindow, Unlinked, BackOf, Kids
  <2> QED BY <2>1, <2>2 DEF StackingOrder
<1>4. ASSUME NEW w \in Wids, NEW p \in Wids, TreeGrReparentWindow(w, p) PROVE StackingOrder'
  <2>1. /\ w \in listwp /\ listwp' = listwp /\ p # w
        /\ parent'[w] = p
        /\ \A v \in listwp \ {w} : parent'[v] = parent[v]
    BY <1>4, <1>b, BelowSelf DEF TreeGrReparentWindow
  <2>2. \A a, b \in listwp : <<a, b>> \in above' <=>
            \/ a # w /\ b # w /\ <<a, b>> \in above
            \/ a = w /\ b # w /\ parent[b] = p
    BY <1>4 DEF TreeGrReparentWindow, Unlinked, FrontOf, Kids
  <2> QED BY <2>1, <2>2 DEF StackingOrder
<1>5. ASSUME NEW w \in Wids, DestroyWindow(w) PROVE StackingOrder'
  <2> DEFINE gone == Below(w, listwp, parent)
  <2>1. /\ listwp' = listwp \ gone
        /\ above' = {e \in above : e[1] \notin gone /\ e[2] \notin gone}
        /\ parent' = [v \in Wids |-> IF v \in gone THEN NoWin ELSE parent[v]]
    BY <1>5 DEF DestroyWindow, Gone
  <2> HIDE DEF gone
  <2>2. \A a, b \in listwp' : <<a, b>> \in above' <=> <<a, b>> \in above
    BY <2>1
  <2>3. \A v \in listwp' : parent'[v] = parent[v]
    BY <2>1, <1>b
  <2> QED BY <2>1, <2>2, <2>3 DEF StackingOrder
<1> QED BY <1>a, <1>1, <1>2, <1>3, <1>4, <1>5
        DEF TreeNext, treeVars, GsAcceptClientFd, TreeGsClose, TreeGrKillWindow, TreeDropDone,
            TreeGrNewWindow, TreeGrNewInputWindow, TreeGrMapWindow, TreeGrUnmapWindow,
            TreeRemap, TreeGrDestroyWindow, TreeDestroyOwned

(* Each sibling chain stays a strict total order of exactly the windows    *)
(* with that parent, through every raise, lower, reparent and destroy.     *)
THEOREM StackingCorrect == TreeSpec => []StackingOrder
<1>1. TreeInit => StackingOrder
  BY DEF TreeInit, StackingOrder
<1> QED BY <1>1, StackingStep, TypesCorrect, PTL DEF TreeSpec

OneMoves == \E w \in Wids :
               \A a, b \in (listwp \cap listwp') \ {w} :
                   <<a, b>> \in above <=> <<a, b>> \in above'

LEMMA OrderStep == TypeInv /\ [TreeNext]_treeVars => [OneMoves]_treeVars
<1> SUFFICES ASSUME TypeInv, TreeNext PROVE OneMoves
  BY DEF treeVars
<1>0. Root \in Wids
  BY TreeAssumption DEF Root, Wids
<1>a. ASSUME above' = above PROVE OneMoves
  BY <1>a, <1>0 DEF OneMoves
<1>1. ASSUME NEW c \in Clients, NEW p \in Wids, NewWindow(c, p) PROVE OneMoves
  <2>1. nextid \in Wids
    BY <1>1 DEF NewWindow, Wids, TypeInv, TreeTypeOK
  <2>2. \A a, b \in listwp \ {nextid} : <<a, b>> \in above <=> <<a, b>> \in above'
    BY <1>1 DEF NewWindow, FrontOf
  <2> QED BY <2>1, <2>2 DEF OneMoves
<1>2. ASSUME NEW w \in Wids,
             \/ TreeGrRaiseWindow(w)
             \/ TreeGrLowerWindow(w)
             \/ \E p \in Wids : TreeGrReparentWindow(w, p)
      PROVE  OneMoves
  <2>1. \A a, b \in listwp \ {w} : <<a, b>> \in above <=> <<a, b>> \in above'
    BY <1>2 DEF TreeGrRaiseWindow, TreeGrLowerWindow, TreeGrReparentWindow,
        Unlinked, FrontOf, BackOf
  <2> QED BY <2>1 DEF OneMoves
<1>3. ASSUME NEW w \in Wids, DestroyWindow(w) PROVE OneMoves
  <2> DEFINE gone == Below(w, listwp, parent)
  <2>1. /\ listwp' = listwp \ gone
        /\ above' = {e \in above : e[1] \notin gone /\ e[2] \notin gone}
    BY <1>3 DEF DestroyWindow, Gone
  <2> HIDE DEF gone
  <2>2. \A a, b \in listwp' : <<a, b>> \in above <=> <<a, b>> \in above'
    BY <2>1
  <2> QED BY <2>2, <1>3 DEF OneMoves
<1> QED BY <1>a, <1>1, <1>2, <1>3
        DEF TreeNext, GsAcceptClientFd, TreeGsClose, TreeGrKillWindow, TreeDropDone,
            TreeGrNewWindow, TreeGrNewInputWindow, TreeGrMapWindow, TreeGrUnmapWindow,
            TreeRemap, TreeGrDestroyWindow, TreeDestroyOwned

(* No request changes the relative order of more than one window among its *)
(* siblings: relinking the chains loses and swaps nobody else.             *)
THEOREM OrderKept == TreeSpec => OthersKeepOrder
<1>1. TypeInv /\ [TreeNext]_treeVars =>
        [\E w \in Wids : \A a, b \in (listwp \cap listwp') \ {w} :
             <<a, b>> \in above <=> <<a, b>> \in above']_treeVars
  BY OrderStep DEF OneMoves
<1> QED BY <1>1, TypesCorrect, PTL DEF TreeSpec, OthersKeepOrder

-----------------------------------------------------------------------------
(***************************************************************************)
(* The server with its pointer and focus.                                  *)
(***************************************************************************)

(***************************************************************************)
(* Every request and device event acts on the tree as NxTree says, or      *)
(* leaves it alone.                                                        *)
(***************************************************************************)
LEMMA StepOnTree == [Next]_vars => [TreeNext]_treeVars
<1> SUFFICES ASSUME Next PROVE TreeNext \/ UNCHANGED treeVars
  BY DEF vars
<1>1. ASSUME NEW c \in Clients,
             \/ Accept(c)
             \/ GsClose(c)
             \/ \E p \in Wids, nx \in Cells, size \in Sizes :
                   GrNewWindow(c, p, nx, size) \/ GrNewInputWindow(c, p, nx, size)
      PROVE  TreeNext
  BY <1>1 DEF Accept, GsClose, GrNewWindow, GrNewInputWindow, TreeNext
<1>2. ASSUME NEW w \in Wids,
             \/ GrMapWindow(w) \/ GrUnmapWindow(w) \/ GrRaiseWindow(w) \/ GrLowerWindow(w)
             \/ GrDestroyWindow(w) \/ GrKillWindow(w) \/ DestroyOwned(w)
             \/ \E p \in Wids, nx \in Cells : GrReparentWindow(w, p, nx)
      PROVE  TreeNext
  BY <1>2 DEF GrMapWindow, GrUnmapWindow, GrRaiseWindow, GrLowerWindow, GrDestroyWindow,
      GrKillWindow, DestroyOwned, GrReparentWindow, TreeNext
<1>3. ASSUME NEW w \in Wids,
             GrSetWMProperties(w) \/ \E nx \in Cells : GrMoveWindow(w, nx)
      PROVE  TreeNext \/ UNCHANGED treeVars
  BY <1>3 DEF GrSetWMProperties, GrMoveWindow, TreeNext
<1>4. ASSUME NEW w \in Wids,
             \/ GrSetFocus(w)
             \/ \E size \in Sizes : GrResizeWindow(w, size)
             \/ \E c \in Clients, mask \in Masks : GrSelectEvents(c, w, mask)
      PROVE  UNCHANGED treeVars
  BY <1>4 DEF GrSetFocus, GrResizeWindow, GrSelectEvents
<1>5. ASSUME DropDone PROVE TreeNext
  BY <1>5 DEF DropDone, TreeNext
<1>6. ASSUME NEW nx \in Cells,
             GrMoveCursor(nx) \/ \E b \in SUBSET Buttons : GsHandleMouseStatus(nx, b)
      PROVE  UNCHANGED treeVars
  BY <1>6 DEF GrMoveCursor, GsHandleMouseStatus
<1> QED BY <1>1, <1>2, <1>3, <1>4, <1>5, <1>6 DEF Next

(* The server with its pointer and focus is an implementation of the       *)
(* window tree: all that is proved of the tree alone holds of it.          *)
THEOREM WindowsImplementTree == Spec => TreeSpec
BY StepOnTree, PTL DEF Spec, Init, TreeSpec

-----------------------------------------------------------------------------
(* What the walks return.                                                  *)
LEMMA FindVisibleIn ==
    ASSUME NEW R \in SUBSET listwp, NEW xs, NEW cell, Root \in listwp
    PROVE  FindVisible(R, xs, cell) \in R \cup {Root}
<1> DEFINE hit  == {c \in R : Covers(c, xs, cell)}
           top  == {c \in hit \ {Root} :
                       \A s \in hit \ {c} : parent[s] = parent[c] => <<c, s>> \in above}
           path == Below(Root, top, parent)
           leaf == {v \in path : \A c \in top : parent[c] # v}
<1>1. CASE leaf \subseteq {Root}
  BY <1>1 DEF FindVisible
<1>2. CASE ~(leaf \subseteq {Root})
  <2> DEFINE v == CHOOSE v \in leaf : v # Root
  <2>1. FindVisible(R, xs, cell) = v
    BY <1>2 DEF FindVisible
  <2>2. v \in leaf /\ v # Root
    BY <1>2
  <2>3. top \in SUBSET listwp
    OBVIOUS
  <2>4. v \in path
    BY <2>2
  <2> HIDE DEF v
  <2>5. v \in top
    BY <2>2, <2>3, <2>4, BelowUp
  <2> QED BY <2>1, <2>5
<1> QED BY <1>1, <1>2

LEMMA NearestIn ==
    ASSUME NEW w, NEW C, NEW none
    PROVE  \/ Nearest(w, C, none) = none
           \/ /\ Nearest(w, C, none) \in C
              /\ w \in Below(Nearest(w, C, none), listwp \ C, parent)
<1> DEFINE near == {a \in C : w \in Below(a, listwp \ C, parent)}
<1>1. CASE near = {}
  BY <1>1 DEF Nearest
<1>2. CASE near # {}
  <2>1. Nearest(w, C, none) = CHOOSE a \in near : TRUE
    BY <1>2 DEF Nearest
  <2>2. (CHOOSE a \in near : TRUE) \in near
    BY <1>2
  <2>3. Nearest(w, C, none) \in near
    BY <2>1, <2>2
  <2> QED BY <2>3
<1> QED BY <1>1, <1>2

LEMMA FocusForIn ==
    ASSUME NEW m, NEW s, Root \in listwp
    PROVE  FocusFor(m, s) \in listwp
BY NearestIn DEF FocusFor

LEMMA GrabTargetIn ==
    ASSUME NEW m
    PROVE  GrabTarget(m) \in listwp \cup {NoWin}
<1> DEFINE both == {a \in listwp : \E c \in clients : Grabbing \subseteq sel[a][c]}
<1>1. GrabTarget(m) = Nearest(m, both, NoWin) /\ both \subseteq listwp
  BY DEF GrabTarget
<1> HIDE DEF both
<1> QED BY <1>1, NearestIn

LEMMA FocusAfterIn ==
    ASSUME NEW hidden, NEW m, NEW s, Root \in listwp, focuswp \in listwp
    PROVE  FocusAfter(hidden, m, s) \in listwp
BY FocusForIn DEF FocusAfter

-----------------------------------------------------------------------------
LEMMA PointersStep ==
    TypeInv /\ TypeInv' /\ PointersLive /\ [Next]_vars => PointersLive'
<1> SUFFICES ASSUME TypeInv, TypeInv', PointersLive, [Next]_vars PROVE PointersLive'
  OBVIOUS
<1>a. /\ Root \in listwp /\ Root \in listwp' /\ realized \in SUBSET listwp
      /\ realized' \in SUBSET listwp'
  BY DEF TypeInv, TreeTypeOK, ParentsLive
<1>b. ASSUME listwp \subseteq listwp', UNCHANGED <<mousewp, focuswp, grabbuttonwp>>
      PROVE  PointersLive'
  BY <1>b DEF PointersLive
<1>c. ASSUME UNCHANGED <<listwp, focusfixed, sel, grabbuttonwp>>, Recheck PROVE PointersLive'
  <2>1. mousewp' \in listwp
    BY <1>a, <1>c, FindVisibleIn DEF Recheck
  <2>2. focuswp' \in listwp
    BY <1>a, <1>c, FocusForIn DEF Recheck, Follow, PointersLive
  <2> QED BY <2>1, <2>2, <1>c DEF PointersLive
<1>1. ASSUME NEW c \in Clients, NEW p \in Wids, NEW nx \in Cells, NEW size \in Sizes,
             GrNewWindow(c, p, nx, size) \/ GrNewInputWindow(c, p, nx, size)
      PROVE  PointersLive'
  BY <1>1, <1>b DEF GrNewWindow, GrNewInputWindow, TreeGrNewWindow, TreeGrNewInputWindow,
      NewWindow, Place, pointers
<1>2. ASSUME NEW w \in Wids, GrMapWindow(w) PROVE PointersLive'
  BY <1>2, <1>b, <1>c DEF GrMapWindow, TreeGrMapWindow
<1>3. ASSUME NEW w \in Wids, GrUnmapWindow(w) PROVE PointersLive'
  <2>1. listwp' = listwp /\ grabbuttonwp' = grabbuttonwp
    BY <1>3 DEF GrUnmapWindow, TreeGrUnmapWindow
  <2>2. mousewp' \in listwp
    BY <1>3, <1>a, <2>1, FindVisibleIn DEF GrUnmapWindow, MouseAfter, PointersLive
  <2>3. focuswp' \in listwp
    BY <1>3, <1>a, FocusAfterIn DEF GrUnmapWindow, PointersLive
  <2> QED BY <2>1, <2>2, <2>3 DEF PointersLive
<1>4. ASSUME NEW w \in Wids, NEW nx \in Cells, GrMoveWindow(w, nx) PROVE PointersLive'
  BY <1>4, <1>b, <1>c DEF GrMoveWindow, TreeRemap, treeVars
<1>5. ASSUME NEW w, NEW s, DestroyWindow(w), DestroyEffect(w, s) PROVE PointersLive'
  <2> DEFINE gone   == Below(w, listwp, parent)
             hidden == realized \ Unrealize(w, realized, parent)
             f      == FocusAfter(hidden, MouseAfter(hidden, realized'), s)
  <2>1. listwp' = listwp \ gone
    BY <1>5 DEF DestroyWindow, Gone
  <2>2. mousewp' \in listwp'
    BY <1>5, <1>a, <2>1, FindVisibleIn DEF DestroyEffect
  <2>3. f \in listwp
    BY <1>a, FocusAfterIn DEF PointersLive
  <2>4. focuswp' = IF f \in gone THEN Root ELSE f
    BY <1>5 DEF DestroyEffect, Gone, ResetIf
  <2>5. grabbuttonwp' = IF grabbuttonwp \in gone THEN NoWin ELSE grabbuttonwp
    BY <1>5 DEF DestroyEffect, Gone, ResetIf
  <2> HIDE DEF gone, f
  <2> QED BY <1>a, <2>1, <2>2, <2>3, <2>4, <2>5 DEF PointersLive
<1>6. ASSUME NEW w \in Wids, GrSetFocus(w) PROVE PointersLive'
  BY <1>6, <1>a DEF GrSetFocus, treeVars, PointersLive
<1>7. ASSUME NEW nx \in Cells, GrMoveCursor(nx) PROVE PointersLive'
  BY <1>7, <1>c DEF GrMoveCursor, treeVars
<1>8. ASSUME NEW nx \in Cells, NEW buttons \in SUBSET Buttons,
             GsHandleMouseStatus(nx, buttons)
      PROVE  PointersLive'
  <2>1. listwp' = listwp
    BY <1>8 DEF GsHandleMouseStatus, treeVars
  <2>2. mousewp' \in listwp
    BY <1>8, <1>a, FindVisibleIn DEF GsHandleMouseStatus, PointersLive
  <2>3. focuswp' \in listwp
    BY <1>8, <1>a, FocusForIn DEF GsHandleMouseStatus, Follow, PointersLive
  <2>4. grabbuttonwp' \in listwp \cup {NoWin}
    BY <1>8, GrabTargetIn DEF Ungrabs, GsHandleMouseStatus, PointersLive
  <2> QED BY <2>1, <2>2, <2>3, <2>4 DEF PointersLive
<1>9. ASSUME NEW w \in Wids,
             \/ GrRaiseWindow(w) \/ GrLowerWindow(w) \/ GrKillWindow(w) \/ GrSetWMProperties(w)
             \/ \E size \in Sizes : GrResizeWindow(w, size)
             \/ \E p \in Wids, nx \in Cells : GrReparentWindow(w, p, nx)
             \/ \E c \in Clients, mask \in Masks : GrSelectEvents(c, w, mask)
      PROVE  PointersLive'
  BY <1>9, <1>b DEF GrRaiseWindow, GrLowerWindow, GrKillWindow, GrSetWMProperties,
      GrResizeWindow, GrReparentWindow, GrSelectEvents, TreeGrRaiseWindow,
      TreeGrLowerWindow, TreeGrKillWindow, TreeGsClose, TreeRemap, TreeGrReparentWindow,
      inputVars, treeVars, pointers
<1>10. ASSUME DropDone \/ \E c \in Clients : Accept(c) \/ GsClose(c) PROVE PointersLive'
  BY <1>10, <1>b DEF DropDone, Accept, GsClose, TreeDropDone, GsAcceptClientFd, TreeGsClose,
      inputVars, pointers
<1>11. ASSUME UNCHANGED vars PROVE PointersLive'
  BY <1>11, <1>b DEF vars, treeVars, inputVars
<1> QED BY <1>1, <1>2, <1>3, <1>4, <1>5, <1>6, <1>7, <1>8, <1>9, <1>10, <1>11
        DEF Next, GrDestroyWindow, DestroyOwned, TreeGrDestroyWindow, TreeDestroyOwned

(* The mouse, focus and grab pointers never lead to a freed window, for    *)
(* any number of windows, clients and screen cells.                        *)
THEOREM PointersCorrect == Spec => []PointersLive
<1>1. Init => PointersLive
  BY DEF Init, TreeInit, PointersLive
<1>2. Spec => []TypeInv
  BY WindowsImplementTree, TypesCorrect, PTL
<1> QED BY <1>1, <1>2, PointersStep, PTL DEF Spec

-----------------------------------------------------------------------------
LEMMA GrabStep == GrabHasButton /\ [Next]_vars => GrabHasButton'
<1> SUFFICES ASSUME GrabHasButton, [Next]_vars PROVE GrabHasButton'
  OBVIOUS
<1>1. ASSUME grabbuttonwp' \in {grabbuttonwp, NoWin}, curbuttons' = curbuttons
      PROVE  GrabHasButton'
  BY <1>1 DEF GrabHasButton
<1>2. ASSUME NEW nx \in Cells, NEW buttons \in SUBSET Buttons,
             GsHandleMouseStatus(nx, buttons)
      PROVE  GrabHasButton'
  BY <1>2 DEF GsHandleMouseStatus, Ungrabs, GrabHasButton
<1> QED BY <1>1, <1>2 DEF Next, vars, inputVars, pointers, Accept, GsClose, GrNewWindow,
        GrNewInputWindow, Place, GrSelectEvents, GrMapWindow, GrUnmapWindow, GrRaiseWindow,
        GrLowerWindow, GrDestroyWindow, GrKillWindow, DestroyOwned, DestroyEffect,
        GrSetWMProperties, GrSetFocus, GrMoveWindow, GrResizeWindow, GrReparentWindow,
        DropDone, GrMoveCursor, ResetIf

(* The implicit grab is held only while a button is down, whatever is      *)
(* destroyed, unmapped or dropped meanwhile.                               *)
THEOREM GrabCorrect == Spec => []GrabHasButton
<1>1. Init => GrabHasButton
  BY DEF Init, GrabHasButton
<1> QED BY <1>1, GrabStep, PTL DEF Spec

-----------------------------------------------------------------------------
(***************************************************************************)
(* Types.  With them, the selections are those of live windows and         *)
(* connected clients.                                                      *)
(***************************************************************************)
LEMMA CellsNumbered ==
    /\ Cells \subseteq Nat /\ 0 \in Cells /\ Cardinality(Cells) \in Nat
    /\ \A cell \in Cells : 0 <= cell /\ cell < Cardinality(Cells)
<1>1. Cardinality(Cells) \in Nat
  BY InputAssumption, FS_CardinalityType
<1> QED
  BY <1>1, InputAssumption

LEMMA OffsetTyped ==
    ASSUME x \in [Wids -> Cells], NEW w, NEW nx, x' = OffsetTo(w, nx), InBounds,
           listwp \subseteq Wids
    PROVE  x' \in [Wids -> Cells]
<1> SUFFICES ASSUME NEW v \in Wids PROVE x'[v] \in Cells
  BY DEF OffsetTo
<1>1. CASE v \in listwp
  BY <1>1 DEF InBounds
<1>2. CASE v \notin listwp
  <2>1. v \notin Below(w, listwp, parent)
    BY <1>2, BelowLive
  <2>2. x'[v] = x[v]
    BY <2>1 DEF OffsetTo
  <2> QED BY <2>2
<1> QED BY <1>1, <1>2

LEMMA LiveWids == TypeInv => listwp \subseteq Wids
BY TreeAssumption DEF TypeInv, TreeTypeOK, Wids

LEMMA LiveWidsNext == TypeInv' => listwp' \subseteq Wids
<1> SUFFICES ASSUME TypeInv', NEW v \in listwp' PROVE v \in Wids
  OBVIOUS
<1>1. nextid' \in 2 .. MaxWid + 1 /\ v \in 1 .. nextid' - 1
  BY DEF TypeInv, TreeTypeOK
<1>2. ASSUME NEW n \in 2 .. MaxWid + 1, v \in 1 .. n - 1 PROVE v \in 1 .. MaxWid
  BY <1>2, TreeAssumption
<1> QED BY <1>1, <1>2 DEF Wids

LEMMA DestroyTyped ==
    ASSUME TypeOK, TypeInv', PointersLive',
           NEW w, NEW s \in [Wids -> [Clients -> SUBSET Events]],
           DestroyWindow(w), DestroyEffect(w, s)
    PROVE  TypeOK'
<1>1. /\ TreeTypeOK'
      /\ listwp' \subseteq Wids
      /\ {mousewp', focuswp'} \subseteq listwp'
      /\ grabbuttonwp' \in listwp' \cup {NoWin}
  BY LiveWidsNext DEF TypeInv, PointersLive
<1>2. x' \in [Wids -> Cells] /\ width' \in [Wids -> Nat]
  BY CellsNumbered DEF DestroyEffect, TypeOK
<1>3. nofocus' \subseteq listwp' \ {Root}
  BY DEF DestroyEffect, DestroyWindow, TypeOK
<1>4. sel' \in [Wids -> [Clients -> SUBSET Events]]
  <2>1. NoSel \in [Clients -> SUBSET Events]
    BY DEF NoSel
  <2> QED BY <2>1 DEF DestroyEffect
<1> QED BY <1>1, <1>2, <1>3, <1>4 DEF TypeOK, DestroyEffect

LEMMA WindowTypesStep ==
    TypeInv /\ TypeInv' /\ PointersLive' /\ TypeOK /\ [Next]_vars => TypeOK'
<1> SUFFICES ASSUME TypeInv, TypeInv', PointersLive', TypeOK, [Next]_vars PROVE TypeOK'
  OBVIOUS
<1>a. /\ TreeTypeOK' /\ listwp \subseteq Wids /\ listwp' \subseteq Wids
      /\ {mousewp', focuswp'} \subseteq Wids
      /\ grabbuttonwp' \in Wids \cup {NoWin}
      /\ Root \in listwp
  BY LiveWids, LiveWidsNext DEF TypeInv, ParentsLive, PointersLive
<1>b. ASSUME listwp \subseteq listwp',
             UNCHANGED <<x, width, nofocus, sel, focusfixed, curbuttons, cursorx>>
      PROVE  TypeOK'
  BY <1>a, <1>b DEF TypeOK
<1>1. ASSUME NEW c \in Clients, NEW p \in Wids, NEW nx \in Cells, NEW size \in Sizes,
             GrNewWindow(c, p, nx, size) \/ GrNewInputWindow(c, p, nx, size)
      PROVE  TypeOK'
  <2>1. Place(p, nx, size) /\ listwp \subseteq listwp'
    BY <1>1 DEF GrNewWindow, GrNewInputWindow, TreeGrNewWindow, TreeGrNewInputWindow, NewWindow
  <2>2. x' \in [Wids -> Cells] /\ width' \in [Wids -> Nat]
    BY <2>1, InputAssumption DEF Place, TypeOK
  <2> QED BY <1>a, <2>1, <2>2 DEF Place, pointers, TypeOK
<1>2. ASSUME NEW w \in Wids, GrMapWindow(w) \/ GrUnmapWindow(w) PROVE TypeOK'
  BY <1>2, <1>b DEF GrMapWindow, GrUnmapWindow, TreeGrMapWindow, TreeGrUnmapWindow
<1>3. ASSUME NEW w \in Wids, NEW nx \in Cells, GrMoveWindow(w, nx) PROVE TypeOK'
  <2>1. x' \in [Wids -> Cells] /\ listwp' = listwp
    BY <1>3, <1>a, OffsetTyped DEF GrMoveWindow, TreeRemap, treeVars, TypeOK
  <2> QED BY <1>3, <1>a, <2>1 DEF GrMoveWindow, TypeOK
<1>4. ASSUME NEW w \in Wids, NEW p \in Wids, NEW nx \in Cells, GrReparentWindow(w, p, nx)
      PROVE  TypeOK'
  <2>1. x' \in [Wids -> Cells] /\ listwp' = listwp
    BY <1>4, <1>a, OffsetTyped DEF GrReparentWindow, TreeGrReparentWindow, TypeOK
  <2> QED BY <1>4, <1>a, <2>1 DEF GrReparentWindow, pointers, TypeOK
<1>5. ASSUME NEW w \in Wids, NEW size \in Sizes, GrResizeWindow(w, size) PROVE TypeOK'
  <2>1. width' \in [Wids -> Nat]
    BY <1>5, InputAssumption DEF GrResizeWindow, TypeOK
  <2> QED BY <1>5, <1>a, <2>1 DEF GrResizeWindow, treeVars, pointers, TypeOK
<1>6. ASSUME NEW w \in Wids, GrDestroyWindow(w) PROVE TypeOK'
  BY <1>6, DestroyTyped DEF GrDestroyWindow, TreeGrDestroyWindow, TypeOK
<1>7. ASSUME NEW w \in Wids, DestroyOwned(w) PROVE TypeOK'
  <2>1. Purged(w) \in [Wids -> [Clients -> SUBSET Events]]
    BY DEF Purged, TypeOK
  <2> QED BY <1>7, <2>1, DestroyTyped DEF DestroyOwned, TreeDestroyOwned
<1>8. ASSUME DropDone PROVE TypeOK'
  <2>1. sel' \in [Wids -> [Clients -> SUBSET Events]]
    BY <1>8 DEF DropDone, Purged, TypeOK
  <2> QED BY <1>8, <1>a, <2>1 DEF DropDone, TreeDropDone, pointers, TypeOK
<1>9. ASSUME NEW c \in Clients, NEW w \in Wids, NEW mask \in Masks,
             GrSelectEvents(c, w, mask)
      PROVE  TypeOK'
  <2>1. sel' \in [Wids -> [Clients -> SUBSET Events]]
    BY <1>9, InputAssumption DEF GrSelectEvents, TypeOK
  <2> QED BY <1>9, <1>a, <2>1 DEF GrSelectEvents, treeVars, pointers, TypeOK
<1>10. ASSUME NEW w \in Wids, GrSetWMProperties(w) PROVE TypeOK'
  <2>1. listwp' = listwp /\ nofocus' \subseteq listwp \ {Root}
    BY <1>10, InputAssumption DEF GrSetWMProperties, TreeRemap, treeVars, TypeOK
  <2> QED BY <1>10, <1>a, <2>1 DEF GrSetWMProperties, pointers, TypeOK
<1>11. ASSUME NEW w \in Wids, GrSetFocus(w) PROVE TypeOK'
  BY <1>11, <1>a DEF GrSetFocus, treeVars, TypeOK
<1>12. ASSUME NEW nx \in Cells,
              GrMoveCursor(nx) \/ \E b \in SUBSET Buttons : GsHandleMouseStatus(nx, b)
       PROVE  TypeOK'
  BY <1>12, <1>a DEF GrMoveCursor, GsHandleMouseStatus, treeVars, TypeOK
<1>13. ASSUME NEW w \in Wids,
              \/ GrRaiseWindow(w) \/ GrLowerWindow(w) \/ GrKillWindow(w)
              \/ \E c \in Clients : Accept(c) \/ GsClose(c)
       PROVE  TypeOK'
  BY <1>13, <1>b DEF GrRaiseWindow, GrLowerWindow, GrKillWindow, Accept, GsClose,
      TreeGrRaiseWindow, TreeGrLowerWindow, TreeGrKillWindow, TreeGsClose,
      GsAcceptClientFd, inputVars, pointers
<1>14. ASSUME UNCHANGED vars PROVE TypeOK'
  BY <1>14, <1>b DEF vars, treeVars, inputVars, pointers
<1>15. ASSUME NEW c \in Clients, Accept(c) \/ GsClose(c) PROVE TypeOK'
  BY <1>13, <1>15, <1>a
<1> QED BY <1>1, <1>2, <1>3, <1>4, <1>5, <1>6, <1>7, <1>8, <1>9, <1>10, <1>11, <1>12,
        <1>13, <1>14, <1>15 DEF Next

WindowInv == TypeInv /\ PointersLive /\ TypeOK

LEMMA WindowInvariant == Spec => []WindowInv
<1>1. Init => TypeOK
  <2>1. Cardinality(Cells) \in Nat
    BY InputAssumption, FS_CardinalityType
  <2>2. (TreeInit => TypeInv) /\ Root \in Wids
    BY TypeInit, TreeAssumption DEF Wids, Root
  <2>3. Init => TreeTypeOK /\ Root \in listwp
    BY <2>2 DEF Init, TypeInv, ParentsLive
  <2>4. Init => /\ x \in [Wids -> Cells]
                /\ width \in [Wids -> Nat]
                /\ cursorx \in Cells
    BY <2>1, InputAssumption DEF Init
  <2>5. Init => sel \in [Wids -> [Clients -> SUBSET Events]]
    BY DEF Init, NoSel
  <2> QED BY <2>2, <2>3, <2>4, <2>5 DEF Init, TypeOK
<1>2. Spec => []TypeInv
  BY WindowsImplementTree, TypesCorrect, PTL
<1> QED BY <1>1, <1>2, WindowTypesStep, PointersCorrect, PTL DEF Spec, WindowInv

(* Every variable has its type in every reachable state: positions stay on *)
(* the screen's cells, the pointers hold window ids, and NOFOCUS is never  *)
(* set on the root, whose focus walk would run off the tree.               *)
THEOREM WindowTypesCorrect == Spec => []TypeOK
BY WindowInvariant, PTL DEF WindowInv

-----------------------------------------------------------------------------
LEMMA SelectionsDestroyed ==
    ASSUME TypeOK, SelectionsConnected,
           NEW w, NEW s \in [Wids -> [Clients -> SUBSET Events]],
           \A v \in Wids, c \in Clients : s[v][c] \subseteq sel[v][c],
           DestroyWindow(w), DestroyEffect(w, s)
    PROVE  SelectionsConnected'
<1> SUFFICES ASSUME NEW v \in Wids, NEW c \in Clients, sel'[v][c] # {}
             PROVE  v \in listwp' /\ c \in clients'
  BY DEF SelectionsConnected
<1>1. v \notin Gone(w) /\ sel'[v] = s[v]
  BY DEF DestroyEffect, NoSel
<1>2. sel[v][c] # {}
  BY <1>1
<1> QED BY <1>1, <1>2 DEF DestroyWindow, SelectionsConnected

LEMMA PurgedLess ==
    ASSUME TypeOK, NEW w
    PROVE  /\ Purged(w) \in [Wids -> [Clients -> SUBSET Events]]
           /\ \A v \in Wids, c \in Clients : Purged(w)[v][c] \subseteq sel[v][c]
BY DEF Purged, TypeOK

LEMMA SelectionsStep ==
    TypeOK /\ SelectionsConnected /\ [Next]_vars => SelectionsConnected'
<1> SUFFICES ASSUME TypeOK, SelectionsConnected, [Next]_vars PROVE SelectionsConnected'
  OBVIOUS
<1>a. ASSUME listwp \subseteq listwp', clients \subseteq clients', sel' = sel
      PROVE  SelectionsConnected'
  BY <1>a DEF SelectionsConnected
<1>1. ASSUME NEW c \in Clients, NEW w \in Wids, NEW mask \in Masks,
             GrSelectEvents(c, w, mask)
      PROVE  SelectionsConnected'
  BY <1>1 DEF GrSelectEvents, treeVars, SelectionsConnected, TypeOK
<1>2. ASSUME NEW w \in Wids, GrDestroyWindow(w) PROVE SelectionsConnected'
  BY <1>2, SelectionsDestroyed DEF GrDestroyWindow, TreeGrDestroyWindow, TypeOK
<1>3. ASSUME NEW w \in Wids, DestroyOwned(w) PROVE SelectionsConnected'
  BY <1>3, SelectionsDestroyed, PurgedLess DEF DestroyOwned, TreeDestroyOwned
<1>4. ASSUME DropDone PROVE SelectionsConnected'
  <2>1. closing \in Clients
    BY <1>4 DEF DropDone, TreeDropDone, TypeOK, TreeTypeOK
  <2>2. ASSUME NEW v \in Wids, NEW c \in Clients, sel'[v][c] # {}
        PROVE  sel[v][c] # {} /\ c # closing
    <3>1. v >= Root
      BY TreeAssumption DEF Wids, Root
    <3>2. sel'[v] = [sel[v] EXCEPT ![closing] = {}]
      BY <1>4, <3>1 DEF DropDone, Purged
    <3>3. DOMAIN sel[v] = Clients
      BY DEF TypeOK
    <3> QED BY <2>1, <2>2, <3>2, <3>3
  <2> QED BY <1>4, <2>2 DEF DropDone, TreeDropDone, SelectionsConnected
<1>5. ASSUME NEW c \in Clients,
             \/ Accept(c) \/ GsClose(c)
             \/ \E p \in Wids, nx \in Cells, size \in Sizes :
                   GrNewWindow(c, p, nx, size) \/ GrNewInputWindow(c, p, nx, size)
      PROVE  SelectionsConnected'
  BY <1>5, <1>a DEF Accept, GsClose, GrNewWindow, GrNewInputWindow, GsAcceptClientFd,
      TreeGsClose, TreeGrNewWindow, TreeGrNewInputWindow, NewWindow, Place, inputVars
<1>6. ASSUME NEW w \in Wids,
             \/ GrMapWindow(w) \/ GrUnmapWindow(w) \/ GrRaiseWindow(w) \/ GrLowerWindow(w)
             \/ GrKillWindow(w) \/ GrSetWMProperties(w) \/ GrSetFocus(w)
             \/ \E size \in Sizes : GrResizeWindow(w, size)
             \/ \E nx \in Cells : GrMoveWindow(w, nx)
             \/ \E p \in Wids, nx \in Cells : GrReparentWindow(w, p, nx)
      PROVE  SelectionsConnected'
  BY <1>6, <1>a DEF GrMapWindow, GrUnmapWindow, GrRaiseWindow, GrLowerWindow, GrKillWindow,
      GrSetWMProperties, GrSetFocus, GrResizeWindow, GrMoveWindow, GrReparentWindow,
      TreeGrMapWindow, TreeGrUnmapWindow, TreeGrRaiseWindow, TreeGrLowerWindow,
      TreeGrKillWindow, TreeGsClose, TreeRemap, TreeGrReparentWindow, treeVars, inputVars
<1>7. ASSUME \/ UNCHANGED vars
             \/ \E nx \in Cells : GrMoveCursor(nx)
             \/ \E nx \in Cells, b \in SUBSET Buttons : GsHandleMouseStatus(nx, b)
      PROVE  SelectionsConnected'
  BY <1>7, <1>a DEF vars, treeVars, inputVars, GrMoveCursor, GsHandleMouseStatus
<1> QED BY <1>1, <1>2, <1>3, <1>4, <1>5, <1>6, <1>7 DEF Next

(* A client that was dropped is left in no window's list of event clients, *)
(* although GsDestroyClientResources purges the lists and frees windows in *)
(* the same walk, for any number of windows and clients.                   *)
THEOREM SelectionsCorrect == Spec => []SelectionsConnected
<1>1. Init => SelectionsConnected
  BY DEF Init, NoSel, SelectionsConnected
<1> QED BY <1>1, SelectionsStep, WindowTypesCorrect, PTL DEF Spec

-----------------------------------------------------------------------------
(***************************************************************************)
(* What no step may do to the grab and to the focus.                       *)
(***************************************************************************)
KeepsGrab ==
    grabbuttonwp # NoWin /\ grabbuttonwp' # grabbuttonwp =>
        grabbuttonwp' = NoWin /\ (curbuttons' = {} \/ grabbuttonwp \notin listwp')

LEMMA GrabHeldStep == [Next]_vars => [KeepsGrab]_vars
<1> SUFFICES ASSUME Next PROVE KeepsGrab
  OBVIOUS
<1>1. ASSUME grabbuttonwp' = grabbuttonwp PROVE KeepsGrab
  BY <1>1 DEF KeepsGrab
<1>2. ASSUME NEW w, NEW s, DestroyWindow(w), DestroyEffect(w, s) PROVE KeepsGrab
  <2>1. grabbuttonwp' = IF grabbuttonwp \in Gone(w) THEN NoWin ELSE grabbuttonwp
    BY <1>2 DEF DestroyEffect, ResetIf
  <2>2. listwp' = listwp \ Gone(w)
    BY <1>2 DEF DestroyWindow
  <2> QED BY <2>1, <2>2 DEF KeepsGrab
<1>3. ASSUME NEW nx \in Cells, NEW buttons \in SUBSET Buttons,
             GsHandleMouseStatus(nx, buttons)
      PROVE  KeepsGrab
  BY <1>3 DEF GsHandleMouseStatus, Ungrabs, KeepsGrab
<1> QED BY <1>1, <1>2, <1>3 DEF Next, inputVars, pointers, Accept, GsClose, GrNewWindow,
        GrNewInputWindow, Place, GrSelectEvents, GrMapWindow, GrUnmapWindow, GrRaiseWindow,
        GrLowerWindow, GrDestroyWindow, GrKillWindow, DestroyOwned, TreeGrDestroyWindow,
        TreeDestroyOwned, GrSetWMProperties, GrSetFocus, GrMoveWindow, GrResizeWindow,
        GrReparentWindow, DropDone, GrMoveCursor

(* The grab of a pressed button ends only by releasing every button or by  *)
(* destroying the window, and never passes from one window to another.     *)
THEOREM GrabKept == Spec => GrabHeld
BY GrabHeldStep, PTL DEF Spec, GrabHeld, KeepsGrab

-----------------------------------------------------------------------------
KeepsFixed ==
    focusfixed /\ focuswp' # focuswp =>
        \/ \E w \in Wids : GrSetFocus(w)
        \/ focuswp' = Root /\ focuswp \notin realized'

LEMMA FixedStep == TypeInv' /\ [Next]_vars => [KeepsFixed]_vars
<1> SUFFICES ASSUME TypeInv', Next PROVE KeepsFixed
  OBVIOUS
<1>1. ASSUME focuswp' \in {focuswp, Follow(mousewp')} PROVE KeepsFixed
  BY <1>1 DEF KeepsFixed, Follow
<1>2. ASSUME NEW w \in Wids, GrUnmapWindow(w) PROVE KeepsFixed
  BY <1>2 DEF GrUnmapWindow, FocusAfter, KeepsFixed
<1>3. ASSUME NEW w, NEW s, DestroyWindow(w), DestroyEffect(w, s) PROVE KeepsFixed
  <2> DEFINE hidden == realized \ Unrealize(w, realized, parent)
             f      == FocusAfter(hidden, MouseAfter(hidden, realized'), s)
  <2>1. focuswp' = IF f \in Gone(w) THEN Root ELSE f
    BY <1>3 DEF DestroyEffect, ResetIf
  <2>2. realized' = Unrealize(w, realized, parent) \ Gone(w)
    BY <1>3 DEF DestroyWindow
  <2>3. focusfixed => f = focuswp \/ (f = Root /\ focuswp \in hidden)
    BY DEF FocusAfter
  <2>4. focuswp \in hidden => focuswp \notin realized'
    BY <2>2
  <2> HIDE DEF f, hidden
  <2> QED BY <2>1, <2>2, <2>3, <2>4 DEF KeepsFixed
<1>4. ASSUME NEW w \in Wids, GrSetFocus(w) PROVE KeepsFixed
  BY <1>4 DEF KeepsFixed
<1>5. ASSUME NEW nx \in Cells, NEW buttons \in SUBSET Buttons,
             GsHandleMouseStatus(nx, buttons)
      PROVE  KeepsFixed
  BY <1>5 DEF GsHandleMouseStatus, Follow, KeepsFixed
<1> QED BY <1>1, <1>2, <1>3, <1>4, <1>5 DEF Next, inputVars, pointers, Accept, GsClose,
        GrNewWindow, GrNewInputWindow, Place, GrSelectEvents, GrMapWindow, GrRaiseWindow,
        GrLowerWindow, GrDestroyWindow, GrKillWindow, DestroyOwned, TreeGrDestroyWindow,
        TreeDestroyOwned, GrSetWMProperties, GrMoveWindow, GrResizeWindow,
        GrReparentWindow, DropDone, GrMoveCursor, Recheck

(* A focus a client fixed stays where it is until a client sets the focus  *)
(* again or its window leaves the screen, and then goes to the root.       *)
THEOREM FixedFocusKept == Spec => FixedFocusStays
<1>1. Spec => []TypeInv
  BY WindowsImplementTree, TypesCorrect, PTL
<1> QED BY <1>1, FixedStep, PTL DEF Spec, FixedFocusStays, KeepsFixed

-----------------------------------------------------------------------------
Respects == focuswp' # focuswp => focuswp' \notin nofocus'

LEMMA FocusForAllowed ==
    ASSUME NEW m, NEW s, Root \notin nofocus
    PROVE  FocusFor(m, s) \notin nofocus
<1> DEFINE C == {a \in listwp \ nofocus : \E c \in clients : "KEY_DOWN" \in s[a][c]}
<1>1. FocusFor(m, s) = Nearest(m, C, Root)
  BY DEF FocusFor
<1>2. C \cap nofocus = {}
  OBVIOUS
<1> HIDE DEF C
<1> QED BY <1>1, <1>2, NearestIn

LEMMA RespectStep == TypeOK /\ [Next]_vars => [Respects]_vars
<1> SUFFICES ASSUME TypeOK, Next PROVE Respects
  OBVIOUS
<1>a. Root \notin nofocus
  BY DEF TypeOK
<1>1. ASSUME focuswp' = focuswp PROVE Respects
  BY <1>1 DEF Respects
<1>2. ASSUME nofocus' = nofocus, focuswp' = Follow(mousewp') PROVE Respects
  BY <1>2, <1>a, FocusForAllowed DEF Respects, Follow
<1>3. ASSUME NEW w \in Wids, GrUnmapWindow(w) PROVE Respects
  BY <1>3, <1>a, FocusForAllowed DEF GrUnmapWindow, FocusAfter, Respects
<1>4. ASSUME NEW w, NEW s, DestroyEffect(w, s) PROVE Respects
  <2> DEFINE hidden == realized \ Unrealize(w, realized, parent)
             f      == FocusAfter(hidden, MouseAfter(hidden, realized'), s)
  <2>1. focuswp' = IF f \in Gone(w) THEN Root ELSE f
    BY <1>4 DEF DestroyEffect, ResetIf
  <2>2. f = focuswp \/ f \notin nofocus
    BY <1>a, FocusForAllowed DEF FocusAfter
  <2>3. nofocus' \subseteq nofocus
    BY <1>4 DEF DestroyEffect
  <2> HIDE DEF f, hidden
  <2> QED BY <1>a, <2>1, <2>2, <2>3 DEF Respects
<1>5. ASSUME NEW w \in Wids, GrSetFocus(w) PROVE Respects
  BY <1>5 DEF GrSetFocus, Respects
<1>6. ASSUME NEW nx \in Cells, NEW buttons \in SUBSET Buttons,
             GsHandleMouseStatus(nx, buttons)
      PROVE  Respects
  BY <1>6, <1>a, FocusForAllowed DEF GsHandleMouseStatus, Follow, Respects
<1> QED BY <1>1, <1>2, <1>3, <1>4, <1>5, <1>6 DEF Next, inputVars, pointers, Accept,
        GsClose, GrNewWindow, GrNewInputWindow, Place, GrSelectEvents, GrMapWindow,
        GrRaiseWindow, GrLowerWindow, GrDestroyWindow, GrKillWindow, DestroyOwned,
        GrSetWMProperties, GrMoveWindow, GrResizeWindow, GrReparentWindow, DropDone,
        GrMoveCursor, Recheck

(* The focus never moves to a window with the NOFOCUS property: neither by *)
(* GrSetFocus, nor by following the mouse, nor when the window that has it *)
(* is hidden or destroyed.                                                 *)
THEOREM NoFocusKept == Spec => NoFocusRespected
BY RespectStep, WindowTypesCorrect, PTL DEF Spec, NoFocusRespected, Respects

-----------------------------------------------------------------------------
(***************************************************************************)
(* Drawing and pointing.  The way up from a window, the least of a set of  *)
(* windows, and the first of a set of siblings.                            *)
(***************************************************************************)
LEMMA ListFinite == TypeInv => IsFiniteSet(listwp) /\ listwp \in SUBSET Wids
<1> SUFFICES ASSUME TypeInv PROVE IsFiniteSet(listwp)
  BY LiveWids
<1>1. listwp \subseteq 1..MaxWid /\ MaxWid \in Int
  BY LiveWids, TreeAssumption DEF Wids
<1> QED
  <2>1. IsFiniteSet(1..MaxWid)
    BY <1>1, FS_Interval
  <2> QED
    BY <1>1, <2>1, FS_Subset

LEMMA SmallestSet ==
    ASSUME NEW S, IsFiniteSet(S), NEW T \in SUBSET (SUBSET S), T # {}
    PROVE  \E m \in T : \A k \in T : k \subseteq m => k = m
<1> DEFINE R == StrictSubsetOrdering(S)
<1>1. IsWellFoundedOn(R, SUBSET S)
  BY FS_StrictSubsetOrderingWellFounded, FS_FiniteSubsetsOfFinite
<1> HIDE DEF R
<1>2. PICK m \in T : \A k \in T : ~(<<k, m>> \in R)
  BY <1>1, WFMin
<1>3. ASSUME NEW k \in T, k \subseteq m, k # m PROVE FALSE
  <2>1. <<k, m>> \in R
    BY <1>3 DEF R, StrictSubsetOrdering
  <2> QED
    BY <1>2, <2>1
<1> QED
  BY <1>2, <1>3

LEMMA BelowDown ==
    ASSUME NEW w \in listwp, NEW M \in SUBSET listwp, NEW p,
           NEW d \in Below(w, M, p), d # w
    PROVE  \E c \in M : p[c] = w /\ d \in Below(c, M, p)
<1> DEFINE S == {v \in listwp : v = w \/ \E c \in M : p[c] = w /\ v \in Below(c, M, p)}
<1>1. Closed(S, M, p)
  <2> SUFFICES ASSUME NEW v \in M, p[v] \in S PROVE v \in S
    BY DEF Closed
  <2>1. CASE p[v] = w
    BY <2>1, BelowSelf
  <2>2. CASE \E c \in M : p[c] = w /\ p[v] \in Below(c, M, p)
    BY <2>2, BelowClosed
  <2> QED
    BY <2>1, <2>2
<1>2. w \in S /\ S \in SUBSET listwp
  OBVIOUS
<1> HIDE DEF S
<1>3. d \in S
  BY <1>1, <1>2, BelowLeast
<1> QED
  BY <1>3 DEF S

(* No window lies below one of its own children.                           *)
LEMMA NotBelowKid ==
    ASSUME TypeInv, Rooted, NEW v \in listwp, NEW c \in Kids(v)
    PROVE  v \notin Below(c, listwp, parent)
<1> SUFFICES ASSUME v \in Below(c, listwp, parent) PROVE FALSE
  OBVIOUS
<1> DEFINE B == Below(c, listwp, parent)
           S == listwp \ B
<1>0. /\ c \in listwp /\ parent[c] = v /\ Root \in listwp /\ parent[Root] \notin listwp
      /\ c \in B /\ c # Root
  BY BelowSelf, LiveWids DEF Kids, TypeInv, ParentsLive, NoWin, Wids
<1>1. Root \in S
  BY <1>0, BelowUp, BelowLive
<1>2. Closed(S, listwp, parent)
  <2> SUFFICES ASSUME NEW d \in listwp, parent[d] \in S, d \in B PROVE FALSE
    BY DEF Closed
  <2>1. d # c
    BY <1>0
  <2>2. parent[d] \in B
    BY <1>0, <2>1, BelowUp
  <2> QED
    BY <2>2
<1>3. S \in SUBSET listwp
  OBVIOUS
<1> HIDE DEF S
<1>4. Below(Root, listwp, parent) \subseteq S
  BY <1>1, <1>2, <1>3, BelowLeast
<1> QED
  BY <1>0, <1>4 DEF Rooted, S

(* Some window of a set has none of its children in it.                    *)
LEMMA Innermost ==
    ASSUME TypeInv, Rooted, NEW V \in SUBSET listwp, V # {}
    PROVE  \E v \in V : \A c \in V : parent[c] # v
<1> DEFINE T == {Below(v, listwp, parent) : v \in V}
<1>1. T \in SUBSET (SUBSET listwp) /\ T # {}
  BY BelowLive
<1> HIDE DEF T
<1>2. PICK m \in T : \A k \in T : k \subseteq m => k = m
  BY <1>1, ListFinite, SmallestSet
<1>3. PICK v \in V : m = Below(v, listwp, parent)
  BY <1>2 DEF T
<1>4. ASSUME NEW c \in V, parent[c] = v PROVE FALSE
  <2>1. c \in Kids(v) /\ v \in listwp /\ c \in listwp
    BY <1>4 DEF Kids
  <2>2. c \in m /\ v \in m
    BY <1>3, <1>4, <2>1, BelowSelf, BelowClosed
  <2>3. Below(c, listwp, parent) \subseteq m /\ Below(c, listwp, parent) \in T
    BY <1>3, <2>2, BelowTransitive DEF T
  <2>4. Below(c, listwp, parent) = m
    BY <1>2, <2>3
  <2> QED
    BY <2>1, <2>2, <2>4, NotBelowKid
<1> QED
  BY <1>4

(* Some window of a set of siblings is in front of the others.             *)
LEMMA Frontmost ==
    ASSUME TypeInv, StackingOrder, NEW p, NEW K \in SUBSET Kids(p), K # {}
    PROVE  \E c \in K : \A s \in K \ {c} : <<c, s>> \in above
<1> DEFINE F(c) == {s \in K : <<s, c>> \in above}
           T    == {F(c) : c \in K}
<1>0. K \in SUBSET listwp /\ \A c \in K : parent[c] = p
  BY DEF Kids
<1>1. T \in SUBSET (SUBSET listwp) /\ T # {}
  BY <1>0
<1> HIDE DEF T
<1>2. PICK m \in T : \A k \in T : k \subseteq m => k = m
  BY <1>1, ListFinite, SmallestSet
<1>3. PICK c \in K : m = F(c)
  BY <1>2 DEF T
<1>4. ASSUME NEW s \in K \ {c} PROVE <<c, s>> \in above
  <2> SUFFICES ASSUME <<c, s>> \notin above PROVE FALSE
    OBVIOUS
  <2>1. <<s, c>> \in above
    BY <1>0 DEF StackingOrder
  <2>2. F(s) \subseteq F(c) /\ s \in F(c) /\ s \notin F(s) /\ F(s) \in T
    <3>1. F(s) \subseteq F(c)
      BY <1>0, <2>1 DEF StackingOrder
    <3>2. s \in F(c) /\ s \notin F(s)
      BY <1>0, <2>1 DEF StackingOrder
    <3>3. F(s) \in T
      BY DEF T
    <3> QED
      BY <3>1, <3>2, <3>3
  <2> QED
    BY <1>2, <1>3, <2>2
<1> QED
  BY <1>4

-----------------------------------------------------------------------------
(* The descent of GsFindVisibleWindow through the windows that are drawn.  *)
Shown     == realized \cap output
Hit(cell) == {c \in Shown : Covers(c, x, cell)}
Top(cell) == {c \in Hit(cell) \ {Root} :
                 \A s \in Hit(cell) \ {c} : parent[s] = parent[c] => <<c, s>> \in above}
Path(cell) == Below(Root, Top(cell), parent)
Leaf(cell) == {v \in Path(cell) : \A c \in Top(cell) : parent[c] # v}

(* What the two walks, up for the clipping and down for the pointer, need  *)
(* of the tree.  The root has the size of the screen and stays in place.   *)
RootCovers == x[Root] = 0 /\ width[Root] = Cardinality(Cells)

DrawInv == /\ TypeInv /\ TypeOK /\ StackingOrder /\ Rooted /\ RealizedIffViewable
           /\ RootCovers

LEMMA UpChain ==
    ASSUME TypeInv, Rooted, NEW w \in listwp, NEW a \in UpFrom(w)
    PROVE  /\ w \in UpFrom(w) /\ Root \in UpFrom(w) /\ a \in listwp
           /\ a # Root => parent[a] \in UpFrom(w)
           /\ a # w => \E c \in Kids(a) : c \in UpFrom(w)
<1>1. a \in listwp /\ w \in Below(a, listwp, parent)
  BY DEF UpFrom
<1>2. w \in UpFrom(w) /\ Root \in UpFrom(w)
  BY BelowSelf DEF UpFrom, Rooted, TypeInv, ParentsLive
<1>3. ASSUME a # Root PROVE parent[a] \in UpFrom(w)
  <2>1. parent[a] \in listwp
    BY <1>1, <1>3 DEF TypeInv, ParentsLive
  <2>2. a \in Below(parent[a], listwp, parent)
    BY <1>1, <2>1, BelowSelf, BelowClosed
  <2>3. Below(a, listwp, parent) \subseteq Below(parent[a], listwp, parent)
    BY <2>2, BelowTransitive
  <2> QED
    BY <1>1, <2>1, <2>3 DEF UpFrom
<1>4. ASSUME a # w PROVE \E c \in Kids(a) : c \in UpFrom(w)
  <2>1. PICK c \in listwp : parent[c] = a /\ w \in Below(c, listwp, parent)
    BY <1>1, <1>4, BelowDown
  <2> QED
    BY <2>1 DEF Kids, UpFrom
<1> QED
  BY <1>1, <1>2, <1>3, <1>4

(* The ancestors of a realized window are realized.                        *)
LEMMA UpRealized ==
    ASSUME TypeInv, RealizedIffViewable, NEW w \in realized
    PROVE  UpFrom(w) \subseteq realized
<1> SUFFICES ASSUME NEW a \in UpFrom(w), a \notin realized PROVE FALSE
  OBVIOUS
<1> DEFINE S == listwp \ realized
<1>1. a \in S /\ w \in Below(a, listwp, parent) /\ S \in SUBSET listwp
  BY DEF UpFrom
<1>2. Closed(S, listwp, parent)
  <2> SUFFICES ASSUME NEW c \in listwp, parent[c] \in S PROVE c \in S
    BY DEF Closed
  <2>1. c # Root
    BY LiveWids DEF TypeInv, ParentsLive, NoWin, Wids
  <2> QED
    BY <2>1 DEF RealizedIffViewable
<1> HIDE DEF S
<1>3. Below(a, listwp, parent) \subseteq S
  BY <1>1, <1>2, BelowLeast
<1> QED
  BY <1>1, <1>3 DEF S

LEMMA TopLive ==
    ASSUME TypeInv, NEW cell
    PROVE  /\ Hit(cell) \in SUBSET listwp /\ Top(cell) \in SUBSET listwp
           /\ Path(cell) \in SUBSET listwp
           /\ Root \in Path(cell)
           /\ Path(cell) \ {Root} \subseteq Top(cell)
           /\ \A c \in Top(cell) : parent[c] \in Path(cell) => c \in Path(cell)
           /\ \A c \in Path(cell) \ {Root} : parent[c] \in Path(cell)
<1>1. Hit(cell) \in SUBSET listwp /\ Top(cell) \in SUBSET listwp /\ Root \in listwp
  BY DEF Hit, Top, Shown, TypeInv, TreeTypeOK, ParentsLive
<1> QED
  BY <1>1, BelowLive, BelowSelf, BelowUp, BelowClosed DEF Path

(* At each level the descent enters at most one window.                    *)
LEMMA OneTop ==
    ASSUME TypeInv, StackingOrder, NEW cell, NEW c \in Top(cell), NEW d \in Top(cell),
           parent[c] = parent[d]
    PROVE  c = d
<1> SUFFICES ASSUME c # d PROVE FALSE
  OBVIOUS
<1>1. <<c, d>> \in above /\ <<d, c>> \in above /\ c \in listwp /\ d \in listwp
  BY TopLive DEF Top
<1> QED
  BY <1>1 DEF StackingOrder

(* The descent to a window goes through its ancestors.                     *)
LEMMA PathUp ==
    ASSUME TypeInv, Rooted, NEW cell, NEW w \in Path(cell)
    PROVE  UpFrom(w) \subseteq Path(cell)
<1> DEFINE S == {v \in listwp : v \in Path(cell) => UpFrom(v) \subseteq Path(cell)}
<1>0. Root \in listwp /\ parent[Root] \notin listwp /\ w \in listwp
  BY LiveWids, TopLive DEF TypeInv, ParentsLive, NoWin, Wids
<1>1. Root \in S
  <2> SUFFICES ASSUME NEW a \in UpFrom(Root) PROVE a = Root
    BY <1>0, TopLive
  <2>1. a \in listwp /\ Root \in Below(a, listwp, parent)
    BY DEF UpFrom
  <2> QED
    BY <1>0, <2>1, BelowUp, BelowLive
<1>2. Closed(S, listwp, parent)
  <2> SUFFICES ASSUME NEW c \in listwp, parent[c] \in S, c \in Path(cell),
                      NEW a \in UpFrom(c)
               PROVE  a \in Path(cell)
    BY DEF Closed
  <2>1. c # Root /\ parent[c] \in Path(cell)
    BY <1>0, TopLive
  <2>2. a \in listwp /\ c \in Below(a, listwp, parent)
    BY DEF UpFrom
  <2>3. CASE a # c
    <3>1. parent[c] \in Below(a, listwp, parent)
      BY <2>2, <2>3, BelowUp
    <3>2. a \in UpFrom(parent[c])
      BY <2>2, <3>1 DEF UpFrom
    <3> QED
      BY <2>1, <3>2
  <2> QED
    BY <2>3
<1>3. S \in SUBSET listwp
  OBVIOUS
<1> HIDE DEF S
<1>4. Below(Root, listwp, parent) \subseteq S
  BY <1>1, <1>2, <1>3, BelowLeast
<1> QED
  BY <1>0, <1>4 DEF Rooted, S

(* The descent ends in one window, and that is the one found.              *)
LEMMA LeafFound ==
    ASSUME DrawInv, NEW cell, NEW w \in listwp
    PROVE  FindVisible(Shown, x, cell) = w <=> w \in Leaf(cell)
<1> USE DEF DrawInv
<1>1. FindVisible(Shown, x, cell) =
          IF Leaf(cell) \subseteq {Root} THEN Root ELSE CHOOSE v \in Leaf(cell) : v # Root
  BY DEF FindVisible, Leaf, Path, Top, Hit
<1>2. ASSUME NEW v \in Leaf(cell) PROVE Leaf(cell) = {v}
  <2> DEFINE S == Path(cell) \cap UpFrom(v)
  <2>1. v \in Path(cell) /\ v \in listwp /\ \A c \in Top(cell) : parent[c] # v
    BY TopLive DEF Leaf
  <2>2. UpFrom(v) \subseteq Path(cell) /\ Root \in UpFrom(v) /\ v \in UpFrom(v)
    BY <2>1, PathUp, UpChain, BelowSelf DEF UpFrom
  <2>3. ASSUME NEW u \in UpFrom(v), u # v
        PROVE  \E k \in Top(cell) \cap UpFrom(v) : parent[k] = u
    <3>1. PICK k \in Kids(u) : k \in UpFrom(v)
      BY <2>1, <2>3, UpChain
    <3>2. k \in listwp /\ parent[k] = u /\ u \in listwp
      BY <3>1 DEF Kids, UpFrom
    <3>3. k # Root
      BY <3>2, LiveWids DEF TypeInv, ParentsLive, NoWin, Wids
    <3> QED
      BY <2>2, <3>1, <3>2, <3>3, TopLive
  <2>4. Closed(S, Top(cell), parent)
    <3> SUFFICES ASSUME NEW c \in Top(cell), parent[c] \in S PROVE c \in S
      BY DEF Closed
    <3>1. parent[c] \in UpFrom(v) /\ parent[c] # v /\ c \in Path(cell)
      BY <2>1, TopLive
    <3>2. PICK k \in Top(cell) \cap UpFrom(v) : parent[k] = parent[c]
      BY <2>3, <3>1
    <3> QED
      BY <3>1, <3>2, OneTop
  <2>5. Root \in S /\ S \in SUBSET listwp
    BY <2>2, TopLive
  <2> HIDE DEF S
  <2>6. Path(cell) \subseteq S
    BY <2>4, <2>5, BelowLeast DEF Path
  <2>7. ASSUME NEW u \in Leaf(cell) PROVE u = v
    <3>1. u \in UpFrom(v) /\ \A c \in Top(cell) : parent[c] # u
      BY <2>6, <2>7 DEF S, Leaf
    <3> QED
      BY <2>3, <3>1
  <2> QED
    BY <1>2, <2>7
<1>3. Leaf(cell) # {}
  <2>1. Path(cell) \in SUBSET listwp /\ Path(cell) # {}
    BY TopLive
  <2>2. PICK v \in Path(cell) : \A c \in Path(cell) : parent[c] # v
    BY <2>1, Innermost
  <2>3. v \in Leaf(cell)
    BY <2>2, TopLive DEF Leaf
  <2> QED
    BY <2>3
<1>4. PICK v \in Leaf(cell) : Leaf(cell) = {v}
  BY <1>2, <1>3
<1>5. FindVisible(Shown, x, cell) = v
  <2>1. CASE v = Root
    BY <1>1, <1>4, <2>1
  <2>2. CASE v # Root
    <3>1. \A u \in Leaf(cell) : u # Root => u = v
      BY <1>4
    <3>2. (CHOOSE u \in Leaf(cell) : u # Root) = v
      BY <1>4, <2>2, <3>1
    <3> QED
      BY <1>1, <1>4, <2>2, <3>2
  <2> QED
    BY <2>1, <2>2
<1> QED
  BY <1>4, <1>5

(* A cell is drawn on by the window where the descent to it ends.          *)
LEMMA DrawnAtLeaf ==
    ASSUME DrawInv, NEW w \in Shown, UpFrom(w) \subseteq output,
           NEW cell \in Cells, cell \in GsSetClipWindow(w)
    PROVE  w \in Leaf(cell)
<1> USE DEF DrawInv
<1> DEFINE S == {v \in listwp : v \in UpFrom(w) => v \in Path(cell)}
<1>0. w \in listwp /\ w \in realized /\ UpFrom(w) \subseteq Shown /\ w \in UpFrom(w)
  BY UpRealized, BelowSelf DEF Shown, UpFrom, TypeInv, TreeTypeOK
<1>1. /\ \A a \in UpFrom(w) : Covers(a, x, cell)
      /\ \A o \in Obscuring(w) \cap realized \cap output : ~Covers(o, x, cell)
  BY DEF GsSetClipWindow
<1>2. ASSUME NEW a \in UpFrom(w), a # Root PROVE a \in Top(cell)
  <2>1. a \in Hit(cell) /\ a \in listwp
    BY <1>0, <1>1 DEF Hit, UpFrom
  <2>2. ASSUME NEW s \in Hit(cell) \ {a}, parent[s] = parent[a], <<a, s>> \notin above
        PROVE  FALSE
    <3>1. s \in listwp
      BY TopLive
    <3>2. <<s, a>> \in above
      BY <2>1, <2>2, <3>1 DEF StackingOrder
    <3>3. s \in Obscuring(w)
      BY <3>2 DEF Obscuring
    <3> QED
      BY <1>1, <3>3 DEF Hit, Shown
  <2> QED
    BY <1>2, <2>1, <2>2 DEF Top
<1>3. Closed(S, listwp, parent)
  <2> SUFFICES ASSUME NEW c \in listwp, parent[c] \in S, c \in UpFrom(w) PROVE c \in Path(cell)
    BY DEF Closed
  <2>1. CASE c = Root
    BY <2>1, TopLive
  <2>2. CASE c # Root
    BY <1>0, <1>2, <2>2, UpChain, TopLive
  <2> QED
    BY <2>1, <2>2
<1>4. Root \in S /\ S \in SUBSET listwp
  BY TopLive
<1> HIDE DEF S
<1>5. Below(Root, listwp, parent) \subseteq S
  BY <1>3, <1>4, BelowLeast
<1>6. w \in Path(cell)
  BY <1>0, <1>5 DEF Rooted, S
<1>7. ASSUME NEW c \in Top(cell), parent[c] = w PROVE FALSE
  <2>1. c \in Obscuring(w) /\ c \in Hit(cell)
    BY <1>7, TopLive DEF Obscuring, Kids, Top
  <2> QED
    BY <1>1, <2>1 DEF Hit, Shown
<1> QED
  BY <1>6, <1>7 DEF Leaf

LEMMA LeafDrawn ==
    ASSUME DrawInv, NEW w \in Shown, NEW cell \in Cells, w \in Leaf(cell)
    PROVE  cell \in GsSetClipWindow(w)
<1> USE DEF DrawInv
<1>0. /\ w \in listwp /\ w \in Path(cell) /\ UpFrom(w) \subseteq Path(cell)
      /\ \A c \in Top(cell) : parent[c] # w
  BY PathUp, TopLive DEF Leaf
<1>1. ASSUME NEW a \in UpFrom(w) PROVE Covers(a, x, cell)
  <2>1. CASE a = Root
    BY <2>1, CellsNumbered DEF Covers, RootCovers
  <2>2. CASE a # Root
    BY <1>0, <2>2, TopLive DEF Top, Hit
  <2> QED
    BY <2>1, <2>2
<1>2. ASSUME NEW o \in Obscuring(w) \cap Shown, Covers(o, x, cell) PROVE FALSE
  <2>0. o \in Hit(cell) /\ o \in listwp
    BY <1>2, TopLive DEF Hit
  <2>1. ASSUME NEW a \in UpFrom(w), <<o, a>> \in above PROVE FALSE
    <3>1. a \in listwp /\ o # a /\ parent[o] = parent[a]
      BY <2>0, <2>1 DEF StackingOrder, UpFrom
    <3>2. a # Root
      BY <2>0, <3>1, LiveWids DEF TypeInv, ParentsLive, NoWin, Wids
    <3>3. a \in Top(cell)
      BY <1>0, <3>2, TopLive
    <3>4. <<a, o>> \in above
      BY <2>0, <3>1, <3>3 DEF Top
    <3> QED
      BY <2>0, <2>1, <3>1, <3>4 DEF StackingOrder
  <2>2. ASSUME o \in Kids(w) PROVE FALSE
    <3> DEFINE K == Kids(w) \cap Hit(cell)
    <3>1. K \in SUBSET Kids(w) /\ K # {}
      BY <2>0, <2>2
    <3> HIDE DEF K
    <3>2. PICK c \in K : \A s \in K \ {c} : <<c, s>> \in above
      BY <3>1, Frontmost
    <3>3. c \in Hit(cell) /\ c \in listwp /\ parent[c] = w
      BY <3>2, TopLive DEF K, Kids
    <3>4. c # Root
      BY <1>0, <3>3, LiveWids DEF TypeInv, ParentsLive, NoWin, Wids
    <3>5. ASSUME NEW s \in Hit(cell) \ {c}, parent[s] = parent[c] PROVE <<c, s>> \in above
      <4>1. s \in K
        BY <3>3, <3>5, TopLive DEF K, Kids
      <4> QED
        BY <3>2, <3>5, <4>1
    <3>6. c \in Top(cell)
      BY <3>3, <3>4, <3>5 DEF Top
    <3> QED
      BY <1>0, <3>3, <3>6
  <2>3. ASSUME o \notin Kids(w) PROVE \E a \in UpFrom(w) : <<o, a>> \in above
    <3>1. PICK e \in above : e[2] \in UpFrom(w) /\ o = e[1]
      BY <1>2, <2>3 DEF Obscuring
    <3>2. e = <<e[1], e[2]>>
      BY DEF TypeInv, TreeTypeOK
    <3> QED
      BY <3>1, <3>2
  <2> QED
    BY <2>1, <2>2, <2>3
<1> QED
  BY <1>1, <1>2 DEF GsSetClipWindow, Shown

LEMMA DrawnIsHit == DrawInv => DrawnWhereHit
<1> SUFFICES ASSUME DrawInv, NEW w \in Shown, UpFrom(w) \subseteq output, NEW cell \in Cells
             PROVE  cell \in GsSetClipWindow(w) <=> FindVisible(Shown, x, cell) = w
  BY DEF DrawnWhereHit, Shown, GsSetClipWindow
<1>1. w \in listwp
  BY DEF DrawInv, TypeInv, TreeTypeOK, Shown
<1> QED
  BY <1>1, DrawnAtLeaf, LeafDrawn, LeafFound

LEMMA RootCoversStep == TypeInv /\ TypeOK /\ RootCovers /\ [Next]_vars => RootCovers'
<1> SUFFICES ASSUME TypeInv, TypeOK, RootCovers, [Next]_vars PROVE RootCovers'
  OBVIOUS
<1>0. /\ Root \in Wids /\ nextid # Root
      /\ \A w \in listwp \ {Root} : Root \notin Below(w, listwp, parent)
  BY GoneIsClosed, TreeAssumption DEF TypeInv, TreeTypeOK, Root, Wids
<1>a. ASSUME x'[Root] = x[Root], width'[Root] = width[Root] PROVE RootCovers'
  BY <1>a DEF RootCovers
<1>1. ASSUME NEW p, NEW nx, NEW size, Place(p, nx, size) PROVE RootCovers'
  BY <1>0, <1>1, <1>a DEF Place, TypeOK
<1>2. ASSUME NEW w \in listwp \ {Root}, NEW nx, x' = OffsetTo(w, nx), width' = width
      PROVE  RootCovers'
  BY <1>0, <1>2, <1>a DEF OffsetTo
<1>3. ASSUME NEW w \in Wids, NEW size \in Sizes, GrResizeWindow(w, size) PROVE RootCovers'
  BY <1>0, <1>3, <1>a DEF GrResizeWindow, pointers, TypeOK
<1>4. ASSUME NEW w \in listwp, NEW s, DestroyWindow(w), DestroyEffect(w, s) PROVE RootCovers'
  BY <1>0, <1>4, <1>a DEF DestroyWindow, DestroyEffect, Gone
<1>5. ASSUME NEW w \in Wids, GrDestroyWindow(w) \/ DestroyOwned(w) PROVE RootCovers'
  BY <1>4, <1>5 DEF GrDestroyWindow, DestroyOwned, TreeGrDestroyWindow, TreeDestroyOwned, Owned
<1>6. ASSUME NEW w \in Wids, NEW nx \in Cells,
             GrMoveWindow(w, nx) \/ \E p \in Wids : GrReparentWindow(w, p, nx)
      PROVE  RootCovers'
  BY <1>2, <1>6 DEF GrMoveWindow, GrReparentWindow, TreeGrReparentWindow
<1>7. ASSUME UNCHANGED <<x, width>> PROVE RootCovers'
  BY <1>7, <1>a
<1> QED
  BY <1>1, <1>3, <1>5, <1>6, <1>7 DEF Next, vars, inputVars, pointers, Accept, GsClose,
      GrNewWindow, GrNewInputWindow, GrSelectEvents, GrMapWindow, GrUnmapWindow, GrRaiseWindow,
      GrLowerWindow, GrKillWindow, GrSetWMProperties, GrSetFocus, DropDone, GrMoveCursor,
      GsHandleMouseStatus

(* What GsSetClipWindow lets a window draw on, going up from the window,   *)
(* is what the descent of GsFindVisibleWindow from the root finds it on,   *)
(* for any number of windows and any screen.                               *)
THEOREM DrawnWhereHitCorrect == Spec => []DrawnWhereHit
<1>1. Init => RootCovers
  BY TreeAssumption DEF Init, RootCovers, Root, Wids
<1>2. Spec => [](TypeInv /\ StackingOrder /\ Rooted /\ RealizedIffViewable)
  BY WindowsImplementTree, TypesCorrect, StackingCorrect, TreeRooted, RealizedCorrect, PTL
<1>3. TypeInv /\ TypeOK /\ StackingOrder /\ Rooted /\ RealizedIffViewable /\ RootCovers
         => DrawnWhereHit
  BY DrawnIsHit DEF DrawInv
<1> QED
  BY <1>1, <1>2, <1>3, RootCoversStep, WindowTypesCorrect, PTL DEF Spec

-----------------------------------------------------------------------------
(***************************************************************************)
(* Pointer and focus stay on the screen.  R is UpClosed when it has the    *)
(* parents of its windows, as the realized windows have.                   *)
(***************************************************************************)
UpClosed(R) == Root \in R /\ \A c \in listwp \ {Root} : c \in R => parent[c] \in R

OnScreen == {mousewp, focuswp} \subseteq realized

HidesOnlyReparented ==
    OnScreen => \/ OnScreen'
                \/ \E w \in listwp' : parent'[w] # parent[w] /\ parent'[w] \notin realized

LEMMA FocusForOn ==
    ASSUME TypeInv, NEW R, UpClosed(R), NEW m \in R, NEW s
    PROVE  FocusFor(m, s) \in R
<1> DEFINE C == {a \in listwp \ nofocus : \E c \in clients : "KEY_DOWN" \in s[a][c]}
           f == FocusFor(m, s)
           S == listwp \ R
<1>1. f = Nearest(m, C, Root) /\ C \subseteq listwp
  BY DEF FocusFor
<1> HIDE DEF C, f
<1>2. CASE f = Root
  BY <1>2 DEF UpClosed, f
<1>3. CASE f \in C /\ m \in Below(f, listwp \ C, parent)
  <2> SUFFICES ASSUME f \notin R PROVE FALSE
    BY DEF f
  <2>1. f \in S /\ S \in SUBSET listwp
    BY <1>1, <1>3
  <2>2. Closed(S, listwp \ C, parent)
    <3> SUFFICES ASSUME NEW c \in listwp \ C, parent[c] \in S PROVE c \in S
      BY DEF Closed
    <3>1. c # Root
      BY LiveWids DEF TypeInv, ParentsLive, NoWin, Wids
    <3> QED
      BY <3>1 DEF UpClosed
  <2> HIDE DEF S
  <2>3. m \in S
    BY <1>3, <2>1, <2>2, BelowLeast
  <2> QED
    BY <2>3 DEF S
<1> QED
  BY <1>1, <1>2, <1>3, NearestIn

LEMMA FocusAfterOn ==
    ASSUME TypeInv, UpClosed(realized), NEW R \in SUBSET realized, UpClosed(R),
           OnScreen, NEW m \in R, NEW s
    PROVE  FocusAfter(realized \ R, m, s) \in R
<1>1. FocusFor(mousewp, s) \in realized /\ FocusFor(m, s) \in R /\ Root \in R
  BY FocusForOn DEF OnScreen, UpClosed
<1>2. focuswp \notin realized \ R => focuswp \in R
  BY DEF OnScreen
<1> QED
  BY <1>1, <1>2 DEF FocusAfter

(* The realized flags follow from the mapped ones.                         *)
LEMMA SameFlags ==
    ASSUME TypeInv, Rooted, RealizedIffViewable, TypeInv', RealizedIffViewable',
           UNCHANGED <<listwp, mapped, parent>>
    PROVE  realized' = realized
<1> DEFINE S == {v \in listwp : v \in realized <=> v \in realized'}
<1>0. realized \subseteq listwp /\ realized' \subseteq listwp /\ Root \in listwp
  BY DEF TypeInv, TreeTypeOK, ParentsLive
<1>1. Root \in S /\ S \in SUBSET listwp
  BY <1>0 DEF RealizedIffViewable
<1>2. Closed(S, listwp, parent)
  <2> SUFFICES ASSUME NEW c \in listwp, parent[c] \in S PROVE c \in S
    BY DEF Closed
  <2>1. c # Root
    BY LiveWids DEF TypeInv, ParentsLive, NoWin, Wids
  <2> QED
    BY <2>1 DEF RealizedIffViewable
<1> HIDE DEF S
<1>3. Below(Root, listwp, parent) \subseteq S
  BY <1>1, <1>2, BelowLeast
<1> QED
  BY <1>0, <1>3 DEF Rooted, S

LEMMA ReparentStays ==
    ASSUME TypeInv, Rooted, RealizedIffViewable, TypeInv', RealizedIffViewable',
           NEW w \in Wids, NEW p \in Wids, TreeGrReparentWindow(w, p),
           p \in realized \/ parent[w] = p
    PROVE  realized \subseteq realized'
<1> DEFINE S == {v \in listwp : v \in realized => v \in realized'}
           U == Unrealize(w, realized, parent)
<1>0. /\ w \in listwp \ {Root} /\ p \in listwp /\ p \notin Below(w, listwp, parent)
      /\ listwp' = listwp /\ mapped' = mapped
      /\ parent' = [parent EXCEPT ![w] = p] /\ parent \in [Wids -> Wids \cup {NoWin}]
      /\ realized \in SUBSET listwp /\ Root \in listwp
  BY DEF TreeGrReparentWindow, TypeInv, TreeTypeOK, ParentsLive
<1>1. U \subseteq realized'
  BY DEF TreeGrReparentWindow, Realize
<1>2. p \in realized => p \in realized'
  <2>1. Below(w, realized, parent) \subseteq Below(w, listwp, parent)
    <3>1. Closed(Below(w, listwp, parent), realized, parent)
      BY <1>0, BelowClosed DEF Closed
    <3> QED
      BY <1>0, <3>1, BelowLive, BelowSelf, BelowLeast
  <2>2. p \in realized => p \in U
    BY <1>0, <2>1 DEF Unrealize
  <2> QED
    BY <1>1, <2>2
<1>3. Root \in S /\ S \in SUBSET listwp
  BY <1>0 DEF RealizedIffViewable
<1>4. Closed(S, listwp, parent)
  <2> SUFFICES ASSUME NEW c \in listwp, parent[c] \in S, c \in realized PROVE c \in realized'
    BY DEF Closed
  <2>1. c # Root /\ c \in Wids
    BY LiveWids DEF TypeInv, ParentsLive, NoWin, Wids
  <2>2. c \in mapped /\ parent[c] \in realized /\ parent[c] \in realized'
    BY <2>1 DEF RealizedIffViewable
  <2>3. parent'[c] \in realized'
    BY <1>0, <1>2, <2>1, <2>2
  <2> QED
    BY <1>0, <2>1, <2>2, <2>3 DEF RealizedIffViewable
<1> HIDE DEF S
<1>5. Below(Root, listwp, parent) \subseteq S
  BY <1>3, <1>4, BelowLeast
<1> QED
  BY <1>0, <1>5 DEF Rooted, S

LEMMA OnScreenStep ==
    /\ TypeInv /\ Rooted /\ RealizedIffViewable /\ TypeInv' /\ RealizedIffViewable'
    /\ [Next]_vars
    => [HidesOnlyReparented]_vars
<1> SUFFICES ASSUME TypeInv, Rooted, RealizedIffViewable, TypeInv', RealizedIffViewable',
                    Next, OnScreen
             PROVE  HidesOnlyReparented
  BY DEF HidesOnlyReparented
<1>a. /\ Root \in listwp /\ Root \in realized /\ Root \in realized'
      /\ realized \in SUBSET listwp /\ realized' \in SUBSET listwp'
  BY DEF TypeInv, TreeTypeOK, ParentsLive, RealizedIffViewable
<1>b. UpClosed(realized)
  BY DEF RealizedIffViewable, UpClosed
<1>c. ASSUME UNCHANGED <<listwp, parent>> PROVE UpClosed(realized')
  BY <1>c DEF RealizedIffViewable, UpClosed
<1>d. ASSUME realized \subseteq realized', UNCHANGED <<mousewp, focuswp>>
      PROVE  HidesOnlyReparented
  BY <1>d DEF OnScreen, HidesOnlyReparented
<1>e. ASSUME UNCHANGED <<listwp, parent, sel, nofocus, focusfixed>>,
             realized \subseteq realized', Recheck
      PROVE  HidesOnlyReparented
  <2>1. mousewp' \in realized'
    BY <1>a, <1>e, FindVisibleIn DEF Recheck
  <2>2. focuswp' \in realized'
    BY <1>c, <1>e, <2>1, FocusForOn DEF Recheck, Follow, OnScreen
  <2> QED
    BY <2>1, <2>2 DEF OnScreen, HidesOnlyReparented
<1>1. ASSUME NEW c \in Clients, NEW p \in Wids, NEW nx \in Cells, NEW size \in Sizes,
             GrNewWindow(c, p, nx, size) \/ GrNewInputWindow(c, p, nx, size)
      PROVE  HidesOnlyReparented
  BY <1>1, <1>d DEF GrNewWindow, GrNewInputWindow, TreeGrNewWindow, TreeGrNewInputWindow,
      NewWindow, Place, pointers
<1>2. ASSUME NEW w \in Wids, GrMapWindow(w) PROVE HidesOnlyReparented
  <2>1. realized \subseteq realized' /\ UNCHANGED <<listwp, parent, sel, nofocus, focusfixed>>
    BY <1>2 DEF GrMapWindow, TreeGrMapWindow, Realize
  <2> QED
    BY <1>2, <1>d, <1>e, <2>1 DEF GrMapWindow
<1>3. ASSUME NEW w \in Wids, GrUnmapWindow(w) PROVE HidesOnlyReparented
  <2>1. UNCHANGED <<listwp, parent>> /\ realized' \in SUBSET realized
    BY <1>3 DEF GrUnmapWindow, TreeGrUnmapWindow, Unrealize
  <2>2. mousewp' \in realized'
    BY <1>3, <1>a, <2>1, FindVisibleIn DEF GrUnmapWindow, MouseAfter, OnScreen
  <2>3. focuswp' \in realized'
    BY <1>3, <1>b, <1>c, <2>1, <2>2, FocusAfterOn DEF GrUnmapWindow
  <2> QED
    BY <2>2, <2>3 DEF OnScreen, HidesOnlyReparented
<1>4. ASSUME NEW w, TreeRemap(w) PROVE realized' = realized
  BY <1>4, SameFlags DEF TreeRemap
<1>5. ASSUME NEW w \in Wids, NEW nx \in Cells, GrMoveWindow(w, nx) PROVE HidesOnlyReparented
  <2>1. realized' = realized /\ UNCHANGED <<listwp, parent, sel, nofocus, focusfixed>>
    BY <1>4, <1>5 DEF GrMoveWindow, TreeRemap, treeVars
  <2>2. UNCHANGED <<mousewp, focuswp>> \/ Recheck
    BY <1>5 DEF GrMoveWindow
  <2> QED
    BY <1>d, <1>e, <2>1, <2>2
<1>6. ASSUME NEW w \in Wids, NEW p \in Wids, NEW nx \in Cells, GrReparentWindow(w, p, nx)
      PROVE  HidesOnlyReparented
  <2>1. TreeGrReparentWindow(w, p) /\ UNCHANGED <<mousewp, focuswp>>
    BY <1>6 DEF GrReparentWindow, pointers
  <2>2. CASE p \in realized \/ parent[w] = p
    BY <1>d, <2>1, <2>2, ReparentStays
  <2>3. CASE p \notin realized /\ parent[w] # p
    <3>1. w \in listwp' /\ parent'[w] = p
      BY <2>1 DEF TreeGrReparentWindow, TypeInv, TreeTypeOK
    <3> QED
      BY <2>3, <3>1 DEF HidesOnlyReparented
  <2> QED
    BY <2>2, <2>3
<1>7. ASSUME NEW w \in listwp, NEW s, DestroyWindow(w), DestroyEffect(w, s)
      PROVE  HidesOnlyReparented
  <2> DEFINE U == Unrealize(w, realized, parent)
             m == MouseAfter(realized \ U, realized')
             f == FocusAfter(realized \ U, m, s)
  <2>1. /\ realized' = U \ Gone(w) /\ w # Root
        /\ mousewp' = FindVisible(realized', x, cursorx)
        /\ focuswp' = IF f \in Gone(w) THEN Root ELSE f
    BY <1>7 DEF DestroyWindow, DestroyEffect, ResetIf
  <2>2. U \in SUBSET realized /\ UpClosed(U)
    <3>1. U \in SUBSET realized
      BY DEF Unrealize
    <3>2. ASSUME NEW c \in listwp \ {Root}, c \in U PROVE parent[c] \in U
      BY <1>b, <3>2, <1>a, BelowClosed DEF Unrealize, UpClosed
    <3>3. Root \in U
      BY <1>a, <2>1
    <3> QED
      BY <3>1, <3>2, <3>3 DEF UpClosed
  <2>3. FindVisible(realized', x, cursorx) \in realized'
    <3>1. realized' \in SUBSET listwp
      BY <1>a, <2>1, <2>2
    <3> QED
      BY <1>a, <3>1, FindVisibleIn
  <2>4. m \in U
    BY <2>1, <2>2, <2>3 DEF MouseAfter, OnScreen
  <2> HIDE DEF m, U
  <2>5. f \in U
    BY <1>b, <2>2, <2>4, FocusAfterOn
  <2> HIDE DEF f
  <2> QED
    BY <1>a, <2>1, <2>3, <2>5 DEF OnScreen, HidesOnlyReparented
<1>8. ASSUME NEW w \in Wids, GrDestroyWindow(w) \/ DestroyOwned(w) PROVE HidesOnlyReparented
  BY <1>7, <1>8 DEF GrDestroyWindow, DestroyOwned, TreeGrDestroyWindow, TreeDestroyOwned, Owned
<1>9. ASSUME NEW w \in Wids, GrSetFocus(w) PROVE HidesOnlyReparented
  BY <1>9 DEF GrSetFocus, treeVars, OnScreen, HidesOnlyReparented
<1>10. ASSUME NEW nx \in Cells, GrMoveCursor(nx) PROVE HidesOnlyReparented
  BY <1>10, <1>e DEF GrMoveCursor, treeVars
<1>11. ASSUME NEW nx \in Cells, NEW buttons \in SUBSET Buttons,
              GsHandleMouseStatus(nx, buttons)
       PROVE  HidesOnlyReparented
  <2> DEFINE here == FindVisible(realized, x, nx)
  <2>1. here \in realized /\ Follow(here) \in realized
    BY <1>a, <1>b, FindVisibleIn, FocusForOn DEF Follow, OnScreen
  <2>2. realized' = realized /\ mousewp' \in {mousewp, here} /\ focuswp' \in {focuswp, Follow(here)}
    BY <1>11 DEF GsHandleMouseStatus, treeVars
  <2> HIDE DEF here
  <2> QED
    BY <2>1, <2>2 DEF OnScreen, HidesOnlyReparented
<1>12. ASSUME NEW w \in Wids,
              \/ GrRaiseWindow(w) \/ GrLowerWindow(w) \/ GrKillWindow(w)
              \/ GrSetWMProperties(w)
              \/ \E size \in Sizes : GrResizeWindow(w, size)
              \/ \E c \in Clients, mask \in Masks : GrSelectEvents(c, w, mask)
       PROVE  HidesOnlyReparented
  BY <1>12, <1>d, <1>4 DEF GrRaiseWindow, GrLowerWindow, GrKillWindow, GrSetWMProperties,
      GrResizeWindow, GrSelectEvents, TreeGrRaiseWindow, TreeGrLowerWindow,
      TreeGrKillWindow, TreeGsClose, inputVars, treeVars, pointers
<1>13. ASSUME DropDone \/ \E c \in Clients : Accept(c) \/ GsClose(c) PROVE HidesOnlyReparented
  BY <1>13, <1>d DEF DropDone, Accept, GsClose, TreeDropDone, GsAcceptClientFd, TreeGsClose,
      inputVars, pointers
<1> QED
  BY <1>1, <1>2, <1>3, <1>5, <1>6, <1>8, <1>9, <1>10, <1>11, <1>12, <1>13 DEF Next

(* Unmapping, moving and destroying take the pointer and the focus along:  *)
(* only a window that is reparented under a hidden one can hide them, for  *)
(* any number of windows, in any order of requests.                        *)
THEOREM OnlyReparentHidesCorrect == Spec => OnlyReparentHides
<1>1. Spec => [](TypeInv /\ Rooted /\ RealizedIffViewable)
  BY WindowsImplementTree, TypesCorrect, TreeRooted, RealizedCorrect, PTL
<1>2. /\ TypeInv /\ Rooted /\ RealizedIffViewable /\ TypeInv' /\ RealizedIffViewable'
      /\ [Next]_vars
      => [{mousewp, focuswp} \subseteq realized =>
             \/ {mousewp', focuswp'} \subseteq realized'
             \/ \E w \in listwp' : parent'[w] # parent[w] /\ parent'[w] \notin realized]_vars
  BY OnScreenStep DEF HidesOnlyReparented, OnScreen
<1> QED
  BY <1>1, <1>2, PTL DEF Spec, OnlyReparentHides
=============================================================================
