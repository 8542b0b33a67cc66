---------------------------- MODULE NxSelectProofs ----------------------------
(***************************************************************************)
(* Proofs about the main loop and the list of clients: the list stays      *)
(* sound, the pass over it stays on clients that are connected, and nobody *)
(* is served more than twice ahead of a client whose request waits.        *)
(***************************************************************************)
EXTENDS NxSelect, SequenceTheorems, WellFoundedInduction, TLAPS

Ref == Clients \cup {NULL}

TypeOK ==
    /\ root_client \in Ref
    /\ next \in [Clients -> Ref] /\ prev \in [Clients -> Ref]
    /\ connectcount \in Nat
    /\ persistent_mode \in BOOLEAN
    /\ pc \in {"select", "serve", "exit", "crashed"}
    /\ curclient \in Ref
    /\ rfds \subseteq Clients
    /\ waiting \subseteq Clients /\ events \subseteq Clients
    /\ socket \in [Clients -> {"empty", "part", "request"}]
    /\ hungup \subseteq Clients /\ backlog \subseteq Clients
    /\ order \in Seq(Clients)

(* A client is on the list once.                                           *)
Once == \A i, j \in DOMAIN order : order[i] = order[j] => i = j

(* Nothing points to or from a client that is not on the list.             *)
FreedIsBare == \A c \in Clients \ Live : next[c] = NULL /\ prev[c] = NULL

(* A connection is accepted only once.                                     *)
NotYetAccepted == backlog \cap Live = {}

(* The pass over the clients is at one that is connected, or at the end.   *)
PassIsOnList == pc = "serve" => curclient \in Live \cup {NULL}

ListInv == Once /\ ListSound /\ FreedIsBare

SelectInv == TypeOK /\ ListInv /\ NotYetAccepted /\ PassIsOnList

-----------------------------------------------------------------------------
(* Facts about sequences: one element taken out, one added.                *)
LEMMA Cut ==
    ASSUME NEW m \in Nat, NEW n \in Nat, m <= n
    PROVE  /\ n - (m + 1) + 1 = n - m
           /\ (m = n => n - m = 0 /\ ~(m + 1 <= n)) /\ (m # n => m + 1 <= n)
           /\ \A i \in Nat : (m + 1) + i - 1 = m + i
OBVIOUS

LEMMA Shortened ==
    ASSUME NEW S, NEW s \in Seq(S), NEW k \in 1..Len(s)
    PROVE  /\ RemoveAt(s, k) \in Seq(S) /\ Len(RemoveAt(s, k)) = Len(s) - 1
           /\ \A i \in 1..(Len(s) - 1) :
                 RemoveAt(s, k)[i] = IF i < k THEN s[i] ELSE s[i + 1]
<1> DEFINE a == SubSeq(s, 1, k - 1)
           b == SubSeq(s, k + 1, Len(s))
<1>1. Len(s) \in Nat /\ DOMAIN s = 1..Len(s) /\ k \in Nat /\ 1 <= k /\ k <= Len(s)
  BY LenProperties
<1>2. a \in Seq(S) /\ Len(a) = k - 1 /\ \A i \in 1..(k - 1) : a[i] = s[i]
  BY <1>1, SubSeqProperties
<1>3. b \in Seq(S) /\ Len(b) = Len(s) - k /\ \A i \in 1..(Len(s) - k) : b[i] = s[k + i]
  <2>1. /\ k + 1 \in Int /\ Len(s) \in Int
        /\ \A i \in (k + 1)..Len(s) : s[i] \in S
    BY <1>1
  <2>2. /\ b \in Seq(S)
        /\ Len(b) = IF k + 1 <= Len(s) THEN Len(s) - (k + 1) + 1 ELSE 0
        /\ \A i \in 1..(Len(s) - (k + 1) + 1) : b[i] = s[(k + 1) + i - 1]
    BY <2>1, SubSeqProperties
  <2> HIDE DEF b
  <2>3. /\ Len(s) - (k + 1) + 1 = Len(s) - k
        /\ (k = Len(s) => Len(s) - k = 0 /\ ~(k + 1 <= Len(s))) /\ (k # Len(s) => k + 1 <= Len(s))
        /\ \A i \in Nat : (k + 1) + i - 1 = k + i
    BY <1>1, Cut, Zenon
  <2>4. Len(b) = Len(s) - k
    BY <2>2, <2>3, Zenon
  <2>5. \A i \in 1..(Len(s) - k) : b[i] = s[k + i]
    <3> TAKE i \in 1..(Len(s) - k)
    <3>1. i \in 1..(Len(s) - (k + 1) + 1)
      BY <2>3, Zenon
    <3>2. i \in Nat
      OBVIOUS
    <3> QED
      BY <2>2, <2>3, <3>1, <3>2, Zenon
  <2> QED
    BY <2>2, <2>4, <2>5
<1> HIDE DEF a, b
<1>4. /\ a \o b \in Seq(S) /\ Len(a \o b) = Len(a) + Len(b)
      /\ \A i \in 1..(Len(a) + Len(b)) : (a \o b)[i] = IF i <= Len(a) THEN a[i] ELSE b[i - Len(a)]
  BY <1>2, <1>3, ConcatProperties
<1>5. RemoveAt(s, k) = a \o b
  BY DEF RemoveAt, a, b
<1>6. ASSUME NEW i \in 1..(Len(s) - 1)
      PROVE  (a \o b)[i] = IF i < k THEN s[i] ELSE s[i + 1]
  <2>1. CASE i < k
    BY <1>1, <1>2, <1>3, <1>4, <2>1
  <2>2. CASE ~(i < k)
    <3>1. i - (k - 1) \in 1..(Len(s) - k)
      BY <1>1, <2>2
    <3>2. (a \o b)[i] = b[i - (k - 1)]
      BY <1>1, <1>2, <1>3, <1>4, <2>2
    <3>3. k + (i - (k - 1)) = i + 1
      BY <1>1
    <3> QED
      BY <1>3, <2>2, <3>1, <3>2, <3>3
  <2> QED
    BY <2>1, <2>2
<1>7. RemoveAt(s, k) \in Seq(S) /\ Len(RemoveAt(s, k)) = Len(s) - 1
  <2>1. Len(a) + Len(b) = Len(s) - 1
    BY <1>1, <1>2, <1>3
  <2> QED
    BY <1>4, <1>5, <2>1
<1> QED
  BY <1>5, <1>6, <1>7

(* The place of a client among those accepted.                             *)
Place(c) == CHOOSE i \in DOMAIN order : order[i] = c

LEMMA PlaceOf ==
    ASSUME TypeOK, NEW c \in Live
    PROVE  Place(c) \in 1..Len(order) /\ order[Place(c)] = c
<1>1. order \in Seq(Clients)
  BY DEF TypeOK
<1>2. \E i \in DOMAIN order : order[i] = c
  BY DEF Live, ToSet
<1> QED
  BY <1>1, <1>2, LenProperties DEF Place

LEMMA LiveAt ==
    ASSUME TypeOK
    PROVE  /\ Live \subseteq Clients /\ Len(order) \in Nat /\ DOMAIN order = 1..Len(order)
           /\ \A i \in 1..Len(order) : order[i] \in Live /\ order[i] \in Clients
           /\ \A c \in Live : \E i \in 1..Len(order) : order[i] = c
<1>1. order \in Seq(Clients) /\ Len(order) \in Nat /\ DOMAIN order = 1..Len(order)
  BY LenProperties DEF TypeOK
<1>2. \A i \in 1..Len(order) : order[i] \in Clients
  BY <1>1
<1> QED
  BY <1>1, <1>2 DEF Live, ToSet

-----------------------------------------------------------------------------
(* A set of numbers has a least one.                                       *)
Less == {p \in Nat \X Nat : p[1] < p[2]}

LEMMA LessWellFounded == IsWellFoundedOn(Less, Nat)
<1>1. IsWellFoundedOn(OpToRel(<, Nat), Nat)
  BY NatLessThanWellFounded
<1>2. Less \cap (Nat \X Nat) \subseteq OpToRel(<, Nat)
  BY DEF Less, OpToRel
<1> QED
  BY <1>1, <1>2, IsWellFoundedOnSubrelation

LEMMA SmallestOfNats ==
    ASSUME NEW T, T \subseteq Nat, T # {}
    PROVE  \E m \in T : \A k \in T : m <= k
<1>1. PICK m \in T : \A k \in T : ~ (<<k, m>> \in Less)
  BY LessWellFounded, WFMin
<1>2. ASSUME NEW k \in T PROVE m <= k
  <2>1. k \in Nat /\ m \in Nat
    OBVIOUS
  <2>2. CASE k < m
    <3>1. <<k, m>> \in Less
      BY <2>1, <2>2 DEF Less
    <3> QED
      BY <1>1, <3>1
  <2> QED
    BY <2>1, <2>2
<1> QED
  BY <1>2

-----------------------------------------------------------------------------
(* From a client on, the list has the clients accepted since.              *)
Since(i) == {order[j] : j \in i..Len(order)}

(* There is one function that satisfies the recursive definition.          *)
LEMMA FromIs ==
    ASSUME TypeOK, ListInv
    PROVE  From = [c \in Clients |-> IF next[c] = NULL THEN {c} ELSE {c} \cup From[next[c]]]
<1> DEFINE G == [c \in Clients |-> {c} \cup UNION {Since(i) : i \in {k \in 1..Len(order) : order[k] = c}}]
           Step(f) == [c \in Clients |-> IF next[c] = NULL THEN {c} ELSE {c} \cup f[next[c]]]
<1>1. ASSUME NEW i \in 1..Len(order) PROVE G[order[i]] = Since(i)
  <2>1. {k \in 1..Len(order) : order[k] = order[i]} = {i}
    BY LiveAt DEF ListInv, Once
  <2>2. order[i] \in Clients /\ order[i] \in Since(i)
    BY LiveAt DEF Since
  <2> QED
    BY <2>1, <2>2
<1>2. ASSUME NEW c \in Clients PROVE G[c] = Step(G)[c]
  <2>1. CASE c \notin Live
    <3>1. {k \in 1..Len(order) : order[k] = c} = {}
      BY <2>1, LiveAt
    <3>2. next[c] = NULL
      BY <2>1 DEF ListInv, FreedIsBare
    <3> QED
      BY <3>1, <3>2
  <2>2. ASSUME NEW i \in 1..Len(order), c = order[i] PROVE G[c] = Step(G)[c]
    <3>1. Len(order) \in Nat /\ i \in Nat
      BY LiveAt
    <3>2. CASE i = Len(order)
      <4>1. next[c] = NULL
        BY <2>2, <3>2, LiveAt DEF ListInv, ListSound
      <4>2. Since(i) = {c}
        BY <2>2, <3>1, <3>2 DEF Since
      <4> QED
        BY <1>1, <2>2, <4>1, <4>2
    <3>3. CASE i < Len(order)
      <4>1. i + 1 \in 1..Len(order)
        BY <3>1, <3>3
      <4>2. next[c] = order[i + 1] /\ next[c] # NULL
        BY <2>2, <3>3, <4>1, LiveAt, SelectAssumption DEF ListInv, ListSound
      <4>3. Since(i) = {c} \cup Since(i + 1)
        BY <2>2, <3>1, <3>3 DEF Since
      <4>4. G[c] = Since(i) /\ G[order[i + 1]] = Since(i + 1)
        BY <1>1, <2>2, <4>1
      <4> HIDE DEF G
      <4> QED
        BY <4>2, <4>3, <4>4, Zenon
    <3> QED
      BY <3>1, <3>2, <3>3, SMTT(60)
  <2> QED
    BY <2>1, <2>2, LiveAt
<1>3. G = Step(G)
  <2>1. G = [c \in Clients |-> G[c]]
    OBVIOUS
  <2>2. Step(G) = [c \in Clients |-> Step(G)[c]]
    OBVIOUS
  <2> HIDE DEF G, Step
  <2> QED
    BY <1>2, <2>1, <2>2
<1>4. From = CHOOSE f : f = Step(f)
  BY Zenon DEF From
<1> HIDE DEF G, Step
<1>5. From = Step(From)
  BY <1>3, <1>4
<1> QED
  BY <1>5 DEF Step

LEMMA FromPlace ==
    ASSUME TypeOK, ListInv, NEW i \in 1..Len(order)
    PROVE  From[order[i]] = Since(i)
<1> DEFINE n == Len(order)
           T == {m \in Nat : m < n /\ From[order[n - m]] # Since(n - m)}
<1>0. n \in Nat /\ i \in Nat
  BY LiveAt
<1>1. SUFFICES ASSUME From[order[i]] # Since(i) PROVE FALSE
  OBVIOUS
<1>2. n - i \in T
  <2>1. n - i \in Nat /\ n - i < n /\ n - (n - i) = i
    BY <1>0
  <2> QED
    BY <1>1, <2>1
<1>3. PICK m \in T : \A k \in T : m <= k
  BY <1>2, SmallestOfNats
<1>4. n - m \in 1..n /\ m \in Nat /\ m < n
  BY <1>0, <1>3
<1> DEFINE p == n - m
<1>5. From[order[p]] = IF next[order[p]] = NULL THEN {order[p]} ELSE {order[p]} \cup From[next[order[p]]]
  BY <1>4, LiveAt, FromIs
<1>6. CASE m = 0
  <2>1. p = n
    BY <1>0, <1>6
  <2>2. next[order[p]] = NULL
    BY <1>4, <2>1, LiveAt DEF ListInv, ListSound
  <2>3. Since(p) = {order[p]}
    BY <1>0, <2>1 DEF Since
  <2> QED
    BY <1>3, <1>5, <2>2, <2>3
<1>7. CASE m > 0
  <2>1. m - 1 \in Nat /\ ~(m <= m - 1) /\ m - 1 < n /\ n - (m - 1) = p + 1 /\ p < n /\ p + 1 \in 1..n
    BY <1>0, <1>4, <1>7
  <2>2. m - 1 \notin T
    BY <1>3, <2>1
  <2>3. From[order[p + 1]] = Since(p + 1)
    BY <2>1, <2>2
  <2>4. next[order[p]] = order[p + 1] /\ next[order[p]] # NULL
    BY <1>4, <2>1, LiveAt, SelectAssumption DEF ListInv, ListSound
  <2>5. Since(p) = {order[p]} \cup Since(p + 1)
    BY <1>0, <1>4, <2>1 DEF Since
  <2> QED
    BY <1>3, <1>5, <2>3, <2>4, <2>5
<1> QED
  BY <1>4, <1>6, <1>7

LEMMA ListedIsLive ==
    ASSUME TypeOK, ListInv
    PROVE  Listed = Live
<1>1. CASE order = <<>>
  <2>1. Live = {}
    BY <1>1 DEF Live, ToSet
  <2> QED
    BY <1>1, <2>1 DEF ListInv, ListSound, Listed
<1>2. CASE order # <<>>
  <2>1. order \in Seq(Clients) /\ 1 \in 1..Len(order)
    BY <1>2, EmptySeq DEF TypeOK
  <2>2. root_client = order[1] /\ root_client # NULL
    BY <1>2, <2>1, LiveAt, SelectAssumption DEF ListInv, ListSound
  <2>3. Listed = Since(1)
    BY <2>1, <2>2, FromPlace DEF Listed
  <2>4. Since(1) = Live
    BY LiveAt DEF Since
  <2> QED
    BY <2>3, <2>4
<1> QED
  BY <1>1, <1>2

(* The last of the list, which GsAcceptClientFd goes to.                   *)
LEMMA LastOfList ==
    ASSUME TypeOK, ListInv, order # <<>>
    PROVE  (CHOOSE d \in Listed : next[d] = NULL) = order[Len(order)]
<1>1. order \in Seq(Clients) /\ Len(order) \in 1..Len(order)
  BY EmptySeq DEF TypeOK
<1>2. order[Len(order)] \in Listed /\ next[order[Len(order)]] = NULL
  BY <1>1, ListedIsLive, LiveAt DEF ListInv, ListSound
<1>3. ASSUME NEW d \in Listed, next[d] = NULL PROVE d = order[Len(order)]
  <2>1. PICK j \in 1..Len(order) : order[j] = d
    BY ListedIsLive, LiveAt
  <2>2. CASE j < Len(order)
    <3>1. j + 1 \in 1..Len(order)
      BY <2>2, LiveAt
    <3>2. next[d] = order[j + 1]
      BY <2>1, <2>2, LiveAt DEF ListInv, ListSound
    <3> QED
      BY <1>3, <3>1, <3>2, LiveAt, SelectAssumption
  <2> QED
    BY <2>1, <2>2, LiveAt
<1> QED
  BY <1>2, <1>3

(* The pass comes to one that it can answer when there is one.             *)
LEMMA FirstToBeAnswered ==
    ASSUME TypeOK, ListInv, ToAnswer # {}
    PROVE  \E d \in ToAnswer : ToAnswer \subseteq From[d]
<1> DEFINE T == {j \in 1..Len(order) : order[j] \in ToAnswer}
<1>1. T # {} /\ T \subseteq Nat
  <2>1. PICK d \in ToAnswer : TRUE
    OBVIOUS
  <2>2. d \in Live
    BY ListedIsLive DEF ToAnswer
  <2> QED
    BY <2>2, LiveAt
<1>2. PICK m \in T : \A k \in T : m <= k
  BY <1>1, SmallestOfNats
<1>3. ASSUME NEW e \in ToAnswer PROVE e \in From[order[m]]
  <2>1. PICK k \in 1..Len(order) : order[k] = e
    BY ListedIsLive, LiveAt DEF ToAnswer
  <2>2. m <= k /\ m \in Nat /\ Len(order) \in Nat
    BY <1>2, <2>1, LiveAt
  <2>3. k \in m..Len(order) /\ m \in 1..Len(order)
    BY <1>2, <2>2
  <2>4. order[k] \in Since(m)
    BY <2>3 DEF Since
  <2> QED
    BY <2>1, <2>3, <2>4, FromPlace
<1> QED
  BY <1>2, <1>3

-----------------------------------------------------------------------------
(* The list after a client has come or gone.                               *)
Comes(c) == ListBecomes(Linked(List, c)) /\ order' = Append(order, c)
Goes(c) ==
    /\ ListBecomes(Dropped(List, c))
    /\ order' = RemoveAt(order, CHOOSE i \in DOMAIN order : order[i] = c)

LEMMA ComesLinked ==
    ASSUME TypeOK, ListInv, NEW c \in Clients \ Live, Comes(c)
    PROVE  /\ root_client' \in Ref /\ next' \in [Clients -> Ref] /\ prev' \in [Clients -> Ref]
           /\ connectcount' \in Nat /\ order' \in Seq(Clients)
           /\ Live' = Live \cup {c}
           /\ ListInv'
<1> DEFINE n == Len(order)
<1>0. /\ n \in Nat /\ order \in Seq(Clients) /\ DOMAIN order = 1..n
      /\ next \in [Clients -> Ref] /\ prev \in [Clients -> Ref]
      /\ next[c] = NULL /\ prev[c] = NULL /\ NULL \notin Clients
      /\ c \in Clients /\ connectcount = n
  BY LiveAt, SelectAssumption DEF TypeOK, ListInv, FreedIsBare, ListSound
<1>1. /\ order' \in Seq(Clients) /\ Len(order') = n + 1 /\ DOMAIN order' = 1..(n + 1)
      /\ order'[n + 1] = c /\ \A i \in 1..n : order'[i] = order[i]
  <2>1. order' = Append(order, c)
    BY DEF Comes
  <2> QED
    BY <1>0, <2>1, AppendProperties
<1>5. \A m \in Nat : \A k \in 1..m :
         /\ k = m \/ k < m
         /\ k < m => k + 1 \in 1..m /\ k # m /\ k < m + 1
  OBVIOUS
<1>2. CASE n = 0
  <2>1. root_client' = c /\ next' = next /\ prev' = prev /\ connectcount' = 1
    BY <1>0, <1>2 DEF Comes, ListBecomes, Linked, List
  <2>2. order' = <<c>> /\ order = <<>>
    BY <1>0, <1>2, EmptySeq DEF Comes
  <2>3. Live' = {c} /\ Live = {}
    BY <2>2 DEF Live, ToSet
  <2>4. ListSound'
    BY <1>0, <1>1, <1>2, <2>1, <2>2 DEF ListSound
  <2>5. Once'
    BY <1>1, <1>2 DEF Once
  <2>6. FreedIsBare'
    BY <2>1, <2>3 DEF ListInv, FreedIsBare
  <2> QED
    BY <1>0, <1>1, <2>1, <2>3, <2>4, <2>5, <2>6 DEF ListInv, Ref
<1>3. CASE n # 0
  <2> DEFINE last == order[n]
  <2>0. n \in 1..n /\ last \in Clients /\ last \in Live /\ last # c
    BY <1>0, <1>3, LiveAt
  <2>1. (CHOOSE d \in Listed : next[d] = NULL) = last
    BY <1>3, <1>0, LastOfList, EmptySeq
  <2>2. /\ root_client' = root_client /\ connectcount' = n + 1
        /\ next' = [next EXCEPT ![last] = c] /\ prev' = [prev EXCEPT ![c] = last]
    <3>1. Linked(List, c) = [List EXCEPT !.count = @ + 1, !.prev[c] = last, !.next[last] = c]
      BY <1>0, <1>3, <2>1 DEF Linked, List
    <3> HIDE DEF last
    <3> QED
      BY <1>0, <3>1 DEF Comes, ListBecomes, List
  <2>3. Live' = Live \cup {c}
    BY <1>0, <1>1, LiveAt, SMTT(30) DEF Live, ToSet
  <2>4. Once'
    <3> SUFFICES ASSUME NEW i \in 1..(n + 1), NEW j \in 1..(n + 1), order'[i] = order'[j]
                 PROVE  i = j
      BY <1>1 DEF Once
    <3>1. CASE i \in 1..n /\ j \in 1..n
      BY <1>0, <1>1, <3>1 DEF ListInv, Once
    <3>2. ASSUME NEW k \in 1..n PROVE order'[k] # c
      BY <1>0, <1>1, LiveAt
    <3> QED
      BY <1>0, <1>1, <3>1, <3>2
  <2>5. ASSUME NEW i \in 1..(n + 1)
        PROVE  /\ next'[order'[i]] = IF i < n + 1 THEN order'[i + 1] ELSE NULL
               /\ prev'[order'[i]] = IF i > 1 THEN order'[i - 1] ELSE NULL
    <3>1. CASE i = n + 1
      <4>1. order'[i] = c /\ next'[c] = NULL /\ prev'[c] = last
        BY <1>0, <1>1, <2>0, <2>2, <3>1
      <4>2. i > 1 /\ ~(i < n + 1) /\ i - 1 = n /\ order'[n] = last
        BY <1>0, <1>1, <1>3, <3>1, SMTT(30)
      <4> QED
        BY <4>1, <4>2
    <3>2. CASE i \in 1..n
      <4>1. order'[i] = order[i] /\ order[i] \in Clients /\ order[i] # c
        BY <1>1, <3>2, LiveAt
      <4>2. /\ next[order[i]] = IF i < n THEN order[i + 1] ELSE NULL
            /\ prev[order[i]] = IF i > 1 THEN order[i - 1] ELSE NULL
        BY <3>2, <1>0 DEF ListInv, ListSound
      <4>3. prev'[order'[i]] = IF i > 1 THEN order'[i - 1] ELSE NULL
        BY <1>0, <1>1, <2>2, <3>2, <4>1, <4>2
      <4>4. CASE i = n
        BY <1>0, <1>1, <2>0, <2>2, <3>2, <4>1, <4>3, <4>4
      <4>5. CASE i < n
        <5>1. i + 1 \in 1..n /\ i # n /\ i < n + 1
          BY <1>0, <1>5, <3>2, <4>5, ZenonT(60)
        <5>2. order[i] # last
          BY <1>0, <2>0, <3>2, <5>1 DEF ListInv, Once
        <5> QED
          BY <1>0, <1>1, <2>2, <4>1, <4>2, <4>3, <4>5, <5>1, <5>2, SMTT(30)
      <4> QED
        BY <1>0, <1>5, <3>2, <4>4, <4>5
    <3> QED
      BY <1>0, <3>1, <3>2
  <2>6. ListSound'
    <3>1. root_client = order[1] /\ order # <<>> /\ 1 \in 1..n
      BY <1>0, <1>3, EmptySeq DEF ListInv, ListSound
    <3>2. order' # <<>> /\ order'[1] = order[1]
      BY <1>0, <1>1, <3>1, EmptySeq
    <3> QED
      BY <1>1, <2>2, <2>5, <3>1, <3>2 DEF ListSound
  <2>7. FreedIsBare'
    <3> SUFFICES ASSUME NEW d \in Clients, d \notin Live \cup {c}
                 PROVE  next'[d] = NULL /\ prev'[d] = NULL
      BY <2>3 DEF FreedIsBare
    <3>1. next[d] = NULL /\ prev[d] = NULL
      BY DEF ListInv, FreedIsBare
    <3> QED
      BY <1>0, <2>0, <2>2, <3>1
  <2> QED
    BY <1>0, <1>1, <2>0, <2>2, <2>3, <2>4, <2>6, <2>7 DEF ListInv, Ref, TypeOK
<1> QED
  BY <1>2, <1>3

LEMMA GoesUnlinked ==
    ASSUME TypeOK, ListInv, NEW c \in Live, Goes(c)
    PROVE  /\ root_client' \in Ref /\ next' \in [Clients -> Ref] /\ prev' \in [Clients -> Ref]
           /\ connectcount' \in Nat /\ order' \in Seq(Clients)
           /\ Live' = Live \ {c}
           /\ ListInv'
<1> DEFINE n == Len(order)
           k == Place(c)
<1>0. /\ n \in Nat /\ order \in Seq(Clients) /\ DOMAIN order = 1..n
      /\ next \in [Clients -> Ref] /\ prev \in [Clients -> Ref]
      /\ NULL \notin Clients /\ c \in Clients /\ connectcount = n
      /\ k \in 1..n /\ order[k] = c
      /\ \A i \in 1..n : order[i] \in Clients
  BY LiveAt, PlaceOf, SelectAssumption DEF TypeOK, ListInv, ListSound
<1>1. order' = RemoveAt(order, k)
  BY DEF Goes, Place
<1> DEFINE Old(i) == IF i < k THEN i ELSE i + 1
<1> HIDE DEF k
<1>2. /\ order' \in Seq(Clients) /\ Len(order') = n - 1 /\ DOMAIN order' = 1..(n - 1)
      /\ \A i \in 1..(n - 1) : order'[i] = order[Old(i)]
  <2>1. /\ order' \in Seq(Clients) /\ Len(order') = n - 1
        /\ \A i \in 1..(n - 1) : order'[i] = IF i < k THEN order[i] ELSE order[i + 1]
    BY <1>0, <1>1, Shortened, Zenon
  <2> QED
    BY <2>1, LenProperties, Zenon
<1> HIDE DEF n
<1>3. ASSUME NEW i \in 1..(n - 1)
      PROVE  Old(i) \in 1..n /\ Old(i) # k
  BY <1>0
<1>4. /\ root_client' = IF c = root_client THEN next[c] ELSE root_client
      /\ connectcount' = n - 1
      /\ next' = [d \in Clients |-> IF d = c THEN NULL ELSE IF d = prev[c] THEN next[c] ELSE next[d]]
      /\ prev' = [d \in Clients |-> IF d = c THEN NULL ELSE IF d = next[c] THEN prev[c] ELSE prev[d]]
  BY <1>0 DEF Goes, ListBecomes, Dropped, List
<1>5. /\ next[c] = IF k < n THEN order[k + 1] ELSE NULL
      /\ prev[c] = IF k > 1 THEN order[k - 1] ELSE NULL
  BY <1>0 DEF ListInv, ListSound, n
<1>6. \A i, j \in 1..n : order[i] = order[j] => i = j
  BY <1>0 DEF ListInv, Once
<1>7. Live' = Live \ {c}
  <2>1. Live' = {order'[i] : i \in 1..(n - 1)}
    BY <1>2 DEF Live, ToSet
  <2>2. Live = {order[i] : i \in 1..n}
    BY <1>0 DEF Live, ToSet
  <2>3. ASSUME NEW i \in 1..(n - 1) PROVE order'[i] \in Live \ {c}
    <3>1. order'[i] = order[Old(i)] /\ Old(i) \in 1..n /\ Old(i) # k
      BY <1>2, <1>3
    <3> HIDE DEF Old
    <3> QED
      BY <1>0, <1>6, <2>2, <3>1
  <2>4. ASSUME NEW i \in 1..n, order[i] # c PROVE order[i] \in Live'
    <3>1. i # k
      BY <1>0, <2>4
    <3>2. CASE i < k
      <4>1. i \in 1..(n - 1) /\ Old(i) = i
        BY <1>0, <3>2
      <4> QED
        BY <1>2, <2>1, <4>1
    <3>3. CASE i > k
      <4>1. i - 1 \in 1..(n - 1) /\ Old(i - 1) = i
        BY <1>0, <3>3
      <4> HIDE DEF Old
      <4> QED
        BY <1>2, <2>1, <4>1
    <3> QED
      BY <1>0, <3>1, <3>2, <3>3
  <2> QED
    BY <2>1, <2>2, <2>3, <2>4
<1>8. Once'
  <2> SUFFICES ASSUME NEW i \in 1..(n - 1), NEW j \in 1..(n - 1), order'[i] = order'[j]
               PROVE  i = j
    BY <1>2 DEF Once
  <2>1. Old(i) = Old(j)
    BY <1>2, <1>3, <1>6
  <2> QED
    BY <1>0, <2>1
<1>9. ASSUME NEW i \in 1..(n - 1)
      PROVE  next'[order'[i]] = IF i < n - 1 THEN order'[i + 1] ELSE NULL
  <2> DEFINE o == Old(i)
  <2>1. order'[i] = order[o] /\ o \in 1..n /\ order[o] # c /\ order[o] \in Clients
    BY <1>0, <1>2, <1>3, <1>6
  <2>2. next[order[o]] = IF o < n THEN order[o + 1] ELSE NULL
    BY <1>0, <2>1 DEF ListInv, ListSound, n
  <2>3. order[o] = prev[c] <=> o + 1 = k
    <3>1. k > 1 => k - 1 \in 1..n
      BY <1>0
    <3> HIDE DEF o
    <3> QED
      BY <1>0, <1>5, <1>6, <2>1, <3>1
  <2>4. CASE i < n - 1
    <3>1. i + 1 \in 1..(n - 1) /\ order'[i + 1] = order[Old(i + 1)]
      BY <1>0, <1>2, <2>4
    <3>2. Old(i + 1) = (IF o + 1 = k THEN k + 1 ELSE o + 1) /\ o < n /\ (o + 1 = k => k < n)
      BY <1>0, <2>4
    <3> HIDE DEF o
    <3> QED
      BY <1>4, <1>5, <2>1, <2>2, <2>3, <2>4, <3>1, <3>2
  <2>5. CASE ~(i < n - 1)
    <3>1. (o + 1 = k /\ ~(k < n)) \/ (o + 1 # k /\ ~(o < n))
      BY <1>0, <2>5
    <3> HIDE DEF o
    <3> QED
      BY <1>4, <1>5, <2>1, <2>2, <2>3, <2>5, <3>1
  <2> QED
    BY <2>4, <2>5
<1>10. ASSUME NEW i \in 1..(n - 1)
       PROVE  prev'[order'[i]] = IF i > 1 THEN order'[i - 1] ELSE NULL
  <2> DEFINE o == Old(i)
  <2>1. order'[i] = order[o] /\ o \in 1..n /\ order[o] # c /\ order[o] \in Clients
    BY <1>0, <1>2, <1>3, <1>6
  <2>2. prev[order[o]] = IF o > 1 THEN order[o - 1] ELSE NULL
    BY <1>0, <2>1 DEF ListInv, ListSound, n
  <2>3. order[o] = next[c] <=> o = k + 1
    <3>1. k < n => k + 1 \in 1..n
      BY <1>0
    <3>2. o = k + 1 => k < n
      BY <1>0, <2>1
    <3> HIDE DEF o
    <3> QED
      BY <1>0, <1>5, <1>6, <2>1, <3>1, <3>2
  <2>4. CASE i > 1
    <3>1. i - 1 \in 1..(n - 1) /\ order'[i - 1] = order[Old(i - 1)]
      BY <1>0, <1>2, <2>4
    <3>2. Old(i - 1) = (IF o = k + 1 THEN k - 1 ELSE o - 1) /\ o > 1 /\ (o = k + 1 => k > 1)
      BY <1>0, <2>4
    <3> HIDE DEF o
    <3> QED
      BY <1>4, <1>5, <2>1, <2>2, <2>3, <2>4, <3>1, <3>2
  <2>5. CASE ~(i > 1)
    <3>1. (o = k + 1 /\ ~(k > 1)) \/ (o # k + 1 /\ ~(o > 1))
      BY <1>0, <2>5
    <3> HIDE DEF o
    <3> QED
      BY <1>4, <1>5, <2>1, <2>2, <2>3, <2>5, <3>1
  <2> QED
    BY <2>4, <2>5
<1>11. root_client' = IF order' = <<>> THEN NULL ELSE order'[1]
  <2>1. root_client = order[1] /\ 1 \in 1..n
    BY <1>0, EmptySeq DEF ListInv, ListSound, n
  <2>2. c = root_client <=> k = 1
    BY <1>0, <1>6, <2>1
  <2>3. CASE n = 1
    <3>1. order' = <<>> /\ k = 1 /\ next[c] = NULL
      BY <1>0, <1>2, <1>5, <2>3, EmptySeq
    <3> QED
      BY <1>4, <2>2, <3>1
  <2>4. CASE n > 1
    <3>1. 1 \in 1..(n - 1) /\ order' # <<>> /\ order'[1] = IF k = 1 THEN order[2] ELSE order[1]
      BY <1>0, <1>2, <2>4, EmptySeq
    <3>2. k = 1 => next[c] = order[2]
      BY <1>5, <2>4
    <3> QED
      BY <1>4, <2>1, <2>2, <3>1, <3>2
  <2> QED
    BY <1>0, <2>3, <2>4
<1>12. ListSound'
  <2>1. connectcount' = Len(order')
    BY <1>2, <1>4
  <2>2. ASSUME NEW i \in DOMAIN order'
        PROVE  /\ next'[order'[i]] = IF i < Len(order') THEN order'[i + 1] ELSE NULL
               /\ prev'[order'[i]] = IF i > 1 THEN order'[i - 1] ELSE NULL
    BY <1>2, <1>9, <1>10
  <2> QED
    BY <1>11, <2>1, <2>2, Zenon DEF ListSound
<1>13. FreedIsBare'
  <2> SUFFICES ASSUME NEW d \in Clients, d \notin Live \ {c}
               PROVE  next'[d] = NULL /\ prev'[d] = NULL
    BY <1>7 DEF FreedIsBare
  <2>1. d = c \/ (next[d] = NULL /\ prev[d] = NULL /\ d \notin Live)
    BY DEF ListInv, FreedIsBare
  <2>2. d # c => d # prev[c] /\ d # next[c]
    <3>1. (k > 1 => order[k - 1] \in Live) /\ (k < n => order[k + 1] \in Live)
      BY <1>0, LiveAt DEF n
    <3> QED
      BY <1>0, <1>5, <2>1, <3>1
  <2> QED
    BY <1>4, <2>1, <2>2
<1> QED
  <2>1. root_client \in Ref /\ next[c] \in Ref /\ prev[c] \in Ref
    BY <1>0 DEF TypeOK
  <2>2. next' \in [Clients -> Ref] /\ prev' \in [Clients -> Ref]
    BY <1>0, <1>4, <2>1 DEF Ref
  <2> QED
    BY <1>0, <1>2, <1>4, <1>7, <1>8, <1>12, <1>13, <2>1, <2>2 DEF ListInv

-----------------------------------------------------------------------------
LEMMA NothingListed == ASSUME Init PROVE SelectInv
<1>1. order = <<>> /\ Live = {} /\ DOMAIN order = {}
  BY DEF Init, Live, ToSet
<1>2. TypeOK
  BY <1>1 DEF Init, TypeOK, Ref
<1>3. ListInv
  BY <1>1 DEF Init, ListInv, Once, ListSound, FreedIsBare
<1> QED
  BY <1>2, <1>3 DEF Init, SelectInv, NotYetAccepted, PassIsOnList

LEMMA ListKept ==
    ASSUME ListInv, UNCHANGED <<list, order>>
    PROVE  ListInv' /\ Live' = Live
BY DEF list, ListInv, Once, ListSound, FreedIsBare, Live

LEMMA EventsTyped ==
    ASSUME TypeOK
    PROVE  \A E \in Queued : E \subseteq Clients
BY SelectAssumption DEF TypeOK, Queued

LEMMA AnswerSafe == ASSUME SelectInv, Answer PROVE SelectInv' /\ waiting' \subseteq waiting
<1> DEFINE c == CHOOSE d \in ToAnswer : ToAnswer \subseteq From[d]
<1>0. TypeOK /\ ListInv /\ NotYetAccepted
  BY DEF SelectInv
<1>1. ToAnswer # {} /\ pc = "select"
  BY DEF Answer
<1>2. c \in ToAnswer
  BY <1>0, <1>1, FirstToBeAnswered
<1>3. c \in Live /\ c \in Clients
  BY <1>0, <1>2, ListedIsLive, LiveAt DEF ToAnswer
<1>4. /\ waiting' = waiting \ {c}
      /\ UNCHANGED <<persistent_mode, curclient, rfds, backlog>>
  BY DEF Answer
<1>5. \/ /\ GsClose(c, {})
         /\ \E E \in Queued : events' = E \ {c}
         /\ pc' = IF Exits THEN "exit" ELSE "select"
      \/ /\ events' \in {events, events \ {c}}
         /\ UNCHANGED <<list, order, socket, hungup, pc>>
  BY DEF Answer
<1> HIDE DEF c
<1>6. CASE /\ GsClose(c, {})
           /\ \E E \in Queued : events' = E \ {c}
           /\ pc' = IF Exits THEN "exit" ELSE "select"
  <2>1. Goes(c)
    BY <1>6 DEF GsClose, Goes
  <2>2. /\ root_client' \in Ref /\ next' \in [Clients -> Ref] /\ prev' \in [Clients -> Ref]
        /\ connectcount' \in Nat /\ order' \in Seq(Clients)
        /\ Live' = Live \ {c} /\ ListInv'
    BY <1>0, <1>3, <2>1, GoesUnlinked
  <2>3. events' \subseteq Clients /\ pc' \in {"exit", "select"}
    BY <1>0, <1>6, EventsTyped
  <2>4. socket' \in [Clients -> {"empty", "part", "request"}] /\ hungup' \subseteq Clients
    BY <1>0, <1>6 DEF GsClose, TypeOK
  <2>5. TypeOK'
    BY <1>0, <1>4, <2>2, <2>3, <2>4 DEF TypeOK
  <2> QED
    BY <1>0, <1>4, <2>2, <2>3, <2>5 DEF SelectInv, NotYetAccepted, PassIsOnList
<1>7. CASE /\ events' \in {events, events \ {c}}
           /\ UNCHANGED <<list, order, socket, hungup, pc>>
  <2>1. TypeOK'
    BY <1>0, <1>4, <1>7 DEF TypeOK, list
  <2>2. ListInv' /\ Live' = Live
    BY <1>0, <1>7, ListKept
  <2> QED
    BY <1>0, <1>1, <1>4, <1>7, <2>1, <2>2 DEF SelectInv, NotYetAccepted, PassIsOnList
<1> QED
  BY <1>4, <1>5, <1>6, <1>7

LEMMA WakeSafe == ASSUME SelectInv, Wake PROVE SelectInv' /\ waiting' = waiting
<1>0. TypeOK /\ ListInv /\ NotYetAccepted
  BY DEF SelectInv
<1>1. /\ pc' = "serve" /\ rfds' = Readable /\ events' \in Queued /\ curclient' = root_client'
      /\ UNCHANGED <<persistent_mode, waiting, socket, hungup>>
  BY DEF Wake
<1>2. rfds' \subseteq Clients /\ events' \subseteq Clients
  BY <1>0, <1>1, ListedIsLive, LiveAt, EventsTyped DEF Readable
<1>3. /\ root_client' \in Ref /\ next' \in [Clients -> Ref] /\ prev' \in [Clients -> Ref]
      /\ connectcount' \in Nat /\ order' \in Seq(Clients)
      /\ ListInv' /\ backlog' \subseteq Clients /\ NotYetAccepted'
  <2>1. CASE UNCHANGED <<list, order, backlog>>
    <3>1. ListInv' /\ Live' = Live
      BY <1>0, <2>1, ListKept
    <3> QED
      BY <1>0, <2>1, <3>1 DEF TypeOK, list, NotYetAccepted
  <2>2. ASSUME NEW c \in backlog, backlog' = backlog \ {c}, Comes(c)
        PROVE  /\ root_client' \in Ref /\ next' \in [Clients -> Ref] /\ prev' \in [Clients -> Ref]
               /\ connectcount' \in Nat /\ order' \in Seq(Clients)
               /\ ListInv' /\ backlog' \subseteq Clients /\ NotYetAccepted'
    <3>1. c \in Clients \ Live
      BY <1>0 DEF TypeOK, NotYetAccepted
    <3>2. /\ root_client' \in Ref /\ next' \in [Clients -> Ref] /\ prev' \in [Clients -> Ref]
          /\ connectcount' \in Nat /\ order' \in Seq(Clients)
          /\ Live' = Live \cup {c} /\ ListInv'
      BY <1>0, <2>2, <3>1, ComesLinked
    <3> QED
      BY <1>0, <2>2, <3>2 DEF TypeOK, NotYetAccepted
  <2> QED
    BY <2>1, <2>2 DEF Wake, Comes
<1>4. TypeOK'
  BY <1>0, <1>1, <1>2, <1>3 DEF TypeOK
<1>5. root_client' \in Live' \cup {NULL}
  <2>1. order' # <<>> => 1 \in DOMAIN order'
    BY <1>3, EmptySeq
  <2> QED
    BY <1>3, <2>1 DEF ListInv, ListSound, Live, ToSet
<1> QED
  BY <1>1, <1>3, <1>4, <1>5 DEF SelectInv, PassIsOnList

(* What serving one client comes to: at most one connection ends.          *)
LEMMA HandleDoes ==
    ASSUME SelectInv, NEW kind \in Kinds, Handle(kind)
    PROVE  /\ curclient \in Live /\ Ended(kind) \subseteq Live
           /\ \/ Ended(kind) = {} /\ UNCHANGED <<list, order, hungup>>
                 /\ socket' = [socket EXCEPT ![curclient] = "empty"]
              \/ \E c \in Ended(kind) :
                    Ended(kind) = {c} /\ GsClose(c, {curclient}) /\ Goes(c)
           /\ events' \subseteq Clients
<1>0. TypeOK /\ ListInv /\ PassIsOnList
  BY DEF SelectInv
<1>1. pc = "serve" /\ curclient \in rfds /\ (kind \in Clients => kind \in Live)
  BY DEF Handle
<1>2. curclient \in Live
  BY <1>0, <1>1, SelectAssumption DEF PassIsOnList, TypeOK
<1>3. /\ Ended(kind) \subseteq Live
      /\ \A c, d \in Ended(kind) : c = d
  BY <1>1, <1>2 DEF Ended
<1>4. CASE /\ Ended(kind) = {}
           /\ socket' = [socket EXCEPT ![curclient] = "empty"]
           /\ events' \in EventsAfter(kind)
           /\ UNCHANGED <<list, order, hungup>>
  <2>1. events' \subseteq Clients
    <3>1. \A E \in Queued : E \subseteq Clients
      BY <1>0, EventsTyped
    <3> QED
      BY <1>0, <1>4, <3>1 DEF EventsAfter, TypeOK
  <2> QED
    BY <1>2, <1>4, <2>1
<1>5. ASSUME NEW c \in Ended(kind), GsClose(c, {curclient}), \E E \in Queued : events' = E \ {c}
      PROVE  /\ Ended(kind) = {c} /\ GsClose(c, {curclient}) /\ Goes(c)
             /\ events' \subseteq Clients
  <2>1. Goes(c)
    BY <1>5 DEF GsClose, Goes
  <2>2. events' \subseteq Clients
    BY <1>0, <1>5, EventsTyped
  <2> QED
    BY <1>3, <1>5, <2>1, <2>2
<1> QED
  BY <1>2, <1>3, <1>4, <1>5 DEF Handle

LEMMA HandleSafe ==
    ASSUME SelectInv, NEW kind \in Kinds, Handle(kind)
    PROVE  SelectInv' /\ Live' = Live \ Ended(kind)
<1>0. TypeOK /\ ListInv /\ PassIsOnList /\ NotYetAccepted
  BY DEF SelectInv
<1>1. /\ curclient \in Live /\ curclient \in Clients /\ Ended(kind) \subseteq Live
      /\ events' \subseteq Clients
  BY <1>0, HandleDoes, LiveAt
<1>2. /\ root_client' \in Ref /\ next' \in [Clients -> Ref] /\ prev' \in [Clients -> Ref]
      /\ connectcount' \in Nat /\ order' \in Seq(Clients)
      /\ Live' = Live \ Ended(kind) /\ ListInv'
      /\ socket' \in [Clients -> {"empty", "part", "request"}] /\ hungup' \subseteq Clients
  <2>1. CASE Ended(kind) = {} /\ UNCHANGED <<list, order, hungup>>
             /\ socket' = [socket EXCEPT ![curclient] = "empty"]
    <3>1. ListInv' /\ Live' = Live
      BY <1>0, <2>1, ListKept
    <3> QED
      BY <1>0, <2>1, <3>1 DEF TypeOK, list
  <2>2. ASSUME NEW c \in Ended(kind), Ended(kind) = {c}, GsClose(c, {curclient}), Goes(c)
        PROVE  /\ root_client' \in Ref /\ next' \in [Clients -> Ref] /\ prev' \in [Clients -> Ref]
               /\ connectcount' \in Nat /\ order' \in Seq(Clients)
               /\ Live' = Live \ Ended(kind) /\ ListInv'
               /\ socket' \in [Clients -> {"empty", "part", "request"}] /\ hungup' \subseteq Clients
    <3>1. c \in Live
      BY <1>1
    <3>2. /\ root_client' \in Ref /\ next' \in [Clients -> Ref] /\ prev' \in [Clients -> Ref]
          /\ connectcount' \in Nat /\ order' \in Seq(Clients)
          /\ Live' = Live \ {c} /\ ListInv'
      BY <1>0, <2>2, <3>1, GoesUnlinked
    <3>3. socket' \in [Clients -> {"empty", "part", "request"}] /\ hungup' \subseteq Clients
      BY <1>0, <2>2 DEF GsClose, TypeOK
    <3> QED
      BY <2>2, <3>2, <3>3
  <2> QED
    BY HandleDoes, <2>1, <2>2
<1>3. /\ waiting' = (waiting \ Ended(kind)) \cup (Waits(kind) \ {NULL})
      /\ pc' = (IF Ended(kind) # {} /\ Exits THEN "exit"
                ELSE IF Waits(kind) = {NULL} \/ next[curclient] \in Ended(kind) THEN "crashed"
                ELSE "serve")
      /\ curclient' = next[curclient]
      /\ UNCHANGED <<persistent_mode, rfds, backlog>>
  BY DEF Handle, NextOf
<1>4. pc' \in {"exit", "crashed", "serve"} /\ (pc' = "serve" => next[curclient] \notin Ended(kind))
  BY <1>3
<1>5. Waits(kind) \subseteq Ref
  BY <1>0, <1>1, <1>2 DEF Waits, TypeOK, Ref
<1>6. waiting' \subseteq Clients /\ curclient' \in Ref
  BY <1>0, <1>1, <1>3, <1>5 DEF TypeOK, Ref
<1>7. TypeOK'
  <2>1. pc' \in {"select", "serve", "exit", "crashed"}
    BY <1>4
  <2> QED
    BY <1>0, <1>1, <1>2, <1>3, <1>6, <2>1 DEF TypeOK
<1>8. next[curclient] \in Live \cup {NULL}
  <2>1. PICK i \in 1..Len(order) : order[i] = curclient
    BY <1>0, <1>1, LiveAt
  <2>2. next[curclient] = IF i < Len(order) THEN order[i + 1] ELSE NULL
    BY <1>0, <2>1, LiveAt DEF ListInv, ListSound
  <2>3. i < Len(order) => i + 1 \in 1..Len(order)
    BY <1>0, <2>1, LiveAt
  <2> QED
    BY <1>0, <2>2, <2>3, LiveAt
<1> QED
  BY <1>0, <1>2, <1>3, <1>4, <1>7, <1>8 DEF SelectInv, NotYetAccepted, PassIsOnList

(* The steps that leave the list alone.                                    *)
LEMMA OthersSafe ==
    ASSUME SelectInv,
           \/ Timeout \/ Skip \/ PassDone
           \/ \E c \in Clients : Connect(c) \/ (\E what \in {"part", "request"} : Write(c, what)) \/ HangUp(c)
           \/ UNCHANGED vars
    PROVE  SelectInv' /\ waiting' = waiting
<1>0. TypeOK /\ ListInv /\ NotYetAccepted /\ PassIsOnList
  BY DEF SelectInv
<1>1. UNCHANGED <<list, order>> /\ waiting' = waiting
  BY DEF Timeout, Skip, PassDone, Connect, Write, HangUp, vars, queues
<1>2. ListInv' /\ Live' = Live
  BY <1>0, <1>1, ListKept
<1>3. CASE Timeout
  <2>1. events' \subseteq Clients
    BY <1>0, <1>3, EventsTyped DEF Timeout
  <2> QED
    BY <1>0, <1>1, <1>2, <1>3, <2>1
    DEF Timeout, outer, SelectInv, TypeOK, NotYetAccepted, PassIsOnList, list
<1>4. CASE Skip
  <2>1. curclient \in Live
    BY <1>0, <1>4 DEF Skip, PassIsOnList
  <2>2. next[curclient] \in Live \cup {NULL}
    <3>1. PICK i \in 1..Len(order) : order[i] = curclient
      BY <1>0, <2>1, LiveAt
    <3>2. next[curclient] = IF i < Len(order) THEN order[i + 1] ELSE NULL
      BY <1>0, <3>1, LiveAt DEF ListInv, ListSound
    <3>3. i < Len(order) => i + 1 \in 1..Len(order)
      BY <1>0, <3>1, LiveAt
    <3> QED
      BY <1>0, <3>2, <3>3, LiveAt
  <2>3. TypeOK'
    BY <1>0, <1>1, <1>4, <2>2, LiveAt DEF Skip, outer, queues, list, TypeOK, Ref
  <2> QED
    BY <1>0, <1>1, <1>2, <1>4, <2>2, <2>3
    DEF Skip, outer, SelectInv, NotYetAccepted, PassIsOnList
<1>5. CASE PassDone
  BY <1>0, <1>1, <1>2, <1>5
  DEF PassDone, outer, queues, list, SelectInv, TypeOK, NotYetAccepted, PassIsOnList
<1>6. ASSUME NEW c \in Clients, Connect(c) PROVE SelectInv'
  BY <1>0, <1>1, <1>2, <1>6
  DEF Connect, queues, list, SelectInv, TypeOK, NotYetAccepted, PassIsOnList
<1>7. ASSUME NEW c \in Clients, NEW what \in {"part", "request"}, Write(c, what) PROVE SelectInv'
  BY <1>0, <1>1, <1>2, <1>7
  DEF Write, queues, list, SelectInv, TypeOK, NotYetAccepted, PassIsOnList
<1>8. ASSUME NEW c \in Clients, HangUp(c) PROVE SelectInv'
  BY <1>0, <1>1, <1>2, <1>8
  DEF HangUp, queues, list, SelectInv, TypeOK, NotYetAccepted, PassIsOnList
<1>9. CASE UNCHANGED vars
  BY <1>0, <1>1, <1>2, <1>9
  DEF vars, outer, queues, list, SelectInv, TypeOK, NotYetAccepted, PassIsOnList
<1> QED
  BY <1>1, <1>3, <1>4, <1>5, <1>6, <1>7, <1>8, <1>9

LEMMA SelectStep == SelectInv /\ [Next]_vars => SelectInv'
BY AnswerSafe, WakeSafe, HandleSafe, OthersSafe DEF Next, GsSelect

LEMMA SelectInvCorrect == Spec => []SelectInv
BY NothingListed, SelectStep, PTL DEF Spec

-----------------------------------------------------------------------------
(* The list of clients, the pointers back and the count stay right however *)
(* many clients come and go, in the middle of a pass too.                  *)
THEOREM ListSoundCorrect == Spec => []ListSound
<1>1. SelectInv => ListSound
  BY DEF SelectInv, ListInv
<1> QED
  BY <1>1, SelectInvCorrect, PTL

(* A pass goes on to a client that was freed only when a request killed    *)
(* the next one, and finds no client only when the last has gone in a      *)
(* server that stays.                                                      *)
LEMMA CrashStep ==
    ASSUME SelectInv, [Next]_vars, pc' = "crashed", pc # "crashed"
    PROVE  \/ next[curclient] \notin ToSet(order') \cup {NULL}
           \/ order' = <<>> /\ persistent_mode
<1>0. SelectInv' /\ TypeOK
  BY SelectStep DEF SelectInv
<1>1. \E kind \in Kinds : Handle(kind)
  BY DEF Next, GsSelect, Answer, Wake, Skip, PassDone, Timeout, Connect, Write, HangUp, vars
<1>2. PICK kind \in Kinds : Handle(kind)
  BY <1>1
<1>3. /\ ~(Ended(kind) # {} /\ Exits)
      /\ Waits(kind) = {NULL} \/ next[curclient] \in Ended(kind)
  BY <1>2 DEF Handle
<1>4. Live' = Live \ Ended(kind) /\ Ended(kind) \subseteq Live /\ curclient \in Live
  BY <1>2, HandleSafe, HandleDoes
<1>5. NULL \notin Live /\ NULL \notin Live'
  BY <1>0, LiveAt, SelectAssumption DEF SelectInv, TypeOK, Live, ToSet
<1>6. CASE next[curclient] \in Ended(kind)
  BY <1>4, <1>5, <1>6 DEF Live
<1>7. CASE Waits(kind) = {NULL}
  <2>1. root_client' = NULL /\ curclient \in hungup /\ kind = "PeekEvent"
    BY <1>4, <1>5, <1>7 DEF Waits
  <2>2. order' = <<>>
    <3>1. order' # <<>> => order'[1] \in Live'
      BY <1>0, EmptySeq DEF SelectInv, TypeOK, Live, ToSet
    <3> QED
      BY <1>0, <1>5, <2>1, <3>1 DEF SelectInv, ListInv, ListSound
  <2>3. connectcount' = 0
    BY <1>0, <2>2 DEF SelectInv, ListInv, ListSound
  <2>4. Ended(kind) # {}
    <3>1. kind \notin {"gone", "Close"} /\ kind \in {"PeekEvent", "CheckNextEvent", "Query"}
      BY <2>1
    <3> QED
      BY <2>1, <3>1 DEF Ended
  <2> QED
    BY <1>0, <1>3, <2>2, <2>3, <2>4 DEF Exits, TypeOK
<1> QED
  BY <1>3, <1>6, <1>7

(* The pass over the clients stays on clients that are connected, with the *)
(* two exceptions that crash the server, for any number of clients.        *)
THEOREM ServesTheLivingCorrect == Spec => ServesTheLiving
<1>1. SelectInv => (pc = "serve" => curclient \in Live \cup {NULL})
  BY DEF SelectInv, PassIsOnList
<1>2. SelectInv /\ [Next]_vars =>
         [pc' = "crashed" /\ pc # "crashed" =>
             \/ next[curclient] \notin ToSet(order') \cup {NULL}
             \/ order' = <<>> /\ persistent_mode]_vars
  BY CrashStep
<1> QED
  BY <1>1, <1>2, SelectInvCorrect, PTL DEF Spec, ServesTheLiving

-----------------------------------------------------------------------------
(* How far the pass is: a client comes before another on the list, and the *)
(* clients that the pass has not gone by.                                  *)
Upto(c, d) == \E i, j \in 1..Len(order) : i <= j /\ order[i] = c /\ order[j] = d

ToServe == {d \in Clients : Upto(curclient, d)}

LEMMA NextUpto ==
    ASSUME TypeOK, ListInv, NEW c \in Live
    PROVE  \A d \in Clients : Upto(next[c], d) <=> Upto(c, d) /\ d # c
<1> DEFINE n == Len(order)
<1>0. /\ n \in Nat /\ NULL \notin Clients
      /\ \A i \in 1..n : order[i] \in Clients
      /\ \A i, j \in 1..n : order[i] = order[j] => i = j
  BY LiveAt, SelectAssumption DEF ListInv, Once
<1>1. PICK p \in 1..n : order[p] = c
  BY LiveAt
<1>2. next[c] = IF p < n THEN order[p + 1] ELSE NULL
  BY <1>1, LiveAt DEF ListInv, ListSound
<1> SUFFICES ASSUME NEW d \in Clients PROVE Upto(next[c], d) <=> Upto(c, d) /\ d # c
  OBVIOUS
<1> HIDE DEF n
<1>3. Upto(c, d) /\ d # c <=> \E j \in 1..n : p < j /\ order[j] = d
  <2>1. ASSUME Upto(c, d), d # c PROVE \E j \in 1..n : p < j /\ order[j] = d
    <3>1. PICK i, j \in 1..n : i <= j /\ order[i] = c /\ order[j] = d
      BY <2>1 DEF Upto, n
    <3>2. i = p /\ j # p
      BY <1>0, <1>1, <2>1, <3>1
    <3> QED
      BY <1>0, <3>1, <3>2
  <2>2. ASSUME NEW j \in 1..n, p < j, order[j] = d PROVE Upto(c, d) /\ d # c
    BY <1>0, <1>1, <2>2 DEF Upto, n
  <2> QED
    BY <2>1, <2>2
<1>4. CASE p < n
  <2>1. p + 1 \in 1..n /\ next[c] = order[p + 1] /\ \A j \in 1..n : p < j <=> p + 1 <= j
    BY <1>0, <1>2, <1>4
  <2>2. Upto(next[c], d) <=> \E j \in 1..n : p + 1 <= j /\ order[j] = d
    <3>1. ASSUME Upto(next[c], d) PROVE \E j \in 1..n : p + 1 <= j /\ order[j] = d
      <4>1. PICK i, j \in 1..n : i <= j /\ order[i] = next[c] /\ order[j] = d
        BY <3>1 DEF Upto, n
      <4>2. i = p + 1
        BY <1>0, <2>1, <4>1
      <4> QED
        BY <4>1, <4>2
    <3> QED
      BY <2>1, <3>1 DEF Upto, n
  <2> QED
    BY <1>3, <2>1, <2>2
<1>5. CASE ~(p < n)
  <2>1. next[c] = NULL /\ ~\E j \in 1..n : p < j
    BY <1>0, <1>2, <1>5
  <2>2. ~Upto(next[c], d)
    BY <1>0, <2>1 DEF Upto, n
  <2> QED
    BY <1>3, <2>1, <2>2
<1> QED
  BY <1>4, <1>5

(* A client that goes leaves the order of the others.                      *)
LEMMA UptoKept ==
    ASSUME TypeOK, ListInv, NEW c \in Live, Goes(c)
    PROVE  \A d, e \in Clients \ {c} : Upto(d, e)' <=> Upto(d, e)
<1> DEFINE n == Len(order)
           k == Place(c)
           Old(i) == IF i < k THEN i ELSE i + 1
<1>0. n \in Nat /\ order \in Seq(Clients) /\ k \in 1..n /\ order[k] = c
  BY LiveAt, PlaceOf DEF TypeOK
<1>1. order' = RemoveAt(order, k)
  BY DEF Goes, Place
<1> HIDE DEF k
<1>2. /\ Len(order') = n - 1
      /\ \A i \in 1..(n - 1) : order'[i] = order[Old(i)]
  BY <1>0, <1>1, Shortened, Zenon
<1> HIDE DEF n
<1>3. /\ \A i \in 1..(n - 1) : Old(i) \in 1..n
      /\ \A i, j \in 1..(n - 1) : i <= j <=> Old(i) <= Old(j)
  BY <1>0
<1>4. ASSUME NEW i \in 1..n, i # k PROVE \E j \in 1..(n - 1) : Old(j) = i
  <2>1. CASE i < k
    <3>1. i \in 1..(n - 1) /\ Old(i) = i
      BY <1>0, <2>1
    <3> QED
      BY <3>1
  <2>2. CASE ~(i < k)
    <3>1. i - 1 \in 1..(n - 1) /\ Old(i - 1) = i
      BY <1>0, <1>4, <2>2
    <3> QED
      BY <3>1
  <2> QED
    BY <2>1, <2>2
<1> HIDE DEF Old
<1> SUFFICES ASSUME NEW d \in Clients \ {c}, NEW e \in Clients \ {c}
             PROVE  Upto(d, e)' <=> Upto(d, e)
  OBVIOUS
<1>5. ASSUME Upto(d, e)' PROVE Upto(d, e)
  <2>1. PICK i, j \in 1..(n - 1) : i <= j /\ order'[i] = d /\ order'[j] = e
    BY <1>2, <1>5 DEF Upto
  <2> QED
    BY <1>2, <1>3, <2>1 DEF Upto, n
<1>6. ASSUME Upto(d, e) PROVE Upto(d, e)'
  <2>1. PICK i, j \in 1..n : i <= j /\ order[i] = d /\ order[j] = e
    BY <1>6 DEF Upto, n
  <2>2. PICK u, v \in 1..(n - 1) : Old(u) = i /\ Old(v) = j
    BY <1>0, <1>4, <2>1
  <2>3. u <= v /\ order'[u] = d /\ order'[v] = e
    BY <1>2, <1>3, <2>1, <2>2
  <2> QED
    BY <1>2, <2>3 DEF Upto
<1> QED
  BY <1>5, <1>6

(* How often others have been served ahead of a client, by where the pass  *)
(* is: twice only if it has yet to come to the client in this pass and has *)
(* gone by the other.                                                      *)
AheadInPass ==
    \A c, d \in Talkers :
        /\ ahead[c][d] = 2 => c \in rfds \cap ToServe /\ d \notin ToServe
        /\ ahead[c][d] = 1 => c \in rfds \cap ToServe \/ d \notin ToServe

AheadInv ==
    /\ ahead \in [Talkers -> [Talkers -> Nat]]
    /\ \A c \in Clients : socket[c] = "request" => c \in Live
    /\ \A c, d \in Talkers : socket[c] # "request" => ahead[c][d] = 0
    /\ OvertakenTwice
    /\ pc = "select" => \A c, d \in Talkers : ahead[c][d] <= 1
    /\ pc = "serve" => AheadInPass

LEMMA OvertakeDoes ==
    ASSUME NEW S, Overtake(S), ahead \in [Talkers -> [Talkers -> Nat]]
    PROVE  /\ ahead' \in [Talkers -> [Talkers -> Nat]]
           /\ \A c, d \in Talkers :
                 ahead'[c][d] = IF socket'[c] # "request" THEN 0
                                ELSE IF d \in S THEN ahead[c][d] + 1 ELSE ahead[c][d]
<1> DEFINE A(c, d) == IF socket'[c] # "request" THEN 0
                      ELSE IF d \in S THEN ahead[c][d] + 1 ELSE ahead[c][d]
<1>1. \A c, d \in Talkers : A(c, d) \in Nat
  OBVIOUS
<1>2. ahead' = [c \in Talkers |-> [d \in Talkers |-> A(c, d)]]
  BY DEF Overtake
<1> HIDE DEF A
<1>3. /\ ahead' \in [Talkers -> [Talkers -> Nat]]
      /\ \A c, d \in Talkers : ahead'[c][d] = A(c, d)
  BY <1>1, <1>2
<1> QED
  BY <1>3 DEF A

(* A connection that ends leaves nothing to read.                          *)
LEMMA ClosedIsEmpty ==
    ASSUME SelectInv, AheadInv, NEW c \in Live, NEW read, GsClose(c, read)
    PROVE  \A d \in Clients : socket'[d] = "request" =>
              socket[d] = "request" /\ d \in Live' /\ d # c /\ d \notin read
<1>1. Live' = Live \ {c}
  <2>1. Goes(c)
    BY DEF GsClose, Goes
  <2> QED
    BY <2>1, GoesUnlinked DEF SelectInv
<1> QED
  BY <1>1 DEF GsClose, AheadInv

LEMMA AnswerAhead == ASSUME SelectInv, AheadInv, Answer PROVE AheadInv'
<1> DEFINE c == CHOOSE d \in ToAnswer : ToAnswer \subseteq From[d]
<1>0. TypeOK /\ ListInv
  BY DEF SelectInv
<1>1. ToAnswer # {} /\ pc = "select"
  BY DEF Answer
<1>2. c \in ToAnswer
  BY <1>0, <1>1, FirstToBeAnswered
<1>3. c \in Live
  BY <1>0, <1>2, ListedIsLive DEF ToAnswer
<1>4. \/ GsClose(c, {}) /\ pc' \in {"exit", "select"}
      \/ UNCHANGED <<order, socket, pc>>
  BY DEF Answer
<1> HIDE DEF c
<1>5. Overtake({})
  BY DEF Answer
<1>6. \A d \in Clients : socket'[d] = "request" => socket[d] = "request" /\ d \in Live'
  BY <1>3, <1>4, ClosedIsEmpty DEF AheadInv, Live
<1>7. /\ ahead' \in [Talkers -> [Talkers -> Nat]]
      /\ \A d, e \in Talkers : ahead'[d][e] = IF socket'[d] # "request" THEN 0 ELSE ahead[d][e]
  BY <1>5, OvertakeDoes DEF AheadInv
<1>8. pc' # "serve"
  BY <1>1, <1>4
<1>9. \A d, e \in Talkers : ahead'[d][e] <= 1
  BY <1>1, <1>7 DEF AheadInv
<1> QED
  BY <1>6, <1>7, <1>8, <1>9 DEF AheadInv, OvertakenTwice

LEMMA WakeAhead == ASSUME SelectInv, AheadInv, Wake PROVE AheadInv'
<1>0. TypeOK /\ ListInv /\ TypeOK' /\ ListInv'
  BY WakeSafe DEF SelectInv
<1>1. /\ pc = "select" /\ pc' = "serve" /\ rfds' = Readable /\ curclient' = root_client'
      /\ UNCHANGED <<socket, ahead>>
  BY DEF Wake
<1>2. Live \subseteq Live'
  <2>1. CASE UNCHANGED <<list, order, backlog>>
    BY <2>1 DEF Live
  <2>2. ASSUME NEW c \in backlog, Comes(c) PROVE Live \subseteq Live'
    <3>1. c \in Clients \ Live
      BY <2>2 DEF SelectInv, TypeOK, NotYetAccepted
    <3> QED
      BY <1>0, <2>2, <3>1, ComesLinked
  <2> QED
    BY <2>1, <2>2 DEF Wake, Comes
<1>3. \A d \in Live' : d \in ToServe'
  <2> SUFFICES ASSUME NEW d \in Live' PROVE d \in ToServe'
    OBVIOUS
  <2>1. /\ Len(order') \in Nat /\ d \in Clients
        /\ \E i \in 1..Len(order') : order'[i] = d
    <3>1. order' \in Seq(Clients)
      BY <1>0 DEF TypeOK
    <3>2. /\ Len(order') \in Nat /\ DOMAIN order' = 1..Len(order')
          /\ \A i \in 1..Len(order') : order'[i] \in Clients
      BY <3>1, LenProperties, ElementOfSeq
    <3> QED
      BY <3>2 DEF Live, ToSet
  <2>2. PICK i \in 1..Len(order') : order'[i] = d
    BY <2>1
  <2>3. 1 \in 1..Len(order') /\ 1 <= i /\ order' # <<>>
    BY <1>0, <2>1, <2>2, EmptySeq DEF TypeOK
  <2>4. order'[1] = curclient'
    BY <1>0, <1>1, <2>3 DEF ListInv, ListSound
  <2> QED
    BY <2>1, <2>2, <2>3, <2>4 DEF ToServe, Upto
<1>4. \A c \in Clients : socket[c] = "request" => c \in rfds' \cap ToServe'
  BY <1>0, <1>1, <1>2, <1>3, ListedIsLive DEF AheadInv, Readable
<1>5. AheadInPass'
  <2>1. \A c, d \in Talkers : ahead'[c][d] # 2 /\ (ahead'[c][d] = 1 => socket[c] = "request")
    BY <1>1 DEF AheadInv
  <2> QED
    BY <1>4, <2>1, SelectAssumption DEF AheadInPass
<1> QED
  BY <1>1, <1>2, <1>5 DEF AheadInv, OvertakenTwice

LEMMA HandleAhead ==
    ASSUME SelectInv, AheadInv, NEW kind \in Kinds, Handle(kind)
    PROVE  AheadInv'
<1>0. TypeOK /\ ListInv
  BY DEF SelectInv
<1>1. /\ pc = "serve" /\ curclient \in rfds /\ rfds' = rfds /\ curclient' = next[curclient]
      /\ Overtake({curclient})
      /\ pc' \in {"exit", "crashed", "serve"} /\ (pc' = "serve" => next[curclient] \notin Ended(kind))
  BY DEF Handle, NextOf
<1>2. curclient \in Live /\ curclient \in Clients
  BY <1>0, HandleDoes, LiveAt
<1>3. \A d \in Clients : socket'[d] = "request" =>
          socket[d] = "request" /\ d \in Live' /\ d \notin Ended(kind) /\ d # curclient
  <2>1. CASE Ended(kind) = {} /\ UNCHANGED <<list, order, hungup>>
             /\ socket' = [socket EXCEPT ![curclient] = "empty"]
    BY <1>0, <1>2, <2>1 DEF AheadInv, Live, TypeOK
  <2>2. ASSUME NEW c \in Ended(kind), Ended(kind) = {c}, GsClose(c, {curclient})
        PROVE  \A d \in Clients : socket'[d] = "request" =>
                  socket[d] = "request" /\ d \in Live' /\ d \notin Ended(kind) /\ d # curclient
    <3>1. c \in Live
      BY <2>2, HandleDoes
    <3> QED
      BY <2>2, <3>1, ClosedIsEmpty
  <2> QED
    BY HandleDoes, <2>1, <2>2
<1>4. /\ ahead' \in [Talkers -> [Talkers -> Nat]]
      /\ \A c, d \in Talkers :
            ahead'[c][d] = IF socket'[c] # "request" THEN 0
                           ELSE IF d \in {curclient} THEN ahead[c][d] + 1 ELSE ahead[c][d]
  BY <1>1, OvertakeDoes DEF AheadInv
<1>5. curclient \in ToServe
  <2>1. \E i \in 1..Len(order) : i <= i /\ order[i] = curclient
    BY <1>0, <1>2, LiveAt
  <2> QED
    BY <1>2, <2>1 DEF ToServe, Upto
<1>6. \A c, d \in Talkers :
          /\ ahead[c][d] \in {0, 1, 2}
          /\ ahead[c][d] = 2 => c \in rfds \cap ToServe /\ d \notin ToServe
          /\ ahead[c][d] = 1 => c \in rfds \cap ToServe \/ d \notin ToServe
  <2>1. \A n \in Nat : n <= 2 => n \in {0, 1, 2}
    OBVIOUS
  <2>2. \A c, d \in Talkers : ahead[c][d] \in Nat /\ ahead[c][d] <= 2
    BY DEF AheadInv, OvertakenTwice
  <2>3. AheadInPass
    BY <1>1 DEF AheadInv
  <2>4. \A c, d \in Talkers : ahead[c][d] \in {0, 1, 2}
    BY <2>1, <2>2
  <2> QED
    BY <2>3, <2>4 DEF AheadInPass
<1>7. OvertakenTwice'
  <2> SUFFICES ASSUME NEW c \in Talkers, NEW d \in Talkers PROVE ahead'[c][d] <= 2
    BY DEF OvertakenTwice
  <2>1. d = curclient => ahead[c][d] # 2
    BY <1>5, <1>6
  <2> QED
    BY <1>4, <1>6, <2>1
<1>8. ASSUME pc' = "serve" PROVE AheadInPass'
  <2>1. \A d \in Clients \ Ended(kind) : d \in ToServe' <=> d \in ToServe /\ d # curclient
    <3>1. \A d \in Clients : Upto(next[curclient], d) <=> Upto(curclient, d) /\ d # curclient
      BY <1>0, <1>2, NextUpto
    <3>2. \A d \in Clients \ Ended(kind) :
              next[curclient] \in Clients => (Upto(curclient, d)' <=> Upto(next[curclient], d))
      <4>1. CASE Ended(kind) = {} /\ UNCHANGED <<list, order, hungup>>
        BY <1>1, <4>1 DEF Upto
      <4>2. ASSUME NEW c \in Ended(kind), Ended(kind) = {c}, Goes(c), next[curclient] \in Clients
            PROVE  \A d \in Clients \ Ended(kind) : Upto(curclient, d)' <=> Upto(next[curclient], d)
        <5>1. c \in Live /\ next[curclient] \in Clients \ {c}
          BY <1>1, <1>8, <4>2, HandleDoes
        <5>2. \A x, d \in Clients \ {c} : Upto(x, d)' <=> Upto(x, d)
          BY <1>0, <4>2, <5>1, UptoKept
        <5>3. PICK x \in Clients \ {c} : x = next[curclient]
          BY <5>1
        <5>4. \A d : Upto(curclient, d)' <=> Upto(x, d)'
          BY <1>1, <5>3 DEF Upto
        <5>5. \A d : Upto(next[curclient], d) <=> Upto(x, d)
          BY <5>3
        <5> QED
          BY <4>2, <5>2, <5>4, <5>5
      <4> QED
        BY HandleDoes, <4>1, <4>2
    <3>3. next[curclient] \notin Clients => \A d : ~Upto(curclient, d)' /\ ~Upto(next[curclient], d)
      <4>1. TypeOK'
        BY HandleSafe DEF SelectInv
      <4>2. \A i \in 1..Len(order') : order'[i] \in Clients
        BY <4>1, ElementOfSeq, LenProperties DEF TypeOK
      <4>3. \A i \in 1..Len(order) : order[i] \in Clients
        BY <1>0, LiveAt
      <4> QED
        BY <1>1, <4>2, <4>3 DEF Upto
    <3> QED
      BY <3>1, <3>2, <3>3 DEF ToServe
  <2>2. \A c \in Talkers : c \in Clients
    BY SelectAssumption
  <2> SUFFICES ASSUME NEW c \in Talkers, NEW d \in Talkers, socket'[c] = "request"
               PROVE  /\ ahead'[c][d] = 2 => c \in rfds \cap ToServe' /\ d \notin ToServe'
                      /\ ahead'[c][d] = 1 => c \in rfds \cap ToServe' \/ d \notin ToServe'
    BY <1>1, <1>4 DEF AheadInPass
  <2>3. c \in ToServe => c \in ToServe'
    BY <1>3, <2>1, <2>2
  <2>4. d \in Ended(kind) => d \notin ToServe'
    <3>1. TypeOK' /\ Live' = Live \ Ended(kind)
      BY HandleSafe DEF SelectInv
    <3>2. \A i \in 1..Len(order') : order'[i] \in Live'
      BY <3>1, LenProperties DEF TypeOK, Live, ToSet
    <3> QED
      BY <3>1, <3>2 DEF ToServe, Upto
  <2>5. d \notin ToServe => d \notin ToServe'
    BY <2>1, <2>2, <2>4
  <2>6. CASE d = curclient
    <3>1. d \notin ToServe'
      BY <2>1, <2>2, <2>4, <2>6
    <3>2. ahead'[c][d] = ahead[c][d] + 1
      BY <1>4, <2>6
    <3> QED
      BY <1>5, <1>6, <2>3, <2>6, <3>1, <3>2
  <2>7. CASE d # curclient
    BY <1>4, <1>6, <2>3, <2>5, <2>7
  <2> QED
    BY <2>6, <2>7
<1> QED
  BY <1>1, <1>3, <1>4, <1>7, <1>8, SelectAssumption DEF AheadInv

LEMMA OthersAhead ==
    ASSUME SelectInv, AheadInv,
           \/ Timeout \/ Skip \/ PassDone
           \/ \E c \in Clients : Connect(c) \/ (\E what \in {"part", "request"} : Write(c, what)) \/ HangUp(c)
           \/ UNCHANGED vars
    PROVE  AheadInv'
<1>0. TypeOK /\ ListInv /\ PassIsOnList
  BY DEF SelectInv
<1>1. UNCHANGED <<list, order, ahead>> /\ Live' = Live
  BY DEF Timeout, Skip, PassDone, Connect, Write, HangUp, vars, Live
<1>2. CASE Skip
  <2>1. /\ pc = "serve" /\ pc' = pc /\ curclient \notin rfds /\ curclient' = next[curclient]
        /\ rfds' = rfds /\ socket' = socket /\ curclient \in Live
    BY <1>0, <1>2 DEF Skip, outer, PassIsOnList
  <2>2. \A d \in Clients : d \in ToServe' <=> d \in ToServe /\ d # curclient
    <3>1. \A d \in Clients : Upto(next[curclient], d) <=> Upto(curclient, d) /\ d # curclient
      BY <1>0, <2>1, NextUpto
    <3> QED
      BY <1>1, <2>1, <3>1, SMTT(60) DEF ToServe, Upto
  <2>3. AheadInPass'
    BY <1>1, <2>1, <2>2, SelectAssumption DEF AheadInv, AheadInPass
  <2> QED
    BY <1>1, <2>1, <2>3 DEF AheadInv, OvertakenTwice
<1>3. CASE PassDone
  <2>1. pc = "serve" /\ pc' = "select" /\ curclient = NULL /\ socket' = socket
    BY <1>3 DEF PassDone, outer
  <2>2. ToServe = {}
    <3>1. \A i \in 1..Len(order) : order[i] # NULL
      BY <1>0, LiveAt, SelectAssumption
    <3> QED
      BY <2>1, <3>1 DEF ToServe, Upto
  <2>3. \A c, d \in Talkers : ahead[c][d] \in {0, 1, 2} /\ ahead[c][d] # 2
    <3>1. \A n \in Nat : n <= 2 => n \in {0, 1, 2}
      OBVIOUS
    <3>2. \A c, d \in Talkers : ahead[c][d] \in Nat /\ ahead[c][d] <= 2
      BY DEF AheadInv, OvertakenTwice
    <3> QED
      BY <2>1, <2>2, <3>1, <3>2 DEF AheadInv, AheadInPass
  <2> QED
    BY <1>1, <2>1, <2>3 DEF AheadInv, OvertakenTwice
<1>4. ASSUME UNCHANGED <<pc, curclient, rfds>>,
             \A c \in Clients : socket'[c] = "request" => c \in Live,
             \A c \in Clients : socket[c] = "request" => socket'[c] = "request"
      PROVE  AheadInv'
  <2>1. ToServe' = ToServe
    BY <1>1, <1>4 DEF ToServe, Upto
  <2> QED
    BY <1>1, <1>4, <2>1, SelectAssumption DEF AheadInv, OvertakenTwice, AheadInPass
<1>5. CASE Timeout \/ UNCHANGED vars \/ \E c \in Clients : Connect(c) \/ HangUp(c)
  <2>1. UNCHANGED <<pc, curclient, rfds, socket>>
    BY <1>5 DEF Timeout, vars, outer, Connect, HangUp
  <2> QED
    BY <1>4, <2>1 DEF AheadInv
<1>6. ASSUME NEW c \in Clients, NEW what \in {"part", "request"}, Write(c, what) PROVE AheadInv'
  <2>1. /\ UNCHANGED <<pc, curclient, rfds>> /\ c \in Live
        /\ socket' = [socket EXCEPT ![c] = what] /\ socket[c] # "request"
    BY <1>6 DEF Write
  <2> QED
    BY <1>0, <1>4, <2>1 DEF AheadInv, TypeOK
<1> QED
  BY <1>2, <1>3, <1>5, <1>6

(* No client is served more than twice ahead of another whose request      *)
(* waits, however many they are and whatever clients a request ends.       *)
THEOREM OvertakenTwiceCorrect == Spec => []OvertakenTwice
<1>1. Init => AheadInv
  BY DEF Init, AheadInv, OvertakenTwice
<1>2. SelectInv /\ AheadInv /\ [Next]_vars => AheadInv'
  BY AnswerAhead, WakeAhead, HandleAhead, OthersAhead DEF Next, GsSelect
<1>3. AheadInv => OvertakenTwice
  BY DEF AheadInv
<1> QED
  BY <1>1, <1>2, <1>3, SelectInvCorrect, PTL DEF Spec
=============================================================================
