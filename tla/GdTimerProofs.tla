----------------------------- MODULE GdTimerProofs -----------------------------
(***************************************************************************)
(* Proofs about the timers, for any number of them, any periods and        *)
(* timeouts, any resolution of the clock, and a clock set back any number  *)
(* of times: no timer is early, the waits end in time and for a reason,    *)
(* and the screen saver has its one timer.                                 *)
(***************************************************************************)
EXTENDS GdTimer, SequenceTheorems, FiniteSetTheorems, WellFoundedInduction, TLAPS

Args     == Ids \cup {"saver", "vt"}
Timeval  == [sec : Int, usec : 0..Second]
ATimer   == [arg : Args, period : Nat, timeout : Timeval, due : Int]

TypeOK ==
    /\ clock \in 0 .. Second - 1
    /\ timers \in Seq(ATimer)
    /\ mainloop \in [on : BOOLEAN, sec : Int, usec : 0..Second, due : Int]
    /\ screensaver_delay \in {0} \cup Delays
    /\ screensaver_active \in BOOLEAN
    /\ phase \in {"working", "select", "poll"}
    /\ sleep \in Nat \cup {Forever}
    /\ steps \in Nat
    /\ stepped \in BOOLEAN

(* The ticks until a time comes, by the clock as it is.                    *)
Left(tv) == tv.sec * Second + tv.usec - clock

(* By the clock nothing is due before it is, and exactly then while the    *)
(* clock has not been set back.                                            *)
InStep(due, tv) == due <= Left(tv) /\ (steps = 0 => due = Left(tv))

ClockInv ==
    /\ \A i \in DOMAIN timers : InStep(timers[i].due, timers[i].timeout)
    /\ mainloop.on => InStep(mainloop.due, mainloop)

(* When the sleep is over the time has come, to less than a millisecond.   *)
ComesInSleep(tv) ==
    \/ Left(tv) <= sleep
    \/ Left(tv) < sleep + UsPerMs /\ tv.usec >= (clock + sleep) % Second

SleepsForOne ==
    phase = "select" /\ ~stepped /\ sleep # Forever =>
        \/ \E i \in DOMAIN timers : ComesInSleep(timers[i].timeout)
        \/ mainloop.on /\ ComesInSleep(mainloop)

(* The screen saver has no second timer, and has one when it should.       *)
SaverAt(list) == {i \in DOMAIN list : list[i].arg = "saver"}

SaverInv ==
    /\ \A i, j \in SaverAt(timers) : i = j
    /\ screensaver_delay = 0 => SaverAt(timers) = {}
    /\ screensaver_delay # 0 /\ ~screensaver_active => SaverAt(timers) # {}

TimerInv == TypeOK /\ ClockInv /\ SleepsForOne /\ SaverInv /\ WakesInTime

-----------------------------------------------------------------------------
(* Arithmetic.                                                             *)
LEMMA TimesMonotone ==
    ASSUME NEW x \in Int, NEW y \in Int, NEW u \in Nat
    PROVE  x <= y => x * u <= y * u
OBVIOUS

LEMMA DivBounds ==
    ASSUME NEW a \in Int, NEW u \in Nat \ {0}
    PROVE  /\ a \div u \in Int /\ a % u \in Nat /\ a % u < u
           /\ a % u = a - (a \div u) * u
           /\ (a \div u) * u <= a /\ a < (a \div u) * u + u
OBVIOUS

LEMMA DivIs ==
    ASSUME NEW q \in Int, NEW r \in Nat, NEW u \in Nat \ {0}, r < u
    PROVE  (q * u + r) \div u = q /\ (q * u + r) % u = r
OBVIOUS

LEMMA TruncatedBounds ==
    ASSUME NEW a \in Int, NEW u \in Nat \ {0}
    PROVE  /\ Truncated(a, u) \in Int
           /\ a >= 0 => Truncated(a, u) * u <= a /\ a < Truncated(a, u) * u + u
           /\ a <= 0 => a <= Truncated(a, u) * u /\ Truncated(a, u) * u < a + u
<1>1. CASE a >= 0
  <2>1. Truncated(a, u) = a \div u
    BY <1>1 DEF Truncated
  <2>2. a <= 0 => a = 0 /\ a \div u = 0
    <3>1. (0 * u + 0) \div u = 0
      BY DivIs
    <3> QED
      BY <1>1, <3>1
  <2>3. Truncated(a, u) \in Int /\ Truncated(a, u) * u <= a /\ a < Truncated(a, u) * u + u
    BY <2>1, DivBounds
  <2>4. a <= 0 => a <= Truncated(a, u) * u /\ Truncated(a, u) * u < a + u
    <3>1. 0 * u = 0
      OBVIOUS
    <3> QED
      BY <2>1, <2>2, <3>1
  <2> QED
    BY <2>3, <2>4
<1>2. CASE a < 0
  <2>1. -a \in Int
    OBVIOUS
  <2>2. Truncated(a, u) = -((-a) \div u)
    BY <1>2 DEF Truncated
  <2> QED
    BY <1>2, <2>1, <2>2, DivBounds
<1> QED
  BY <1>1, <1>2

(* What time_to_expiry tells of the ticks that are left.                   *)
LEMMA ExpiryBounds ==
    ASSUME TypeOK, NEW tv, tv.sec \in Int, tv.usec \in 0..Second
    PROVE  /\ time_to_expiry(tv) \in Int /\ Left(tv) \in Int
           /\ tv.usec >= clock =>
                 /\ time_to_expiry(tv) * UsPerMs <= Left(tv)
                 /\ Left(tv) < time_to_expiry(tv) * UsPerMs + UsPerMs
           /\ tv.usec <= clock =>
                 /\ Left(tv) <= time_to_expiry(tv) * UsPerMs
                 /\ time_to_expiry(tv) * UsPerMs < Left(tv) + UsPerMs
<1> DEFINE a == tv.usec - clock
           t == Truncated(a, UsPerMs)
<1>0. /\ UsPerMs \in Nat \ {0} /\ MsPerSec \in Nat \ {0} /\ Second \in Nat
      /\ clock \in Nat /\ tv.sec \in Int /\ tv.usec \in Nat
  BY TimerAssumption DEF TypeOK, Second
<1>1. a \in Int /\ (tv.usec >= clock <=> a >= 0) /\ (tv.usec <= clock <=> a <= 0)
  BY <1>0
<1>2. /\ t \in Int
      /\ a >= 0 => t * UsPerMs <= a /\ a < t * UsPerMs + UsPerMs
      /\ a <= 0 => a <= t * UsPerMs /\ t * UsPerMs < a + UsPerMs
  <2> HIDE DEF a
  <2> QED
    BY <1>0, <1>1, TruncatedBounds
<1>3. time_to_expiry(tv) = tv.sec * MsPerSec + t /\ Left(tv) = tv.sec * Second + a
  BY <1>0 DEF time_to_expiry, Left
<1> HIDE DEF a, t
<1>4. (tv.sec * MsPerSec + t) * UsPerMs = tv.sec * Second + t * UsPerMs
  BY <1>0, <1>2 DEF Second
<1>5. tv.sec * MsPerSec \in Int /\ tv.sec * Second \in Int /\ t * UsPerMs \in Int
  BY <1>0, <1>2
<1> QED
  BY <1>0, <1>1, <1>2, <1>3, <1>4, <1>5

(* A millisecond or more is left unless time_to_expiry is 0 or less.       *)
LEMMA ExpiredIsNear ==
    ASSUME TypeOK, NEW tv, tv.sec \in Int, tv.usec \in 0..Second, time_to_expiry(tv) <= 0
    PROVE  Left(tv) < UsPerMs
<1>0. UsPerMs \in Nat \ {0} /\ clock \in Int /\ tv.usec \in Int
  BY TimerAssumption DEF TypeOK, Second
<1>1. time_to_expiry(tv) * UsPerMs <= 0
  <2>1. time_to_expiry(tv) * UsPerMs <= 0 * UsPerMs
    BY <1>0, ExpiryBounds, TimesMonotone
  <2> QED
    BY <1>0, <2>1
<1>2. tv.usec >= clock \/ tv.usec <= clock
  BY <1>0
<1> QED
  BY <1>0, <1>1, <1>2, ExpiryBounds

LEMMA UnexpiredIsAhead ==
    ASSUME TypeOK, NEW tv, tv.sec \in Int, tv.usec \in 0..Second, time_to_expiry(tv) > 0
    PROVE  Left(tv) > 0
<1>0. UsPerMs \in Nat \ {0} /\ clock \in Int /\ tv.usec \in Int
  BY TimerAssumption DEF TypeOK, Second
<1>1. time_to_expiry(tv) * UsPerMs >= UsPerMs
  <2>1. 1 * UsPerMs <= time_to_expiry(tv) * UsPerMs
    BY <1>0, ExpiryBounds, TimesMonotone
  <2> QED
    BY <1>0, <2>1
<1>2. tv.usec >= clock \/ tv.usec <= clock
  BY <1>0
<1> QED
  BY <1>0, <1>1, <1>2, ExpiryBounds

(* What calculate_timeval sets is left, and time_to_expiry tells it.       *)
LEMMA TimevalIs ==
    ASSUME TypeOK, NEW to \in Nat
    PROVE  LET tv == calculate_timeval(to)
           IN  /\ tv \in Timeval
               /\ Left(tv) = to * UsPerMs
               /\ time_to_expiry(tv) = to
<1> DEFINE m == to % MsPerSec
           q == to \div MsPerSec
           tv == calculate_timeval(to)
<1>0. /\ UsPerMs \in Nat \ {0} /\ MsPerSec \in Nat \ {0} /\ Second \in Nat \ {0}
      /\ clock \in 0..(Second - 1) /\ Second = UsPerMs * MsPerSec
  BY TimerAssumption DEF TypeOK, Second
<1>1. m \in Nat /\ m < MsPerSec /\ q \in Int /\ m = to - q * MsPerSec
  BY <1>0, DivBounds
<1>6. tv = IF clock + m * UsPerMs > Second
           THEN [sec |-> q + 1, usec |-> (clock + m * UsPerMs) - Second]
           ELSE [sec |-> q, usec |-> clock + m * UsPerMs]
  BY DEF calculate_timeval, m, q
<1> HIDE DEF m, q
<1>2. m * UsPerMs \in Nat /\ m * UsPerMs < Second
  <2>1. (m + 1) * UsPerMs <= MsPerSec * UsPerMs
    BY <1>0, <1>1, TimesMonotone
  <2>2. (m + 1) * UsPerMs = m * UsPerMs + UsPerMs /\ MsPerSec * UsPerMs = Second
    BY <1>0, <1>1
  <2> QED
    BY <1>0, <1>1, <2>1, <2>2
<1>3. to * UsPerMs = q * Second + m * UsPerMs
  <2>1. to = q * MsPerSec + m
    BY <1>0, <1>1
  <2>2. (q * MsPerSec + m) * UsPerMs = q * Second + m * UsPerMs
    BY <1>0, <1>1
  <2> QED
    BY <2>1, <2>2
<1>4. CASE clock + m * UsPerMs > Second
  <2>1. tv = [sec |-> q + 1, usec |-> (clock + m * UsPerMs) - Second]
    BY <1>4, <1>6
  <2>2. tv \in Timeval
    BY <1>0, <1>1, <1>2, <1>4, <2>1 DEF Timeval
  <2>3. Left(tv) = (q + 1) * Second + (((clock + m * UsPerMs) - Second) - clock)
    <3>1. tv.sec = q + 1 /\ tv.usec = (clock + m * UsPerMs) - Second
      BY <2>1
    <3> QED
      BY <3>1, Zenon DEF Left
  <2>4. (q + 1) * Second = q * Second + Second /\ q * Second \in Int
    BY <1>0, <1>1
  <2>5. Left(tv) = to * UsPerMs
    BY <1>0, <1>2, <1>3, <2>3, <2>4
  <2>6. tv.usec - clock = -((MsPerSec - m) * UsPerMs)
    BY <1>0, <1>1, <1>2, <2>1
  <2>7. Truncated(tv.usec - clock, UsPerMs) = -(MsPerSec - m)
    <3> DEFINE k == MsPerSec - m
    <3>1. k \in Nat \ {0} /\ k * UsPerMs \in Nat /\ k * UsPerMs > 0
      BY <1>0, <1>1, <1>2, <1>4, <2>6, TimesMonotone
    <3> HIDE DEF k
    <3>2. (k * UsPerMs + 0) \div UsPerMs = k
      BY <1>0, <3>1, DivIs
    <3>3. Truncated(-(k * UsPerMs), UsPerMs) = -k
      BY <3>1, <3>2 DEF Truncated
    <3> QED
      BY <2>6, <3>3 DEF k
  <2>8. time_to_expiry(tv) = (q + 1) * MsPerSec - (MsPerSec - m)
    BY <1>0, <1>1, <2>1, <2>7 DEF time_to_expiry
  <2>9. time_to_expiry(tv) = to
    BY <1>0, <1>1, <2>8
  <2> QED
    BY <2>2, <2>5, <2>9
<1>5. CASE ~(clock + m * UsPerMs > Second)
  <2>1. tv = [sec |-> q, usec |-> clock + m * UsPerMs]
    BY <1>5, <1>6
  <2>2. tv \in Timeval
    BY <1>0, <1>1, <1>2, <1>5, <2>1 DEF Timeval
  <2>3. tv.usec - clock = m * UsPerMs
    BY <1>0, <1>2, <2>1
  <2>4. Left(tv) = to * UsPerMs
    BY <1>0, <1>1, <1>2, <1>3, <2>1 DEF Left
  <2>5. Truncated(tv.usec - clock, UsPerMs) = m
    <3>1. (m * UsPerMs + 0) \div UsPerMs = m
      BY <1>0, <1>1, DivIs
    <3> QED
      BY <1>2, <2>3, <3>1 DEF Truncated
  <2>6. time_to_expiry(tv) = to
    BY <1>0, <1>1, <2>1, <2>5 DEF time_to_expiry
  <2> QED
    BY <2>2, <2>4, <2>6
<1> QED
  BY <1>4, <1>5

-----------------------------------------------------------------------------
(* A set of numbers has a least one.                                       *)
Less == {p \in Nat \X Nat : p[1] < p[2]}

LEMMA LessWellFounded == IsWellFoundedOn(Less, Nat)
<1>1. IsWellFoundedOn(OpToRel(<, Nat), Nat)
  BY NatLessThanWellFounded
<1>2. Less \cap (Nat \X Nat) \subseteq OpToRel(<, Nat)
  BY DEF Less, OpToRel
<1> QED
  BY <1>1, <1>2, IsWellFoundedOnSubrelation

LEMMA SmallestOfNats ==
    ASSUME NEW T, T \subseteq Nat, T # {}
    PROVE  \E m \in T : \A k \in T : m <= k
<1>1. PICK m \in T : \A k \in T : ~ (<<k, m>> \in Less)
  BY LessWellFounded, WFMin
<1>2. ASSUME NEW k \in T PROVE m <= k
  <2>1. k \in Nat /\ m \in Nat
    OBVIOUS
  <2>2. CASE k < m
    <3>1. <<k, m>> \in Less
      BY <2>1, <2>2 DEF Less
    <3> QED
      BY <1>1, <3>1
  <2> QED
    BY <2>1, <2>2
<1> QED
  BY <1>2

LEMMA LeastOfNats ==
    ASSUME NEW T, T \subseteq Nat, T # {}
    PROVE  Min(T) \in T /\ \A k \in T : Min(T) <= k
BY SmallestOfNats DEF Min

(* The numbers of a list have a least one.                                 *)
LEMMA LeastListed ==
    ASSUME NEW n \in Nat \ {0}, NEW f, \A i \in 1..n : f[i] \in Int
    PROVE  \E m \in 1..n : \A i \in 1..n : f[m] <= f[i]
<1> DEFINE HasLeast(k) == \E m \in 1..k : \A i \in 1..k : f[m] <= f[i]
           T == {k \in 1..n : ~HasLeast(k)}
<1>0. n \in 1..n /\ T \subseteq Nat
  OBVIOUS
<1>1. SUFFICES ASSUME ~HasLeast(n) PROVE FALSE
  OBVIOUS
<1>2. PICK k \in T : \A j \in T : k <= j
  <2>1. n \in T
    BY <1>0, <1>1
  <2> HIDE DEF T
  <2> QED
    BY <1>0, <2>1, SmallestOfNats
<1>3. k \in 1..n /\ ~HasLeast(k) /\ k \in Nat
  BY <1>2
<1>4. CASE k = 1
  <2>1. 1 \in 1..k /\ \A i \in 1..k : i = 1
    BY <1>4
  <2> QED
    BY <1>3, <1>4, <2>1
<1>5. CASE k > 1
  <2>1. k - 1 \in 1..n /\ ~(k <= k - 1) /\ \A i \in 1..k : i = k \/ i \in 1..(k - 1)
    BY <1>3, <1>5
  <2>2. HasLeast(k - 1)
    BY <1>2, <2>1
  <2>3. PICK m \in 1..(k - 1) : \A i \in 1..(k - 1) : f[m] <= f[i]
    BY <2>2
  <2>4. m \in 1..k /\ m \in 1..n /\ k \in 1..k /\ \A i \in 1..k : i \in 1..n
    BY <1>3, <2>3
  <2>5. CASE f[m] <= f[k]
    BY <1>3, <2>1, <2>3, <2>4, <2>5
  <2>6. CASE f[k] < f[m]
    <3>1. \A i \in 1..k : f[k] <= f[i]
      BY <1>3, <2>1, <2>3, <2>4, <2>6
    <3> QED
      BY <1>3, <2>4, <3>1
  <2> QED
    BY <1>3, <2>4, <2>5, <2>6
<1> QED
  BY <1>3, <1>4, <1>5

-----------------------------------------------------------------------------
(* Lists of timers: one taken out, one put in front, and what is left of   *)
(* those that GdTimeout goes through.                                      *)
LEMMA Cut ==
    ASSUME NEW m \in Nat, NEW n \in Nat, m <= n
    PROVE  /\ n - (m + 1) + 1 = n - m
           /\ (m = n => n - m = 0 /\ ~(m + 1 <= n)) /\ (m # n => m + 1 <= n)
           /\ \A i \in Nat : (m + 1) + i - 1 = m + i
OBVIOUS

LEMMA Shortened ==
    ASSUME NEW S, NEW s \in Seq(S), NEW k \in 1..Len(s)
    PROVE  /\ RemoveAt(s, k) \in Seq(S) /\ Len(RemoveAt(s, k)) = Len(s) - 1
           /\ \A i \in 1..(Len(s) - 1) :
                 RemoveAt(s, k)[i] = IF i < k THEN s[i] ELSE s[i + 1]
<1> DEFINE a == SubSeq(s, 1, k - 1)
           b == SubSeq(s, k + 1, Len(s))
<1>1. Len(s) \in Nat /\ DOMAIN s = 1..Len(s) /\ k \in Nat /\ 1 <= k /\ k <= Len(s)
  BY LenProperties
<1>2. a \in Seq(S) /\ Len(a) = k - 1 /\ \A i \in 1..(k - 1) : a[i] = s[i]
  BY <1>1, SubSeqProperties
<1>3. b \in Seq(S) /\ Len(b) = Len(s) - k /\ \A i \in 1..(Len(s) - k) : b[i] = s[k + i]
  <2>1. /\ k + 1 \in Int /\ Len(s) \in Int
        /\ \A i \in (k + 1)..Len(s) : s[i] \in S
    BY <1>1
  <2>2. /\ b \in Seq(S)
        /\ Len(b) = IF k + 1 <= Len(s) THEN Len(s) - (k + 1) + 1 ELSE 0
        /\ \A i \in 1..(Len(s) - (k + 1) + 1) : b[i] = s[(k + 1) + i - 1]
    BY <2>1, SubSeqProperties
  <2> HIDE DEF b
  <2>3. /\ Len(s) - (k + 1) + 1 = Len(s) - k
        /\ (k = Len(s) => Len(s) - k = 0 /\ ~(k + 1 <= Len(s))) /\ (k # Len(s) => k + 1 <= Len(s))
        /\ \A i \in Nat : (k + 1) + i - 1 = k + i
    BY <1>1, Cut, Zenon
  <2>4. Len(b) = Len(s) - k
    BY <2>2, <2>3, Zenon
  <2>5. \A i \in 1..(Len(s) - k) : b[i] = s[k + i]
    <3> TAKE i \in 1..(Len(s) - k)
    <3>1. i \in 1..(Len(s) - (k + 1) + 1)
      BY <2>3, Zenon
    <3>2. i \in Nat
      OBVIOUS
    <3> QED
      BY <2>2, <2>3, <3>1, <3>2, Zenon
  <2> QED
    BY <2>2, <2>4, <2>5
<1> HIDE DEF a, b
<1>4. /\ a \o b \in Seq(S) /\ Len(a \o b) = Len(a) + Len(b)
      /\ \A i \in 1..(Len(a) + Len(b)) : (a \o b)[i] = IF i <= Len(a) THEN a[i] ELSE b[i - Len(a)]
  BY <1>2, <1>3, ConcatProperties
<1>5. RemoveAt(s, k) = a \o b
  BY DEF RemoveAt, a, b
<1>6. ASSUME NEW i \in 1..(Len(s) - 1)
      PROVE  (a \o b)[i] = IF i < k THEN s[i] ELSE s[i + 1]
  <2>1. CASE i < k
    BY <1>1, <1>2, <1>3, <1>4, <2>1
  <2>2. CASE ~(i < k)
    <3>1. i - (k - 1) \in 1..(Len(s) - k)
      BY <1>1, <2>2
    <3>2. (a \o b)[i] = b[i - (k - 1)]
      BY <1>1, <1>2, <1>3, <1>4, <2>2
    <3>3. k + (i - (k - 1)) = i + 1
      BY <1>1
    <3> QED
      BY <1>3, <2>2, <3>1, <3>2, <3>3
  <2> QED
    BY <2>1, <2>2
<1>7. RemoveAt(s, k) \in Seq(S) /\ Len(RemoveAt(s, k)) = Len(s) - 1
  <2>1. Len(a) + Len(b) = Len(s) - 1
    BY <1>1, <1>2, <1>3
  <2> QED
    BY <1>4, <1>5, <2>1
<1> QED
  BY <1>5, <1>6, <1>7

LEMMA PutInFront ==
    ASSUME NEW S, NEW s \in Seq(S), NEW e \in S
    PROVE  /\ <<e>> \o s \in Seq(S) /\ Len(<<e>> \o s) = Len(s) + 1
           /\ (<<e>> \o s)[1] = e
           /\ \A i \in 1..Len(s) : (<<e>> \o s)[i + 1] = s[i]
<1>1. <<e>> \in Seq(S) /\ Len(<<e>>) = 1 /\ <<e>>[1] = e /\ Len(s) \in Nat
  BY LenProperties
<1>2. /\ <<e>> \o s \in Seq(S) /\ Len(<<e>> \o s) = Len(<<e>>) + Len(s)
      /\ \A i \in 1..(Len(<<e>>) + Len(s)) :
            (<<e>> \o s)[i] = IF i <= Len(<<e>>) THEN <<e>>[i] ELSE s[i - Len(<<e>>)]
  BY <1>1, ConcatProperties
<1> DEFINE r == <<e>> \o s
<1>3. r \in Seq(S) /\ Len(r) = Len(s) + 1
  BY <1>1, <1>2
<1>4. \A i \in 1..(Len(s) + 1) : r[i] = IF i <= 1 THEN e ELSE s[i - 1]
  BY <1>1, <1>2
<1> HIDE DEF r
<1>5. r[1] = e
  BY <1>1, <1>4
<1>6. ASSUME NEW i \in 1..Len(s) PROVE r[i + 1] = s[i]
  <2>1. i + 1 \in 1..(Len(s) + 1) /\ ~(i + 1 <= 1) /\ (i + 1) - 1 = i
    BY <1>1
  <2> QED
    BY <1>4, <2>1
<1> QED
  BY <1>3, <1>5, <1>6 DEF r

(* out has what the first n sequences, none longer than 1, have, in order. *)
Gathers(s, n, out) ==
    \E f \in [1..Len(out) -> 1..n] :
        /\ \A j \in 1..Len(out) : Len(s[f[j]]) = 1 /\ out[j] = s[f[j]][1]
        /\ \A i, j \in 1..Len(out) : f[i] = f[j] => i = j
        /\ \A i \in 1..n : Len(s[i]) = 1 => \E j \in 1..Len(out) : f[j] = i

LEMMA GathersOne ==
    ASSUME NEW S, NEW s \in Seq(Seq(S)), s # <<>>, Len(s[1]) \in {0, 1}
    PROVE  Gathers(s, 1, s[1])
<1>1. Len(s) \in Nat /\ 1 \in 1..Len(s) /\ s[1] \in Seq(S)
  BY EmptySeq, LenProperties
<1> DEFINE f == [j \in 1..Len(s[1]) |-> 1]
<1>2. f \in [1..Len(s[1]) -> 1..1]
  OBVIOUS
<1>3. \A j \in 1..Len(s[1]) : j = 1 /\ f[j] = 1 /\ Len(s[1]) = 1
  <2>1. \A l \in {0, 1} : \A j \in 1..l : j = 1 /\ l = 1
    OBVIOUS
  <2>2. \A j \in 1..Len(s[1]) : f[j] = 1
    OBVIOUS
  <2> HIDE DEF f
  <2> QED
    BY <2>1, <2>2
<1>4. Len(s[1]) = 1 => 1 \in 1..Len(s[1])
  OBVIOUS
<1>5. \A i \in 1..1 : i = 1
  OBVIOUS
<1> HIDE DEF f
<1> QED
  BY <1>2, <1>3, <1>4, <1>5 DEF Gathers

LEMMA GathersNext ==
    ASSUME NEW S, NEW s \in Seq(Seq(S)), NEW n \in Nat, NEW k \in 1..Len(s), k = n + 1,
           NEW out \in Seq(S), Gathers(s, n, out), Len(s[k]) \in {0, 1}
    PROVE  out \o s[k] \in Seq(S) /\ Gathers(s, k, out \o s[k])
<1>1. Len(s) \in Nat /\ k \in Nat /\ s[k] \in Seq(S) /\ Len(out) \in Nat
  BY LenProperties
<1>2. PICK f \in [1..Len(out) -> 1..n] :
        /\ \A j \in 1..Len(out) : Len(s[f[j]]) = 1 /\ out[j] = s[f[j]][1]
        /\ \A i, j \in 1..Len(out) : f[i] = f[j] => i = j
        /\ \A i \in 1..n : Len(s[i]) = 1 => \E j \in 1..Len(out) : f[j] = i
  BY DEF Gathers
<1>3. \A i \in 1..k : i \in 1..n \/ i = k
  OBVIOUS
<1>4. \A i \in 1..n : i \in 1..k /\ i # k
  OBVIOUS
<1>5. CASE Len(s[k]) = 0
  <2>1. out \o s[k] = out
    BY <1>1, <1>5, EmptySeq, ConcatEmptySeq
  <2>2. f \in [1..Len(out) -> 1..k]
    BY <1>4
  <2>3. ASSUME NEW i \in 1..k, Len(s[i]) = 1 PROVE \E j \in 1..Len(out) : f[j] = i
    <3>1. i # k
      <4>1. 0 # 1
        OBVIOUS
      <4> QED
        BY <1>5, <2>3, <4>1, Zenon
    <3>2. i \in 1..n
      BY <1>3, <3>1
    <3> QED
      BY <1>2, <2>3, <3>2
  <2>4. Gathers(s, k, out)
    BY <1>2, <2>2, <2>3 DEF Gathers
  <2> QED
    BY <2>1, <2>4
<1>6. CASE Len(s[k]) = 1
  <2> DEFINE r == out \o s[k]
             m == Len(out) + 1
             g == [j \in 1..m |-> IF j = m THEN k ELSE f[j]]
  <2>1. r \in Seq(S) /\ Len(r) = m /\ \A j \in 1..m : r[j] = IF j <= Len(out) THEN out[j] ELSE s[k][j - Len(out)]
    <3>1. /\ out \o s[k] \in Seq(S) /\ Len(out \o s[k]) = Len(out) + Len(s[k])
          /\ \A j \in 1..(Len(out) + Len(s[k])) :
                (out \o s[k])[j] = IF j <= Len(out) THEN out[j] ELSE s[k][j - Len(out)]
      BY <1>1, ConcatProperties
    <3> QED
      BY <1>6, <3>1
  <2>2. /\ m \in 1..m
        /\ \A j \in 1..m : \/ j = m /\ ~(j <= Len(out)) /\ j - Len(out) = 1
                           \/ j \in 1..Len(out) /\ j # m /\ j <= Len(out)
    <3>1. \A l \in Nat : \A j \in 1..(l + 1) : j <= l => j \in 1..l /\ j # l + 1
      OBVIOUS
    <3>2. \A l \in Nat : \A j \in 1..(l + 1) : ~(j <= l) => j = l + 1 /\ j - l = 1
      OBVIOUS
    <3>3. \A l \in Nat : l + 1 \in 1..(l + 1)
      OBVIOUS
    <3> QED
      BY <1>1, <3>1, <3>2, <3>3
  <2>3. \A j \in 1..Len(out) : j \in 1..m /\ j # m
    BY <1>1
  <2> HIDE DEF r, m
  <2>4. g \in [1..m -> 1..k]
    BY <1>4, <2>2
  <2>5. g[m] = k /\ \A j \in 1..Len(out) : g[j] = f[j] /\ f[j] \in 1..n
    BY <2>2, <2>3
  <2> HIDE DEF g
  <2>6. ASSUME NEW j \in 1..m PROVE Len(s[g[j]]) = 1 /\ r[j] = s[g[j]][1]
    <3>1. CASE j = m
      BY <1>6, <2>1, <2>2, <2>5, <3>1
    <3>2. CASE j # m
      <4>1. j \in 1..Len(out) /\ j <= Len(out)
        BY <2>2, <3>2
      <4>2. g[j] = f[j] /\ r[j] = out[j]
        BY <2>1, <2>5, <4>1
      <4> QED
        BY <1>2, <4>1, <4>2
    <3> QED
      BY <3>1, <3>2
  <2>7. \A i, j \in 1..m : g[i] = g[j] => i = j
    BY <1>2, <1>4, <2>2, <2>5
  <2>8. \A i \in 1..k : Len(s[i]) = 1 => \E j \in 1..m : g[j] = i
    BY <1>2, <1>3, <2>2, <2>3, <2>5, ZenonT(60)
  <2>9. Gathers(s, k, r)
    <3>1. Len(r) = m
      BY <2>1
    <3>2. g \in [1..Len(r) -> 1..k]
      BY <2>4, <3>1
    <3>3. \A j \in 1..Len(r) : Len(s[g[j]]) = 1 /\ r[j] = s[g[j]][1]
      BY <2>6, <3>1
    <3>4. \A i, j \in 1..Len(r) : g[i] = g[j] => i = j
      BY <2>7, <3>1
    <3>5. \A i \in 1..k : Len(s[i]) = 1 => \E j \in 1..Len(r) : g[j] = i
      BY <2>8, <3>1
    <3> QED
      BY <3>2, <3>3, <3>4, <3>5, Zenon DEF Gathers
  <2> QED
    BY <2>1, <2>9 DEF r
<1> QED
  BY <1>5, <1>6

LEMMA FlattenGathers ==
    ASSUME NEW S, NEW s \in Seq(Seq(S)), \A i \in 1..Len(s) : Len(s[i]) \in {0, 1}
    PROVE  FlattenSeq(s) \in Seq(S) /\ Gathers(s, Len(s), FlattenSeq(s))
<1> DEFINE N == Len(s)
           Step(n, F) == [i \in 1..n |-> IF i = 1 THEN s[i] ELSE F[i - 1] \o s[i]]
           Lacks == {n \in Nat : n <= N /\ ~ \E F : F = Step(n, F)}
<1>0. N \in Nat /\ \A i \in 1..N : s[i] \in Seq(S)
  BY LenProperties
<1>1. CASE N = 0
  <2>1. s = <<>> /\ FlattenSeq(s) = <<>>
    BY <1>1, EmptySeq DEF FlattenSeq
  <2>2. Gathers(<<>>, 0, <<>>)
    <3> DEFINE f == [j \in 1..0 |-> 1]
    <3>1. f \in [1..Len(<<>>) -> 1..0] /\ Len(<<>>) = 0 /\ 1..0 = {}
      OBVIOUS
    <3> HIDE DEF f
    <3> QED
      BY <3>1 DEF Gathers
  <2>3. <<>> \in Seq(S) /\ Len(s) = 0
    BY <1>1
  <2> QED
    BY <2>1, <2>2, <2>3, Zenon
<1>2. CASE N > 0
  <2>1. Lacks = {}
    <3>1. SUFFICES ASSUME Lacks # {} PROVE FALSE
      OBVIOUS
    <3>2. PICK n \in Lacks : \A m \in Lacks : n <= m
      BY <3>1, SmallestOfNats
    <3>3. n \in Nat /\ n <= N /\ ~ \E F : F = Step(n, F)
      BY <3>2
    <3>4. n # 0
      <4>1. << >> = Step(0, << >>)
        OBVIOUS
      <4> QED
        BY <3>3, <4>1
    <3>5. n - 1 \notin Lacks /\ n - 1 \in Nat /\ n - 1 <= N
      <4>1. n - 1 \in Nat /\ n - 1 <= N /\ ~(n <= n - 1)
        BY <1>0, <3>3, <3>4
      <4> HIDE DEF Lacks
      <4> QED
        BY <3>2, <4>1
    <3>6. PICK F : F = Step(n - 1, F)
      BY <3>5
    <3> DEFINE G == [i \in 1..n |-> IF i = 1 THEN s[i] ELSE F[i - 1] \o s[i]]
    <3>7. ASSUME NEW i \in 1..n, i # 1 PROVE G[i - 1] = F[i - 1]
      <4>1. i - 1 \in 1..(n - 1) /\ i - 1 \in 1..n
        BY <3>3, <3>7
      <4>2. F[i - 1] = Step(n - 1, F)[i - 1]
        BY <3>6
      <4> QED
        BY <4>1, <4>2
    <3>8. G = Step(n, G)
      <4> HIDE DEF Lacks
      <4>1. \A i \in 1..n : G[i] = IF i = 1 THEN s[i] ELSE G[i - 1] \o s[i]
        BY <3>7, Zenon
      <4>2. G = [i \in 1..n |-> G[i]]
        OBVIOUS
      <4> HIDE DEF G
      <4> QED
        BY <4>1, <4>2
    <3> QED
      BY <3>3, <3>8
  <2>2. \E F : F = Step(N, F)
    <3>1. N \in Nat /\ N <= N
      BY <1>0
    <3>2. N \notin Lacks
      BY <2>1, Zenon
    <3> QED
      BY <3>1, <3>2, Zenon
  <2> DEFINE F == CHOOSE f : f = Step(N, f)
  <2>3. F = Step(N, F)
    BY <2>2, Zenon
  <2>4. FlattenSeq(s) = F[N]
    BY <1>2 DEF FlattenSeq
  <2> HIDE DEF F
  <2> DEFINE Wrong == {i \in 1..N : ~(F[i] \in Seq(S) /\ Gathers(s, i, F[i]))}
  <2>5. \A i \in 1..N : F[i] = IF i = 1 THEN s[i] ELSE F[i - 1] \o s[i]
    BY <2>3
  <2>6. Wrong = {}
    <3>1. SUFFICES ASSUME Wrong # {} PROVE FALSE
      OBVIOUS
    <3>2. PICK k \in Wrong : \A m \in Wrong : k <= m
      <4>1. Wrong \subseteq Nat
        BY <1>0
      <4> HIDE DEF Wrong
      <4> QED
        BY <3>1, <4>1, SmallestOfNats
    <3>3. k \in 1..N /\ ~(F[k] \in Seq(S) /\ Gathers(s, k, F[k]))
      BY <3>2
    <3>4. CASE k = 1
      <4>1. F[1] = s[1] /\ s[1] \in Seq(S)
        BY <1>0, <2>5, <3>3, <3>4
      <4>2. Gathers(s, 1, s[1])
        BY <1>0, <1>2, GathersOne, EmptySeq
      <4> QED
        BY <3>3, <3>4, <4>1, <4>2
    <3>5. CASE k # 1
      <4>1. k - 1 \in 1..N /\ k - 1 \in Nat /\ k = (k - 1) + 1 /\ ~(k <= k - 1)
        BY <1>0, <3>3, <3>5
      <4>2. F[k - 1] \in Seq(S) /\ Gathers(s, k - 1, F[k - 1])
        BY <3>2, <4>1
      <4>3. F[k] = F[k - 1] \o s[k]
        BY <2>5, <3>3, <3>5
      <4> DEFINE n == k - 1
      <4>4. n \in Nat /\ k = n + 1 /\ F[n] \in Seq(S) /\ Gathers(s, n, F[n])
        BY <4>1, <4>2
      <4> HIDE DEF n
      <4>5. F[n] \o s[k] \in Seq(S) /\ Gathers(s, k, F[n] \o s[k])
        BY <3>3, <4>4, GathersNext
      <4> QED
        BY <3>3, <4>3, <4>5 DEF n
    <3> QED
      BY <3>4, <3>5
  <2> QED
    BY <1>0, <1>2, <2>4, <2>6
<1> QED
  BY <1>0, <1>1, <1>2

-----------------------------------------------------------------------------
(* Timers that keep step with the clock.                                   *)
Keeps(list) == \A i \in 1..Len(list) : InStep(list[i].due, list[i].timeout)

LEMMA TimersTyped ==
    ASSUME TypeOK
    PROVE  /\ timers \in Seq(ATimer) /\ Len(timers) \in Nat /\ DOMAIN timers = 1..Len(timers)
           /\ \A i \in 1..Len(timers) :
                 /\ timers[i] \in ATimer
                 /\ timers[i].arg \in Args /\ timers[i].period \in Nat /\ timers[i].due \in Int
                 /\ timers[i].timeout \in Timeval
                 /\ timers[i].timeout.sec \in Int /\ timers[i].timeout.usec \in 0..Second
<1>1. timers \in Seq(ATimer) /\ Len(timers) \in Nat /\ DOMAIN timers = 1..Len(timers)
  BY LenProperties DEF TypeOK
<1>2. \A i \in 1..Len(timers) : timers[i] \in ATimer
  BY <1>1
<1> QED
  BY <1>1, <1>2 DEF ATimer, Timeval

LEMMA NewTimer ==
    ASSUME TypeOK, NEW arg \in Args, NEW period \in Nat
    PROVE  LET t == Timer(arg, period)
           IN  /\ t \in ATimer /\ t.arg = arg /\ t.period = period
               /\ InStep(t.due, t.timeout)
               /\ time_to_expiry(t.timeout) = period
<1> DEFINE tv == calculate_timeval(period)
<1>1. tv \in Timeval /\ Left(tv) = period * UsPerMs /\ time_to_expiry(tv) = period
  BY TimevalIs
<1>2. period * UsPerMs \in Int
  BY TimerAssumption
<1> HIDE DEF tv
<1>3. Timer(arg, period) = [arg |-> arg, period |-> period, timeout |-> tv, due |-> period * UsPerMs]
  BY DEF Timer, tv
<1> QED
  BY <1>1, <1>2, <1>3 DEF ATimer, InStep

LEMMA CorrectedTimer ==
    ASSUME TypeOK, NEW t \in ATimer, InStep(t.due, t.timeout)
    PROVE  /\ Corrected(t) \in ATimer /\ Corrected(t).arg = t.arg /\ Corrected(t).period = t.period
           /\ InStep(Corrected(t).due, Corrected(t).timeout)
           /\ time_to_expiry(Corrected(t).timeout) <= t.period
<1>1. t.arg \in Args /\ t.period \in Nat /\ t.timeout.sec \in Int /\ t.timeout.usec \in 0..Second
  BY DEF ATimer, Timeval
<1>2. CASE Corrected(t) = Timer(t.arg, t.period)
  BY <1>1, <1>2, NewTimer
<1>3. CASE Corrected(t) = t /\ ~(time_to_expiry(t.timeout) > 0 /\ time_to_expiry(t.timeout) > t.period)
  <2>1. time_to_expiry(t.timeout) \in Int
    BY <1>1, ExpiryBounds
  <2> QED
    BY <1>1, <1>3, <2>1
<1> QED
  BY <1>2, <1>3 DEF Corrected

LEMMA TimerAdded ==
    ASSUME TypeOK, NEW list \in Seq(ATimer), Keeps(list), NEW arg \in Args, NEW period \in Nat
    PROVE  /\ GdAddTimer(arg, period, list) \in Seq(ATimer)
           /\ Keeps(GdAddTimer(arg, period, list))
           /\ Len(GdAddTimer(arg, period, list)) = Len(list) + 1
           /\ GdAddTimer(arg, period, list)[1].arg = arg
           /\ \A i \in 1..Len(list) : GdAddTimer(arg, period, list)[i + 1] = list[i]
<1> DEFINE t == Timer(arg, period)
           new == <<t>> \o list
<1>1. t \in ATimer /\ t.arg = arg /\ InStep(t.due, t.timeout)
  BY NewTimer
<1>2. /\ new \in Seq(ATimer) /\ Len(new) = Len(list) + 1 /\ new[1] = t
      /\ \A i \in 1..Len(list) : new[i + 1] = list[i]
  <2> HIDE DEF t
  <2> QED
    BY <1>1, PutInFront
<1>3. GdAddTimer(arg, period, list) = new
  BY DEF GdAddTimer
<1> HIDE DEF new, t
<1>4. Keeps(new)
  <2> SUFFICES ASSUME NEW i \in 1..Len(new) PROVE InStep(new[i].due, new[i].timeout)
    BY DEF Keeps
  <2>1. Len(list) \in Nat /\ i \in 1..(Len(list) + 1)
    BY <1>2, LenProperties
  <2>2. CASE i = 1
    BY <1>1, <1>2, <2>2
  <2>3. CASE i # 1
    <3> DEFINE k == i - 1
    <3>1. k \in 1..Len(list) /\ i = k + 1
      BY <2>1, <2>3
    <3> HIDE DEF k
    <3> QED
      BY <1>2, <3>1 DEF Keeps
  <2> QED
    BY <2>2, <2>3
<1> QED
  BY <1>1, <1>2, <1>3, <1>4

LEMMA SaverAdded ==
    ASSUME TypeOK, NEW list \in Seq(ATimer), Keeps(list), NEW period \in Nat, SaverAt(list) = {}
    PROVE  SaverAt(GdAddTimer("saver", period, list)) = {1}
<1> DEFINE new == GdAddTimer("saver", period, list)
<1>1. /\ new \in Seq(ATimer) /\ Len(new) = Len(list) + 1 /\ new[1].arg = "saver"
      /\ \A i \in 1..Len(list) : new[i + 1] = list[i]
  <2>1. "saver" \in Args
    BY DEF Args
  <2> QED
    BY <2>1, TimerAdded
<1>2. Len(list) \in Nat /\ DOMAIN list = 1..Len(list) /\ DOMAIN new = 1..(Len(list) + 1)
  BY <1>1, LenProperties
<1> HIDE DEF new
<1>3. ASSUME NEW i \in DOMAIN new, i # 1 PROVE new[i].arg # "saver"
  <2> DEFINE k == i - 1
  <2>1. k \in 1..Len(list) /\ i = k + 1
    BY <1>2, <1>3
  <2> HIDE DEF k
  <2>2. list[k].arg # "saver"
    BY <1>2, <2>1 DEF SaverAt
  <2> QED
    BY <1>1, <2>1, <2>2
<1>4. 1 \in DOMAIN new
  BY <1>2
<1>5. SaverAt(new) = {1}
  BY <1>1, <1>3, <1>4 DEF SaverAt
<1> QED
  BY <1>5 DEF new

LEMMA OtherAdded ==
    ASSUME TypeOK, NEW list \in Seq(ATimer), Keeps(list),
           NEW arg \in Args, arg # "saver", NEW period \in Nat
    PROVE  SaverAt(GdAddTimer(arg, period, list)) = {i + 1 : i \in SaverAt(list)}
<1> DEFINE new == GdAddTimer(arg, period, list)
<1>1. /\ new \in Seq(ATimer) /\ Len(new) = Len(list) + 1 /\ new[1].arg = arg
      /\ \A i \in 1..Len(list) : new[i + 1] = list[i]
  BY TimerAdded
<1>2. Len(list) \in Nat /\ DOMAIN list = 1..Len(list) /\ DOMAIN new = 1..(Len(list) + 1)
  BY <1>1, LenProperties
<1> HIDE DEF new
<1>3. ASSUME NEW i \in SaverAt(new) PROVE i \in {k + 1 : k \in SaverAt(list)}
  <2>0. i \in 1..(Len(list) + 1) /\ new[i].arg = "saver"
    BY <1>2 DEF SaverAt
  <2>1. i # 1
    BY <1>1, <2>0
  <2> DEFINE k == i - 1
  <2>2. k \in 1..Len(list) /\ i = k + 1
    BY <1>2, <2>0, <2>1
  <2> HIDE DEF k
  <2>3. k \in SaverAt(list)
    BY <1>1, <1>2, <2>0, <2>2 DEF SaverAt
  <2> QED
    BY <2>2, <2>3
<1>4. ASSUME NEW k \in SaverAt(list) PROVE k + 1 \in SaverAt(new)
  <2>1. k \in 1..Len(list) /\ list[k].arg = "saver"
    BY <1>2 DEF SaverAt
  <2>2. k + 1 \in 1..(Len(list) + 1)
    BY <1>2, <2>1
  <2> QED
    BY <1>1, <1>2, <2>1, <2>2 DEF SaverAt
<1>5. SaverAt(new) = {k + 1 : k \in SaverAt(list)}
  BY <1>3, <1>4
<1> QED
  BY <1>5 DEF new

LEMMA TimerDestroyed ==
    ASSUME TypeOK, NEW arg \in Args, Keeps(timers), SaverInv
    PROVE  LET left == GdDestroyTimer(arg, timers)
           IN  /\ left \in Seq(ATimer) /\ Keeps(left)
               /\ arg = "saver" => SaverAt(left) = {}
               /\ arg # "saver" =>
                     /\ \A i, j \in SaverAt(left) : i = j
                     /\ SaverAt(left) = {} <=> SaverAt(timers) = {}
<1> DEFINE found == {i \in DOMAIN timers : timers[i].arg = arg}
           left == GdDestroyTimer(arg, timers)
           n == Len(timers)
<1>0. /\ timers \in Seq(ATimer) /\ n \in Nat /\ DOMAIN timers = 1..n
      /\ \A i, j \in SaverAt(timers) : i = j
  BY TimersTyped DEF SaverInv
<1>1. CASE found = {}
  <2>1. left = timers
    BY <1>1 DEF GdDestroyTimer
  <2>2. arg = "saver" => SaverAt(timers) = {}
    BY <1>1 DEF SaverAt
  <2> HIDE DEF left
  <2> QED
    BY <1>0, <2>1, <2>2 DEF left
<1>2. CASE found # {}
  <2> DEFINE k == Min(found)
             Old(i) == IF i < k THEN i ELSE i + 1
  <2>1. k \in found
    <3>1. found \subseteq Nat
      BY <1>0
    <3> HIDE DEF found
    <3> QED
      BY <1>2, <3>1, LeastOfNats, Zenon
  <2>2. k \in 1..n /\ timers[k].arg = arg
    BY <1>0, <2>1
  <2>3. left = RemoveAt(timers, k)
    BY <1>2 DEF GdDestroyTimer
  <2> HIDE DEF left, k, found
  <2>4. /\ left \in Seq(ATimer) /\ Len(left) = n - 1 /\ DOMAIN left = 1..(n - 1)
        /\ \A i \in 1..(n - 1) : left[i] = timers[Old(i)]
    <3>1. /\ left \in Seq(ATimer) /\ Len(left) = n - 1
          /\ \A i \in 1..(n - 1) : left[i] = IF i < k THEN timers[i] ELSE timers[i + 1]
      BY <1>0, <2>2, <2>3, Shortened, Zenon
    <3> QED
      BY <3>1, LenProperties, Zenon
  <2>5. ASSUME NEW i \in 1..(n - 1) PROVE Old(i) \in 1..n /\ Old(i) # k
    BY <1>0, <2>2
  <2>6. \A i, j \in 1..(n - 1) : Old(i) = Old(j) => i = j
    BY <1>0, <2>2
  <2>7. ASSUME NEW i \in 1..n, i # k PROVE \E j \in 1..(n - 1) : Old(j) = i
    <3>1. CASE i < k
      <4>1. i \in 1..(n - 1) /\ Old(i) = i
        BY <1>0, <2>2, <3>1
      <4> QED
        BY <4>1
    <3>2. CASE i > k
      <4>1. i - 1 \in 1..(n - 1) /\ Old(i - 1) = i
        BY <1>0, <2>2, <3>2
      <4> HIDE DEF Old
      <4> QED
        BY <4>1
    <3> QED
      BY <1>0, <2>2, <2>7, <3>1, <3>2
  <2> HIDE DEF Old, n
  <2>8. Keeps(left)
    BY <2>4, <2>5 DEF Keeps, n
  <2>9. \A i \in 1..(n - 1) : i \in SaverAt(left) <=> Old(i) \in SaverAt(timers)
    BY <1>0, <2>4, <2>5 DEF SaverAt
  <2>10. SaverAt(left) \subseteq 1..(n - 1) /\ SaverAt(timers) \subseteq 1..n
    BY <1>0, <2>4 DEF SaverAt
  <2>11. \A i, j \in SaverAt(left) : i = j
    BY <1>0, <2>6, <2>9, <2>10
  <2>12. arg = "saver" => SaverAt(left) = {}
    <3>1. arg = "saver" => k \in SaverAt(timers)
      BY <1>0, <2>2 DEF SaverAt
    <3> QED
      BY <1>0, <2>5, <2>9, <2>10, <3>1
  <2>13. arg # "saver" => (SaverAt(left) = {} <=> SaverAt(timers) = {})
    <3>1. k \in SaverAt(timers) => arg = "saver"
      BY <2>2 DEF SaverAt
    <3> QED
      BY <2>7, <2>9, <2>10, <3>1
  <2> QED
    BY <2>4, <2>8, <2>11, <2>12, <2>13 DEF left
<1> QED
  BY <1>1, <1>2

-----------------------------------------------------------------------------
(* Requests and devices, which change the list while the server works.     *)
LEMMA BecomesSafe ==
    ASSUME TimerInv, NEW list \in Seq(ATimer), Keeps(list), Becomes(list),
           screensaver_delay' \in {0} \cup Delays, screensaver_active' \in BOOLEAN
    PROVE  TypeOK' /\ ClockInv' /\ SleepsForOne' /\ WakesInTime'
<1>1. /\ Working /\ timers' = list
      /\ UNCHANGED <<clock, mainloop, phase, sleep, steps, stepped>>
  BY DEF Becomes
<1>2. TypeOK'
  BY <1>1 DEF TimerInv, TypeOK
<1>3. ClockInv'
  <2>1. DOMAIN list = 1..Len(list)
    BY LenProperties
  <2> QED
    BY <1>1, <2>1 DEF TimerInv, ClockInv, InStep, Left, Keeps
<1>4. phase' = "working"
  BY <1>1 DEF Working
<1> QED
  BY <1>2, <1>3, <1>4 DEF SleepsForOne, WakesInTime

LEMMA TimersKeep == TimerInv => TypeOK /\ Keeps(timers) /\ SaverInv
BY TimersTyped DEF TimerInv, ClockInv, Keeps

LEMMA RequestSafe ==
    ASSUME TimerInv,
           \/ \E id \in Ids :
                 \/ \E period \in Periods : GrCreateTimer(id, period)
                 \/ GrDestroyTimer(id)
           \/ GsInitialize
    PROVE  TimerInv'
<1>0. TypeOK /\ Keeps(timers) /\ SaverInv /\ timers \in Seq(ATimer) /\ DOMAIN timers = 1..Len(timers)
  BY TimersKeep, TimersTyped
<1>1. Ids \subseteq Args /\ "vt" \in Args /\ "saver" \notin Ids /\ Periods \subseteq Nat /\ VtPeriod \in Nat
  BY TimerAssumption DEF Args
<1>2. server' = server
  BY DEF GrCreateTimer, GrDestroyTimer, GsInitialize
<1>3. screensaver_delay' \in {0} \cup Delays /\ screensaver_active' \in BOOLEAN
  BY <1>0, <1>2 DEF TypeOK, server
<1>4. ASSUME NEW arg \in Args, arg # "saver", NEW period \in Nat,
             Becomes(GdAddTimer(arg, period, timers))
      PROVE  TimerInv'
  <2> DEFINE list == GdAddTimer(arg, period, timers)
  <2>1. list \in Seq(ATimer) /\ Keeps(list)
    BY <1>0, TimerAdded
  <2>2. SaverAt(list) = {i + 1 : i \in SaverAt(timers)}
    BY <1>0, <1>4, OtherAdded
  <2>3. Becomes(list)
    BY <1>4
  <2> HIDE DEF list
  <2>4. TypeOK' /\ ClockInv' /\ SleepsForOne' /\ WakesInTime'
    BY <1>3, <2>1, <2>3, BecomesSafe
  <2>5. timers' = list
    BY <2>3 DEF Becomes
  <2>6. SaverAt(timers)' = {i + 1 : i \in SaverAt(timers)}
    BY <2>2, <2>5 DEF SaverAt
  <2>7. SaverInv'
    BY <1>0, <1>2, <2>6 DEF SaverInv, server
  <2> QED
    BY <2>4, <2>7 DEF TimerInv
<1>5. ASSUME NEW id \in Ids, GrDestroyTimer(id) PROVE TimerInv'
  <2> DEFINE list == GdDestroyTimer(id, timers)
  <2>1. /\ list \in Seq(ATimer) /\ Keeps(list)
        /\ \A i, j \in SaverAt(list) : i = j
        /\ SaverAt(list) = {} <=> SaverAt(timers) = {}
    BY <1>0, <1>1, TimerDestroyed
  <2>2. Becomes(list)
    BY <1>5 DEF GrDestroyTimer
  <2> HIDE DEF list
  <2>3. TypeOK' /\ ClockInv' /\ SleepsForOne' /\ WakesInTime'
    BY <1>3, <2>1, <2>2, BecomesSafe
  <2>4. timers' = list
    BY <2>2 DEF Becomes
  <2>5. SaverInv'
    BY <1>0, <1>2, <2>1, <2>4 DEF SaverInv, server, SaverAt
  <2> QED
    BY <2>3, <2>5 DEF TimerInv
<1>6. \A id \in Ids : id \in Args /\ id # "saver"
  BY <1>1
<1>7. ASSUME NEW id \in Ids, NEW period \in Periods, GrCreateTimer(id, period) PROVE TimerInv'
  BY <1>1, <1>4, <1>6, <1>7 DEF GrCreateTimer
<1>8. CASE GsInitialize
  BY <1>1, <1>4, <1>8 DEF GsInitialize
<1> QED
  BY <1>5, <1>7, <1>8

(* The screen saver's timer is set, or taken out.                          *)
LEMMA SaverSet ==
    ASSUME TimerInv, NEW delay \in {0} \cup Delays, Becomes(SetSaver(delay)),
           screensaver_delay' = delay, screensaver_active' \in BOOLEAN
    PROVE  TimerInv'
<1>0. TypeOK /\ Keeps(timers) /\ SaverInv /\ "saver" \in Args /\ delay \in Nat
  BY TimersKeep, TimerAssumption DEF Args
<1> DEFINE others == GdDestroyTimer("saver", timers)
           list == SetSaver(delay)
<1>1. others \in Seq(ATimer) /\ Keeps(others) /\ SaverAt(others) = {}
  BY <1>0, TimerDestroyed
<1>2. list = IF delay = 0 THEN others ELSE GdAddTimer("saver", delay, others)
  BY DEF SetSaver
<1> HIDE DEF others
<1>3. /\ list \in Seq(ATimer) /\ Keeps(list)
      /\ SaverAt(list) = IF delay = 0 THEN {} ELSE {1}
  <2> HIDE DEF list
  <2>1. CASE delay = 0
    BY <1>1, <1>2, <2>1
  <2>2. CASE delay # 0
    <3>1. /\ GdAddTimer("saver", delay, others) \in Seq(ATimer)
          /\ Keeps(GdAddTimer("saver", delay, others))
      BY <1>0, <1>1, TimerAdded
    <3>2. SaverAt(GdAddTimer("saver", delay, others)) = {1}
      BY <1>0, <1>1, SaverAdded
    <3> QED
      BY <1>2, <2>2, <3>1, <3>2
  <2> QED
    BY <2>1, <2>2
<1>4. Becomes(list)
  OBVIOUS
<1> HIDE DEF list
<1>5. TypeOK' /\ ClockInv' /\ SleepsForOne' /\ WakesInTime'
  BY <1>3, <1>4, BecomesSafe
<1>6. timers' = list
  BY <1>4 DEF Becomes
<1>7. SaverAt(timers)' = IF delay = 0 THEN {} ELSE {1}
  BY <1>3, <1>6 DEF SaverAt
<1>8. SaverInv'
  BY <1>7 DEF SaverInv
<1> QED
  BY <1>5, <1>8 DEF TimerInv

LEMMA SaverRequestSafe ==
    ASSUME TimerInv,
           \/ \E delay \in {0} \cup Delays : GrSetScreenSaverTimeout(delay)
           \/ GsResetScreenSaver
    PROVE  TimerInv'
<1>0. TypeOK /\ Keeps(timers) /\ SaverInv /\ timers \in Seq(ATimer)
  BY TimersKeep, TimersTyped
<1>1. ASSUME NEW delay \in {0} \cup Delays, GrSetScreenSaverTimeout(delay) PROVE TimerInv'
  <2>1. /\ Becomes(SetSaver(delay)) /\ screensaver_delay' = delay
        /\ screensaver_active' = screensaver_active
    BY <1>1 DEF GrSetScreenSaverTimeout
  <2> QED
    BY <1>0, <2>1, SaverSet DEF TypeOK
<1>2. CASE GsResetScreenSaver
  <2>1. screensaver_active' = FALSE /\ screensaver_delay' = screensaver_delay
        /\ screensaver_delay \in {0} \cup Delays
    BY <1>0, <1>2 DEF GsResetScreenSaver, TypeOK
  <2>2. CASE screensaver_delay = 0
    <3>1. Becomes(timers)
      BY <1>2, <2>2 DEF GsResetScreenSaver
    <3>2. TypeOK' /\ ClockInv' /\ SleepsForOne' /\ WakesInTime'
      BY <1>0, <2>1, <3>1, BecomesSafe
    <3>3. timers' = timers
      BY <3>1 DEF Becomes
    <3>4. SaverInv'
      BY <1>0, <2>1, <2>2, <3>3 DEF SaverInv, SaverAt
    <3> QED
      BY <3>2, <3>4 DEF TimerInv
  <2>3. CASE screensaver_delay # 0
    <3>1. Becomes(SetSaver(screensaver_delay))
      BY <1>2, <2>3 DEF GsResetScreenSaver
    <3> QED
      BY <2>1, <3>1, SaverSet
  <2> QED
    BY <2>2, <2>3
<1> QED
  BY <1>1, <1>2

-----------------------------------------------------------------------------
(* The wait.                                                               *)
LEMMA Unchanging ==
    ASSUME TimerInv, Poll \/ InputReady \/ UNCHANGED vars
    PROVE  TimerInv'
<1>1. TypeOK /\ ClockInv /\ SaverInv
  BY DEF TimerInv
<1>2. UNCHANGED <<clock, timers, mainloop, screensaver_delay, screensaver_active, steps>>
  BY DEF Poll, InputReady, vars, server
<1>3. ClockInv' /\ SaverInv'
  BY <1>1, <1>2 DEF ClockInv, InStep, Left, SaverInv, SaverAt
<1>4. TypeOK' /\ SleepsForOne' /\ WakesInTime'
  <2>1. CASE Poll
    BY <1>1, <1>2, <2>1 DEF Poll, TypeOK, SleepsForOne, WakesInTime
  <2>2. CASE InputReady
    BY <1>1, <1>2, <2>2 DEF InputReady, Return, TypeOK, SleepsForOne, WakesInTime
  <2>3. CASE UNCHANGED vars
    BY <1>1, <1>2, <2>3 DEF TimerInv, vars, TypeOK, SleepsForOne, WakesInTime, ComesInSleep, Left
  <2> QED
    BY <2>1, <2>2, <2>3
<1> QED
  BY <1>3, <1>4 DEF TimerInv

(* A sleep as long as time_to_expiry tells is not much too short.          *)
LEMMA SleptLongEnough ==
    ASSUME TypeOK, NEW tv, tv.sec \in Int, tv.usec \in 0..Second,
           NEW s, s = IF time_to_expiry(tv) <= 0 THEN 0 ELSE time_to_expiry(tv) * UsPerMs
    PROVE  \/ Left(tv) <= s
           \/ Left(tv) < s + UsPerMs /\ tv.usec >= (clock + s) % Second
<1> DEFINE e == time_to_expiry(tv)
<1>0. /\ UsPerMs \in Nat \ {0} /\ MsPerSec \in Nat \ {0} /\ Second \in Nat \ {0}
      /\ clock \in 0..(Second - 1) /\ tv.sec \in Int /\ tv.usec \in Nat /\ tv.usec <= Second
      /\ Second = UsPerMs * MsPerSec
  BY TimerAssumption DEF TypeOK, Second
<1>1. /\ e \in Int /\ Left(tv) \in Int
      /\ tv.usec >= clock => e * UsPerMs <= Left(tv) /\ Left(tv) < e * UsPerMs + UsPerMs
      /\ tv.usec <= clock => Left(tv) <= e * UsPerMs /\ e * UsPerMs < Left(tv) + UsPerMs
  BY ExpiryBounds
<1>2. e * UsPerMs \in Int /\ s \in Int /\ e * UsPerMs <= s
  <2>1. e <= 0 => e * UsPerMs <= 0
    <3>1. e <= 0 => e * UsPerMs <= 0 * UsPerMs
      BY <1>0, <1>1, TimesMonotone
    <3> QED
      BY <1>0, <3>1
  <2> QED
    BY <1>0, <1>1, <2>1
<1>3. CASE tv.usec <= clock
  BY <1>1, <1>2, <1>3
<1>4. CASE tv.usec > clock
  <2>1. Left(tv) < s + UsPerMs
    BY <1>0, <1>1, <1>2, <1>4
  <2>2. CASE e <= 0
    <3>1. s = 0 /\ (0 * Second + clock) % Second = clock
      <4>1. clock \in Nat /\ clock < Second /\ 0 \in Int
        BY <1>0
      <4>2. (0 * Second + clock) % Second = clock
        BY <1>0, <4>1, DivIs
      <4> QED
        BY <2>2, <4>2
    <3>2. (clock + s) % Second = clock
      BY <1>0, <3>1
    <3> QED
      BY <1>0, <1>4, <2>1, <3>2
  <2>3. CASE e > 0
    <3> DEFINE a == tv.usec - clock
               t == Truncated(a, UsPerMs)
               c == clock + t * UsPerMs
    <3>1. a \in Int /\ a >= 0 /\ a + clock = tv.usec
      BY <1>0, <1>4
    <3>2. t \in Nat /\ t * UsPerMs \in Nat /\ t * UsPerMs <= a
      <4>1. t = a \div UsPerMs /\ a \div UsPerMs \in Nat
        <5> HIDE DEF a
        <5>1. Truncated(a, UsPerMs) = a \div UsPerMs
          BY <3>1 DEF Truncated
        <5> QED
          BY <1>0, <3>1, <5>1
      <4>2. t \in Int /\ t * UsPerMs <= a
        <5> HIDE DEF a
        <5> QED
          BY <1>0, <3>1, TruncatedBounds
      <4> QED
        BY <1>0, <4>1, <4>2
    <3>3. e = tv.sec * MsPerSec + t
      BY DEF time_to_expiry
    <3> HIDE DEF t, a
    <3>4. e * UsPerMs = tv.sec * Second + t * UsPerMs
      BY <1>0, <3>2, <3>3
    <3>5. s = tv.sec * Second + t * UsPerMs
      BY <1>1, <2>3, <3>4
    <3>6. tv.sec * Second \in Int /\ clock + s = tv.sec * Second + c
      BY <1>0, <3>2, <3>5
    <3>7. c \in Nat /\ c <= tv.usec
      BY <1>0, <3>1, <3>2
    <3> HIDE DEF c
    <3>8. CASE c < Second
      <4>1. (clock + s) % Second = c
        BY <1>0, <3>6, <3>7, <3>8, DivIs
      <4> QED
        BY <2>1, <3>7, <4>1
    <3>9. CASE c = Second
      <4>1. tv.sec * Second + c = (tv.sec + 1) * Second + 0
        BY <1>0, <3>9
      <4>2. (clock + s) % Second = 0
        <5>1. tv.sec + 1 \in Int /\ 0 \in Nat /\ 0 < Second
          BY <1>0
        <5>2. ((tv.sec + 1) * Second + 0) % Second = 0
          BY <1>0, <5>1, DivIs
        <5> QED
          BY <3>6, <4>1, <5>2
      <4> QED
        BY <1>0, <2>1, <4>2
    <3> QED
      BY <1>0, <3>7, <3>8, <3>9
  <2> QED
    BY <1>1, <2>2, <2>3
<1> QED
  BY <1>0, <1>3, <1>4

LEMMA WaitSafe ==
    ASSUME TimerInv, NEW timeout \in Timeouts, GdGetNextTimeout(timeout)
    PROVE  TimerInv'
<1> DEFINE fresh  == [i \in DOMAIN timers |->
                        IF timeout = 0 /\ i = 1 THEN timers[i] ELSE Corrected(timers[i])]
           tv     == calculate_timeval(timeout)
           waits  == {time_to_expiry(fresh[i].timeout) : i \in DOMAIN timers}
                        \cup (IF timeout = 0 THEN {} ELSE {time_to_expiry(tv)})
           lowest == CHOOSE n \in waits : \A m \in waits : n <= m
           n      == Len(timers)
<1>0. /\ TypeOK /\ Keeps(timers) /\ SaverInv /\ ClockInv /\ timers \in Seq(ATimer)
      /\ DOMAIN timers = 1..n /\ n \in Nat /\ timeout \in Nat
      /\ UsPerMs \in Nat \ {0}
  BY TimersKeep, TimersTyped, TimerAssumption DEF TimerInv
<1>1. /\ timers' = (IF waits = {} THEN timers ELSE fresh)
      /\ mainloop' = (CASE waits = {} -> mainloop
                        [] timeout # 0 -> [on |-> TRUE, sec |-> tv.sec, usec |-> tv.usec,
                                           due |-> timeout * UsPerMs]
                        [] OTHER -> [mainloop EXCEPT !.on = FALSE, !.sec = -1])
      /\ sleep' = (CASE waits = {} -> Forever
                     [] OTHER -> IF lowest <= 0 THEN 0 ELSE lowest * UsPerMs)
      /\ phase' = "select"
      /\ UNCHANGED <<clock, server, steps, stepped>>
  BY DEF GdGetNextTimeout
<1>2. /\ tv \in Timeval /\ Left(tv) = timeout * UsPerMs /\ time_to_expiry(tv) = timeout
      /\ timeout * UsPerMs \in Int
  BY <1>0, TimevalIs
<1>3. ASSUME NEW i \in 1..n
      PROVE  /\ fresh[i] \in ATimer /\ fresh[i].arg = timers[i].arg
             /\ fresh[i].period = timers[i].period
             /\ InStep(fresh[i].due, fresh[i].timeout)
             /\ ~(timeout = 0 /\ i = 1) => time_to_expiry(fresh[i].timeout) <= fresh[i].period
  <2>1. timers[i] \in ATimer /\ InStep(timers[i].due, timers[i].timeout)
    BY <1>0, TimersTyped DEF Keeps
  <2>2. CASE timeout = 0 /\ i = 1
    <3>1. fresh[i] = timers[i]
      BY <1>0, <2>2
    <3> HIDE DEF fresh
    <3> QED
      BY <2>1, <2>2, <3>1
  <2>3. CASE ~(timeout = 0 /\ i = 1)
    <3>1. fresh[i] = Corrected(timers[i])
      BY <1>0, <2>3
    <3> HIDE DEF fresh
    <3> QED
      BY <1>0, <2>1, <3>1, CorrectedTimer
  <2> QED
    BY <2>2, <2>3
<1>4. fresh \in Seq(ATimer) /\ Len(fresh) = n /\ DOMAIN fresh = 1..n
  <2>1. \A i \in 1..n : fresh[i] \in ATimer
    BY <1>3
  <2>2. fresh \in [1..n -> ATimer]
    BY <1>0, <2>1
  <2> HIDE DEF fresh
  <2> QED
    BY <1>0, <2>2, SeqDef, LenProperties
<1> HIDE DEF fresh
<1>5. ASSUME NEW i \in 1..n
      PROVE  /\ fresh[i].timeout.sec \in Int /\ fresh[i].timeout.usec \in 0..Second
             /\ fresh[i].due \in Int /\ fresh[i].period \in Nat
             /\ time_to_expiry(fresh[i].timeout) \in Int
             /\ Left(fresh[i].timeout) \in Int
  <2>1. /\ fresh[i].timeout.sec \in Int /\ fresh[i].timeout.usec \in 0..Second
        /\ fresh[i].due \in Int /\ fresh[i].period \in Nat
    BY <1>3 DEF ATimer, Timeval
  <2> QED
    BY <1>0, <2>1, ExpiryBounds
<1>6. waits # {} => lowest \in waits /\ \A m \in waits : lowest <= m
  <2>1. waits # {} => \E l \in waits : \A m \in waits : l <= m
    <3>1. CASE n = 0
      <4>1. waits = IF timeout = 0 THEN {} ELSE {timeout}
        BY <1>0, <1>2, <3>1
      <4> HIDE DEF waits
      <4> QED
        BY <1>0, <4>1
    <3>2. CASE n # 0
      <4> DEFINE f == [i \in 1..n |-> time_to_expiry(fresh[i].timeout)]
      <4>1. PICK k \in 1..n : \A i \in 1..n : f[k] <= f[i]
        <5>1. \A i \in 1..n : f[i] \in Int
          BY <1>5
        <5> HIDE DEF f
        <5> QED
          BY <1>0, <3>2, <5>1, LeastListed
      <4>2. /\ time_to_expiry(fresh[k].timeout) \in Int
            /\ \A i \in 1..n : time_to_expiry(fresh[k].timeout) <= time_to_expiry(fresh[i].timeout)
        BY <1>5, <4>1
      <4>3. CASE timeout = 0 \/ time_to_expiry(fresh[k].timeout) <= timeout
        <5>1. time_to_expiry(fresh[k].timeout) \in waits
          BY <1>0
        <5>2. \A m \in waits : time_to_expiry(fresh[k].timeout) <= m
          BY <1>0, <1>2, <4>2, <4>3
        <5> QED
          BY <5>1, <5>2
      <4>4. CASE timeout # 0 /\ timeout < time_to_expiry(fresh[k].timeout)
        <5>1. timeout \in waits
          BY <1>2, <4>4
        <5>2. \A m \in waits : timeout <= m
          <6>1. \A i \in 1..n : timeout <= time_to_expiry(fresh[i].timeout)
            BY <1>0, <1>5, <4>2, <4>4
          <6> QED
            BY <1>0, <1>2, <6>1
        <5> QED
          BY <5>1, <5>2
      <4>5. \A x \in Int : x <= timeout \/ timeout < x
        BY <1>0
      <4> QED
        BY <4>2, <4>3, <4>4, <4>5
    <3> QED
      BY <3>1, <3>2
  <2> HIDE DEF waits
  <2> QED
    BY <2>1
<1>7. /\ waits = {} => n = 0 /\ timeout = 0
      /\ \A i \in 1..n : time_to_expiry(fresh[i].timeout) \in waits
      /\ timeout # 0 => timeout \in waits
      /\ \A m \in waits : \/ \E i \in 1..n : m = time_to_expiry(fresh[i].timeout)
                          \/ timeout # 0 /\ m = timeout
  <2>1. waits = {time_to_expiry(fresh[i].timeout) : i \in 1..n}
                   \cup (IF timeout = 0 THEN {} ELSE {timeout})
    BY <1>0, <1>2
  <2>2. n # 0 => 1 \in 1..n
    BY <1>0
  <2> HIDE DEF waits
  <2>3. \A i \in 1..n : time_to_expiry(fresh[i].timeout) \in waits
    BY <2>1
  <2>4. timeout # 0 => timeout \in waits
    BY <2>1
  <2>5. \A m \in waits : \/ \E i \in 1..n : m = time_to_expiry(fresh[i].timeout)
                         \/ timeout # 0 /\ m = timeout
    BY <2>1
  <2>6. waits = {} => n = 0 /\ timeout = 0
    BY <2>2, <2>3, <2>4
  <2> QED
    BY <2>3, <2>4, <2>5, <2>6
<1> HIDE DEF waits, lowest, tv
<1>8. /\ waits # {} => lowest \in Int
      /\ waits # {} => sleep' = IF lowest <= 0 THEN 0 ELSE lowest * UsPerMs
      /\ waits = {} => sleep' = Forever
      /\ waits # {} => timers' = fresh
      /\ waits = {} => timers' = timers /\ mainloop' = mainloop
      /\ timeout # 0 => mainloop' = [on |-> TRUE, sec |-> tv.sec, usec |-> tv.usec,
                                     due |-> timeout * UsPerMs]
      /\ waits # {} /\ timeout = 0 => mainloop' = [mainloop EXCEPT !.on = FALSE, !.sec = -1]
  <2>1. \A m \in waits : m \in Int
    BY <1>0, <1>5, <1>7
  <2>2. waits # {} => lowest \in Int
    BY <1>6, <2>1
  <2>3. timeout # 0 => waits # {}
    BY <1>7
  <2>4. waits = {} => mainloop' = mainloop
    BY <1>1, <2>3
  <2>5. timeout # 0 => mainloop' = [on |-> TRUE, sec |-> tv.sec, usec |-> tv.usec,
                                    due |-> timeout * UsPerMs]
    BY <1>1, <2>3
  <2>6. waits # {} /\ timeout = 0 => mainloop' = [mainloop EXCEPT !.on = FALSE, !.sec = -1]
    BY <1>1
  <2>7. /\ waits # {} => sleep' = IF lowest <= 0 THEN 0 ELSE lowest * UsPerMs
        /\ waits = {} => sleep' = Forever
    BY <1>1
  <2> QED
    BY <1>1, <2>2, <2>4, <2>5, <2>6, <2>7
<1>9. sleep' \in Nat \cup {Forever}
  <2>1. \A l \in Int : ~(l <= 0) => l * UsPerMs \in Nat
    BY <1>0
  <2> QED
    BY <1>8, <2>1
<1>10. timers' \in Seq(ATimer) /\ Keeps(timers') /\ Len(timers') = n /\ DOMAIN timers' = 1..n
       /\ \A i \in 1..n : timers'[i].arg = timers[i].arg
  <2>1. CASE waits = {}
    BY <1>0, <1>8, <2>1
  <2>2. CASE waits # {}
    BY <1>3, <1>4, <1>8, <2>2 DEF Keeps
  <2> QED
    BY <2>1, <2>2
<1>11. /\ mainloop' \in [on : BOOLEAN, sec : Int, usec : 0..Second, due : Int]
       /\ mainloop'.on => InStep(mainloop'.due, mainloop')
  <2>0. mainloop \in [on : BOOLEAN, sec : Int, usec : 0..Second, due : Int]
    BY <1>0 DEF TypeOK
  <2>1. CASE waits = {}
    BY <1>0, <1>8, <2>0, <2>1 DEF ClockInv
  <2>2. CASE timeout # 0
    <3>1. /\ mainloop'.on = TRUE /\ mainloop'.sec = tv.sec /\ mainloop'.usec = tv.usec
          /\ mainloop'.due = timeout * UsPerMs
          /\ mainloop' \in [on : BOOLEAN, sec : Int, usec : 0..Second, due : Int]
      <4>1. mainloop' = [on |-> TRUE, sec |-> tv.sec, usec |-> tv.usec, due |-> timeout * UsPerMs]
        BY <1>8, <2>2
      <4>2. tv.sec \in Int /\ tv.usec \in 0..Second
        BY <1>2 DEF Timeval
      <4> QED
        BY <1>2, <4>1, <4>2
    <3>2. Left(mainloop') = Left(tv)
      BY <3>1 DEF Left
    <3> QED
      BY <1>2, <3>1, <3>2 DEF InStep
  <2>3. CASE waits # {} /\ timeout = 0
    <3>1. mainloop' = [mainloop EXCEPT !.on = FALSE, !.sec = -1]
      BY <1>8, <2>3
    <3>2. mainloop' \in [on : BOOLEAN, sec : Int, usec : 0..Second, due : Int]
      <4>1. \A k \in Int : [mainloop EXCEPT !.on = FALSE, !.sec = k]
                             \in [on : BOOLEAN, sec : Int, usec : 0..Second, due : Int]
        BY <2>0
      <4>2. -1 \in Int
        OBVIOUS
      <4> QED
        BY <3>1, <4>1, <4>2
    <3>3. mainloop'.on = FALSE
      BY <2>0, <3>1
    <3> QED
      BY <3>2, <3>3
  <2> QED
    BY <2>1, <2>2, <2>3
<1>12. TypeOK'
  BY <1>0, <1>1, <1>9, <1>10, <1>11 DEF TypeOK, server
<1>13. ClockInv'
  <2>1. clock' = clock /\ steps' = steps
    BY <1>1
  <2>2. \A i \in DOMAIN timers' : InStep(timers'[i].due, timers'[i].timeout)
    BY <1>10 DEF Keeps
  <2> QED
    BY <1>11, <2>1, <2>2 DEF ClockInv, InStep, Left
<1>14. SaverInv'
  <2>1. SaverAt(timers)' = SaverAt(timers)
    BY <1>0, <1>10 DEF SaverAt
  <2> QED
    BY <1>0, <1>1, <2>1 DEF SaverInv, server
<1>15. SleepsForOne'
  <2>0. clock' = clock
    BY <1>1
  <2> SUFFICES ASSUME sleep' # Forever
               PROVE  \/ \E i \in DOMAIN timers' : ComesInSleep(timers[i].timeout)'
                      \/ mainloop'.on /\ ComesInSleep(mainloop)'
    BY DEF SleepsForOne
  <2>1. waits # {} /\ lowest \in waits
    BY <1>6, <1>8
  <2>2. CASE \E i \in 1..n : lowest = time_to_expiry(fresh[i].timeout)
    <3>1. PICK i \in 1..n : lowest = time_to_expiry(fresh[i].timeout)
      BY <2>2
    <3>2. \/ Left(fresh[i].timeout) <= sleep'
          \/ /\ Left(fresh[i].timeout) < sleep' + UsPerMs
             /\ fresh[i].timeout.usec >= (clock + sleep') % Second
      <4> DEFINE x == fresh[i].timeout
      <4>1. /\ x.sec \in Int /\ x.usec \in 0..Second
            /\ sleep' = IF time_to_expiry(x) <= 0 THEN 0 ELSE time_to_expiry(x) * UsPerMs
        BY <1>5, <1>8, <2>1, <3>1
      <4> HIDE DEF x
      <4>2. \/ Left(x) <= sleep'
            \/ Left(x) < sleep' + UsPerMs /\ x.usec >= (clock + sleep') % Second
        BY <1>0, <4>1, SleptLongEnough
      <4> QED
        BY <4>2 DEF x
    <3>3. timers'[i] = fresh[i] /\ i \in DOMAIN timers'
      BY <1>8, <1>10, <2>1
    <3>4. ComesInSleep(timers[i].timeout)'
      BY <2>0, <3>2, <3>3 DEF ComesInSleep, Left
    <3> QED
      BY <3>3, <3>4
  <2>3. CASE timeout # 0 /\ lowest = timeout
    <3>1. \/ Left(tv) <= sleep'
          \/ Left(tv) < sleep' + UsPerMs /\ tv.usec >= (clock + sleep') % Second
      <4>1. /\ tv.sec \in Int /\ tv.usec \in 0..Second
            /\ sleep' = IF time_to_expiry(tv) <= 0 THEN 0 ELSE time_to_expiry(tv) * UsPerMs
        BY <1>2, <1>8, <2>1, <2>3 DEF Timeval
      <4> QED
        BY <1>0, <4>1, SleptLongEnough
    <3>2. mainloop'.on = TRUE /\ mainloop'.sec = tv.sec /\ mainloop'.usec = tv.usec
      BY <1>8, <2>3
    <3>3. ComesInSleep(mainloop)'
      BY <2>0, <3>1, <3>2 DEF ComesInSleep, Left
    <3> QED
      BY <3>2, <3>3
  <2> QED
    BY <1>7, <2>1, <2>2, <2>3
<1>16. WakesInTime'
  <2> SUFFICES ASSUME NEW i \in 1..n
               PROVE  \/ sleep' >= 0 /\ sleep' < UsPerMs
                      \/ sleep' >= 0 /\ sleep' < timers'[i].due + UsPerMs
                      \/ steps' > 0 /\ sleep' >= 0 /\ sleep' <= timers'[i].period * UsPerMs
                      \/ steps' > 0 /\ i = 1 /\ ~mainloop'.on
    BY <1>10 DEF WakesInTime
  <2> DEFINE e == time_to_expiry(fresh[i].timeout)
  <2>1. /\ waits # {} /\ lowest <= e /\ lowest \in Int /\ e \in Int
        /\ timers'[i] = fresh[i] /\ steps' = steps /\ steps \in Nat
        /\ sleep' = IF lowest <= 0 THEN 0 ELSE lowest * UsPerMs
    BY <1>0, <1>1, <1>5, <1>6, <1>7, <1>8 DEF TypeOK
  <2>2. CASE lowest <= 0
    BY <1>0, <2>1, <2>2
  <2>3. CASE lowest > 0
    <3>1. sleep' = lowest * UsPerMs /\ sleep' \in Nat /\ sleep' <= e * UsPerMs
      <4>1. lowest * UsPerMs \in Nat /\ sleep' = lowest * UsPerMs
        <5>1. \A l \in Nat : l * UsPerMs \in Nat
          BY <1>0
        <5>2. lowest \in Nat /\ ~(lowest <= 0)
          BY <2>1, <2>3
        <5> QED
          BY <2>1, <5>1, <5>2
      <4>2. lowest * UsPerMs <= e * UsPerMs
        <5> HIDE DEF e
        <5> QED
          BY <1>0, <2>1, TimesMonotone
      <4> QED
        BY <4>1, <4>2
    <3>2. CASE steps = 0
      <4>1. fresh[i].due = Left(fresh[i].timeout)
        BY <1>3, <3>2 DEF InStep
      <4>2. e * UsPerMs < Left(fresh[i].timeout) + UsPerMs
        <5> DEFINE x == fresh[i].timeout
        <5>1. x.sec \in Int /\ x.usec \in 0..Second
          BY <1>5
        <5>2. Second \in Nat /\ clock \in Int /\ x.usec \in Int
          BY <1>0, <5>1, TimerAssumption DEF TypeOK, Second
        <5>3. x.usec >= clock \/ x.usec <= clock
          BY <5>2
        <5> HIDE DEF x
        <5>4. time_to_expiry(x) \in Int /\ time_to_expiry(x) * UsPerMs < Left(x) + UsPerMs
          BY <1>0, <5>1, <5>3, ExpiryBounds
        <5> QED
          BY <5>4 DEF x
      <4> QED
        BY <1>0, <1>5, <2>1, <3>1, <4>1, <4>2
    <3>3. CASE steps # 0 /\ timeout = 0 /\ i = 1
      <4>1. mainloop'.on = FALSE
        <5>1. mainloop \in [on : BOOLEAN, sec : Int, usec : 0..Second, due : Int]
          BY <1>0 DEF TypeOK
        <5> QED
          BY <1>8, <2>1, <3>3, <5>1
      <4> QED
        BY <2>1, <3>3, <4>1
    <3>4. CASE steps # 0 /\ ~(timeout = 0 /\ i = 1)
      <4>1. e <= fresh[i].period /\ fresh[i].period \in Nat
        BY <1>3, <1>5, <3>4
      <4>2. e * UsPerMs <= fresh[i].period * UsPerMs
        BY <1>0, <2>1, <4>1, TimesMonotone
      <4> QED
        BY <1>0, <2>1, <3>1, <3>4, <4>1, <4>2
    <3> QED
      BY <3>2, <3>3, <3>4
  <2> QED
    BY <2>1, <2>2, <2>3
<1> QED
  BY <1>12, <1>13, <1>14, <1>15, <1>16 DEF TimerInv

-----------------------------------------------------------------------------
(* GdTimeout: each timer stays, corrected or set again, or goes.           *)
LEMMA TimeoutSafe ==
    ASSUME TimerInv, GdTimeout
    PROVE  TimerInv'
<1> DEFINE After(t) == CASE ~Expired(t) -> <<Corrected(t)>>
                         [] Expired(t) /\ t.arg \in Ids -> <<Timer(t.arg, t.period)>>
                         [] OTHER -> <<>>
           s     == [i \in DOMAIN timers |-> After(timers[i])]
           kept  == FlattenSeq(s)
           again == \E i \in Ran : timers[i].arg = "vt"
           n     == Len(timers)
<1>0. /\ TypeOK /\ Keeps(timers) /\ SaverInv /\ ClockInv /\ timers \in Seq(ATimer)
      /\ DOMAIN timers = 1..n /\ n \in Nat
  BY TimersKeep, TimersTyped DEF TimerInv
<1>1. /\ timers' = (IF again THEN GdAddTimer("vt", VtPeriod, kept) ELSE kept)
      /\ screensaver_active' = (screensaver_active \/ \E i \in Ran : timers[i].arg = "saver")
      /\ phase' = "working" /\ sleep' = Forever /\ stepped' = FALSE
      /\ UNCHANGED <<clock, mainloop, screensaver_delay, steps>>
  BY DEF GdTimeout, Return
<1>2. ASSUME NEW i \in 1..n
      PROVE  /\ s[i] \in Seq(ATimer) /\ Len(s[i]) \in {0, 1}
             /\ Len(s[i]) = 1 => /\ s[i][1] \in ATimer /\ s[i][1].arg = timers[i].arg
                                 /\ InStep(s[i][1].due, s[i][1].timeout)
             /\ ~Expired(timers[i]) => Len(s[i]) = 1
  <2> DEFINE t == timers[i]
  <2>1. t \in ATimer /\ InStep(t.due, t.timeout) /\ t.arg \in Args /\ t.period \in Nat
    BY <1>0, TimersTyped DEF Keeps
  <2>2. s[i] = After(t)
    BY <1>0
  <2> HIDE DEF t, s
  <2>3. \A u \in ATimer : <<u>> \in Seq(ATimer) /\ Len(<<u>>) = 1 /\ <<u>>[1] = u
    OBVIOUS
  <2>4. CASE ~Expired(t)
    <3>1. s[i] = <<Corrected(t)>>
      BY <2>2, <2>4
    <3> QED
      BY <1>0, <2>1, <2>3, <2>4, <3>1, CorrectedTimer DEF t
  <2>5. CASE Expired(t) /\ t.arg \in Ids
    <3>1. s[i] = <<Timer(t.arg, t.period)>>
      BY <2>2, <2>5
    <3> QED
      BY <1>0, <2>1, <2>3, <2>5, <3>1, NewTimer DEF t
  <2>6. CASE Expired(t) /\ t.arg \notin Ids
    <3>1. s[i] = <<>>
      BY <2>2, <2>6
    <3>2. <<>> \in Seq(ATimer) /\ Len(<<>>) = 0
      OBVIOUS
    <3> QED
      BY <2>6, <3>1, <3>2 DEF t
  <2> QED
    BY <2>4, <2>5, <2>6
<1>3. s \in Seq(Seq(ATimer)) /\ Len(s) = n
  <2>1. s \in [1..n -> Seq(ATimer)]
    BY <1>0, <1>2
  <2> HIDE DEF s
  <2> QED
    BY <1>0, <2>1, SeqDef, LenProperties
<1> HIDE DEF s, After
<1>4. kept \in Seq(ATimer) /\ Gathers(s, n, kept)
  BY <1>2, <1>3, FlattenGathers
<1> HIDE DEF kept, n
<1>5. PICK f \in [1..Len(kept) -> 1..n] :
        /\ \A j \in 1..Len(kept) : Len(s[f[j]]) = 1 /\ kept[j] = s[f[j]][1]
        /\ \A i, j \in 1..Len(kept) : f[i] = f[j] => i = j
        /\ \A i \in 1..n : Len(s[i]) = 1 => \E j \in 1..Len(kept) : f[j] = i
  BY <1>4 DEF Gathers
<1>6. ASSUME NEW j \in 1..Len(kept)
      PROVE  /\ f[j] \in 1..n /\ kept[j].arg = timers[f[j]].arg
             /\ InStep(kept[j].due, kept[j].timeout)
  BY <1>2, <1>5
<1>7. Keeps(kept)
  BY <1>6 DEF Keeps
<1>8. DOMAIN kept = 1..Len(kept)
  BY <1>4, LenProperties
<1>9. \A j \in SaverAt(kept) : j \in 1..Len(kept) /\ f[j] \in SaverAt(timers)
  BY <1>0, <1>6, <1>8 DEF SaverAt
<1>10. \A i, j \in SaverAt(kept) : i = j
  BY <1>0, <1>5, <1>9 DEF SaverInv
<1>11. ASSUME NEW i \in SaverAt(timers), i \notin Ran PROVE SaverAt(kept) # {}
  <2>1. i \in 1..n /\ timers[i].arg = "saver" /\ ~Expired(timers[i])
    BY <1>0, <1>11 DEF SaverAt, Ran
  <2>2. PICK j \in 1..Len(kept) : f[j] = i
    BY <1>2, <1>5, <2>1
  <2>3. j \in SaverAt(kept)
    BY <1>6, <1>8, <2>1, <2>2 DEF SaverAt
  <2> QED
    BY <2>3
<1>12. /\ timers' \in Seq(ATimer) /\ Keeps(timers')
       /\ \A i, j \in SaverAt(timers') : i = j
       /\ SaverAt(timers') = {} <=> SaverAt(kept) = {}
  <2>1. CASE ~again
    BY <1>1, <1>4, <1>7, <1>10, <2>1
  <2>2. CASE again
    <3>1. "vt" \in Args /\ VtPeriod \in Nat
      BY TimerAssumption DEF Args
    <3>2. timers' = GdAddTimer("vt", VtPeriod, kept)
      BY <1>1, <2>2
    <3>3. timers' \in Seq(ATimer) /\ Keeps(timers')
      BY <1>0, <1>4, <1>7, <3>1, <3>2, TimerAdded
    <3>4. SaverAt(timers') = {i + 1 : i \in SaverAt(kept)}
      BY <1>0, <1>4, <1>7, <3>1, <3>2, OtherAdded
    <3> QED
      BY <1>10, <3>3, <3>4
  <2> QED
    BY <2>1, <2>2
<1> HIDE DEF again
<1>13. TypeOK'
  BY <1>0, <1>1, <1>12 DEF TypeOK
<1>14. ClockInv'
  <2>1. DOMAIN timers' = 1..Len(timers')
    BY <1>12, LenProperties
  <2>2. clock' = clock /\ steps' = steps /\ mainloop' = mainloop
    BY <1>1
  <2> QED
    BY <1>0, <1>12, <2>1, <2>2 DEF ClockInv, Keeps, InStep, Left
<1>15. SaverInv'
  <2>1. SaverAt(timers)' = SaverAt(timers')
    BY DEF SaverAt
  <2>2. screensaver_delay' = 0 => SaverAt(timers') = {}
    BY <1>0, <1>1, <1>9, <1>12 DEF SaverInv
  <2>3. screensaver_delay' # 0 /\ ~screensaver_active' => SaverAt(timers') # {}
    <3> SUFFICES ASSUME screensaver_delay' # 0, ~screensaver_active'
                 PROVE  SaverAt(timers') # {}
      OBVIOUS
    <3>1. /\ screensaver_delay # 0 /\ ~screensaver_active
          /\ \A i \in Ran : timers[i].arg # "saver"
      BY <1>1
    <3>2. PICK i \in SaverAt(timers) : TRUE
      BY <1>0, <3>1 DEF SaverInv
    <3>3. i \notin Ran
      BY <3>1, <3>2 DEF SaverAt
    <3> QED
      BY <1>11, <1>12, <3>3
  <2> QED
    BY <1>12, <2>1, <2>2, <2>3 DEF SaverInv
<1>16. SleepsForOne' /\ WakesInTime'
  BY <1>1 DEF SleepsForOne, WakesInTime
<1> QED
  BY <1>13, <1>14, <1>15, <1>16 DEF TimerInv

-----------------------------------------------------------------------------
(* The clock goes on, or is set back: e ticks further.                     *)
LEMMA ClockMoves ==
    ASSUME TypeOK, NEW e \in Int, NEW k, k = (clock + e) \div Second,
           clock' = (clock + e) % Second
    PROVE  /\ k \in Int /\ clock' \in 0..(Second - 1)
           /\ clock' = clock + e - k * Second
           /\ \A tv : tv.sec \in Int /\ tv.usec \in 0..Second =>
                 (tv.sec - k) * Second + tv.usec - clock' = Left(tv) - e
<1>0. Second \in Nat \ {0} /\ clock \in Nat
  BY TimerAssumption DEF TypeOK, Second
<1>1. clock + e \in Int
  BY <1>0
<1>2. /\ k \in Int /\ clock' \in Nat /\ clock' < Second
      /\ clock' = clock + e - k * Second /\ k * Second \in Int
  BY <1>0, <1>1, DivBounds
<1>3. ASSUME NEW tv, tv.sec \in Int, tv.usec \in 0..Second
      PROVE  (tv.sec - k) * Second + tv.usec - clock' = Left(tv) - e
  <2> DEFINE a == tv.sec
             u == tv.usec
  <2>1. a \in Int /\ u \in Int
    BY <1>0, <1>3
  <2>2. Left(tv) = a * Second + u - clock
    BY DEF Left
  <2> HIDE DEF a, u
  <2>3. (a - k) * Second = a * Second - k * Second /\ a * Second \in Int
    BY <1>0, <1>2, <2>1
  <2>4. (a - k) * Second + u - clock' = Left(tv) - e
    <3> DEFINE p == a * Second
               q == k * Second
    <3>1. /\ p \in Int /\ q \in Int /\ clock \in Int
          /\ (a - k) * Second = p - q /\ Left(tv) = p + u - clock
          /\ clock' = clock + e - q
      BY <1>0, <1>2, <2>2, <2>3
    <3> HIDE DEF p, q
    <3> QED
      BY <2>1, <3>1
  <2> QED
    BY <2>4 DEF a, u
<1> QED
  BY <1>0, <1>2, <1>3

LEMMA SetBackSafe ==
    ASSUME TimerInv, NEW d \in StepsBack, SetClockBack(d)
    PROVE  TimerInv'
<1> DEFINE k == (clock - d) \div Second
           n == Len(timers)
<1>0. /\ TypeOK /\ ClockInv /\ SaverInv /\ WakesInTime /\ timers \in Seq(ATimer)
      /\ DOMAIN timers = 1..n /\ n \in Nat /\ d \in Nat
      /\ clock \in Nat /\ Second \in Nat \ {0}
  BY TimersTyped, TimerAssumption DEF TimerInv, TypeOK, Second
<1>1. /\ steps' = steps + 1 /\ stepped' = ~Working
      /\ clock' = (clock - d) % Second
      /\ timers' = [i \in DOMAIN timers |-> [timers[i] EXCEPT !.timeout = Later(@, k)]]
      /\ mainloop' = (IF mainloop.on THEN Later(mainloop, k) ELSE mainloop)
      /\ UNCHANGED <<server, phase, sleep>>
  BY DEF SetClockBack
<1>2. /\ k \in Int /\ clock' \in 0..(Second - 1)
      /\ \A tv : tv.sec \in Int /\ tv.usec \in 0..Second =>
            (tv.sec - k) * Second + tv.usec - clock' = Left(tv) + d
  <2>1. -d \in Int /\ clock - d = clock + (-d) /\ \A x \in Int : x - (-d) = x + d
    BY <1>0
  <2>2. /\ k \in Int /\ clock' \in 0..(Second - 1)
        /\ \A tv : tv.sec \in Int /\ tv.usec \in 0..Second =>
              (tv.sec - k) * Second + tv.usec - clock' = Left(tv) - (-d)
    BY <1>0, <1>1, <2>1, ClockMoves, ZenonT(60)
  <2>3. \A tv : tv.sec \in Int /\ tv.usec \in 0..Second => Left(tv) \in Int
    BY <1>0, ExpiryBounds
  <2> QED
    BY <2>1, <2>2, <2>3
<1> HIDE DEF k, n
<1>3. ASSUME NEW i \in 1..n
      PROVE  /\ timers'[i] \in ATimer /\ timers'[i].arg = timers[i].arg
             /\ timers'[i].due = timers[i].due /\ timers'[i].period = timers[i].period
             /\ timers'[i].timeout.sec = timers[i].timeout.sec - k
             /\ timers'[i].timeout.usec = timers[i].timeout.usec
  <2> DEFINE t == timers[i]
  <2>1. t \in ATimer /\ t.timeout \in Timeval /\ t.timeout.sec \in Int
    BY <1>0, TimersTyped DEF n
  <2>2. timers'[i] = [t EXCEPT !.timeout = Later(@, k)]
    BY <1>0, <1>1
  <2> HIDE DEF t
  <2> DEFINE tv == Later(t.timeout, k)
  <2>3. tv \in Timeval /\ tv.sec = t.timeout.sec - k /\ tv.usec = t.timeout.usec
    BY <1>2, <2>1 DEF Later, Timeval
  <2> HIDE DEF tv
  <2>4. timers'[i] = [t EXCEPT !.timeout = tv]
    BY <2>2 DEF tv
  <2>5. timers'[i] \in ATimer /\ timers'[i].timeout = tv /\ timers'[i].arg = t.arg
        /\ timers'[i].due = t.due /\ timers'[i].period = t.period
    BY <2>1, <2>3, <2>4 DEF ATimer
  <2> QED
    BY <2>3, <2>5 DEF t
<1>4. timers' \in Seq(ATimer) /\ DOMAIN timers' = 1..n
  <2>1. timers' \in [1..n -> ATimer]
    <3>1. \A i \in 1..n : timers'[i] \in ATimer
      BY <1>3
    <3>2. DOMAIN timers' = 1..n /\ timers' = [i \in 1..n |-> timers'[i]]
      BY <1>0, <1>1
    <3> QED
      BY <3>1, <3>2
  <2> QED
    BY <1>0, <2>1, SeqDef, LenProperties
<1>5. /\ mainloop' \in [on : BOOLEAN, sec : Int, usec : 0..Second, due : Int]
      /\ mainloop'.on = mainloop.on /\ mainloop'.due = mainloop.due /\ mainloop'.usec = mainloop.usec
      /\ mainloop.on => mainloop'.sec = mainloop.sec - k
  <2>1. mainloop \in [on : BOOLEAN, sec : Int, usec : 0..Second, due : Int] /\ mainloop.sec - k \in Int
    BY <1>0, <1>2 DEF TypeOK
  <2> QED
    BY <1>1, <2>1 DEF Later
<1>6. TypeOK'
  BY <1>0, <1>1, <1>2, <1>4, <1>5 DEF TypeOK, server
<1>7. ClockInv'
  <2>0. steps' # 0 /\ \A x, y \in Int : x <= y => x <= y + d
    BY <1>0, <1>1 DEF TypeOK
  <2>1. ASSUME NEW i \in 1..n PROVE InStep(timers[i].due, timers[i].timeout)'
    <3> DEFINE tv == timers[i].timeout
    <3>1. /\ tv.sec \in Int /\ tv.usec \in 0..Second /\ timers[i].due \in Int
          /\ timers[i].due <= Left(tv) /\ Left(tv) \in Int
      BY <1>0, TimersTyped, ExpiryBounds DEF ClockInv, InStep, n
    <3>2. Left(timers[i].timeout)' = Left(tv) + d
      BY <1>2, <1>3, <3>1 DEF Left
    <3> QED
      BY <1>3, <2>0, <3>1, <3>2 DEF InStep
  <2>2. ASSUME mainloop'.on PROVE InStep(mainloop.due, mainloop)'
    <3>1. /\ mainloop.sec \in Int /\ mainloop.usec \in 0..Second /\ mainloop.due \in Int
          /\ mainloop.due <= Left(mainloop) /\ Left(mainloop) \in Int
      BY <1>0, <1>5, <2>2, ExpiryBounds DEF ClockInv, InStep, TypeOK
    <3>2. Left(mainloop)' = Left(mainloop) + d
      BY <1>2, <1>5, <2>2, <3>1 DEF Left
    <3> QED
      BY <1>5, <2>0, <3>1, <3>2 DEF InStep
  <2> QED
    BY <1>4, <2>1, <2>2 DEF ClockInv
<1>8. SaverInv'
  <2>1. SaverAt(timers)' = SaverAt(timers)
    BY <1>0, <1>3, <1>4 DEF SaverAt
  <2> QED
    BY <1>0, <1>1, <2>1 DEF SaverInv, server
<1>9. SleepsForOne'
  BY <1>1 DEF SleepsForOne, Working
<1>10. WakesInTime'
  <2>1. steps > 0 => steps' > 0
    BY <1>0, <1>1 DEF TypeOK
  <2> SUFFICES ASSUME phase' = "select", NEW i \in 1..n
               PROVE  \/ sleep' >= 0 /\ sleep' < UsPerMs
                      \/ sleep' >= 0 /\ sleep' < timers'[i].due + UsPerMs
                      \/ steps' > 0 /\ sleep' >= 0 /\ sleep' <= timers'[i].period * UsPerMs
                      \/ steps' > 0 /\ i = 1 /\ ~mainloop'.on
    BY <1>4 DEF WakesInTime
  <2> QED
    BY <1>0, <1>1, <1>3, <1>5, <2>1 DEF WakesInTime
<1> QED
  BY <1>6, <1>7, <1>8, <1>9, <1>10 DEF TimerInv

-----------------------------------------------------------------------------
(* A wait that ends for one timer still does so a tick later.              *)
LEMMA StillComes ==
    ASSUME TypeOK, NEW tv, tv.sec \in Int, tv.usec \in 0..Second, sleep \in Nat,
           ComesInSleep(tv),
           NEW k, k = (clock + 1) \div Second, clock' = (clock + 1) % Second,
           sleep' = IF sleep > 0 THEN sleep - 1 ELSE sleep,
           NEW left, left = Left(tv) - 1
    PROVE  \/ left <= sleep'
           \/ left < sleep' + UsPerMs /\ tv.usec >= (clock' + sleep') % Second
<1>0. /\ UsPerMs \in Nat \ {0} /\ Second \in Nat \ {0} /\ clock \in Nat /\ clock < Second
      /\ tv.sec \in Int /\ tv.usec \in Int /\ Left(tv) \in Int /\ left \in Int
      /\ left = Left(tv) - 1 /\ UsPerMs <= Second
  <2>1. /\ UsPerMs \in Nat \ {0} /\ MsPerSec \in Nat \ {0} /\ Second \in Nat \ {0}
        /\ Second = MsPerSec * UsPerMs
    BY TimerAssumption DEF Second
  <2>2. 1 * UsPerMs <= MsPerSec * UsPerMs
    BY <2>1, TimesMonotone
  <2>3. Left(tv) \in Int
    BY ExpiryBounds
  <2>4. clock \in 0..(Second - 1)
    BY DEF TypeOK
  <2> QED
    BY <2>1, <2>2, <2>3, <2>4
<1>1. /\ k \in Int /\ clock' \in Int /\ clock' = clock + 1 - k * Second /\ k * Second \in Int
      /\ clock' \in Nat /\ clock' < Second
  <2>1. /\ k \in Int /\ clock' \in 0..(Second - 1)
        /\ clock' = clock + 1 - k * Second
    BY ClockMoves
  <2> QED
    BY <1>0, <2>1
<1>2. \/ Left(tv) <= sleep
      \/ Left(tv) < sleep + UsPerMs /\ tv.usec >= (clock + sleep) % Second
  BY DEF ComesInSleep
<1>3. CASE sleep > 0
  <2> DEFINE m == clock + sleep
             q == m \div Second
             r == m % Second
  <2>1. m \in Int /\ sleep' = sleep - 1 /\ clock' + sleep' = m - k * Second
    BY <1>0, <1>1, <1>3
  <2>2. q \in Int /\ r \in Nat /\ r < Second /\ m = q * Second + r
    <3> HIDE DEF m
    <3>1. /\ q \in Int /\ r \in Nat /\ r < Second /\ r = m - q * Second
      BY <1>0, <2>1, DivBounds
    <3> HIDE DEF q, r
    <3> QED
      BY <1>0, <2>1, <3>1
  <2> DEFINE p == q - k
  <2> HIDE DEF m, q, r
  <2>3. m - k * Second = p * Second + r /\ p \in Int
    BY <1>0, <1>1, <2>1, <2>2
  <2> HIDE DEF p
  <2>4. (clock' + sleep') % Second = r
    <3>1. (p * Second + r) % Second = r
      BY <1>0, <2>2, <2>3, DivIs
    <3> QED
      BY <2>1, <2>3, <3>1, Zenon
  <2> QED
    BY <1>0, <1>2, <1>3, <2>1, <2>4 DEF r, m
<1>4. CASE sleep = 0
  <2>1. sleep' = 0 /\ clock + 0 = clock /\ clock' + 0 = clock' /\ clock' + sleep' = clock'
    BY <1>0, <1>1, <1>4
  <2>2. \A c \in Nat : c < Second => c % Second = c
    <3>1. \A u \in Nat \ {0} : \A c \in Nat : c < u => c % u = c
      OBVIOUS
    <3> QED
      BY <1>0, <3>1
  <2>3. CASE Left(tv) <= 0
    BY <1>0, <2>1, <2>3
  <2>4. CASE Left(tv) < UsPerMs /\ tv.usec >= clock /\ ~(Left(tv) <= 0)
    <3>1. tv.usec # clock
      <4> SUFFICES ASSUME tv.usec = clock PROVE FALSE
        OBVIOUS
      <4>1. Left(tv) = tv.sec * Second
        <5>1. tv.sec * Second \in Int
          BY <1>0
        <5> QED
          BY <1>0, <5>1 DEF Left
      <4>2. CASE tv.sec <= 0
        <5>1. tv.sec * Second <= 0 * Second
          BY <1>0, <4>2, TimesMonotone
        <5> QED
          BY <1>0, <2>4, <4>1, <5>1
      <4>3. CASE tv.sec >= 1
        <5>1. 1 * Second <= tv.sec * Second
          BY <1>0, <4>3, TimesMonotone
        <5> QED
          BY <1>0, <2>4, <4>1, <5>1
      <4> QED
        BY <1>0, <4>2, <4>3
    <3>2. clock' <= clock + 1
      <4>1. CASE clock + 1 < Second
        BY <1>0, <2>2, <4>1
      <4>2. CASE clock + 1 = Second
        BY <1>0, <1>1, <4>2
      <4> QED
        BY <1>0, <4>1, <4>2
    <3>3. (clock' + sleep') % Second = clock'
      BY <1>1, <2>1, <2>2
    <3> QED
      BY <1>0, <1>1, <2>1, <2>4, <3>1, <3>2, <3>3
  <2>5. (clock + sleep) % Second = clock
    BY <1>0, <1>4, <2>1, <2>2
  <2> QED
    BY <1>0, <1>2, <1>4, <2>3, <2>4, <2>5
<1> QED
  BY <1>3, <1>4

LEMMA TickSafe ==
    ASSUME TimerInv, Tick
    PROVE  TimerInv'
<1> DEFINE k == (clock + 1) \div Second
           n == Len(timers)
<1>0. /\ TypeOK /\ ClockInv /\ SaverInv /\ SleepsForOne /\ WakesInTime
      /\ timers \in Seq(ATimer) /\ DOMAIN timers = 1..n /\ n \in Nat
      /\ clock \in Nat /\ Second \in Nat \ {0} /\ UsPerMs \in Nat \ {0}
  BY TimersTyped, TimerAssumption DEF TimerInv, TypeOK, Second
<1>1. /\ clock' = (clock + 1) % Second
      /\ timers' = [i \in DOMAIN timers |->
                        [timers[i] EXCEPT !.timeout = Later(@, k), !.due = @ - 1]]
      /\ mainloop' = (IF mainloop.on THEN [Later(mainloop, k) EXCEPT !.due = @ - 1] ELSE mainloop)
      /\ sleep' = (IF sleep > 0 THEN sleep - 1 ELSE sleep)
      /\ UNCHANGED <<server, phase, steps, stepped>>
  BY DEF Tick
<1>2. /\ k \in Int /\ clock' \in 0..(Second - 1)
      /\ \A tv : tv.sec \in Int /\ tv.usec \in 0..Second =>
            (tv.sec - k) * Second + tv.usec - clock' = Left(tv) - 1
  <2>1. k = (clock + 1) \div Second /\ 1 \in Int
    OBVIOUS
  <2> HIDE DEF k
  <2> QED
    BY <1>0, <1>1, <2>1, ClockMoves, ZenonT(60)
<1>3. \A tv : tv.sec \in Int /\ tv.usec \in 0..Second /\ sleep \in Nat /\ ComesInSleep(tv) =>
         \/ Left(tv) - 1 <= sleep'
         \/ Left(tv) - 1 < sleep' + UsPerMs /\ tv.usec >= (clock' + sleep') % Second
  BY <1>0, <1>1, StillComes
<1> HIDE DEF k, n
<1>4. ASSUME NEW i \in 1..n
      PROVE  /\ timers'[i] \in ATimer /\ timers'[i].arg = timers[i].arg
             /\ timers'[i].due = timers[i].due - 1 /\ timers'[i].period = timers[i].period
             /\ timers'[i].timeout.sec = timers[i].timeout.sec - k
             /\ timers'[i].timeout.usec = timers[i].timeout.usec
  <2> DEFINE t == timers[i]
             b == t.due - 1
  <2>1. t \in ATimer /\ t.timeout \in Timeval /\ t.timeout.sec \in Int /\ t.due \in Int /\ b \in Int
    BY <1>0, TimersTyped DEF n
  <2>2. timers'[i] = [t EXCEPT !.timeout = Later(@, k), !.due = @ - 1]
    BY <1>0, <1>1
  <2> HIDE DEF t
  <2> DEFINE tv == Later(t.timeout, k)
  <2>3. tv \in Timeval /\ tv.sec = t.timeout.sec - k /\ tv.usec = t.timeout.usec
    BY <1>2, <2>1 DEF Later, Timeval
  <2>4. timers'[i] = [t EXCEPT !.timeout = tv, !.due = b]
    BY <2>1, <2>2 DEF ATimer
  <2> HIDE DEF tv, b
  <2>5. timers'[i] \in ATimer /\ timers'[i].timeout = tv /\ timers'[i].arg = t.arg
        /\ timers'[i].due = b /\ timers'[i].period = t.period
    BY <2>1, <2>3, <2>4 DEF ATimer
  <2> QED
    BY <2>3, <2>5 DEF t, b
<1>5. timers' \in Seq(ATimer) /\ DOMAIN timers' = 1..n
  <2>1. timers' \in [1..n -> ATimer]
    <3>1. \A i \in 1..n : timers'[i] \in ATimer
      BY <1>4
    <3>2. DOMAIN timers' = 1..n /\ timers' = [i \in 1..n |-> timers'[i]]
      BY <1>0, <1>1
    <3> QED
      BY <3>1, <3>2
  <2> QED
    BY <1>0, <2>1, SeqDef, LenProperties
<1>6. /\ mainloop' \in [on : BOOLEAN, sec : Int, usec : 0..Second, due : Int]
      /\ mainloop'.on = mainloop.on /\ mainloop'.usec = mainloop.usec
      /\ mainloop.on => mainloop'.sec = mainloop.sec - k /\ mainloop'.due = mainloop.due - 1
  <2> DEFINE b == mainloop.due - 1
             c == mainloop.sec - k
  <2>1. mainloop \in [on : BOOLEAN, sec : Int, usec : 0..Second, due : Int] /\ b \in Int /\ c \in Int
    BY <1>0, <1>2 DEF TypeOK
  <2>2. CASE mainloop.on
    <3>1. Later(mainloop, k) = [mainloop EXCEPT !.sec = c]
      BY <2>1 DEF Later
    <3>2. mainloop' = [[mainloop EXCEPT !.sec = c] EXCEPT !.due = b]
      BY <1>1, <2>1, <2>2, <3>1
    <3> HIDE DEF b, c
    <3>3. /\ mainloop' \in [on : BOOLEAN, sec : Int, usec : 0..Second, due : Int]
          /\ mainloop'.on = mainloop.on /\ mainloop'.usec = mainloop.usec
          /\ mainloop'.sec = c /\ mainloop'.due = b
      BY <2>1, <3>2
    <3> QED
      BY <3>3 DEF b, c
  <2>3. CASE ~mainloop.on
    BY <1>1, <2>1, <2>3
  <2> QED
    BY <2>2, <2>3
<1>7. /\ sleep \in Int /\ sleep' \in Int /\ sleep' = (IF sleep > 0 THEN sleep - 1 ELSE sleep)
      /\ sleep \in Nat \/ sleep = Forever
      /\ sleep \in Nat => sleep' \in Nat
      /\ sleep = Forever => sleep' = Forever
  <2>1. sleep \in Nat \/ sleep = Forever
    BY <1>0 DEF TypeOK
  <2>2. Forever \in Int /\ ~(Forever > 0)
    BY DEF Forever
  <2>3. sleep' = (IF sleep > 0 THEN sleep - 1 ELSE sleep)
    BY <1>1
  <2>4. CASE sleep \in Nat
    <3>1. sleep # Forever
      BY <2>4 DEF Forever
    <3> QED
      BY <2>3, <2>4, <3>1
  <2>5. CASE sleep = Forever
    <3>1. sleep' = Forever
      BY <2>2, <2>3, <2>5
    <3>2. Forever \notin Nat
      BY DEF Forever
    <3> QED
      BY <2>2, <2>3, <2>5, <3>1, <3>2
  <2> QED
    BY <2>1, <2>4, <2>5
<1>8. TypeOK'
  BY <1>0, <1>1, <1>2, <1>5, <1>6, <1>7 DEF TypeOK, server
<1>9. ASSUME NEW i \in 1..n
      PROVE  /\ timers[i].timeout.sec \in Int /\ timers[i].timeout.usec \in 0..Second
             /\ timers[i].due \in Int /\ timers[i].period \in Nat
             /\ Left(timers[i].timeout) \in Int
             /\ Left(timers[i].timeout)' = Left(timers[i].timeout) - 1
  <2>1. /\ timers[i].timeout.sec \in Int /\ timers[i].timeout.usec \in 0..Second
        /\ timers[i].due \in Int /\ timers[i].period \in Nat
    BY <1>0, TimersTyped DEF n
  <2>2. Left(timers[i].timeout) \in Int
    BY <1>0, <2>1, ExpiryBounds
  <2>3. Left(timers[i].timeout)' = Left(timers[i].timeout) - 1
    BY <1>2, <1>4, <2>1 DEF Left
  <2> QED
    BY <2>1, <2>2, <2>3
<1>10. ASSUME mainloop.on
      PROVE  /\ mainloop.sec \in Int /\ mainloop.usec \in 0..Second /\ mainloop.due \in Int
             /\ Left(mainloop) \in Int /\ Left(mainloop)' = Left(mainloop) - 1
  <2>1. mainloop.sec \in Int /\ mainloop.usec \in 0..Second /\ mainloop.due \in Int
    BY <1>0 DEF TypeOK
  <2>2. Left(mainloop) \in Int
    BY <1>0, <2>1, ExpiryBounds
  <2>3. Left(mainloop)' = Left(mainloop) - 1
    BY <1>2, <1>6, <1>10, <2>1 DEF Left
  <2> QED
    BY <2>1, <2>2, <2>3
<1>11. ClockInv'
  <2>1. \A x, y \in Int : x <= y => x - 1 <= y - 1
    OBVIOUS
  <2>2. ASSUME NEW i \in 1..n PROVE InStep(timers[i].due, timers[i].timeout)'
    <3>1. InStep(timers[i].due, timers[i].timeout)
      BY <1>0 DEF ClockInv
    <3> QED
      BY <1>1, <1>4, <1>9, <2>1, <3>1, ZenonT(60) DEF InStep
  <2>3. ASSUME mainloop'.on PROVE InStep(mainloop.due, mainloop)'
    <3>1. mainloop.on /\ InStep(mainloop.due, mainloop)
      BY <1>0, <1>6, <2>3 DEF ClockInv
    <3> QED
      BY <1>1, <1>6, <1>10, <2>1, <3>1, ZenonT(60) DEF InStep
  <2> QED
    BY <1>5, <2>2, <2>3 DEF ClockInv
<1>12. SaverInv'
  <2>1. SaverAt(timers)' = SaverAt(timers)
    BY <1>0, <1>4, <1>5 DEF SaverAt
  <2> QED
    BY <1>0, <1>1, <2>1 DEF SaverInv, server
<1>13. SleepsForOne'
  <2> SUFFICES ASSUME phase' = "select", ~stepped', sleep' # Forever
               PROVE  \/ \E i \in 1..n : ComesInSleep(timers[i].timeout)'
                      \/ mainloop'.on /\ ComesInSleep(mainloop)'
    BY <1>5 DEF SleepsForOne
  <2>1. /\ phase = "select" /\ ~stepped /\ sleep # Forever /\ sleep \in Nat /\ sleep' \in Nat
    BY <1>1, <1>7
  <2>2. CASE \E i \in 1..n : ComesInSleep(timers[i].timeout)
    <3>1. PICK i \in 1..n : ComesInSleep(timers[i].timeout)
      BY <2>2
    <3>2. \/ Left(timers[i].timeout) - 1 <= sleep'
          \/ /\ Left(timers[i].timeout) - 1 < sleep' + UsPerMs
             /\ timers[i].timeout.usec >= (clock' + sleep') % Second
      BY <1>3, <1>9, <2>1, <3>1
    <3>3. ComesInSleep(timers[i].timeout)'
      BY <1>4, <1>9, <3>2 DEF ComesInSleep
    <3> QED
      BY <3>3
  <2>3. CASE mainloop.on /\ ComesInSleep(mainloop)
    <3>1. \/ Left(mainloop) - 1 <= sleep'
          \/ /\ Left(mainloop) - 1 < sleep' + UsPerMs
             /\ mainloop.usec >= (clock' + sleep') % Second
      BY <1>3, <1>10, <2>1, <2>3
    <3> QED
      BY <1>6, <1>10, <2>3, <3>1 DEF ComesInSleep
  <2> QED
    BY <1>0, <2>1, <2>2, <2>3 DEF SleepsForOne
<1>14. WakesInTime'
  <2> SUFFICES ASSUME phase' = "select", NEW i \in 1..n
               PROVE  \/ sleep' >= 0 /\ sleep' < UsPerMs
                      \/ sleep' >= 0 /\ sleep' < timers'[i].due + UsPerMs
                      \/ steps' > 0 /\ sleep' >= 0 /\ sleep' <= timers'[i].period * UsPerMs
                      \/ steps' > 0 /\ i = 1 /\ ~mainloop'.on
    BY <1>5 DEF WakesInTime
  <2>1. \/ sleep >= 0 /\ sleep < UsPerMs
        \/ sleep >= 0 /\ sleep < timers[i].due + UsPerMs
        \/ steps > 0 /\ sleep >= 0 /\ sleep <= timers[i].period * UsPerMs
        \/ steps > 0 /\ i = 1 /\ ~mainloop.on
    BY <1>0, <1>1 DEF WakesInTime
  <2>2. /\ steps' = steps /\ mainloop'.on = mainloop.on /\ timers'[i].period = timers[i].period
        /\ timers'[i].due = timers[i].due - 1 /\ timers[i].due \in Int
    BY <1>1, <1>4, <1>6, <1>9
  <2>3. timers[i].period * UsPerMs \in Int
    BY <1>0, <1>9
  <2> QED
    BY <1>0, <1>7, <2>1, <2>2, <2>3
<1> QED
  BY <1>8, <1>11, <1>12, <1>13, <1>14 DEF TimerInv

-----------------------------------------------------------------------------
LEMMA TimerInit == Init => TimerInv
<1> SUFFICES ASSUME Init PROVE TimerInv
  OBVIOUS
<1>0. /\ timers = <<>> /\ DOMAIN timers = {} /\ timers \in Seq(ATimer)
  <2>1. timers = <<>>
    BY DEF Init
  <2> QED
    BY <2>1, EmptySeq
<1>1. /\ clock \in 0..(Second - 1) /\ screensaver_delay = 0 /\ screensaver_active = FALSE
      /\ phase = "working" /\ sleep = Forever /\ steps = 0 /\ stepped = FALSE
      /\ mainloop = [on |-> FALSE, sec |-> 0, usec |-> 0, due |-> 0]
  BY DEF Init
<1>2. mainloop \in [on : BOOLEAN, sec : Int, usec : 0..Second, due : Int] /\ ~mainloop.on
  <2>1. Second \in Nat
    BY TimerAssumption DEF Second
  <2> QED
    BY <1>1, <2>1
<1>3. TypeOK
  BY <1>0, <1>1, <1>2 DEF TypeOK
<1>4. ClockInv /\ SleepsForOne /\ WakesInTime
  BY <1>0, <1>1, <1>2 DEF ClockInv, SleepsForOne, WakesInTime
<1>5. SaverInv
  BY <1>0, <1>1 DEF SaverInv, SaverAt
<1> QED
  BY <1>3, <1>4, <1>5 DEF TimerInv

LEMMA TimerStep == TimerInv /\ [Next]_vars => TimerInv'
<1> SUFFICES ASSUME TimerInv, [Next]_vars PROVE TimerInv'
  OBVIOUS
<1>1. CASE \E id \in Ids :
              \/ \E period \in Periods : GrCreateTimer(id, period)
              \/ GrDestroyTimer(id)
  BY <1>1, RequestSafe
<1>2. CASE GsInitialize
  BY <1>2, RequestSafe
<1>3. CASE \E delay \in {0} \cup Delays : GrSetScreenSaverTimeout(delay)
  BY <1>3, SaverRequestSafe
<1>4. CASE GsResetScreenSaver
  BY <1>4, SaverRequestSafe
<1>5. ASSUME NEW timeout \in Timeouts, GdGetNextTimeout(timeout) PROVE TimerInv'
  BY <1>5, WaitSafe
<1>6. CASE Poll \/ InputReady \/ UNCHANGED vars
  BY <1>6, Unchanging
<1>7. CASE GdTimeout
  BY <1>7, TimeoutSafe
<1>8. CASE Tick
  BY <1>8, TickSafe
<1>9. ASSUME NEW d \in StepsBack, SetClockBack(d) PROVE TimerInv'
  BY <1>9, SetBackSafe
<1> QED
  BY <1>1, <1>2, <1>3, <1>4, <1>5, <1>6, <1>7, <1>8, <1>9 DEF Next

(* The inductive invariant, of which each of the theorems below takes what *)
(* it needs: the list is well formed, a timer's clock and its due time     *)
(* agree, a sleep is that of one of the times waited for, none is slept    *)
(* over, and the screen saver's timer is there or not as it should.        *)
THEOREM TimerInvCorrect == Spec => []TimerInv
<1>1. Init => TimerInv
  BY TimerInit
<1>2. TimerInv /\ [Next]_vars => TimerInv'
  BY TimerStep
<1> QED
  BY <1>1, <1>2, PTL DEF Spec

(* A timer that runs in GdTimeout has less than a millisecond of its       *)
(* period left, by a clock that is never set back.                         *)
THEOREM NotEarlyCorrect == Spec => []NotEarly
<1>1. TimerInv => NotEarly
  <2> SUFFICES ASSUME TimerInv, NEW i \in Ran PROVE timers[i].due < UsPerMs
    BY DEF NotEarly
  <2>1. /\ TypeOK /\ i \in DOMAIN timers /\ time_to_expiry(timers[i].timeout) <= 0
        /\ timers[i].due <= Left(timers[i].timeout) /\ UsPerMs \in Int
    BY TimerAssumption DEF TimerInv, Ran, Expired, ClockInv, InStep
  <2>2. /\ timers[i].timeout.sec \in Int /\ timers[i].timeout.usec \in 0..Second
        /\ timers[i].due \in Int
    BY <2>1, TimersTyped
  <2>3. Left(timers[i].timeout) < UsPerMs /\ Left(timers[i].timeout) \in Int
    BY <2>1, <2>2, ExpiredIsNear, ExpiryBounds
  <2> QED
    BY <2>1, <2>2, <2>3
<1> QED
  BY <1>1, TimerInvCorrect, PTL

(* GdTimeout's answer about the timeout that was asked for is true to less *)
(* than a millisecond, and a TRUE with none asked for is one that left-over*)
(* microseconds give.                                                      *)
THEOREM TimeoutToldCorrect == Spec => []TimeoutTold
<1>1. TimerInv => TimeoutTold
  <2> SUFFICES ASSUME TimerInv
               PROVE  \/ Told /\ mainloop.on /\ mainloop.due < UsPerMs
                      \/ Told /\ ~mainloop.on /\ mainloop.usec > 0
                      \/ ~Told /\ (mainloop.on => mainloop.due > 0 \/ steps > 0)
    BY DEF TimeoutTold
  <2>1. /\ TypeOK /\ UsPerMs \in Int /\ steps \in Nat
        /\ mainloop.sec \in Int /\ mainloop.usec \in 0..Second /\ mainloop.due \in Int
        /\ Left(mainloop) \in Int /\ time_to_expiry(mainloop) \in Int
    BY TimerAssumption, ExpiryBounds DEF TimerInv, TypeOK
  <2>2. CASE ~mainloop.on
    BY <2>2 DEF Told
  <2>3. CASE mainloop.on
    <3>1. Told <=> time_to_expiry(mainloop) <= 0
      BY <2>3 DEF Told
    <3>2. mainloop.due <= Left(mainloop) /\ (steps = 0 => mainloop.due = Left(mainloop))
      BY <2>3 DEF TimerInv, ClockInv, InStep
    <3>3. CASE time_to_expiry(mainloop) <= 0
      <4>1. Left(mainloop) < UsPerMs
        BY <2>1, <3>3, ExpiredIsNear
      <4> QED
        BY <2>1, <2>3, <3>1, <3>2, <3>3, <4>1
    <3>4. CASE time_to_expiry(mainloop) > 0
      <4>1. Left(mainloop) > 0
        BY <2>1, <3>4, UnexpiredIsAhead
      <4> QED
        BY <2>1, <2>3, <3>1, <3>2, <3>4, <4>1
    <3> QED
      BY <2>1, <3>3, <3>4
  <2> QED
    BY <2>2, <2>3
<1> QED
  BY <1>1, TimerInvCorrect, PTL

(* A time that a wait ended for is told as come by time_to_expiry.         *)
LEMMA ComeIsExpired ==
    ASSUME TypeOK, NEW tv, tv.sec \in Int, tv.usec \in 0..Second, sleep = 0, ComesInSleep(tv)
    PROVE  time_to_expiry(tv) <= 0
<1> DEFINE e == time_to_expiry(tv)
<1>0. /\ UsPerMs \in Nat \ {0} /\ Second \in Nat \ {0} /\ clock \in Nat /\ clock < Second
      /\ tv.usec \in Int /\ Left(tv) \in Int /\ e \in Int /\ e * UsPerMs \in Int
  <2>1. clock \in 0..(Second - 1)
    BY DEF TypeOK
  <2>2. e \in Int /\ Left(tv) \in Int
    BY ExpiryBounds
  <2> HIDE DEF e
  <2> QED
    BY <2>1, <2>2, TimerAssumption DEF Second
<1>1. /\ tv.usec >= clock => e * UsPerMs <= Left(tv)
      /\ tv.usec <= clock => e * UsPerMs < Left(tv) + UsPerMs
  BY ExpiryBounds
<1> HIDE DEF e
<1>2. SUFFICES ASSUME e >= 1 PROVE FALSE
  BY <1>0 DEF e
<1>3. UsPerMs <= e * UsPerMs
  <2>1. 1 * UsPerMs <= e * UsPerMs
    BY <1>0, <1>2, TimesMonotone
  <2> QED
    BY <1>0, <2>1
<1>4. CASE Left(tv) <= 0
  BY <1>0, <1>1, <1>3, <1>4
<1>5. CASE Left(tv) < UsPerMs /\ tv.usec >= clock
  BY <1>0, <1>1, <1>3, <1>5
<1>6. (clock + sleep) % Second = clock
  <2>1. clock + sleep = clock
    BY <1>0
  <2>2. \A u \in Nat \ {0} : \A c \in Nat : c < u => c % u = c
    OBVIOUS
  <2> QED
    BY <1>0, <2>1, <2>2
<1> QED
  BY <1>0, <1>4, <1>5, <1>6 DEF ComesInSleep

(* A wait that times out runs a timer or tells its caller that the time is *)
(* over, unless the clock was set back meanwhile.                          *)
THEOREM NoIdleWakeCorrect == Spec => []NoIdleWake
<1>1. TimerInv => NoIdleWake
  <2> SUFFICES ASSUME TimerInv, TimedOut, phase # "poll", ~stepped
               PROVE  Ran # {} \/ Told
    BY DEF NoIdleWake
  <2>1. /\ TypeOK /\ SleepsForOne /\ sleep = 0 /\ phase = "select" /\ sleep # Forever
    BY DEF TimerInv, TypeOK, TimedOut, Working, Forever
  <2>2. CASE \E i \in DOMAIN timers : ComesInSleep(timers[i].timeout)
    <3>1. PICK i \in DOMAIN timers : ComesInSleep(timers[i].timeout)
      BY <2>2
    <3>2. timers[i].timeout.sec \in Int /\ timers[i].timeout.usec \in 0..Second
      BY <2>1, TimersTyped
    <3>3. Expired(timers[i])
      BY <2>1, <3>1, <3>2, ComeIsExpired DEF Expired
    <3> QED
      BY <3>3 DEF Ran
  <2>3. CASE mainloop.on /\ ComesInSleep(mainloop)
    <3>1. mainloop.sec \in Int /\ mainloop.usec \in 0..Second
      BY <2>1 DEF TypeOK
    <3>2. time_to_expiry(mainloop) <= 0
      BY <2>1, <2>3, <3>1, ComeIsExpired
    <3> QED
      BY <2>3, <3>2 DEF Told
  <2> QED
    BY <2>1, <2>2, <2>3 DEF SleepsForOne
<1> QED
  BY <1>1, TimerInvCorrect, PTL

(* No wait that GdGetNextTimeout begins goes on for a whole millisecond    *)
(* after a timer is due, but for what a clock that is set back does.       *)
THEOREM WakesInTimeCorrect == Spec => []WakesInTime
<1>1. TimerInv => WakesInTime
  BY DEF TimerInv
<1> QED
  BY <1>1, TimerInvCorrect, PTL

(* The screen saver has one timer while it is to come up, and none while it*)
(* is off.                                                                 *)
THEOREM SaverArmedCorrect == Spec => []SaverArmed
<1>1. TimerInv => SaverArmed
  <2> SUFFICES ASSUME SaverInv PROVE SaverArmed
    BY DEF TimerInv
  <2> DEFINE A == SaverAt(timers)
  <2>1. /\ \A i, j \in A : i = j
        /\ screensaver_delay = 0 => A = {}
        /\ screensaver_delay # 0 /\ ~screensaver_active => A # {}
    BY DEF SaverInv
  <2>2. SaverArmed <=> /\ Cardinality(A) <= 1
                       /\ screensaver_delay = 0 => Cardinality(A) = 0
                       /\ screensaver_delay # 0 /\ ~screensaver_active => Cardinality(A) = 1
    BY DEF SaverArmed, SaverAt
  <2> HIDE DEF A
  <2>3. CASE A = {}
    <3>1. Cardinality(A) = 0
      BY <2>3, FS_EmptySet
    <3> QED
      BY <2>1, <2>2, <2>3, <3>1
  <2>4. CASE A # {}
    <3>1. PICK i \in A : A = {i}
      BY <2>1, <2>4
    <3>2. Cardinality(A) = 1
      BY <3>1, FS_Singleton
    <3> QED
      BY <2>1, <2>2, <2>4, <3>2
  <2> QED
    BY <2>3, <2>4
<1> QED
  BY <1>1, TimerInvCorrect, PTL
=============================================================================
