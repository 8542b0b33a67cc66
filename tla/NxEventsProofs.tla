---------------------------- MODULE NxEventsProofs ----------------------------
(***************************************************************************)
(* Proofs about the answers on the socket: the replies come in the order   *)
(* of the calls that wait for them, for any number of threads, and in an   *)
(* application of one thread a call that reads is always going to be       *)
(* answered, and the three queues between server and application are one.  *)
(***************************************************************************)
EXTENDS NxEvents, SequenceTheorems, TLAPS

Requests == {"GetNextEvent", "CheckNextEvent", "PeekEvent", "Query"}
Packets  == [type : {"event", "peek", "reply"}, ev : Nat]
Doing    == [pc : {"idle", "select", "woken", "read"}, call : AllCalls \cup {"none"},
             want : {"none", "event", "peek", "reply"}, sock : BOOLEAN, fd : BOOLEAN]

TypeOK ==
    /\ posted \in Nat /\ squeue \in Seq(Nat) /\ waiting \in BOOLEAN
    /\ req \in Seq(Requests) /\ rep \in Seq(Packets)
    /\ evlist \in Seq(Nat) /\ got \in Seq(Nat)
    /\ lock \in Threads \cup {Nobody}
    /\ thr \in [Threads -> Doing]
    /\ input \in Nat

(* What a thread reads for.                                                *)
ReadsFor(t) == IF thr[t].pc = "read" THEN thr[t].want ELSE "none"

(* A thread reads with the lock held.                                      *)
LockHeld ==
    \A t \in Threads : thr[t].pc = "read" => lock = t /\ ReadsFor(t) # "none"

(* What a request is answered with.                                        *)
Answer(r) == CASE r = "PeekEvent" -> "peek" [] r = "Query" -> "reply" [] OTHER -> "event"

(* The places of the members of M in s.                                    *)
Places(s, M) == {i \in DOMAIN s : s[i] \in M}

Asked    == Places(req, {"PeekEvent", "Query"})
Answered == Places(rep, {p \in Packets : p.type # "event"})

(* Requests whose answer is not an event, and those answers, are on the    *)
(* socket one at a time, while a thread reads for it.                      *)
OneAnswer ==
    /\ \A i \in Asked : \E t \in Threads : ReadsFor(t) = Answer(req[i])
    /\ \A i \in Answered : \E t \in Threads : ReadsFor(t) = rep[i].type
    /\ \A i, j \in Asked : i = j
    /\ \A i, j \in Answered : i = j
    /\ Asked = {} \/ Answered = {}

AnswerInv == TypeOK /\ LockHeld /\ OneAnswer

-----------------------------------------------------------------------------
(* What becomes of the places when a sequence grows and shrinks.           *)
LEMMA PlacesAppend ==
    ASSUME NEW S, NEW M, NEW s \in Seq(S), NEW e \in S
    PROVE  \A i : i \in Places(Append(s, e), M) <=>
                   i \in Places(s, M) \/ (e \in M /\ i = Len(s) + 1)
<1>1. /\ Len(s) \in Nat /\ DOMAIN s = 1 .. Len(s)
      /\ DOMAIN Append(s, e) = 1 .. Len(s) + 1
  BY AppendProperties, LenProperties
<1>2. /\ \A i \in 1 .. Len(s) : Append(s, e)[i] = s[i]
      /\ Append(s, e)[Len(s) + 1] = e
  BY AppendProperties
<1>3. 1 .. Len(s) + 1 = (1 .. Len(s)) \cup {Len(s) + 1} /\ Len(s) + 1 \notin 1 .. Len(s)
  BY <1>1
<1> QED
  BY <1>1, <1>2, <1>3 DEF Places

LEMMA PlacesTail ==
    ASSUME NEW S, NEW M, NEW s \in Seq(S), s # <<>>
    PROVE  /\ \A i \in Places(Tail(s), M) : i + 1 \in Places(s, M) /\ Tail(s)[i] = s[i + 1]
           /\ 1 \in Places(s, M) <=> Head(s) \in M
           /\ \A i \in Places(Tail(s), M) : i \in Nat /\ i + 1 # 1
           /\ \A i \in Places(s, M) : i = 1 \/ i - 1 \in Places(Tail(s), M)
<1>1. /\ Len(s) \in Nat \ {0} /\ DOMAIN s = 1 .. Len(s)
      /\ DOMAIN Tail(s) = 1 .. Len(s) - 1
  BY HeadTailProperties, LenProperties, EmptySeq
<1>2. \A i \in 1 .. Len(s) - 1 : Tail(s)[i] = s[i + 1]
  BY HeadTailProperties
<1>3. Head(s) = s[1]
  OBVIOUS
<1>4. /\ \A i \in 1 .. Len(s) - 1 : i \in Nat /\ i + 1 \in 1 .. Len(s) /\ i + 1 # 1
      /\ 1 \in 1 .. Len(s)
  BY <1>1
<1>5. ASSUME NEW i \in Places(s, M), i # 1 PROVE i - 1 \in Places(Tail(s), M)
  <2>1. i \in 1 .. Len(s) /\ i - 1 \in 1 .. Len(s) - 1 /\ (i - 1) + 1 = i
    BY <1>1, <1>5 DEF Places
  <2> QED
    BY <1>1, <1>2, <1>5, <2>1 DEF Places
<1> QED
  BY <1>1, <1>2, <1>3, <1>4, <1>5 DEF Places

-----------------------------------------------------------------------------
(* A sequence with one element taken out.                                  *)
LEMMA Cut ==
    ASSUME NEW m \in Nat, NEW n \in Nat, m <= n
    PROVE  /\ n - (m + 1) + 1 = n - m
           /\ (m = n => n - m = 0 /\ ~(m + 1 <= n)) /\ (m # n => m + 1 <= n)
           /\ \A i \in Nat : (m + 1) + i - 1 = m + i
OBVIOUS

LEMMA Shortened ==
    ASSUME NEW S, NEW s \in Seq(S), NEW k \in 1..Len(s)
    PROVE  /\ RemoveAt(s, k) \in Seq(S) /\ Len(RemoveAt(s, k)) = Len(s) - 1
           /\ \A i \in 1..(Len(s) - 1) :
                 RemoveAt(s, k)[i] = IF i < k THEN s[i] ELSE s[i + 1]
<1> DEFINE a == SubSeq(s, 1, k - 1)
           b == SubSeq(s, k + 1, Len(s))
<1>1. Len(s) \in Nat /\ DOMAIN s = 1..Len(s) /\ k \in Nat /\ 1 <= k /\ k <= Len(s)
  BY LenProperties
<1>2. a \in Seq(S) /\ Len(a) = k - 1 /\ \A i \in 1..(k - 1) : a[i] = s[i]
  BY <1>1, SubSeqProperties
<1>3. b \in Seq(S) /\ Len(b) = Len(s) - k /\ \A i \in 1..(Len(s) - k) : b[i] = s[k + i]
  <2>1. /\ k + 1 \in Int /\ Len(s) \in Int
        /\ \A i \in (k + 1)..Len(s) : s[i] \in S
    BY <1>1
  <2>2. /\ b \in Seq(S)
        /\ Len(b) = IF k + 1 <= Len(s) THEN Len(s) - (k + 1) + 1 ELSE 0
        /\ \A i \in 1..(Len(s) - (k + 1) + 1) : b[i] = s[(k + 1) + i - 1]
    BY <2>1, SubSeqProperties
  <2> HIDE DEF b
  <2>3. /\ Len(s) - (k + 1) + 1 = Len(s) - k
        /\ (k = Len(s) => Len(s) - k = 0 /\ ~(k + 1 <= Len(s))) /\ (k # Len(s) => k + 1 <= Len(s))
        /\ \A i \in Nat : (k + 1) + i - 1 = k + i
    BY <1>1, Cut, Zenon
  <2>4. Len(b) = Len(s) - k
    BY <2>2, <2>3, Zenon
  <2>5. \A i \in 1..(Len(s) - k) : b[i] = s[k + i]
    <3> TAKE i \in 1..(Len(s) - k)
    <3>1. i \in 1..(Len(s) - (k + 1) + 1)
      BY <2>3, Zenon
    <3>2. i \in Nat
      OBVIOUS
    <3> QED
      BY <2>2, <2>3, <3>1, <3>2, Zenon
  <2> QED
    BY <2>2, <2>4, <2>5
<1> HIDE DEF a, b
<1>4. /\ a \o b \in Seq(S) /\ Len(a \o b) = Len(a) + Len(b)
      /\ \A i \in 1..(Len(a) + Len(b)) : (a \o b)[i] = IF i <= Len(a) THEN a[i] ELSE b[i - Len(a)]
  BY <1>2, <1>3, ConcatProperties
<1>5. RemoveAt(s, k) = a \o b
  BY DEF RemoveAt, a, b
<1>6. ASSUME NEW i \in 1..(Len(s) - 1)
      PROVE  (a \o b)[i] = IF i < k THEN s[i] ELSE s[i + 1]
  <2>1. CASE i < k
    BY <1>1, <1>2, <1>3, <1>4, <2>1
  <2>2. CASE ~(i < k)
    <3>1. i - (k - 1) \in 1..(Len(s) - k)
      BY <1>1, <2>2
    <3>2. (a \o b)[i] = b[i - (k - 1)]
      BY <1>1, <1>2, <1>3, <1>4, <2>2
    <3>3. k + (i - (k - 1)) = i + 1
      BY <1>1
    <3> QED
      BY <1>3, <2>2, <3>1, <3>2, <3>3
  <2> QED
    BY <2>1, <2>2
<1>7. RemoveAt(s, k) \in Seq(S) /\ Len(RemoveAt(s, k)) = Len(s) - 1
  <2>1. Len(a) + Len(b) = Len(s) - 1
    BY <1>1, <1>2, <1>3
  <2> QED
    BY <1>4, <1>5, <2>1
<1> QED
  BY <1>5, <1>6, <1>7

-----------------------------------------------------------------------------
(* Types.                                                                  *)
LEMMA HandTyped == ASSUME TypeOK, NEW e \in Nat, Hand(e) PROVE got' \in Seq(Nat)
BY AppendProperties DEF TypeOK, Hand

LEMMA TakenTyped == ASSUME TypeOK PROVE Taken \in Nat /\ Rest \in Seq(Nat)
<1>1. CASE squeue = <<>>
  BY <1>1 DEF Taken, Rest, NoEvent
<1>2. CASE squeue # <<>>
  BY <1>2, HeadTailProperties DEF TypeOK, Taken, Rest, NoEvent
<1> QED
  BY <1>1, <1>2

LEMMA AwaitTyped ==
    ASSUME TypeOK, NEW t \in Threads, NEW k \in AllCalls, NEW want \in {"event", "peek", "reply"},
           Await(t, k, want)
    PROVE  /\ lock' = t
           /\ thr' \in [Threads -> Doing]
           /\ thr'[t].pc = "read" /\ thr'[t].call = k /\ thr'[t].want = want
           /\ \A u \in Threads \ {t} : thr'[u] = thr[u]
<1>1. thr[t] \in Doing
  BY DEF TypeOK
<1>2. thr' = [thr EXCEPT ![t] = [thr[t] EXCEPT !.pc = "read", !.call = k, !.want = want]]
  BY DEF Await
<1>3. [thr[t] EXCEPT !.pc = "read", !.call = k, !.want = want] \in Doing
  BY <1>1 DEF Doing
<1> QED
  BY <1>1, <1>2, <1>3 DEF Await, TypeOK, Doing

LEMMA IdleTyped == Idle \in Doing /\ Idle.pc = "idle" /\ Idle.call = "none"
BY DEF Idle, Doing

LEMMA SelectTyped ==
    ASSUME TypeOK, NEW t \in Threads, NEW k \in AllCalls,
           thr' = [thr EXCEPT ![t] = [@ EXCEPT !.pc = "select", !.call = k]]
    PROVE  /\ thr' \in [Threads -> Doing]
           /\ thr'[t].pc = "select" /\ thr'[t].call = k
           /\ \A u \in Threads \ {t} : thr'[u] = thr[u]
<1>1. thr[t] \in Doing
  BY DEF TypeOK
<1>2. [thr[t] EXCEPT !.pc = "select", !.call = k] \in Doing
  BY <1>1 DEF Doing
<1> QED
  BY <1>1, <1>2 DEF TypeOK, Doing

LEMMA WokenTyped ==
    ASSUME TypeOK, NEW t \in Threads, SelectReturns(t)
    PROVE  /\ thr' \in [Threads -> Doing]
           /\ thr'[t].pc = "woken" /\ thr'[t].call = thr[t].call
           /\ thr'[t].call = "main" \/ rep # <<>>
           /\ thr'[t].sock => rep # <<>>
           /\ \A u \in Threads \ {t} : thr'[u] = thr[u]
           /\ input' \in Nat
<1>1. thr[t] \in Doing
  BY DEF TypeOK
<1>2. CASE rep # <<>> /\ UNCHANGED input
           /\ thr' = [thr EXCEPT ![t] = [@ EXCEPT !.pc = "woken", !.sock = TRUE]]
  <2>1. [thr[t] EXCEPT !.pc = "woken", !.sock = TRUE] \in Doing
    BY <1>1 DEF Doing
  <2> QED
    BY <1>1, <1>2, <2>1 DEF TypeOK, Doing
<1>3. CASE /\ thr[t].call = "main" /\ input' = input + 1
           /\ thr' = [thr EXCEPT ![t] =
                          [@ EXCEPT !.pc = "woken", !.sock = (rep # <<>>), !.fd = TRUE]]
  <2> DEFINE d == [thr[t] EXCEPT !.pc = "woken", !.sock = (rep # <<>>), !.fd = TRUE]
  <2>1. /\ d \in Doing /\ d.pc = "woken" /\ d.call = thr[t].call /\ thr[t].call = "main"
        /\ d.sock => rep # <<>>
    BY <1>1, <1>3 DEF Doing
  <2>2. thr' = [thr EXCEPT ![t] = d]
    BY <1>3
  <2> HIDE DEF d
  <2>3. /\ thr' \in [Threads -> Doing] /\ thr'[t] = d
        /\ \A u \in Threads \ {t} : thr'[u] = thr[u]
    BY <2>1, <2>2 DEF TypeOK
  <2>4. input' \in Nat
    BY <1>3 DEF TypeOK
  <2> QED
    BY <2>1, <2>3, <2>4
<1> QED
  BY <1>2, <1>3 DEF SelectReturns

(* ServiceInput ends the call or sends a query and reads for it.           *)
LEMMA ServiceTyped ==
    ASSUME TypeOK, NEW t \in Threads, ServiceInput(t)
    PROVE  /\ thr' \in [Threads -> Doing]
           /\ \A u \in Threads \ {t} : thr'[u] = thr[u]
           /\ \/ /\ req' = req /\ lock' = Nobody /\ thr'[t].pc = "idle"
              \/ /\ req' = Append(req, "Query") /\ lock' = t
                 /\ thr'[t].pc = "read" /\ thr'[t].want = "reply"
           /\ req' \in Seq(Requests)
           /\ lock' \in Threads \cup {Nobody}
<1> DEFINE reading == [Idle EXCEPT !.pc = "read", !.call = "main", !.want = "reply"]
<1>1. reading \in Doing /\ reading.pc = "read" /\ reading.want = "reply"
  BY DEF Idle, Doing, AllCalls
<1>2. CASE thr[t].fd
  <2>1. Append(req, "Query") \in Seq(Requests)
    BY AppendProperties DEF TypeOK, Requests
  <2>2. thr' = [thr EXCEPT ![t] = reading] /\ lock' = t /\ req' = Append(req, "Query")
    BY <1>2 DEF ServiceInput
  <2> HIDE DEF reading
  <2> QED
    BY <1>1, <2>1, <2>2 DEF TypeOK
<1>3. CASE ~thr[t].fd
  BY <1>3, IdleTyped DEF ServiceInput, TypeOK
<1> QED
  BY <1>2, <1>3

LEMMA SendTyped ==
    ASSUME TypeOK, NEW r \in Requests, Send(r)
    PROVE  req' = Append(req, r) /\ req' \in Seq(Requests)
BY AppendProperties DEF TypeOK, Send

LEMMA ServerTypes == ASSUME TypeOK, ServerStep PROVE TypeOK'
<1>1. Taken \in Nat /\ Rest \in Seq(Nat)
  BY TakenTyped
<1>2. req # <<>> => Tail(req) \in Seq(Requests)
  BY HeadTailProperties DEF TypeOK
<1>3. \A type \in {"event", "peek", "reply"}, e \in Nat : Append(rep, Packet(type, e)) \in Seq(Packets)
  BY AppendProperties DEF TypeOK, Packet, Packets
<1>4. squeue # <<>> => Head(squeue) \in Nat
  BY HeadTailProperties DEF TypeOK
<1>5. CASE GrGetNextEventWrapperFinish
  BY <1>1, <1>3, <1>5 DEF GrGetNextEventWrapperFinish, TypeOK
<1>6. CASE GrGetNextEventWrapper
  BY <1>2, <1>6 DEF GrGetNextEventWrapper, GsHandleClient, TypeOK
<1>7. CASE GrCheckNextEventWrapper
  BY <1>1, <1>2, <1>3, <1>7 DEF GrCheckNextEventWrapper, GsHandleClient, TypeOK
<1>8. CASE GrPeekEventWrapper
  BY <1>2, <1>3, <1>4, <1>8 DEF GrPeekEventWrapper, GsHandleClient, TypeOK, NoEvent
<1>9. CASE QueryWrapper
  BY <1>2, <1>3, <1>9 DEF QueryWrapper, GsHandleClient, TypeOK, NoEvent
<1> QED
  BY <1>5, <1>6, <1>7, <1>8, <1>9 DEF ServerStep

LEMMA ListTaken ==
    ASSUME TypeOK, evlist # <<>>
    PROVE  Head(evlist) \in Nat /\ Tail(evlist) \in Seq(Nat)
BY HeadTailProperties DEF TypeOK

LEMMA StartTypes == ASSUME TypeOK, NEW t \in Threads, Start(t) PROVE TypeOK'
<1> USE EventsAssumption
<1>1. ASSUME NEW k \in Calls, GrGetNextEventTimeout(t, k) PROVE TypeOK'
  <2>1. /\ k \in AllCalls /\ UNCHANGED <<server, rep, lock, input>>
    BY <1>1 DEF GrGetNextEventTimeout
  <2>2. CASE /\ evlist # <<>> /\ Hand(Head(evlist)) /\ evlist' = Tail(evlist)
             /\ UNCHANGED <<req, thr>>
    BY <2>1, <2>2, ListTaken, HandTyped DEF TypeOK, server
  <2>3. CASE /\ Send("GetNextEvent")
             /\ thr' = [thr EXCEPT ![t] = [@ EXCEPT !.pc = "select", !.call = k]]
             /\ UNCHANGED <<evlist, got>>
    BY <2>1, <2>3, SelectTyped, SendTyped DEF TypeOK, server, Requests
  <2> QED
    BY <1>1, <2>2, <2>3 DEF GrGetNextEventTimeout
<1>2. CASE GrCheckNextEvent(t)
  <2>1. CASE /\ evlist # <<>> /\ Hand(Head(evlist)) /\ evlist' = Tail(evlist)
             /\ UNCHANGED <<req, lock, thr>>
    BY <1>2, <2>1, ListTaken, HandTyped DEF TypeOK, server, GrCheckNextEvent
  <2>2. CASE /\ Send("CheckNextEvent") /\ Await(t, "check", "event") /\ UNCHANGED <<evlist, got>>
    BY <1>2, <2>2, SendTyped, AwaitTyped DEF TypeOK, server, Requests, GrCheckNextEvent, AllCalls
  <2> QED
    BY <1>2, <2>1, <2>2 DEF GrCheckNextEvent
<1>3. CASE GrPeekEvent(t)
  <2>1. CASE UNCHANGED <<req, lock, thr>>
    BY <1>3, <2>1 DEF TypeOK, server, GrPeekEvent
  <2>2. CASE Send("PeekEvent") /\ Await(t, "peek", "peek")
    BY <1>3, <2>2, SendTyped, AwaitTyped DEF TypeOK, server, Requests, GrPeekEvent, AllCalls
  <2> QED
    BY <1>3, <2>1, <2>2 DEF GrPeekEvent
<1>4. CASE GrPeekWaitEvent(t)
  <2>1. CASE UNCHANGED <<req, lock, thr>>
    BY <1>4, <2>1 DEF TypeOK, server, GrPeekWaitEvent
  <2>2. CASE /\ Send("GetNextEvent") /\ lock' = t
             /\ thr' = [thr EXCEPT ![t] = [@ EXCEPT !.pc = "select", !.call = "peekwait"]]
    BY <1>4, <2>2, SelectTyped, SendTyped DEF TypeOK, server, Requests, GrPeekWaitEvent, AllCalls
  <2> QED
    BY <1>4, <2>1, <2>2 DEF GrPeekWaitEvent
<1>5. CASE Query(t)
  BY <1>5, SendTyped, AwaitTyped DEF TypeOK, server, Requests, Query, AllCalls
<1>6. CASE GrPrepareSelect(t)
  BY <1>6, SelectTyped, SendTyped DEF TypeOK, server, Requests, GrPrepareSelect, AllCalls
<1> QED
  BY <1>1, <1>2, <1>3, <1>4, <1>5, <1>6 DEF Start

LEMMA RepTaken ==
    ASSUME TypeOK, rep # <<>>
    PROVE  Head(rep) \in Packets /\ Head(rep).ev \in Nat /\ Tail(rep) \in Seq(Packets)
<1>1. Head(rep) \in Packets /\ Tail(rep) \in Seq(Packets)
  BY HeadTailProperties DEF TypeOK
<1> QED
  BY <1>1 DEF Packets

LEMMA ContinueTypes ==
    ASSUME TypeOK, NEW t \in Threads, Continue(t) \/ SelectTimesOut(t)
    PROVE  TypeOK'
<1>1. CASE SelectReturns(t)
  BY <1>1, WokenTyped, Zenon DEF SelectReturns, TypeOK, server
<1>2. CASE Relock(t)
  <2>1. thr[t].pc = "woken" /\ thr[t].call \in AllCalls \cup {"none"}
    BY <1>2 DEF Relock, TypeOK, Doing
  <2>2. [thr[t] EXCEPT !.pc = "read", !.call = thr[t].call, !.want = "event"] \in Doing
    BY DEF TypeOK, Doing
  <2> QED
    BY <1>2, <2>2 DEF Relock, Await, TypeOK, server
<1>3. CASE GrServiceSelect(t)
  <2>1. CASE /\ evlist # <<>> /\ Hand(Head(evlist)) /\ evlist' = Tail(evlist) /\ ServiceInput(t)
    BY <1>3, <2>1, ListTaken, HandTyped, ServiceTyped DEF GrServiceSelect, TypeOK, server
  <2>2. CASE Await(t, "main", "event") /\ UNCHANGED <<evlist, got, req>>
    BY <1>3, <2>2, AwaitTyped DEF GrServiceSelect, TypeOK, server, AllCalls
  <2>3. CASE ServiceInput(t) /\ UNCHANGED <<evlist, got>>
    BY <1>3, <2>3, ServiceTyped DEF GrServiceSelect, TypeOK, server
  <2> QED
    BY <1>3, <2>1, <2>2, <2>3 DEF GrServiceSelect
<1>4. CASE QueueEvent(t)
  <2>1. Append(evlist, Head(rep).ev) \in Seq(Nat)
    BY <1>4, RepTaken, AppendProperties DEF QueueEvent, TypeOK
  <2> QED
    BY <1>4, <2>1, RepTaken DEF QueueEvent, TypeOK, server
<1>5. CASE ReadReply(t)
  <2>0. Head(rep).ev \in Nat /\ Tail(rep) \in Seq(Packets) /\ rep' = Tail(rep)
    BY <1>5, RepTaken DEF ReadReply
  <2>1. CASE /\ req' = Append(req, "PeekEvent") /\ Await(t, "peekwait", "peek") /\ UNCHANGED got
    <3>1. req' \in Seq(Requests)
      BY <2>1, AppendProperties DEF TypeOK, Requests
    <3> QED
      BY <1>5, <2>0, <2>1, <3>1, AwaitTyped DEF ReadReply, TypeOK, server, AllCalls
  <2>2. CASE Hand(Head(rep).ev) /\ ServiceInput(t)
    BY <1>5, <2>0, <2>2, HandTyped, ServiceTyped DEF ReadReply, TypeOK, server
  <2>3. CASE /\ IF thr[t].want = "event" THEN Hand(Head(rep).ev) ELSE UNCHANGED got
             /\ lock' = Nobody
             /\ thr' = [thr EXCEPT ![t] = Idle]
             /\ UNCHANGED req
    <3>1. got' \in Seq(Nat)
      BY <2>0, <2>3, HandTyped DEF TypeOK
    <3> QED
      BY <1>5, <2>0, <2>3, <3>1, IdleTyped DEF ReadReply, TypeOK, server
  <2> QED
    BY <1>5, <2>1, <2>2, <2>3 DEF ReadReply
<1>6. CASE SelectTimesOut(t)
  BY <1>6, IdleTyped DEF SelectTimesOut, TypeOK, server
<1> QED
  BY <1>1, <1>2, <1>3, <1>4, <1>5, <1>6, ZenonT(60) DEF Continue

LEMMA TypesKept == ASSUME TypeOK, [Next]_vars PROVE TypeOK'
<1>1. CASE GsAllocEvent
  <2>1. posted + 1 \in Nat /\ posted' = posted + 1 /\ squeue \in Seq(Nat) /\ DOMAIN squeue = 1..Len(squeue)
    BY <1>1, LenProperties DEF GsAllocEvent, TypeOK
  <2>2. \A q \in Seq(Nat) : Append(q, posted + 1) \in Seq(Nat)
    BY <2>1, AppendProperties
  <2>3. \A i \in DOMAIN squeue : RemoveAt(squeue, i) \in Seq(Nat)
    BY <2>1, Shortened
  <2>4. squeue' \in Seq(Nat)
    BY <1>1, <2>1, <2>2, <2>3 DEF GsAllocEvent
  <2> QED
    BY <1>1, <2>1, <2>4 DEF GsAllocEvent, TypeOK
<1>2. CASE UNCHANGED vars
  BY <1>2 DEF vars, TypeOK
<1> QED
  BY <1>1, <1>2, ServerTypes, StartTypes, ContinueTypes DEF Next

LEMMA InitTyped == Init => TypeOK
<1> SUFFICES ASSUME Init PROVE TypeOK
  OBVIOUS
<1>1. squeue \in Seq(Nat) /\ evlist \in Seq(Nat) /\ got \in Seq(Nat)
  BY DEF Init
<1>2. req \in Seq(Requests) /\ rep \in Seq(Packets)
  BY DEF Init
<1>3. thr \in [Threads -> Doing]
  BY IdleTyped DEF Init
<1>4. posted \in Nat /\ input \in Nat /\ waiting \in BOOLEAN /\ lock \in Threads \cup {Nobody}
  BY DEF Init
<1> QED
  BY <1>1, <1>2, <1>3, <1>4 DEF TypeOK

(* Events, packets, requests and threads are what the code gives them.     *)
THEOREM EventTypesCorrect == Spec => []TypeOK
BY InitTyped, TypesKept, PTL DEF Spec

-----------------------------------------------------------------------------
(* What a step of a thread t does to the socket and to what it reads for.  *)
Replies == {"peek", "reply"}

EventRead == rep # <<>> /\ Head(rep).type = "event" /\ rep' = Tail(rep)

Quiet(t) ==
    /\ rep' = rep
    /\ req' = req \/ \E r \in Requests : Answer(r) = "event" /\ req' = Append(req, r)
    /\ ReadsFor(t) \notin Replies /\ ReadsFor(t)' \notin Replies

Asks(t) ==
    /\ rep' = rep \/ EventRead
    /\ \E r \in {"PeekEvent", "Query"} : req' = Append(req, r) /\ ReadsFor(t)' = Answer(r)
    /\ lock \in {Nobody, t} /\ ReadsFor(t) \notin Replies

Queues == EventRead /\ req' = req /\ thr' = thr

IsAnswered(t) ==
    /\ rep # <<>> /\ Head(rep).type = ReadsFor(t) /\ rep' = Tail(rep)
    /\ req' = req
    /\ ReadsFor(t)' = "none"

Does(t) ==
    /\ \A u \in Threads \ {t} : thr'[u] = thr[u]
    /\ lock' # lock => lock \in {Nobody, t}
    /\ thr'[t].pc = "read" => lock' = t /\ ReadsFor(t)' # "none"
    /\ Quiet(t) \/ Asks(t) \/ Queues \/ IsAnswered(t)

LEMMA ServiceDoes ==
    ASSUME TypeOK, NEW t \in Threads, ServiceInput(t)
    PROVE  /\ \A u \in Threads \ {t} : thr'[u] = thr[u]
           /\ \/ req' = req /\ lock' = Nobody /\ ReadsFor(t)' = "none" /\ thr'[t].pc = "idle"
              \/ req' = Append(req, "Query") /\ lock' = t /\ ReadsFor(t)' = "reply"
BY ServiceTyped DEF ReadsFor

LEMMA StartDoes ==
    ASSUME TypeOK, LockHeld, NEW t \in Threads, Start(t)
    PROVE  Does(t)
<1>0. /\ Answer("GetNextEvent") = "event" /\ Answer("CheckNextEvent") = "event"
      /\ Answer("PeekEvent") = "peek" /\ Answer("Query") = "reply"
  BY DEF Answer
<1> USE <1>0 DEF Replies
<1>1. ASSUME NEW k \in Calls, GrGetNextEventTimeout(t, k) PROVE Does(t)
  <2>1. /\ k \in AllCalls /\ UNCHANGED <<rep, lock>> /\ lock = Nobody
        /\ thr[t].pc = "idle" /\ lock # t
    BY <1>1, EventsAssumption, IdleTyped DEF GrGetNextEventTimeout, Enter
  <2>2. CASE UNCHANGED <<req, thr>>
    BY <2>1, <2>2 DEF Does, Quiet, ReadsFor
  <2>3. CASE Send("GetNextEvent") /\ thr' = [thr EXCEPT ![t] = [@ EXCEPT !.pc = "select", !.call = k]]
    BY <2>1, <2>3, SelectTyped, SendTyped DEF Does, Quiet, ReadsFor, Requests
  <2> QED
    BY <1>1, <2>2, <2>3 DEF GrGetNextEventTimeout
<1>2. CASE GrCheckNextEvent(t)
  <2>1. UNCHANGED rep /\ lock = Nobody /\ thr[t].pc = "idle"
    BY <1>2, IdleTyped DEF GrCheckNextEvent, Enter
  <2>2. CASE UNCHANGED <<req, lock, thr>>
    BY <2>1, <2>2 DEF Does, Quiet, ReadsFor
  <2>3. CASE Send("CheckNextEvent") /\ Await(t, "check", "event")
    BY <2>1, <2>3, AwaitTyped, SendTyped DEF Does, Quiet, ReadsFor, Requests, AllCalls
  <2> QED
    BY <1>2, <2>2, <2>3 DEF GrCheckNextEvent
<1>3. CASE GrPeekEvent(t)
  <2>1. UNCHANGED rep /\ lock = Nobody /\ thr[t].pc = "idle"
    BY <1>3, IdleTyped DEF GrPeekEvent, Enter
  <2>2. CASE UNCHANGED <<req, lock, thr>>
    BY <2>1, <2>2 DEF Does, Quiet, ReadsFor
  <2>3. CASE Send("PeekEvent") /\ Await(t, "peek", "peek")
    BY <2>1, <2>3, AwaitTyped, SendTyped DEF Does, Asks, ReadsFor, Requests, AllCalls
  <2> QED
    BY <1>3, <2>2, <2>3 DEF GrPeekEvent
<1>4. CASE GrPeekWaitEvent(t)
  <2>1. UNCHANGED rep /\ lock = Nobody /\ thr[t].pc = "idle"
    BY <1>4, IdleTyped DEF GrPeekWaitEvent, Enter
  <2>2. CASE UNCHANGED <<req, lock, thr>>
    BY <2>1, <2>2 DEF Does, Quiet, ReadsFor
  <2>3. CASE /\ Send("GetNextEvent") /\ lock' = t
             /\ thr' = [thr EXCEPT ![t] = [@ EXCEPT !.pc = "select", !.call = "peekwait"]]
    BY <2>1, <2>3, SelectTyped, SendTyped DEF Does, Quiet, ReadsFor, Requests, AllCalls
  <2> QED
    BY <1>4, <2>2, <2>3 DEF GrPeekWaitEvent
<1>5. CASE Query(t)
  <2>1. UNCHANGED rep /\ lock = Nobody /\ thr[t].pc = "idle"
    BY <1>5, IdleTyped DEF Query, Enter
  <2>2. Send("Query") /\ Await(t, "query", "reply")
    BY <1>5 DEF Query
  <2> QED
    BY <2>1, <2>2, AwaitTyped, SendTyped DEF Does, Asks, ReadsFor, Requests, AllCalls
<1>6. CASE GrPrepareSelect(t)
  <2>1. UNCHANGED <<rep, lock>> /\ lock = Nobody /\ thr[t].pc = "idle"
    BY <1>6, IdleTyped DEF GrPrepareSelect, Enter
  <2>2. Send("GetNextEvent") /\ thr' = [thr EXCEPT ![t] = [@ EXCEPT !.pc = "select", !.call = "main"]]
    BY <1>6 DEF GrPrepareSelect
  <2> QED
    BY <2>1, <2>2, SelectTyped, SendTyped DEF Does, Quiet, ReadsFor, Requests, AllCalls
<1> QED
  BY <1>1, <1>2, <1>3, <1>4, <1>5, <1>6 DEF Start

LEMMA ContinueDoes ==
    ASSUME TypeOK, LockHeld, NEW t \in Threads, Continue(t) \/ SelectTimesOut(t)
    PROVE  Does(t)
<1>0. Answer("PeekEvent") = "peek" /\ Answer("Query") = "reply"
  BY DEF Answer
<1> USE <1>0 DEF Replies
<1>1. CASE SelectReturns(t)
  <2>1. UNCHANGED <<req, rep, lock>> /\ thr[t].pc = "select"
    BY <1>1 DEF SelectReturns
  <2> QED
    BY <1>1, <2>1, WokenTyped DEF Does, Quiet, ReadsFor
<1>2. CASE Relock(t)
  <2>1. /\ UNCHANGED <<req, rep>> /\ thr[t].pc = "woken" /\ lock \in {Nobody, t}
        /\ lock' = t
    BY <1>2 DEF Relock, Await
  <2>2. thr[t] \in Doing /\ thr[t].call \in AllCalls \cup {"none"}
    BY DEF TypeOK, Doing
  <2>3. /\ \A u \in Threads \ {t} : thr'[u] = thr[u]
        /\ thr'[t].pc = "read" /\ thr'[t].want = "event"
    <3>1. thr' = [thr EXCEPT ![t] = [thr[t] EXCEPT !.pc = "read", !.call = thr[t].call, !.want = "event"]]
      BY <1>2 DEF Relock, Await
    <3>2. /\ [thr[t] EXCEPT !.pc = "read", !.call = thr[t].call, !.want = "event"].pc = "read"
          /\ [thr[t] EXCEPT !.pc = "read", !.call = thr[t].call, !.want = "event"].want = "event"
      BY <2>2 DEF Doing
    <3> QED
      BY <3>1, <3>2 DEF TypeOK
  <2> QED
    BY <2>1, <2>3 DEF Does, Quiet, ReadsFor
<1>3. CASE GrServiceSelect(t)
  <2>1. UNCHANGED rep /\ lock = Nobody /\ thr[t].pc = "woken"
    BY <1>3 DEF GrServiceSelect, At
  <2>2. CASE ServiceInput(t)
    BY <2>1, <2>2, ServiceDoes DEF Does, Quiet, Asks, ReadsFor
  <2>3. CASE Await(t, "main", "event") /\ UNCHANGED req
    BY <2>1, <2>3, AwaitTyped DEF Does, Quiet, ReadsFor, AllCalls
  <2> QED
    BY <1>3, <2>2, <2>3 DEF GrServiceSelect
<1>4. CASE QueueEvent(t)
  BY <1>4 DEF QueueEvent, Does, Queues, EventRead, LockHeld, ReadsFor
<1>5. CASE ReadReply(t)
  <2>1. /\ thr[t].pc = "read" /\ lock = t
        /\ rep # <<>> /\ rep' = Tail(rep) /\ Head(rep).type = ReadsFor(t) /\ ReadsFor(t) = thr[t].want
    BY <1>5 DEF ReadReply, LockHeld, ReadsFor
  <2>2. CASE /\ thr[t].want = "event" /\ req' = Append(req, "PeekEvent")
             /\ Await(t, "peekwait", "peek")
    BY <2>1, <2>2, AwaitTyped DEF Does, Asks, EventRead, ReadsFor, AllCalls
  <2>3. CASE thr[t].want = "event" /\ ServiceInput(t)
    BY <2>1, <2>3, ServiceDoes DEF Does, Asks, EventRead, IsAnswered
  <2>4. CASE lock' = Nobody /\ thr' = [thr EXCEPT ![t] = Idle] /\ UNCHANGED req
    BY <2>1, <2>4, IdleTyped DEF Does, IsAnswered, ReadsFor, TypeOK
  <2> QED
    BY <1>5, <2>2, <2>3, <2>4 DEF ReadReply
<1>6. CASE SelectTimesOut(t)
  BY <1>6, IdleTyped DEF SelectTimesOut, At, Does, Quiet, ReadsFor, TypeOK
<1> QED
  BY <1>1, <1>2, <1>3, <1>4, <1>5, <1>6 DEF Continue

LEMMA LockHeldKept ==
    ASSUME LockHeld, NEW t \in Threads, Does(t)
    PROVE  LockHeld'
<1>1. ASSUME NEW u \in Threads, thr'[u].pc = "read" PROVE lock' = u /\ ReadsFor(u)' # "none"
  <2>1. CASE u = t
    BY <1>1, <2>1 DEF Does
  <2>2. CASE u # t
    <3>1. thr[u].pc = "read" /\ lock = u /\ ReadsFor(u)' = ReadsFor(u) /\ ReadsFor(u) # "none"
      BY <1>1, <2>2 DEF Does, LockHeld, ReadsFor
    <3>2. lock' = lock
      BY <2>2, <3>1, EventsAssumption DEF Does
    <3> QED
      BY <3>1, <3>2
  <2> QED
    BY <2>1, <2>2
<1> QED
  BY <1>1 DEF LockHeld

(* No answer is on its way but to the thread that has the lock.            *)
LEMMA OnlyForHolder ==
    ASSUME AnswerInv, NEW t \in Threads, lock \in {Nobody, t}, ReadsFor(t) \notin Replies
    PROVE  Asked = {} /\ Answered = {}
<1>1. ASSUME NEW u \in Threads PROVE ReadsFor(u) \notin Replies
  <2>1. CASE thr[u].pc = "read"
    BY <2>1, EventsAssumption DEF AnswerInv, LockHeld
  <2>2. CASE thr[u].pc # "read"
    BY <2>2 DEF ReadsFor, Replies
  <2> QED
    BY <2>1, <2>2
<1>2. \A i \in Asked : Answer(req[i]) \in Replies
  BY DEF Asked, Places, Answer, Replies
<1>3. \A i \in Answered : rep[i].type \in Replies
  BY DEF Answered, Places, Packets, Replies
<1> QED
  BY <1>1, <1>2, <1>3 DEF AnswerInv, OneAnswer

LEMMA AskedAppend ==
    ASSUME TypeOK, NEW r \in Requests, req' = Append(req, r)
    PROVE  /\ Asked' = Asked \cup (IF Answer(r) = "event" THEN {} ELSE {Len(req) + 1})
           /\ \A i \in Asked : req'[i] = req[i]
           /\ req'[Len(req) + 1] = r
<1>1. req \in Seq(Requests)
  BY DEF TypeOK
<1>2. r \in {"PeekEvent", "Query"} <=> Answer(r) # "event"
  BY DEF Requests, Answer
<1> DEFINE M == {"PeekEvent", "Query"}
<1>3. Asked = Places(req, M) /\ Asked' = Places(Append(req, r), M)
  BY DEF Asked, Places
<1> HIDE DEF M
<1>4. \A i : i \in Places(Append(req, r), M) <=>
               i \in Places(req, M) \/ (r \in M /\ i = Len(req) + 1)
  BY <1>1, PlacesAppend
<1>5. /\ \A i \in Places(req, M) : Append(req, r)[i] = req[i]
      /\ Append(req, r)[Len(req) + 1] = r
  BY <1>1, AppendProperties, LenProperties DEF Places
<1> QED
  BY <1>2, <1>3, <1>4, <1>5 DEF M

LEMMA AnsweredAppend ==
    ASSUME TypeOK, NEW p \in Packets, rep' = Append(rep, p)
    PROVE  /\ Answered' = Answered \cup (IF p.type = "event" THEN {} ELSE {Len(rep) + 1})
           /\ \A i \in Answered : rep'[i] = rep[i]
           /\ rep'[Len(rep) + 1] = p
<1>1. rep \in Seq(Packets)
  BY DEF TypeOK
<1>2. p \in {q \in Packets : q.type # "event"} <=> p.type # "event"
  OBVIOUS
<1> DEFINE M == {q \in Packets : q.type # "event"}
<1>3. Answered = Places(rep, M) /\ Answered' = Places(Append(rep, p), M)
  BY DEF Answered, Places
<1> HIDE DEF M
<1>4. \A i : i \in Places(Append(rep, p), M) <=>
               i \in Places(rep, M) \/ (p \in M /\ i = Len(rep) + 1)
  BY <1>1, PlacesAppend
<1>5. /\ \A i \in Places(rep, M) : Append(rep, p)[i] = rep[i]
      /\ Append(rep, p)[Len(rep) + 1] = p
  BY <1>1, AppendProperties, LenProperties DEF Places
<1> QED
  BY <1>2, <1>3, <1>4, <1>5 DEF M

LEMMA AskedTail ==
    ASSUME TypeOK, req # <<>>, req' = Tail(req)
    PROVE  /\ \A i \in Asked' : i + 1 \in Asked /\ req'[i] = req[i + 1] /\ i \in Nat /\ i + 1 # 1
           /\ \A i \in Asked : i = 1 \/ i - 1 \in Asked'
           /\ 1 \in Asked <=> Answer(Head(req)) # "event"
<1>1. req \in Seq(Requests) /\ Head(req) \in Requests
  BY HeadTailProperties DEF TypeOK
<1>2. Head(req) \in {"PeekEvent", "Query"} <=> Answer(Head(req)) # "event"
  BY <1>1 DEF Requests, Answer
<1> DEFINE M == {"PeekEvent", "Query"}
<1>3. Asked = Places(req, M) /\ Asked' = Places(Tail(req), M)
  BY DEF Asked, Places
<1> HIDE DEF M
<1>4. /\ \A i \in Places(Tail(req), M) : i + 1 \in Places(req, M) /\ Tail(req)[i] = req[i + 1]
      /\ 1 \in Places(req, M) <=> Head(req) \in M
      /\ \A i \in Places(Tail(req), M) : i \in Nat /\ i + 1 # 1
      /\ \A i \in Places(req, M) : i = 1 \/ i - 1 \in Places(Tail(req), M)
  BY <1>1, PlacesTail, Zenon
<1> QED
  BY <1>2, <1>3, <1>4 DEF M

LEMMA AnsweredTail ==
    ASSUME TypeOK, rep # <<>>, rep' = Tail(rep)
    PROVE  /\ \A i \in Answered' : i + 1 \in Answered /\ rep'[i] = rep[i + 1] /\ i \in Nat /\ i + 1 # 1
           /\ \A i \in Answered : i = 1 \/ i - 1 \in Answered'
           /\ 1 \in Answered <=> Head(rep).type # "event"
<1>1. rep \in Seq(Packets) /\ Head(rep) \in Packets
  BY HeadTailProperties DEF TypeOK
<1> DEFINE M == {q \in Packets : q.type # "event"}
<1>2. Answered = Places(rep, M) /\ Answered' = Places(Tail(rep), M)
  BY DEF Answered, Places
<1> HIDE DEF M
<1>3. /\ \A i \in Places(Tail(rep), M) : i + 1 \in Places(rep, M) /\ Tail(rep)[i] = rep[i + 1]
      /\ 1 \in Places(rep, M) <=> Head(rep) \in M
      /\ \A i \in Places(Tail(rep), M) : i \in Nat /\ i + 1 # 1
      /\ \A i \in Places(rep, M) : i = 1 \/ i - 1 \in Places(Tail(rep), M)
  BY <1>1, PlacesTail, Zenon
<1> QED
  BY <1>1, <1>2, <1>3 DEF M

(* What a step of the server does to the socket: an event goes out, or a   *)
(* request comes in and is answered, or makes the client wait.             *)
SendsEvent == \E e \in Nat : rep' = Append(rep, Packet("event", e))

Takes ==
    /\ req # <<>> /\ req' = Tail(req)
    /\ \/ /\ Answer(Head(req)) = "event"
          /\ SendsEvent \/ (rep' = rep /\ waiting')
       \/ /\ Answer(Head(req)) \in Replies
          /\ \E e \in Nat : rep' = Append(rep, Packet(Answer(Head(req)), e))

LEMMA ServerDoes ==
    ASSUME TypeOK, ServerStep
    PROVE  /\ thr' = thr /\ lock' = lock
           /\ Takes \/ (SendsEvent /\ req' = req)
<1>1. Taken \in Nat /\ (squeue # <<>> => Head(squeue) \in Nat)
  BY TakenTyped, HeadTailProperties DEF TypeOK
<1>2. CASE GrGetNextEventWrapperFinish
  BY <1>1, <1>2 DEF GrGetNextEventWrapperFinish, SendsEvent
<1>3. CASE GrGetNextEventWrapper
  BY <1>3 DEF GrGetNextEventWrapper, GsHandleClient, Takes, Answer
<1>4. CASE GrCheckNextEventWrapper
  BY <1>1, <1>4 DEF GrCheckNextEventWrapper, GsHandleClient, Takes, SendsEvent, Answer
<1>5. CASE GrPeekEventWrapper
  BY <1>1, <1>5 DEF GrPeekEventWrapper, GsHandleClient, Takes, Answer, Replies, NoEvent
<1>6. CASE QueryWrapper
  BY <1>6 DEF QueryWrapper, GsHandleClient, Takes, Answer, Replies, NoEvent
<1> QED
  BY <1>2, <1>3, <1>4, <1>5, <1>6 DEF ServerStep

LEMMA PacketTyped ==
    ASSUME NEW type \in {"event", "peek", "reply"}, NEW e \in Nat
    PROVE  Packet(type, e) \in Packets /\ Packet(type, e).type = type
BY DEF Packet, Packets

LEMMA EventSent ==
    ASSUME TypeOK, SendsEvent
    PROVE  /\ Answered' = Answered /\ \A i \in Answered : rep'[i] = rep[i]
           /\ rep' # <<>>
<1>1. PICK e \in Nat : rep' = Append(rep, Packet("event", e))
  BY DEF SendsEvent
<1>2. Packet("event", e) \in Packets /\ Packet("event", e).type = "event"
  BY PacketTyped
<1>3. rep' # <<>>
  <2> DEFINE p == Packet("event", e)
  <2>1. p \in Packets /\ rep \in Seq(Packets) /\ rep' = Append(rep, p)
    BY <1>1, <1>2 DEF TypeOK
  <2> HIDE DEF p
  <2> QED
    BY <2>1, AppendProperties
<1> QED
  BY <1>1, <1>2, <1>3, AnsweredAppend

LEMMA AnswerSent ==
    ASSUME AnswerInv, Takes, Answer(Head(req)) \in Replies
    PROVE  /\ 1 \in Asked /\ req[1] = Head(req)
           /\ Asked' = {} /\ Answered' = {Len(rep) + 1}
           /\ rep'[Len(rep) + 1].type = Answer(Head(req))
           /\ rep' # <<>>
<1> USE DEF AnswerInv
<1>1. 1 \in Asked /\ Answered = {} /\ req[1] = Head(req)
  BY AskedTail DEF OneAnswer, Replies, Takes
<1>2. Asked' = {}
  BY <1>1, AskedTail DEF OneAnswer, Takes
<1>3. PICK e \in Nat : rep' = Append(rep, Packet(Answer(Head(req)), e))
  BY DEF Takes, Replies
<1>4. /\ Packet(Answer(Head(req)), e) \in Packets
      /\ Packet(Answer(Head(req)), e).type = Answer(Head(req))
  BY PacketTyped DEF Replies
<1>5. Answered' = {Len(rep) + 1} /\ rep'[Len(rep) + 1].type = Answer(Head(req))
  BY <1>1, <1>3, <1>4, AnsweredAppend DEF Replies
<1>6. rep' # <<>>
  <2> DEFINE p == Packet(Answer(Head(req)), e)
  <2>1. p \in Packets /\ rep \in Seq(Packets) /\ rep' = Append(rep, p)
    BY <1>3, <1>4 DEF TypeOK
  <2> HIDE DEF p
  <2> QED
    BY <2>1, AppendProperties
<1> QED
  BY <1>1, <1>2, <1>5, <1>6

LEMMA ServerKeepsOneAnswer ==
    ASSUME AnswerInv, ServerStep
    PROVE  OneAnswer'
<1> USE DEF AnswerInv
<1>1. \A t \in Threads : ReadsFor(t)' = ReadsFor(t)
  BY ServerDoes DEF ReadsFor
<1>2. CASE SendsEvent /\ req' = req
  <2>1. Asked' = Asked
    BY <1>2 DEF Asked
  <2> QED
    BY <1>1, <1>2, <2>1, EventSent DEF OneAnswer
<1>3. CASE Takes /\ Answer(Head(req)) = "event"
  <2>1. \A i \in Asked' : i + 1 \in Asked /\ req'[i] = req[i + 1] /\ i \in Nat
    BY <1>3, AskedTail DEF Takes
  <2>2. Answered' = Answered /\ \A i \in Answered : rep'[i] = rep[i]
    <3>1. SendsEvent \/ rep' = rep
      BY <1>3 DEF Takes, Replies
    <3> QED
      BY <3>1, EventSent DEF Answered
  <2> QED
    BY <1>1, <2>1, <2>2 DEF OneAnswer
<1>4. CASE Takes /\ Answer(Head(req)) \in Replies
  BY <1>1, <1>4, AnswerSent DEF OneAnswer
<1> QED
  BY <1>2, <1>3, <1>4, ServerDoes DEF Takes

(* A thread asks for one answer at a time, and takes it.                   *)
LEMMA ThreadKeepsOneAnswer ==
    ASSUME AnswerInv, NEW t \in Threads, Does(t)
    PROVE  OneAnswer'
<1> USE DEF AnswerInv
<1>1. \A u \in Threads \ {t} : ReadsFor(u)' = ReadsFor(u)
  BY DEF Does, ReadsFor
<1>2. /\ \A i \in Asked : Answer(req[i]) \in Replies
      /\ \A i \in Answered : rep[i].type \in Replies
  BY DEF Asked, Answered, Places, Answer, Packets, Replies
<1>3. CASE Quiet(t)
  <2>1. Asked' = Asked /\ \A i \in Asked : req'[i] = req[i]
    BY <1>3, AskedAppend DEF Quiet, Asked
  <2>2. \A w \in Replies : (\E u \in Threads : ReadsFor(u) = w) => \E u \in Threads : ReadsFor(u)' = w
    BY <1>1, <1>3 DEF Quiet
  <2>3. Answered' = Answered /\ rep' = rep
    BY <1>3 DEF Quiet, Answered
  <2> QED
    BY <1>2, <2>1, <2>2, <2>3 DEF OneAnswer
<1>4. CASE Asks(t)
  <2>1. Asked = {} /\ Answered = {}
    BY <1>4, OnlyForHolder DEF Asks
  <2>2. Answered' = {}
    BY <1>4, <2>1, AnsweredTail DEF Asks, EventRead, Answered
  <2>3. PICK r \in {"PeekEvent", "Query"} : req' = Append(req, r) /\ ReadsFor(t)' = Answer(r)
    BY <1>4 DEF Asks
  <2>4. r \in Requests /\ Answer(r) # "event"
    BY DEF Requests, Answer
  <2>5. Asked' = {Len(req) + 1} /\ req'[Len(req) + 1] = r
    BY <2>1, <2>3, <2>4, AskedAppend
  <2> QED
    BY <2>2, <2>3, <2>5 DEF OneAnswer
<1>5. CASE Queues
  <2>1. Asked' = Asked /\ req' = req /\ \A u \in Threads : ReadsFor(u)' = ReadsFor(u)
    BY <1>5 DEF Queues, Asked, ReadsFor
  <2>2. /\ \A i \in Answered' : i + 1 \in Answered /\ rep'[i] = rep[i + 1] /\ i \in Nat
    BY <1>5, AnsweredTail DEF Queues, EventRead
  <2> QED
    BY <2>1, <2>2 DEF OneAnswer
<1>6. CASE IsAnswered(t)
  <2>1. CASE ReadsFor(t) \in Replies
    <3>1. 1 \in Answered
      BY <1>6, <2>1, AnsweredTail DEF IsAnswered, Replies
    <3>2. Answered' = {} /\ Asked = {} /\ Asked' = Asked
      BY <1>6, <3>1, AnsweredTail DEF IsAnswered, OneAnswer, Asked
    <3> QED
      BY <3>2 DEF OneAnswer
  <2>2. CASE ReadsFor(t) \notin Replies
    <3>1. thr[t].pc = "read"
      BY <1>6, RepTaken DEF IsAnswered, ReadsFor, Packets
    <3>2. Asked = {} /\ Answered = {}
      BY <2>2, <3>1, OnlyForHolder DEF LockHeld
    <3>3. Answered' = {} /\ Asked' = {}
      BY <1>6, <3>2, AnsweredTail DEF IsAnswered, Asked
    <3> QED
      BY <3>3 DEF OneAnswer
  <2> QED
    BY <2>1, <2>2
<1> QED
  BY <1>3, <1>4, <1>5, <1>6 DEF Does

LEMMA AnswerInvInductive == AnswerInv /\ [Next]_vars => AnswerInv'
<1> SUFFICES ASSUME AnswerInv, [Next]_vars PROVE AnswerInv'
  OBVIOUS
<1> USE DEF AnswerInv
<1>1. TypeOK'
  BY TypesKept
<1>2. CASE ServerStep
  <2>1. LockHeld'
    BY <1>2, ServerDoes DEF LockHeld, ReadsFor
  <2> QED
    BY <1>1, <1>2, <2>1, ServerKeepsOneAnswer
<1>3. ASSUME NEW t \in Threads, Start(t) \/ Continue(t) \/ SelectTimesOut(t) PROVE AnswerInv'
  BY <1>1, <1>3, StartDoes, ContinueDoes, LockHeldKept, ThreadKeepsOneAnswer
<1>4. CASE UNCHANGED <<req, rep, lock, thr>>
  BY <1>1, <1>4 DEF LockHeld, OneAnswer, ReadsFor, Asked, Answered
<1> QED
  BY <1>2, <1>3, <1>4 DEF Next, GsAllocEvent, vars

LEMMA AnswerInvCorrect == Spec => []AnswerInv
<1>1. Init => AnswerInv
  <2> SUFFICES ASSUME Init PROVE LockHeld /\ OneAnswer
    BY InitTyped DEF AnswerInv
  <2>1. \A t \in Threads : thr[t].pc = "idle"
    BY IdleTyped DEF Init
  <2>2. Asked = {} /\ Answered = {}
    BY DEF Init, Asked, Answered, Places
  <2> QED
    BY <2>1, <2>2 DEF LockHeld, OneAnswer
<1> QED
  BY <1>1, AnswerInvInductive, PTL DEF Spec

(* However many threads call the library, none ever meets a packet that is *)
(* neither an event nor what it reads for.                                 *)
THEOREM NoWrongPacketCorrect == Spec => []NoWrongPacket
<1>1. AnswerInv => NoWrongPacket
  <2> SUFFICES ASSUME AnswerInv, NEW t \in Threads, thr[t].pc = "read", rep # <<>>
               PROVE  Head(rep).type \in {thr[t].want, "event"}
    BY DEF NoWrongPacket
  <2>1. CASE Head(rep).type # "event"
    <3>1. 1 \in DOMAIN rep /\ Head(rep) = rep[1] /\ Head(rep) \in Packets
      BY HeadTailProperties, LenProperties, EmptySeq DEF AnswerInv, TypeOK
    <3>2. 1 \in Answered
      BY <2>1, <3>1 DEF Answered, Places
    <3>3. PICK u \in Threads : ReadsFor(u) = Head(rep).type
      BY <3>1, <3>2 DEF AnswerInv, OneAnswer
    <3>4. u = t
      BY <3>1, <3>3 DEF AnswerInv, LockHeld, ReadsFor, Packets
    <3> QED
      BY <3>3, <3>4 DEF ReadsFor
  <2> QED
    BY <2>1
<1> QED
  BY <1>1, AnswerInvCorrect, PTL

-----------------------------------------------------------------------------
(* While a thread reads for an answer it is on its way.                    *)
AnswerComes ==
    \A t \in Threads : ReadsFor(t) \in Replies => Asked # {} \/ Answered # {}

(* The same of a thread that reads for an event, if no other takes it: the *)
(* socket was readable when select returned.                               *)
EventComes ==
    \A t \in Threads :
        /\ ReadsFor(t) = "event" => rep # <<>> \/ req # <<>> \/ waiting
        /\ thr[t].pc = "woken" /\ (thr[t].call # "main" \/ thr[t].sock) => rep # <<>>

LEMMA ServerKeepsComing ==
    ASSUME AnswerInv, AnswerComes, EventComes, ServerStep
    PROVE  AnswerComes' /\ EventComes'
<1> USE DEF AnswerInv
<1>1. thr' = thr /\ \A t \in Threads : ReadsFor(t)' = ReadsFor(t)
  BY ServerDoes DEF ReadsFor
<1>2. CASE SendsEvent
  <2>1. Answered' = Answered /\ rep' # <<>>
    BY <1>2, EventSent
  <2>2. Asked # {} => Asked' # {}
    <3>1. CASE req' = req
      BY <3>1 DEF Asked
    <3>2. CASE Takes /\ Answer(Head(req)) = "event"
      BY <3>2, AskedTail DEF Takes
    <3>3. CASE Takes /\ Answer(Head(req)) \in Replies
      BY <1>2, <2>1, <3>3, AnswerSent DEF OneAnswer
    <3> QED
      BY <3>1, <3>2, <3>3, ServerDoes DEF Takes
  <2> QED
    BY <1>1, <2>1, <2>2 DEF AnswerComes, EventComes
<1>3. CASE Takes /\ Answer(Head(req)) = "event" /\ rep' = rep /\ waiting'
  <2>1. Answered' = Answered
    BY <1>3 DEF Answered
  <2>2. Asked # {} => Asked' # {}
    BY <1>3, AskedTail DEF Takes
  <2> QED
    BY <1>1, <1>3, <2>1, <2>2 DEF AnswerComes, EventComes
<1>4. CASE Takes /\ Answer(Head(req)) \in Replies
  BY <1>1, <1>4, AnswerSent DEF AnswerComes, EventComes
<1> QED
  BY <1>2, <1>3, <1>4, ServerDoes DEF Takes, Replies

LEMMA ThreadKeepsAnswer ==
    ASSUME AnswerInv, AnswerComes, NEW t \in Threads, Does(t)
    PROVE  AnswerComes'
<1> USE DEF AnswerInv
<1>1. \A u \in Threads \ {t} : ReadsFor(u)' = ReadsFor(u)
  BY DEF Does, ReadsFor
<1>2. CASE Quiet(t)
  <2>1. Asked' = Asked /\ Answered' = Answered
    BY <1>2, AskedAppend DEF Quiet, Asked, Answered
  <2> QED
    BY <1>1, <1>2, <2>1 DEF AnswerComes, Quiet
<1>3. CASE Asks(t)
  <2>1. PICK r \in {"PeekEvent", "Query"} : req' = Append(req, r)
    BY <1>3 DEF Asks
  <2>2. r \in Requests /\ Answer(r) # "event"
    BY DEF Requests, Answer
  <2>3. Len(req) + 1 \in Asked'
    BY <2>1, <2>2, AskedAppend
  <2> QED
    BY <2>3 DEF AnswerComes
<1>4. CASE Queues
  <2>1. Asked' = Asked /\ \A u \in Threads : ReadsFor(u)' = ReadsFor(u)
    BY <1>4 DEF Queues, Asked, ReadsFor
  <2>2. Answered # {} => Answered' # {}
    BY <1>4, AnsweredTail DEF Queues, EventRead
  <2> QED
    BY <2>1, <2>2 DEF AnswerComes
<1>5. CASE IsAnswered(t)
  <2>1. thr[t].pc = "read"
    BY <1>5, RepTaken DEF IsAnswered, ReadsFor, Packets
  <2>2. \A u \in Threads \ {t} : ReadsFor(u) = "none"
    BY <2>1 DEF LockHeld, ReadsFor
  <2> QED
    BY <1>1, <1>5, <2>2 DEF AnswerComes, IsAnswered, Replies
<1> QED
  BY <1>2, <1>3, <1>4, <1>5 DEF Does

(* With one thread, what select saw on the socket is there when it reads.  *)
LEMMA ThreadKeepsEvent ==
    ASSUME AnswerInv, EventComes, NEW t \in Threads, Threads = {t},
           Start(t) \/ Continue(t) \/ SelectTimesOut(t)
    PROVE  EventComes'
<1> USE DEF AnswerInv
<1>0. req \in Seq(Requests) /\ rep \in Seq(Packets)
  BY DEF TypeOK
<1> SUFFICES /\ ReadsFor(t)' = "event" => rep' # <<>> \/ req' # <<>> \/ waiting'
             /\ thr'[t].pc = "woken" /\ (thr'[t].call # "main" \/ thr'[t].sock) => rep' # <<>>
  BY DEF EventComes
<1>1. ASSUME NEW r \in Requests PROVE Append(req, r) # <<>>
  BY <1>0, AppendProperties
<1>2. CASE Start(t)
  <2>1. thr[t].pc = "idle"
    BY <1>2, IdleTyped DEF Start, GrGetNextEventTimeout, GrCheckNextEvent, GrPeekEvent,
          GrPeekWaitEvent, Query, GrPrepareSelect, Enter
  <2>2. CASE UNCHANGED thr
    BY <2>1, <2>2 DEF ReadsFor
  <2>3. ASSUME NEW k \in AllCalls, thr' = [thr EXCEPT ![t] = [@ EXCEPT !.pc = "select", !.call = k]]
        PROVE  thr'[t].pc = "select"
    BY <2>3, SelectTyped
  <2>4. CASE Send("CheckNextEvent") /\ Await(t, "check", "event")
    BY <1>1, <2>4, AwaitTyped, SendTyped DEF AllCalls, Requests
  <2>5. CASE Await(t, "peek", "peek") \/ Await(t, "query", "reply")
    BY <2>5, AwaitTyped DEF AllCalls, ReadsFor
  <2>6. ASSUME NEW k \in Calls, GrGetNextEventTimeout(t, k)
        PROVE  UNCHANGED thr \/ thr'[t].pc = "select"
    BY <2>3, <2>6, EventsAssumption DEF GrGetNextEventTimeout
  <2>7. CASE GrPeekWaitEvent(t) \/ GrPrepareSelect(t)
    BY <2>2, <2>3, <2>7 DEF GrPeekWaitEvent, GrPrepareSelect, AllCalls, ReadsFor
  <2> QED
    BY <1>2, <2>2, <2>4, <2>5, <2>6, <2>7, SMTT(30) DEF Start, GrCheckNextEvent, GrPeekEvent, Query, ReadsFor
<1>3. CASE SelectReturns(t)
  BY <1>3, WokenTyped DEF SelectReturns, ReadsFor
<1>4. CASE Relock(t)
  <2>1. rep # <<>> /\ rep' = rep
    BY <1>4 DEF Relock, EventComes
  <2> QED
    BY <2>1
<1>5. CASE GrServiceSelect(t)
  <2>1. rep' = rep /\ thr[t].pc = "woken"
    BY <1>5 DEF GrServiceSelect, At
  <2>2. CASE ServiceInput(t)
    BY <2>2, ServiceTyped DEF ReadsFor
  <2>3. CASE thr[t].sock
    BY <2>1, <2>3 DEF EventComes
  <2> QED
    BY <1>5, <2>2, <2>3 DEF GrServiceSelect
<1>6. CASE QueueEvent(t)
  BY <1>6 DEF QueueEvent, ReadsFor
<1>7. CASE ReadReply(t)
  <2>1. CASE Await(t, "peekwait", "peek")
    BY <2>1, AwaitTyped DEF AllCalls, ReadsFor
  <2>2. CASE ServiceInput(t)
    BY <2>2, ServiceTyped DEF ReadsFor
  <2>3. CASE thr' = [thr EXCEPT ![t] = Idle]
    BY <2>3, IdleTyped DEF ReadsFor, TypeOK
  <2> QED
    BY <1>7, <2>1, <2>2, <2>3 DEF ReadReply
<1>8. CASE SelectTimesOut(t)
  BY <1>8, IdleTyped DEF SelectTimesOut, At, ReadsFor, TypeOK
<1> QED
  BY <1>2, <1>3, <1>4, <1>5, <1>6, <1>7, <1>8 DEF Continue

LEMMA ComingInductive ==
    ASSUME NEW t \in Threads, Threads = {t}
    PROVE  AnswerInv /\ AnswerComes /\ EventComes /\ [Next]_vars => AnswerComes' /\ EventComes'
<1> SUFFICES ASSUME AnswerInv, AnswerComes, EventComes, [Next]_vars
             PROVE  AnswerComes' /\ EventComes'
  OBVIOUS
<1>1. CASE ServerStep
  BY <1>1, ServerKeepsComing
<1>2. CASE Start(t) \/ Continue(t) \/ SelectTimesOut(t)
  BY <1>2, StartDoes, ContinueDoes, ThreadKeepsAnswer, ThreadKeepsEvent DEF AnswerInv
<1>3. CASE UNCHANGED <<req, rep, waiting, thr>>
  BY <1>3 DEF AnswerComes, EventComes, Asked, Answered, ReadsFor
<1> QED
  BY <1>1, <1>2, <1>3 DEF Next, GsAllocEvent, vars

(* An application of one thread never blocks in a read that nobody is      *)
(* going to answer, whatever calls it makes: no call waits for ever with   *)
(* the lock held.  (With two threads it may: the run "threads".)           *)
THEOREM ReadIsAnsweredAlone ==
    ASSUME NEW t \in Threads, Threads = {t}
    PROVE  Spec => []ReadIsAnswered
<1>1. Init => AnswerComes /\ EventComes
  <2> SUFFICES ASSUME Init, NEW u \in Threads PROVE thr[u].pc = "idle"
    BY DEF AnswerComes, EventComes, ReadsFor, Replies
  <2> QED
    BY IdleTyped DEF Init
<1>2. AnswerInv /\ AnswerComes /\ EventComes => ReadIsAnswered
  <2> SUFFICES ASSUME AnswerInv, AnswerComes, EventComes, NEW u \in Threads, thr[u].pc = "read"
               PROVE  rep # <<>> \/ req # <<>> \/ waiting
    BY DEF ReadIsAnswered
  <2>1. CASE ReadsFor(u) = "event"
    BY <2>1 DEF EventComes
  <2>2. CASE ReadsFor(u) \in Replies
    BY <2>2 DEF AnswerComes, Asked, Answered, Places
  <2>3. ReadsFor(u) \in {"event", "peek", "reply"}
    BY DEF AnswerInv, LockHeld, TypeOK, Doing, ReadsFor
  <2> QED
    BY <2>1, <2>2, <2>3 DEF Replies
<1> QED
  BY <1>1, <1>2, ComingInductive, AnswerInvCorrect, PTL DEF Spec

-----------------------------------------------------------------------------
(* The order of events on their way, a the library's list, b the socket    *)
(* and c the server's queue, after n have been queued.                     *)
Ordered(s) ==
    \A i, j \in DOMAIN s : i < j /\ s[i] # NoEvent /\ s[j] # NoEvent => s[i] < s[j]

Earlier(S, T) == \A d \in S, e \in T : d # NoEvent /\ e # NoEvent => d < e

OnTheWay(a, b, c) == ToSet(a) \cup ToSet(b) \cup ToSet(c)

ForUs(S) == S \ (WmEvents \cup {NoEvent})

WayInOrder(a, b, c, n) ==
    /\ Ordered(a) /\ Ordered(b) /\ Ordered(c)
    /\ Earlier(ToSet(a), ToSet(b)) /\ Earlier(ToSet(a), ToSet(c)) /\ Earlier(ToSet(b), ToSet(c))
    /\ \A e \in OnTheWay(a, b, c) : e <= n
    /\ NoEvent \notin ToSet(c)
    /\ (ToSet(a) \cup ToSet(b)) \cap WmEvents = {}

First(e, S) == e \in S /\ \A d \in S : e <= d

LEMMA AppendSet ==
    ASSUME NEW s \in Seq(Nat), NEW e \in Nat
    PROVE  ToSet(Append(s, e)) = ToSet(s) \cup {e}
<1>1. /\ Len(s) \in Nat /\ DOMAIN s = 1 .. Len(s)
      /\ DOMAIN Append(s, e) = 1 .. Len(s) + 1
  BY AppendProperties, LenProperties
<1>2. /\ \A i \in 1 .. Len(s) : Append(s, e)[i] = s[i]
      /\ Append(s, e)[Len(s) + 1] = e
  BY AppendProperties
<1>3. \A i \in 1 .. Len(s) + 1 : i \in 1 .. Len(s) \/ i = Len(s) + 1
  BY <1>1
<1>4. \A i \in 1 .. Len(s) : i \in 1 .. Len(s) + 1
  BY <1>1
<1>5. Len(s) + 1 \in 1 .. Len(s) + 1
  BY <1>1
<1> QED
  BY <1>1, <1>2, <1>3, <1>4, <1>5 DEF ToSet

LEMMA TailSet ==
    ASSUME NEW s \in Seq(Nat), s # <<>>
    PROVE  /\ Head(s) \in Nat /\ Tail(s) \in Seq(Nat)
           /\ ToSet(s) = ToSet(Tail(s)) \cup {Head(s)}
<1>1. /\ Len(s) \in Nat \ {0} /\ DOMAIN s = 1 .. Len(s)
      /\ Tail(s) \in Seq(Nat) /\ Head(s) \in Nat
      /\ DOMAIN Tail(s) = 1 .. Len(s) - 1
  BY HeadTailProperties, LenProperties, EmptySeq
<1>2. \A i \in 1 .. Len(s) - 1 : Tail(s)[i] = s[i + 1]
  BY HeadTailProperties
<1>3. Head(s) = s[1]
  OBVIOUS
<1>4. ASSUME NEW i \in 1 .. Len(s) PROVE i = 1 \/ (i - 1 \in 1 .. Len(s) - 1 /\ s[i] = Tail(s)[i - 1])
  <2>1. i = 1 \/ (i - 1 \in 1 .. Len(s) - 1 /\ (i - 1) + 1 = i)
    BY <1>1
  <2> QED
    BY <1>2, <2>1
<1>5. \A i \in 1 .. Len(s) - 1 : i + 1 \in 1 .. Len(s)
  BY <1>1
<1>6. 1 \in 1 .. Len(s)
  BY <1>1
<1>7. ASSUME NEW d \in ToSet(s) PROVE d \in ToSet(Tail(s)) \cup {Head(s)}
  <2>1. PICK i \in 1 .. Len(s) : d = s[i]
    BY <1>1 DEF ToSet
  <2>2. CASE i = 1
    BY <1>3, <2>1, <2>2
  <2>3. CASE i # 1
    BY <1>1, <1>4, <2>1, <2>3 DEF ToSet
  <2> QED
    BY <2>2, <2>3
<1>8. ToSet(Tail(s)) \cup {Head(s)} \subseteq ToSet(s)
  BY <1>1, <1>2, <1>3, <1>5, <1>6 DEF ToSet
<1> QED
  BY <1>1, <1>7, <1>8

LEMMA SetOfNats == ASSUME NEW s \in Seq(Nat) PROVE ToSet(s) \subseteq Nat
BY DEF ToSet

LEMMA AppendOrdered ==
    ASSUME NEW s \in Seq(Nat), NEW e \in Nat, Ordered(s), Earlier(ToSet(s), {e})
    PROVE  Ordered(Append(s, e))
<1>1. /\ Len(s) \in Nat /\ DOMAIN s = 1 .. Len(s)
      /\ DOMAIN Append(s, e) = 1 .. Len(s) + 1
  BY AppendProperties, LenProperties
<1>2. /\ \A i \in 1 .. Len(s) : Append(s, e)[i] = s[i]
      /\ Append(s, e)[Len(s) + 1] = e
  BY AppendProperties
<1> SUFFICES ASSUME NEW i \in 1 .. Len(s) + 1, NEW j \in 1 .. Len(s) + 1, i < j,
                    Append(s, e)[i] # NoEvent, Append(s, e)[j] # NoEvent
             PROVE  Append(s, e)[i] < Append(s, e)[j]
  BY <1>1 DEF Ordered
<1>3. i \in 1 .. Len(s) /\ Append(s, e)[i] = s[i]
  BY <1>1, <1>2
<1>4. CASE j = Len(s) + 1
  <2>1. s[i] \in ToSet(s)
    BY <1>1, <1>3 DEF ToSet
  <2> QED
    BY <1>2, <1>3, <1>4, <2>1 DEF Earlier
<1>5. CASE j # Len(s) + 1
  <2>1. j \in 1 .. Len(s) /\ Append(s, e)[j] = s[j]
    BY <1>1, <1>2, <1>5
  <2> QED
    BY <1>1, <1>3, <2>1 DEF Ordered
<1> QED
  BY <1>4, <1>5

LEMMA TailOrdered ==
    ASSUME NEW s \in Seq(Nat), s # <<>>, Ordered(s)
    PROVE  Ordered(Tail(s)) /\ Earlier({Head(s)}, ToSet(Tail(s)))
<1>1. /\ Len(s) \in Nat \ {0} /\ DOMAIN s = 1 .. Len(s)
      /\ DOMAIN Tail(s) = 1 .. Len(s) - 1
  BY HeadTailProperties, LenProperties, EmptySeq
<1>2. \A i \in 1 .. Len(s) - 1 : Tail(s)[i] = s[i + 1]
  BY HeadTailProperties
<1>3. Head(s) = s[1]
  OBVIOUS
<1>4. \A i \in 1 .. Len(s) - 1 : i + 1 \in 1 .. Len(s) /\ 1 < i + 1 /\ 1 \in 1 .. Len(s)
  BY <1>1
<1>5. \A i, j \in 1 .. Len(s) - 1 : i < j => i + 1 < j + 1
  BY <1>1
<1>6. Ordered(Tail(s))
  BY <1>1, <1>2, <1>4, <1>5 DEF Ordered
<1>7. ASSUME NEW d \in ToSet(Tail(s)), Head(s) # NoEvent, d # NoEvent PROVE Head(s) < d
  <2>1. PICK i \in 1 .. Len(s) - 1 : d = s[i + 1]
    BY <1>1, <1>2 DEF ToSet
  <2> QED
    BY <1>1, <1>3, <1>4, <1>7, <2>1 DEF Ordered
<1> QED
  BY <1>6, <1>7 DEF Earlier

-----------------------------------------------------------------------------
(* The five ways an event moves on.                                        *)
LEMMA PostedInOrder ==
    ASSUME NEW a \in Seq(Nat), NEW b \in Seq(Nat), NEW c \in Seq(Nat), NEW n \in Nat,
           WayInOrder(a, b, c, n)
    PROVE  /\ WayInOrder(a, b, Append(c, n + 1), n + 1)
           /\ OnTheWay(a, b, Append(c, n + 1)) = OnTheWay(a, b, c) \cup {n + 1}
<1>1. ToSet(Append(c, n + 1)) = ToSet(c) \cup {n + 1}
  BY AppendSet
<1>2. OnTheWay(a, b, c) \subseteq Nat
  BY SetOfNats DEF OnTheWay
<1>3. \A e \in OnTheWay(a, b, c) : e < n + 1 /\ e <= n + 1
  BY <1>2 DEF WayInOrder
<1>4. Ordered(Append(c, n + 1))
  BY <1>3, AppendOrdered DEF WayInOrder, OnTheWay, Earlier
<1> QED
  BY <1>1, <1>3, <1>4 DEF WayInOrder, OnTheWay, Earlier, NoEvent

(* Freed from the queue, when a later event supersedes it.                 *)
LEMMA FreedSet ==
    ASSUME NEW c \in Seq(Nat), NEW i \in DOMAIN c, Ordered(c), NoEvent \notin ToSet(c)
    PROVE  /\ RemoveAt(c, i) \in Seq(Nat) /\ Ordered(RemoveAt(c, i))
           /\ ToSet(RemoveAt(c, i)) = ToSet(c) \ {c[i]}
<1> DEFINE r == RemoveAt(c, i)
           From(j) == IF j < i THEN j ELSE j + 1
<1>1. Len(c) \in Nat /\ DOMAIN c = 1..Len(c) /\ i \in 1..Len(c)
  BY LenProperties, SMTT(60)
<1>2. /\ r \in Seq(Nat) /\ Len(r) = Len(c) - 1
      /\ \A j \in 1..(Len(c) - 1) : r[j] = c[From(j)]
  BY <1>1, Shortened
<1> HIDE DEF r
<1>3. DOMAIN r = 1..(Len(c) - 1)
  BY <1>2, LenProperties
<1>4. /\ \A j \in 1..(Len(c) - 1) : From(j) \in 1..Len(c) /\ From(j) # i
      /\ \A j, k \in 1..(Len(c) - 1) : j < k => From(j) < From(k)
      /\ \A k \in 1..Len(c) \ {i} : \E j \in 1..(Len(c) - 1) : From(j) = k
  <2>1. ASSUME NEW k \in 1..Len(c) \ {i} PROVE \E j \in 1..(Len(c) - 1) : From(j) = k
    <3>1. CASE k < i
      <4>1. k \in 1..(Len(c) - 1) /\ From(k) = k
        BY <1>1, <3>1
      <4> QED
        BY <4>1
    <3>2. CASE ~(k < i)
      <4>1. k - 1 \in 1..(Len(c) - 1) /\ From(k - 1) = k
        BY <1>1, <3>2
      <4> QED
        BY <4>1
    <3> QED
      BY <3>1, <3>2
  <2> QED
    BY <1>1, <2>1, SMTT(60)
<1> HIDE DEF From
<1>5. \A j \in 1..Len(c) : c[j] # NoEvent
  BY <1>1 DEF ToSet
<1>6. Ordered(r)
  BY <1>1, <1>2, <1>3, <1>4 DEF Ordered
<1>7. \A j, k \in 1..Len(c) : j # k => c[j] # c[k]
  <2>1. \A j, k \in 1..Len(c) : j < k => c[j] < c[k]
    BY <1>1, <1>5 DEF Ordered
  <2>2. \A j \in 1..Len(c) : c[j] \in Nat
    BY <1>1, ElementOfSeq
  <2> SUFFICES ASSUME NEW j \in 1..Len(c), NEW k \in 1..Len(c), j # k PROVE c[j] # c[k]
    OBVIOUS
  <2>3. j < k \/ k < j
    OBVIOUS
  <2> QED
    BY <2>1, <2>2, <2>3
<1>8. ASSUME NEW e \in ToSet(r) PROVE e \in ToSet(c) \ {c[i]}
  <2>1. PICK j \in 1..(Len(c) - 1) : e = r[j]
    BY <1>3, <1>8 DEF ToSet
  <2>2. e = c[From(j)] /\ From(j) \in 1..Len(c) /\ From(j) # i
    BY <1>2, <1>4, <2>1
  <2> QED
    BY <1>1, <1>7, <2>2 DEF ToSet
<1>9. ASSUME NEW e \in ToSet(c) \ {c[i]} PROVE e \in ToSet(r)
  <2>1. PICK k \in 1..Len(c) : e = c[k] /\ k # i
    BY <1>1, <1>9 DEF ToSet
  <2>2. PICK j \in 1..(Len(c) - 1) : From(j) = k
    BY <1>4, <2>1
  <2> QED
    BY <1>2, <1>3, <2>1, <2>2 DEF ToSet
<1>10. ToSet(r) = ToSet(c) \ {c[i]}
  BY <1>8, <1>9
<1> QED
  BY <1>2, <1>6, <1>10 DEF r

LEMMA FreedInOrder ==
    ASSUME NEW a \in Seq(Nat), NEW b \in Seq(Nat), NEW c \in Seq(Nat), NEW n \in Nat,
           WayInOrder(a, b, c, n), NEW i \in DOMAIN c
    PROVE  /\ RemoveAt(c, i) \in Seq(Nat) /\ WayInOrder(a, b, RemoveAt(c, i), n)
           /\ OnTheWay(a, b, RemoveAt(c, i)) = OnTheWay(a, b, c) \ {c[i]}
<1>1. /\ RemoveAt(c, i) \in Seq(Nat) /\ Ordered(RemoveAt(c, i))
      /\ ToSet(RemoveAt(c, i)) = ToSet(c) \ {c[i]}
  BY FreedSet DEF WayInOrder
<1>2. c[i] \in ToSet(c) /\ c[i] # NoEvent /\ c[i] \in Nat
  BY ElementOfSeq, SetOfNats DEF ToSet, WayInOrder
<1>3. c[i] \notin ToSet(a) /\ c[i] \notin ToSet(b)
  <2>1. ~(c[i] < c[i])
    BY <1>2
  <2> QED
    BY <1>2, <2>1 DEF WayInOrder, Earlier
<1>4. WayInOrder(a, b, RemoveAt(c, i), n)
  BY <1>1 DEF WayInOrder, Earlier, OnTheWay
<1> QED
  BY <1>1, <1>3, <1>4 DEF OnTheWay

(* From the queue to the socket, as no event if the window manager keeps it.*)
LEMMA SentInOrder ==
    ASSUME NEW a \in Seq(Nat), NEW b \in Seq(Nat), NEW c \in Seq(Nat), NEW n \in Nat,
           WayInOrder(a, b, c, n), c # <<>>, NEW e \in Nat,
           e = IF Head(c) \in WmEvents THEN NoEvent ELSE Head(c)
    PROVE  /\ WayInOrder(a, Append(b, e), Tail(c), n)
           /\ ForUs(OnTheWay(a, Append(b, e), Tail(c))) = ForUs(OnTheWay(a, b, c))
<1>1. ToSet(Append(b, e)) = ToSet(b) \cup {e}
  BY AppendSet
<1>2. ToSet(c) = ToSet(Tail(c)) \cup {Head(c)}
  BY TailSet
<1>3. Ordered(Tail(c)) /\ Earlier({Head(c)}, ToSet(Tail(c)))
  BY TailOrdered DEF WayInOrder
<1>4. Ordered(Append(b, e))
  <2>1. Earlier(ToSet(b), {e})
    BY <1>2 DEF WayInOrder, Earlier
  <2> QED
    BY <2>1, AppendOrdered DEF WayInOrder
<1>5. e <= n
  BY <1>2 DEF WayInOrder, OnTheWay, NoEvent
<1>6. WayInOrder(a, Append(b, e), Tail(c), n)
  <2>1. /\ Earlier(ToSet(a), ToSet(b) \cup {e}) /\ Earlier(ToSet(a), ToSet(Tail(c)))
        /\ Earlier(ToSet(b) \cup {e}, ToSet(Tail(c)))
    BY <1>2, <1>3 DEF WayInOrder, Earlier
  <2>2. (ToSet(a) \cup ToSet(b) \cup {e}) \cap WmEvents = {}
    BY EventsAssumption DEF WayInOrder, NoEvent
  <2>3. \A d \in ToSet(a) \cup (ToSet(b) \cup {e}) \cup ToSet(Tail(c)) : d <= n
    BY <1>2, <1>5 DEF WayInOrder, OnTheWay
  <2> QED
    BY <1>1, <1>2, <1>3, <1>4, <2>1, <2>2, <2>3 DEF WayInOrder, OnTheWay
<1> QED
  BY <1>1, <1>2, <1>6 DEF OnTheWay, ForUs

LEMMA NothingSentInOrder ==
    ASSUME NEW a \in Seq(Nat), NEW b \in Seq(Nat), NEW c \in Seq(Nat), NEW n \in Nat,
           WayInOrder(a, b, c, n)
    PROVE  /\ WayInOrder(a, Append(b, NoEvent), c, n)
           /\ ForUs(OnTheWay(a, Append(b, NoEvent), c)) = ForUs(OnTheWay(a, b, c))
<1>0. NoEvent \in Nat /\ NoEvent <= n /\ NoEvent \notin WmEvents
  BY EventsAssumption DEF NoEvent
<1>1. ToSet(Append(b, NoEvent)) = ToSet(b) \cup {NoEvent}
  BY <1>0, AppendSet
<1>2. Ordered(Append(b, NoEvent))
  BY <1>0, AppendOrdered DEF WayInOrder, Earlier
<1>3. WayInOrder(a, Append(b, NoEvent), c, n)
  BY <1>0, <1>1, <1>2 DEF WayInOrder, Earlier, OnTheWay
<1> QED
  BY <1>1, <1>3 DEF OnTheWay, ForUs

(* From the socket to the list.                                            *)
LEMMA ListedInOrder ==
    ASSUME NEW a \in Seq(Nat), NEW b \in Seq(Nat), NEW c \in Seq(Nat), NEW n \in Nat,
           WayInOrder(a, b, c, n), b # <<>>
    PROVE  /\ WayInOrder(Append(a, Head(b)), Tail(b), c, n)
           /\ OnTheWay(Append(a, Head(b)), Tail(b), c) = OnTheWay(a, b, c)
<1>1. ToSet(b) = ToSet(Tail(b)) \cup {Head(b)} /\ Head(b) \in Nat
  BY TailSet
<1>2. ToSet(Append(a, Head(b))) = ToSet(a) \cup {Head(b)}
  BY <1>1, AppendSet
<1>3. Ordered(Tail(b)) /\ Earlier({Head(b)}, ToSet(Tail(b)))
  BY TailOrdered DEF WayInOrder
<1>4. Ordered(Append(a, Head(b)))
  <2>1. Earlier(ToSet(a), {Head(b)})
    BY <1>1 DEF WayInOrder, Earlier
  <2> QED
    BY <1>1, <2>1, AppendOrdered DEF WayInOrder
<1>5. OnTheWay(Append(a, Head(b)), Tail(b), c) = OnTheWay(a, b, c)
  BY <1>1, <1>2 DEF OnTheWay
<1> QED
  BY <1>1, <1>2, <1>3, <1>4, <1>5 DEF WayInOrder, Earlier

(* From the list to the application: the first one.                        *)
LEMMA HandedInOrder ==
    ASSUME NEW a \in Seq(Nat), NEW b \in Seq(Nat), NEW c \in Seq(Nat), NEW n \in Nat,
           WayInOrder(a, b, c, n), a # <<>>
    PROVE  /\ WayInOrder(Tail(a), b, c, n)
           /\ Head(a) = NoEvent =>
                 ForUs(OnTheWay(Tail(a), b, c)) = ForUs(OnTheWay(a, b, c))
           /\ Head(a) # NoEvent =>
                 /\ First(Head(a), ForUs(OnTheWay(a, b, c)))
                 /\ ForUs(OnTheWay(Tail(a), b, c)) = ForUs(OnTheWay(a, b, c)) \ {Head(a)}
<1>1. ToSet(a) = ToSet(Tail(a)) \cup {Head(a)} /\ Head(a) \in Nat
  BY TailSet
<1>2. Ordered(Tail(a)) /\ Earlier({Head(a)}, ToSet(Tail(a)))
  BY TailOrdered DEF WayInOrder
<1>3. WayInOrder(Tail(a), b, c, n)
  BY <1>1, <1>2 DEF WayInOrder, Earlier, OnTheWay
<1>4. CASE Head(a) = NoEvent
  BY <1>1, <1>3, <1>4 DEF OnTheWay, ForUs
<1>5. CASE Head(a) # NoEvent
  <2>1. ASSUME NEW d \in ToSet(Tail(a)) \cup ToSet(b) \cup ToSet(c), d # NoEvent
        PROVE  Head(a) < d /\ d \in Nat
    BY <1>1, <1>2, <1>5, <2>1, TailSet, SetOfNats DEF WayInOrder, Earlier
  <2>2. First(Head(a), ForUs(OnTheWay(a, b, c)))
    BY <1>1, <1>5, <2>1 DEF First, OnTheWay, ForUs, WayInOrder
  <2>3. Head(a) \notin ForUs(OnTheWay(Tail(a), b, c))
    BY <1>1, <2>1 DEF OnTheWay, ForUs
  <2>4. ForUs(OnTheWay(Tail(a), b, c)) = ForUs(OnTheWay(a, b, c)) \ {Head(a)}
    BY <1>1, <2>3 DEF OnTheWay, ForUs
  <2> QED
    BY <1>3, <1>5, <2>2, <2>4
<1> QED
  BY <1>4, <1>5

-----------------------------------------------------------------------------
(* The socket as a sequence of events.                                     *)
Carries(p) == IF p.type = "event" THEN p.ev ELSE NoEvent

LEMMA CarriesTyped == ASSUME NEW p \in Packets PROVE Carries(p) \in Nat
BY DEF Carries, Packets, NoEvent

LEMMA SocketTyped == ASSUME TypeOK PROVE OnSocket \in Seq(Nat) /\ Len(OnSocket) = Len(rep)
<1>1. rep \in Seq(Packets) /\ Len(rep) \in Nat /\ DOMAIN rep = 1 .. Len(rep)
  BY LenProperties DEF TypeOK
<1>2. \A i \in 1 .. Len(rep) : rep[i] \in Packets /\ Carries(rep[i]) \in Nat
  BY <1>1, ElementOfSeq, CarriesTyped
<1>3. OnSocket = [i \in 1 .. Len(rep) |-> Carries(rep[i])]
  BY <1>1 DEF OnSocket, Carries
<1> QED
  BY <1>1, <1>2, <1>3

LEMMA SocketAppend ==
    ASSUME TypeOK, NEW p \in Packets, rep' = Append(rep, p)
    PROVE  OnSocket' = Append(OnSocket, Carries(p))
<1>1. rep \in Seq(Packets) /\ rep' \in Seq(Packets) /\ Carries(p) \in Nat
  BY AppendProperties DEF TypeOK, Carries, Packets, NoEvent
<1>2. /\ Len(rep) \in Nat /\ DOMAIN rep = 1 .. Len(rep)
      /\ Len(rep') = Len(rep) + 1 /\ DOMAIN rep' = 1 .. Len(rep) + 1
  BY <1>1, AppendProperties, LenProperties
<1>3. /\ \A i \in 1 .. Len(rep) : rep'[i] = rep[i]
      /\ rep'[Len(rep) + 1] = p
  BY <1>1, AppendProperties
<1>4. OnSocket \in Seq(Nat) /\ Len(OnSocket) = Len(rep)
  BY SocketTyped
<1>5. /\ Append(OnSocket, Carries(p)) \in Seq(Nat)
      /\ Len(Append(OnSocket, Carries(p))) = Len(rep) + 1
      /\ \A i \in 1 .. Len(rep) : Append(OnSocket, Carries(p))[i] = OnSocket[i]
      /\ Append(OnSocket, Carries(p))[Len(rep) + 1] = Carries(p)
  BY <1>1, <1>4, AppendProperties
<1>6. OnSocket' = [i \in 1 .. Len(rep) + 1 |-> Carries(rep'[i])]
  BY <1>2 DEF OnSocket, Carries
<1>7. \A i \in 1 .. Len(rep) : OnSocket[i] = Carries(rep[i])
  BY <1>2 DEF OnSocket, Carries
<1>8. /\ OnSocket' \in Seq(Nat) /\ Len(OnSocket') = Len(rep) + 1
  <2>1. \A i \in 1 .. Len(rep) + 1 : rep'[i] \in Packets /\ Carries(rep'[i]) \in Nat
    BY <1>1, <1>2, ElementOfSeq, CarriesTyped
  <2> QED
    BY <1>2, <1>6, <2>1
<1>9. \A i \in 1 .. Len(rep) + 1 : OnSocket'[i] = Append(OnSocket, Carries(p))[i]
  <2> TAKE i \in 1 .. Len(rep) + 1
  <2>1. i \in 1 .. Len(rep) \/ i = Len(rep) + 1
    BY <1>2
  <2> QED
    BY <1>3, <1>5, <1>6, <1>7, <2>1
<1> QED
  BY <1>5, <1>8, <1>9, SeqEqual

LEMMA SocketTail ==
    ASSUME TypeOK, rep # <<>>, rep' = Tail(rep)
    PROVE  /\ OnSocket # <<>> /\ Head(OnSocket) = Carries(Head(rep))
           /\ OnSocket' = Tail(OnSocket)
<1>1. rep \in Seq(Packets) /\ rep' \in Seq(Packets)
  BY HeadTailProperties DEF TypeOK
<1>2. /\ Len(rep) \in Nat \ {0} /\ DOMAIN rep = 1 .. Len(rep)
      /\ Len(rep') = Len(rep) - 1 /\ DOMAIN rep' = 1 .. Len(rep) - 1
  BY <1>1, HeadTailProperties, LenProperties, EmptySeq
<1>3. \A i \in 1 .. Len(rep) - 1 : rep'[i] = rep[i + 1]
  BY <1>1, <1>2, HeadTailProperties
<1>4. OnSocket \in Seq(Nat) /\ Len(OnSocket) = Len(rep) /\ OnSocket # <<>>
  BY <1>2, SocketTyped
<1>5. /\ Tail(OnSocket) \in Seq(Nat) /\ Len(Tail(OnSocket)) = Len(rep) - 1
      /\ \A i \in 1 .. Len(rep) - 1 : Tail(OnSocket)[i] = OnSocket[i + 1]
  BY <1>4, HeadTailProperties
<1>6. OnSocket' = [i \in 1 .. Len(rep) - 1 |-> Carries(rep'[i])]
  BY <1>2 DEF OnSocket, Carries
<1>7. \A i \in 1 .. Len(rep) : OnSocket[i] = Carries(rep[i])
  BY <1>2 DEF OnSocket, Carries
<1>8. OnSocket' \in Seq(Nat) /\ Len(OnSocket') = Len(rep) - 1
  <2>1. \A i \in 1 .. Len(rep) - 1 : rep'[i] \in Packets /\ Carries(rep'[i]) \in Nat
    BY <1>1, <1>2, ElementOfSeq, CarriesTyped
  <2>2. Len(rep) - 1 \in Nat
    BY <1>2
  <2> QED
    BY <1>6, <2>1, <2>2
<1>9. \A i \in 1 .. Len(rep) - 1 : OnSocket'[i] = Tail(OnSocket)[i] /\ i + 1 \in 1 .. Len(rep)
  BY <1>2, <1>3, <1>5, <1>6, <1>7
<1>10. OnSocket' = Tail(OnSocket)
  BY <1>5, <1>8, <1>9, SeqEqual
<1>11. Head(OnSocket) = OnSocket[1] /\ Head(rep) = rep[1] /\ 1 \in 1 .. Len(rep)
  BY <1>2
<1> QED
  BY <1>4, <1>7, <1>10, <1>11

-----------------------------------------------------------------------------
(* The refinement of EventFifo, for an application of one thread.  It      *)
(* reads an event from the socket only while its list is empty.            *)
WayInv == WayInOrder(evlist, OnSocket, squeue, posted)

ListEmpty ==
    \A t \in Threads :
        \/ thr[t].pc \in {"select", "woken"} /\ thr[t].call # "main"
        \/ ReadsFor(t) = "event"
        => evlist = <<>>

Peeks(t) == thr[t].call = "peekwait" /\ thr[t].want # "peek"

(* How the promise sees a step: nothing happens to the events, or the      *)
(* first is handed over, or it is lost.                                    *)
NothingMoves == Pending' = Pending /\ got' = got

FirstIs(e) == First(e, Pending) /\ Pending' = Pending \ {e}

FirstHanded == \E e : FirstIs(e) /\ got' = Append(got, e)

LEMMA PendingIs == Pending = ForUs(OnTheWay(evlist, OnSocket, squeue))
BY DEF Pending, ForUs, OnTheWay

LEMMA NothingOnTheWay ==
    ASSUME WayInv, UNCHANGED <<evlist, rep, squeue, posted>>
    PROVE  WayInv' /\ Pending' = Pending
<1>1. OnSocket' = OnSocket
  BY DEF OnSocket
<1> QED
  BY <1>1 DEF WayInv, Pending

LEMMA ServerInOrder ==
    ASSUME TypeOK, WayInv, ServerStep
    PROVE  WayInv' /\ NothingMoves /\ posted' = posted
<1> USE DEF NothingMoves
<1>0. /\ evlist \in Seq(Nat) /\ squeue \in Seq(Nat) /\ posted \in Nat /\ OnSocket \in Seq(Nat)
      /\ NoEvent \in Nat
  BY SocketTyped DEF TypeOK, NoEvent
<1>1. evlist' = evlist /\ got' = got /\ posted' = posted
  BY DEF ServerStep, GrGetNextEventWrapperFinish, GrGetNextEventWrapper, GsHandleClient,
         GrCheckNextEventWrapper, GrPeekEventWrapper, QueryWrapper
<1>2. Taken \in Nat /\ (squeue # <<>> => Head(squeue) \in Nat)
  BY TakenTyped, HeadTailProperties DEF TypeOK
<1>3. ASSUME NEW type \in {"event", "peek", "reply"}, NEW e \in Nat, rep' = Append(rep, Packet(type, e))
      PROVE  OnSocket' = Append(OnSocket, IF type = "event" THEN e ELSE NoEvent)
  <2>1. /\ Packet(type, e) \in Packets
        /\ Carries(Packet(type, e)) = IF type = "event" THEN e ELSE NoEvent
    BY DEF Packet, Packets, Carries
  <2> QED
    BY <1>3, <2>1, SocketAppend
<1>4. CASE rep' = Append(rep, Packet("event", Taken)) /\ squeue' = Rest
  <2>1. OnSocket' = Append(OnSocket, Taken)
    BY <1>2, <1>3, <1>4
  <2>2. CASE squeue = <<>>
    <3>1. Taken = NoEvent /\ squeue' = squeue
      BY <1>4, <2>2 DEF Taken, Rest
    <3> QED
      BY <1>0, <1>1, <2>1, <3>1, NothingSentInOrder, PendingIs DEF WayInv, Pending, ForUs, OnTheWay
  <2>3. CASE squeue # <<>>
    <3>1. Taken = (IF Head(squeue) \in WmEvents THEN NoEvent ELSE Head(squeue)) /\ squeue' = Tail(squeue)
      BY <1>4, <2>3 DEF Taken, Rest
    <3>2. /\ WayInOrder(evlist, Append(OnSocket, Taken), Tail(squeue), posted)
          /\ ForUs(OnTheWay(evlist, Append(OnSocket, Taken), Tail(squeue)))
                = ForUs(OnTheWay(evlist, OnSocket, squeue))
      BY <1>0, <1>2, <2>3, <3>1, SentInOrder DEF WayInv
    <3> QED
      BY <1>1, <2>1, <3>1, <3>2 DEF WayInv, Pending, ForUs, OnTheWay
  <2> QED
    BY <2>2, <2>3
<1>5. CASE /\ \E type \in {"peek", "reply"}, e \in Nat : rep' = Append(rep, Packet(type, e))
           /\ squeue' = squeue
  <2>1. OnSocket' = Append(OnSocket, NoEvent)
    BY <1>3, <1>5
  <2> QED
    BY <1>0, <1>1, <1>5, <2>1, NothingSentInOrder DEF WayInv, Pending, ForUs, OnTheWay
<1>6. CASE GrGetNextEventWrapperFinish
  BY <1>4, <1>6 DEF GrGetNextEventWrapperFinish
<1>7. CASE GrGetNextEventWrapper
  BY <1>1, <1>7, NothingOnTheWay DEF GrGetNextEventWrapper
<1>8. CASE GrCheckNextEventWrapper
  BY <1>4, <1>8 DEF GrCheckNextEventWrapper
<1>9. CASE GrPeekEventWrapper
  BY <1>0, <1>2, <1>5, <1>9 DEF GrPeekEventWrapper
<1>10. CASE QueryWrapper
  BY <1>0, <1>5, <1>10 DEF QueryWrapper
<1> QED
  BY <1>6, <1>7, <1>8, <1>9, <1>10, NothingOnTheWay DEF ServerStep, GrGetNextEventWrapper

LEMMA ListHanded ==
    ASSUME TypeOK, WayInv, evlist # <<>>, Hand(Head(evlist)), evlist' = Tail(evlist),
           UNCHANGED <<rep, squeue, posted>>
    PROVE  WayInv' /\ (NothingMoves \/ FirstHanded)
<1>0. evlist \in Seq(Nat) /\ squeue \in Seq(Nat) /\ posted \in Nat /\ OnSocket \in Seq(Nat)
  BY SocketTyped DEF TypeOK
<1>1. OnSocket' = OnSocket
  BY DEF OnSocket
<1>2. /\ WayInOrder(Tail(evlist), OnSocket, squeue, posted)
      /\ Head(evlist) = NoEvent =>
            ForUs(OnTheWay(Tail(evlist), OnSocket, squeue)) = ForUs(OnTheWay(evlist, OnSocket, squeue))
      /\ Head(evlist) # NoEvent =>
            /\ First(Head(evlist), ForUs(OnTheWay(evlist, OnSocket, squeue)))
            /\ ForUs(OnTheWay(Tail(evlist), OnSocket, squeue))
                 = ForUs(OnTheWay(evlist, OnSocket, squeue)) \ {Head(evlist)}
  BY <1>0, HandedInOrder DEF WayInv
<1>3. Pending' = ForUs(OnTheWay(Tail(evlist), OnSocket, squeue))
  BY <1>1 DEF Pending, ForUs, OnTheWay
<1> QED
  BY <1>1, <1>2, <1>3, PendingIs DEF WayInv, NothingMoves, FirstHanded, FirstIs, Hand

(* The same of an event that is read while the list is empty.              *)
LEMMA SocketRead ==
    ASSUME TypeOK, WayInv, evlist = <<>>, rep # <<>>, Head(rep).type = "event",
           rep' = Tail(rep), UNCHANGED <<evlist, squeue, posted>>
    PROVE  /\ WayInv'
           /\ Head(rep).ev = NoEvent => Pending' = Pending
           /\ Head(rep).ev # NoEvent => FirstIs(Head(rep).ev)
<1> DEFINE e == Head(rep).ev
<1>0. evlist \in Seq(Nat) /\ squeue \in Seq(Nat) /\ posted \in Nat /\ OnSocket \in Seq(Nat)
  BY SocketTyped DEF TypeOK
<1>1. /\ OnSocket # <<>> /\ Head(OnSocket) = e /\ OnSocket' = Tail(OnSocket)
      /\ e \in Nat /\ Tail(OnSocket) \in Seq(Nat)
  BY <1>0, SocketTail, RepTaken, TailSet DEF Carries
<1> HIDE DEF e
<1> DEFINE x == Append(evlist, e)
<1>2. /\ WayInOrder(x, Tail(OnSocket), squeue, posted)
      /\ OnTheWay(x, Tail(OnSocket), squeue) = OnTheWay(evlist, OnSocket, squeue)
  BY <1>0, <1>1, ListedInOrder, Zenon DEF WayInv
<1>3. x \in Seq(Nat) /\ x # <<>>
  BY <1>0, <1>1, AppendProperties
<1>4. Head(x) = e /\ Tail(x) = <<>>
  BY <1>0, <1>1, HeadTailAppend
<1> HIDE DEF x
<1>5. /\ WayInOrder(<<>>, Tail(OnSocket), squeue, posted)
      /\ e = NoEvent =>
            ForUs(OnTheWay(<<>>, Tail(OnSocket), squeue)) = ForUs(OnTheWay(evlist, OnSocket, squeue))
      /\ e # NoEvent =>
            /\ First(e, ForUs(OnTheWay(evlist, OnSocket, squeue)))
            /\ ForUs(OnTheWay(<<>>, Tail(OnSocket), squeue))
                 = ForUs(OnTheWay(evlist, OnSocket, squeue)) \ {e}
  <2> DEFINE y == Tail(OnSocket)
  <2>1. y \in Seq(Nat) /\ WayInOrder(x, y, squeue, posted)
    BY <1>1, <1>2
  <2> HIDE DEF y
  <2>2. /\ WayInOrder(Tail(x), y, squeue, posted)
        /\ Head(x) = NoEvent =>
              ForUs(OnTheWay(Tail(x), y, squeue)) = ForUs(OnTheWay(x, y, squeue))
        /\ Head(x) # NoEvent =>
              /\ First(Head(x), ForUs(OnTheWay(x, y, squeue)))
              /\ ForUs(OnTheWay(Tail(x), y, squeue)) = ForUs(OnTheWay(x, y, squeue)) \ {Head(x)}
    BY <1>0, <1>3, <2>1, HandedInOrder
  <2> QED
    BY <1>2, <1>4, <2>2 DEF y
<1>6. Pending' = ForUs(OnTheWay(<<>>, Tail(OnSocket), squeue))
  BY <1>1 DEF Pending, ForUs, OnTheWay
<1>7. WayInv'
  BY <1>1, <1>5 DEF WayInv
<1> QED
  BY <1>5, <1>6, <1>7, PendingIs DEF FirstIs, e

LEMMA ReplyRead ==
    ASSUME TypeOK, WayInv, rep # <<>>, Head(rep).type # "event", rep' = Tail(rep),
           UNCHANGED <<evlist, squeue, posted>>
    PROVE  WayInv' /\ Pending' = Pending
<1>1. /\ OnSocket # <<>> /\ Head(OnSocket) = NoEvent /\ OnSocket' = Tail(OnSocket)
  BY SocketTail DEF Carries
<1>2. OnSocket \in Seq(Nat)
  BY SocketTyped
<1>3. ToSet(OnSocket) = ToSet(Tail(OnSocket)) \cup {NoEvent}
  BY <1>1, <1>2, TailSet
<1>4. Ordered(Tail(OnSocket))
  BY <1>1, <1>2, TailOrdered DEF WayInv, WayInOrder
<1>5. WayInv'
  BY <1>1, <1>3, <1>4 DEF WayInv, WayInOrder, Earlier, OnTheWay
<1> QED
  BY <1>1, <1>3, <1>5 DEF Pending

LEMMA EventListed ==
    ASSUME TypeOK, WayInv, NEW t \in Threads, QueueEvent(t)
    PROVE  WayInv' /\ Pending' = Pending
<1>0. evlist \in Seq(Nat) /\ squeue \in Seq(Nat) /\ posted \in Nat /\ OnSocket \in Seq(Nat)
  BY SocketTyped DEF TypeOK
<1>1. /\ OnSocket # <<>> /\ Head(OnSocket) = Head(rep).ev /\ OnSocket' = Tail(OnSocket)
  BY SocketTail DEF Carries, QueueEvent
<1>2. evlist' = Append(evlist, Head(OnSocket)) /\ squeue' = squeue /\ posted' = posted
  BY <1>1 DEF QueueEvent, server
<1>3. /\ WayInOrder(Append(evlist, Head(OnSocket)), Tail(OnSocket), squeue, posted)
      /\ OnTheWay(Append(evlist, Head(OnSocket)), Tail(OnSocket), squeue)
            = OnTheWay(evlist, OnSocket, squeue)
  BY <1>0, <1>1, ListedInOrder DEF WayInv
<1> QED
  BY <1>1, <1>2, <1>3 DEF WayInv, Pending, OnTheWay

-----------------------------------------------------------------------------
(* A step of the thread, as the promise sees it.                           *)
FifoMoves(t) ==
    /\ WayInv' /\ posted' = posted
    /\ \/ NothingMoves
       \/ FirstHanded /\ (Peeks(t)' <=> Peeks(t))
       \/ Peeks(t) /\ ~Peeks(t)' /\ (\E e : FirstIs(e)) /\ got' = got
    /\ thr'[t].pc \in {"select", "woken"} /\ thr'[t].call # "main" => evlist' = <<>>
    /\ ReadsFor(t)' = "event" => evlist' = <<>>

LEMMA StartMoves ==
    ASSUME TypeOK, WayInv, NEW t \in Threads, Start(t)
    PROVE  FifoMoves(t)
<1>1. /\ thr[t] = Idle /\ posted' = posted /\ squeue' = squeue /\ rep' = rep /\ ~Peeks(t)
      /\ thr[t].pc = "idle"
  BY IdleTyped DEF Start, GrGetNextEventTimeout, GrCheckNextEvent, GrPeekEvent,
     GrPeekWaitEvent, Query, GrPrepareSelect, Enter, server, Peeks
<1>2. CASE evlist # <<>> /\ Hand(Head(evlist)) /\ evlist' = Tail(evlist) /\ thr' = thr
  <2>1. WayInv' /\ (NothingMoves \/ FirstHanded)
    BY <1>1, <1>2, ListHanded
  <2> QED
    BY <1>1, <1>2, <2>1 DEF FifoMoves, Peeks, ReadsFor
<1>3. ASSUME UNCHANGED <<evlist, got>> PROVE WayInv' /\ NothingMoves
  BY <1>1, <1>3, NothingOnTheWay DEF NothingMoves
<1>4. CASE UNCHANGED <<evlist, got, thr>>
  BY <1>1, <1>3, <1>4 DEF FifoMoves, ReadsFor
<1>5. CASE /\ evlist = <<>> /\ UNCHANGED <<evlist, got>>
  BY <1>1, <1>3, <1>5 DEF FifoMoves
<1>6. CASE Query(t)
  <2>1. thr'[t].pc = "read" /\ thr'[t].want = "reply"
    BY <1>6, AwaitTyped DEF Query, AllCalls
  <2> QED
    BY <1>1, <1>3, <1>6, <2>1 DEF Query, FifoMoves, ReadsFor
<1>7. CASE GrPrepareSelect(t)
  <2>1. thr'[t].pc = "select" /\ thr'[t].call = "main"
    BY <1>7, SelectTyped DEF GrPrepareSelect, AllCalls
  <2> QED
    BY <1>1, <1>3, <1>7, <2>1 DEF GrPrepareSelect, FifoMoves, ReadsFor
<1>8. ASSUME NEW k \in Calls, GrGetNextEventTimeout(t, k) PROVE FifoMoves(t)
  BY <1>2, <1>5, <1>8 DEF GrGetNextEventTimeout
<1>9. CASE GrCheckNextEvent(t)
  BY <1>2, <1>5, <1>9 DEF GrCheckNextEvent
<1>10. CASE GrPeekEvent(t)
  BY <1>4, <1>5, <1>10 DEF GrPeekEvent
<1>11. CASE GrPeekWaitEvent(t)
  BY <1>4, <1>5, <1>11 DEF GrPeekWaitEvent
<1> QED
  BY <1>6, <1>7, <1>8, <1>9, <1>10, <1>11 DEF Start

LEMMA ServiceMoves ==
    ASSUME TypeOK, NEW t \in Threads, ServiceInput(t), thr[t].call = "main"
    PROVE  /\ ~Peeks(t)' /\ ~Peeks(t)
           /\ thr'[t].pc \notin {"select", "woken"} /\ ReadsFor(t)' # "event"
<1>1. thr'[t].call \in {"main", "none"}
  <2>1. [Idle EXCEPT !.pc = "read", !.call = "main", !.want = "reply"].call = "main"
    BY DEF Idle
  <2> QED
    BY <2>1, IdleTyped DEF ServiceInput, TypeOK
<1> QED
  BY <1>1, ServiceTyped DEF Peeks, ReadsFor

LEMMA ContinueMoves ==
    ASSUME TypeOK, WayInv, ListEmpty, NEW t \in Threads, Continue(t) \/ SelectTimesOut(t)
    PROVE  FifoMoves(t)
<1>1. posted' = posted /\ squeue' = squeue
  BY DEF Continue, SelectReturns, Relock, GrServiceSelect, QueueEvent, ReadReply,
     SelectTimesOut, server
<1>2. ASSUME UNCHANGED <<evlist, rep, got>> PROVE WayInv' /\ NothingMoves
  BY <1>1, <1>2, NothingOnTheWay DEF NothingMoves
<1>3. CASE SelectReturns(t)
  <2>1. thr[t].pc = "select" /\ UNCHANGED <<evlist, rep, got>>
    BY <1>3 DEF SelectReturns
  <2>2. thr'[t].pc = "woken" /\ thr'[t].call = thr[t].call
    BY <1>3, WokenTyped
  <2> QED
    BY <1>1, <1>2, <2>1, <2>2 DEF FifoMoves, ListEmpty, ReadsFor
<1>4. CASE Relock(t)
  <2>1. evlist = <<>> /\ UNCHANGED <<evlist, rep, got>>
    BY <1>4 DEF Relock, ListEmpty
  <2> QED
    BY <1>1, <1>2, <2>1 DEF FifoMoves
<1>5. CASE GrServiceSelect(t)
  <2>0. rep' = rep /\ thr[t].call = "main"
    BY <1>5 DEF GrServiceSelect, At
  <2>1. CASE evlist # <<>> /\ Hand(Head(evlist)) /\ evlist' = Tail(evlist) /\ ServiceInput(t)
    <3>1. WayInv' /\ (NothingMoves \/ FirstHanded)
      BY <1>1, <2>0, <2>1, ListHanded
    <3> QED
      BY <1>1, <2>0, <2>1, <3>1, ServiceMoves DEF FifoMoves
  <2>2. CASE evlist = <<>> /\ UNCHANGED <<evlist, got>>
    BY <1>1, <1>2, <2>0, <2>2 DEF FifoMoves
  <2> QED
    BY <1>5, <2>1, <2>2 DEF GrServiceSelect
<1>6. CASE QueueEvent(t)
  <2>1. WayInv' /\ NothingMoves
    BY <1>6, EventListed DEF QueueEvent, NothingMoves
  <2>2. thr' = thr /\ thr[t].pc = "read" /\ thr[t].want # "event"
    BY <1>6 DEF QueueEvent
  <2> QED
    BY <1>1, <2>1, <2>2 DEF FifoMoves, ReadsFor
<1>7. CASE ReadReply(t) /\ thr[t].want # "event"
  <2>0. /\ rep # <<>> /\ Head(rep).type # "event" /\ rep' = Tail(rep) /\ evlist' = evlist
        /\ thr' = [thr EXCEPT ![t] = Idle] /\ got' = got
    BY <1>7 DEF ReadReply
  <2>1. WayInv' /\ NothingMoves
    BY <1>1, <2>0, ReplyRead DEF NothingMoves
  <2>2. thr'[t].pc = "idle"
    BY <2>0, IdleTyped DEF TypeOK
  <2> QED
    BY <1>1, <2>1, <2>2 DEF FifoMoves, ReadsFor
<1>8. CASE ReadReply(t) /\ thr[t].want = "event"
  <2>0. /\ rep # <<>> /\ Head(rep).type = "event" /\ rep' = Tail(rep) /\ evlist' = evlist
        /\ evlist = <<>>
    BY <1>8 DEF ReadReply, ListEmpty, ReadsFor
  <2>1. /\ WayInv'
        /\ Head(rep).ev = NoEvent => Pending' = Pending
        /\ Head(rep).ev # NoEvent => FirstIs(Head(rep).ev)
    BY <1>1, <2>0, SocketRead
  <2>2. ASSUME Hand(Head(rep).ev) PROVE NothingMoves \/ FirstHanded
    BY <2>1, <2>2 DEF Hand, NothingMoves, FirstHanded
  <2>3. CASE /\ thr[t].call = "peekwait" /\ Await(t, "peekwait", "peek") /\ UNCHANGED got
    <3>1. Peeks(t) /\ ~Peeks(t)'
      BY <1>8, <2>3, AwaitTyped DEF Peeks, AllCalls
    <3> QED
      BY <1>1, <2>0, <2>1, <2>3, <3>1 DEF FifoMoves, NothingMoves
  <2>4. CASE thr[t].call = "main" /\ Hand(Head(rep).ev) /\ ServiceInput(t)
    BY <1>1, <2>0, <2>1, <2>2, <2>4, ServiceMoves DEF FifoMoves
  <2>5. CASE /\ thr[t].call \notin {"main", "peekwait"} /\ Hand(Head(rep).ev)
             /\ thr' = [thr EXCEPT ![t] = Idle]
    <3>1. ~Peeks(t) /\ ~Peeks(t)'
      BY <2>5, IdleTyped DEF Peeks, TypeOK
    <3> QED
      BY <1>1, <2>0, <2>1, <2>2, <2>5, <3>1 DEF FifoMoves
  <2> QED
    BY <1>8, <2>3, <2>4, <2>5 DEF ReadReply
<1>9. CASE SelectTimesOut(t)
  <2>1. UNCHANGED <<evlist, rep, got>> /\ thr'[t].pc = "idle"
    BY <1>9, IdleTyped DEF SelectTimesOut, TypeOK
  <2> QED
    BY <1>1, <1>2, <2>1 DEF FifoMoves, ReadsFor
<1> QED
  BY <1>3, <1>4, <1>5, <1>6, <1>7, <1>8, <1>9 DEF Continue

LEMMA PostMoves ==
    ASSUME TypeOK, WayInv, GsAllocEvent
    PROVE  /\ WayInv'
           /\ posted < MaxEvents /\ posted' = posted + 1 /\ got' = got /\ thr' = thr
           /\ \E D \in Promise!Dropped(posted') :
                 Pending' = (Pending \ D) \cup ({posted'} \ WmEvents)
<1>0. evlist \in Seq(Nat) /\ squeue \in Seq(Nat) /\ posted \in Nat /\ OnSocket \in Seq(Nat)
  BY SocketTyped DEF TypeOK
<1>1. OnSocket' = OnSocket
  BY DEF OnSocket, GsAllocEvent
<1>2. /\ posted' = posted + 1 /\ evlist' = evlist
      /\ posted < MaxEvents /\ got' = got /\ thr' = thr
  BY DEF GsAllocEvent
<1>3. posted + 1 # NoEvent
  BY <1>0 DEF NoEvent
<1>4. ASSUME NEW q \in Seq(Nat), WayInOrder(evlist, OnSocket, q, posted),
             squeue' = Append(q, posted + 1)
      PROVE  /\ WayInv'
             /\ Pending' = ForUs(OnTheWay(evlist, OnSocket, q)) \cup ({posted'} \ WmEvents)
  <2>1. /\ WayInOrder(evlist, OnSocket, Append(q, posted + 1), posted + 1)
        /\ OnTheWay(evlist, OnSocket, Append(q, posted + 1))
              = OnTheWay(evlist, OnSocket, q) \cup {posted + 1}
    BY <1>0, <1>4, PostedInOrder
  <2>2. WayInv'
    BY <1>1, <1>2, <1>4, <2>1 DEF WayInv
  <2>3. Pending' = ForUs(OnTheWay(evlist, OnSocket, q) \cup {posted + 1})
    BY <1>1, <1>2, <1>4, <2>1 DEF Pending, ForUs, OnTheWay
  <2> QED
    BY <1>2, <1>3, <2>2, <2>3 DEF ForUs
<1>5. CASE squeue' = Append(squeue, posted')
  <2>1. WayInv' /\ Pending' = Pending \cup ({posted'} \ WmEvents)
    BY <1>0, <1>2, <1>4, <1>5, PendingIs DEF WayInv
  <2>2. {} \in Promise!Dropped(posted') /\ Pending = Pending \ {}
    BY DEF Promise!Dropped
  <2> QED
    BY <1>2, <2>1, <2>2
<1>6. ASSUME NEW i \in DOMAIN squeue, i \in Superseded(posted'),
             squeue' = Append(RemoveAt(squeue, i), posted')
      PROVE  /\ WayInv'
             /\ \E D \in Promise!Dropped(posted') :
                   Pending' = (Pending \ D) \cup ({posted'} \ WmEvents)
  <2> DEFINE d == squeue[i]
  <2>1. /\ RemoveAt(squeue, i) \in Seq(Nat)
        /\ WayInOrder(evlist, OnSocket, RemoveAt(squeue, i), posted)
        /\ OnTheWay(evlist, OnSocket, RemoveAt(squeue, i)) = OnTheWay(evlist, OnSocket, squeue) \ {d}
    BY <1>0, FreedInOrder DEF WayInv
  <2>2. <<posted', d>> \in Supersedes
    BY <1>6 DEF Superseded
  <2> HIDE DEF d
  <2>3. /\ WayInv'
        /\ Pending' = (Pending \ {d}) \cup ({posted'} \ WmEvents)
    BY <1>2, <1>4, <1>6, <2>1, PendingIs DEF ForUs
  <2>4. CASE d \in Pending
    BY <2>2, <2>3, <2>4 DEF Promise!Dropped
  <2>5. CASE d \notin Pending
    <3>1. {} \in Promise!Dropped(posted') /\ Pending \ {d} = Pending \ {}
      BY <2>5 DEF Promise!Dropped
    <3> QED
      BY <2>3, <3>1
  <2> QED
    BY <2>4, <2>5
<1>7. \/ squeue' = Append(squeue, posted')
      \/ \E i \in DOMAIN squeue : i \in Superseded(posted') /\ squeue' = Append(RemoveAt(squeue, i), posted')
  BY DEF GsAllocEvent, FirstSuperseded
<1> QED
  BY <1>2, <1>5, <1>6, <1>7

(* The promise of EventFifo is kept to an application of one thread: each  *)
(* event is handed over once and in order, whatever calls follow each      *)
(* other, but for those that a later one of their kind supersedes while    *)
(* they are in the server's queue, and those that GrPeekWaitEvent takes,   *)
(* one at a time.                                                          *)
THEOREM EventsImplementFifo ==
    ASSUME NEW t \in Threads, Threads = {t}
    PROVE  Spec => InOrder
<1> DEFINE peeking == \E u \in Threads : thr[u].call = "peekwait" /\ thr[u].want # "peek"
           Fifo == [Promise!Post \/ Promise!Hand \/ Promise!Peek \/ Promise!Lose]_(Promise!fifoVars)
<1>0. peeking <=> Peeks(t)
  BY DEF Peeks
<1>1. Init => Promise!FifoInit /\ WayInv /\ ListEmpty
  <2> SUFFICES ASSUME Init PROVE Promise!FifoInit /\ WayInv /\ ListEmpty
    OBVIOUS
  <2>1. posted = 0 /\ squeue = <<>> /\ evlist = <<>> /\ got = <<>> /\ OnSocket = <<>>
    BY DEF Init, OnSocket
  <2>2. ToSet(<<>>) = {}
    BY DEF ToSet
  <2>3. WayInv
    BY <2>1, <2>2 DEF WayInv, WayInOrder, Ordered, Earlier, OnTheWay, NoEvent
  <2>4. Pending = {}
    BY <2>1, <2>2 DEF Pending
  <2> QED
    BY <2>1, <2>3, <2>4 DEF Promise!FifoInit, ListEmpty
<1>2. TypeOK /\ WayInv /\ ListEmpty /\ [Next]_vars => WayInv' /\ ListEmpty' /\ Fifo
  <2> SUFFICES ASSUME TypeOK, WayInv, ListEmpty, [Next]_vars
               PROVE  WayInv' /\ ListEmpty' /\ Fifo
    OBVIOUS
  <2>1. CASE GsAllocEvent
    <3>1. Promise!Post
      BY <2>1, PostMoves DEF Promise!Post
    <3>2. ListEmpty'
      BY <2>1 DEF GsAllocEvent, ListEmpty, ReadsFor
    <3> QED
      BY <2>1, <3>1, <3>2, PostMoves
  <2>2. ASSUME thr' = thr, NothingMoves, posted' = posted PROVE UNCHANGED Promise!fifoVars
    BY <2>2 DEF Promise!fifoVars, NothingMoves
  <2>3. CASE ServerStep
    <3>1. thr' = thr /\ evlist' = evlist
      BY <2>3, ServerDoes DEF ServerStep, GrGetNextEventWrapperFinish, GrGetNextEventWrapper,
         GsHandleClient, GrCheckNextEventWrapper, GrPeekEventWrapper, QueryWrapper
    <3>2. ListEmpty'
      BY <3>1 DEF ListEmpty, ReadsFor
    <3> QED
      BY <2>2, <2>3, <3>1, <3>2, ServerInOrder
  <2>4. CASE Start(t) \/ Continue(t) \/ SelectTimesOut(t)
    <3>1. FifoMoves(t)
      BY <2>4, StartMoves, ContinueMoves
    <3>2. ListEmpty'
      BY <3>1 DEF FifoMoves, ListEmpty
    <3>3. peeking' <=> Peeks(t)'
      BY DEF Peeks
    <3>4. WayInv' /\ posted' = posted
      BY <3>1 DEF FifoMoves
    <3>5. CASE NothingMoves
      <4>1. Pending' = Pending /\ got' = got
        BY <3>5 DEF NothingMoves
      <4>2. CASE peeking' <=> peeking
        <5>1. peeking' = peeking
          BY <4>2
        <5>2. UNCHANGED Promise!fifoVars
          BY <3>4, <4>1, <5>1, Zenon DEF Promise!fifoVars
        <5> QED
          BY <3>2, <3>4, <5>2
      <4>3. CASE ~(peeking' <=> peeking)
        <5>1. peeking' = ~peeking
          BY <4>3
        <5>2. Promise!Peek
          BY <3>4, <4>1, <5>1, Zenon DEF Promise!Peek
        <5> QED
          BY <3>2, <3>4, <5>2
      <4> QED
        BY <4>2, <4>3
    <3>6. CASE FirstHanded /\ (Peeks(t)' <=> Peeks(t))
      <4>1. peeking' = peeking
        BY <1>0, <3>3, <3>6
      <4>2. PICK e : FirstIs(e) /\ got' = Append(got, e)
        BY <3>6 DEF FirstHanded
      <4>3. e \in Pending /\ Promise!IsFirst(e) /\ Pending' = Pending \ {e}
        BY <4>2 DEF Promise!IsFirst, FirstIs, First
      <4>4. Promise!Hand
        BY <3>4, <4>1, <4>2, <4>3, Zenon DEF Promise!Hand
      <4> QED
        BY <3>2, <3>4, <4>4
    <3>7. CASE Peeks(t) /\ ~Peeks(t)' /\ (\E e : FirstIs(e)) /\ got' = got
      <4>1. peeking /\ ~peeking'
        BY <1>0, <3>3, <3>7
      <4>2. PICK e : FirstIs(e)
        BY <3>7
      <4>3. e \in Pending /\ Promise!IsFirst(e) /\ Pending' = Pending \ {e}
        BY <4>2 DEF Promise!IsFirst, FirstIs, First
      <4>4. Promise!Lose
        BY <3>4, <3>7, <4>1, <4>3, Zenon DEF Promise!Lose
      <4> QED
        BY <3>2, <3>4, <4>4
    <3> QED
      BY <3>1, <3>5, <3>6, <3>7 DEF FifoMoves
  <2>5. CASE UNCHANGED vars
    <3>1. WayInv' /\ NothingMoves
      BY <2>5, NothingOnTheWay DEF vars, NothingMoves
    <3>2. ListEmpty'
      BY <2>5 DEF vars, ListEmpty, ReadsFor
    <3> QED
      BY <2>2, <2>5, <3>1, <3>2 DEF vars
  <2> QED
    BY <2>1, <2>3, <2>4, <2>5 DEF Next
<1> QED
  BY <1>1, <1>2, EventTypesCorrect, PTL DEF Spec, InOrder, Promise!FifoSpec
=============================================================================
