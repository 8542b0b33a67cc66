------------------------------ MODULE NxEvents ------------------------------
(***************************************************************************)
(* How events get from the nano-X server to an application: the server's   *)
(* event queue of the client and its waiting_for_event flag                *)
(* (src/nanox/srvnet.c, srvfunc.c, srvmain.c), the socket between them,    *)
(* and the client library with its own event list and its global lock      *)
(* (src/nanox/client.c), called by one or more threads.                    *)
(*                                                                         *)
(* Events are numbers in the order they are queued; NoEvent is the event   *)
(* of type GR_EVENT_TYPE_NONE.                                             *)
(***************************************************************************)
EXTENDS Naturals, Sequences, SequencesExt

CONSTANTS
    Threads,    \* the threads of the application
    Nobody,     \* holds the lock when no thread does
    Calls,      \* the library calls the application makes
    MaxEvents,  \* bound: events queued in a behaviour
    WmEvents,   \* those the window manager linked into the server keeps
    Supersedes, \* <<e, d>>: e and d are both positions of the mouse over one
                \* window, or exposures of one window and e's area encloses d's
    MaxReqs,    \* bound: requests on the socket
    MaxInput    \* bound: times input arrives on a registered descriptor

AllCalls == {"get", "timed", "check", "peek", "peekwait", "query", "main"}

ASSUME EventsAssumption ==
    /\ Nobody \notin Threads
    /\ Calls \subseteq AllCalls
    /\ MaxEvents \in Nat /\ MaxReqs \in Nat /\ MaxInput \in Nat
    /\ WmEvents \subseteq 1 .. MaxEvents
    /\ Supersedes \subseteq (1 .. MaxEvents) \X (1 .. MaxEvents)

NoEvent == 0

VARIABLES
    posted,     \* events queued so far
    squeue,     \* client->eventhead .. eventtail
    waiting,    \* client->waiting_for_event
    req,        \* requests on their way to the server
    rep,        \* packets on their way back
    evlist,     \* the client library's event list
    lock,       \* the thread that holds nxGlobalLock
    thr,        \* what each thread is doing
    input,      \* times input arrived on a registered descriptor
    got         \* the events handed to the application, in order

vars == <<posted, squeue, waiting, req, rep, evlist, lock, thr, input, got>>
server == <<posted, squeue, waiting>>

Idle == [pc |-> "idle", call |-> "none", want |-> "none", sock |-> FALSE, fd |-> FALSE]

At(t, pc, call) == thr[t].pc = pc /\ thr[t].call = call

Init ==
    /\ posted = 0 /\ squeue = <<>> /\ waiting = FALSE
    /\ req = <<>> /\ rep = <<>> /\ evlist = <<>>
    /\ lock = Nobody
    /\ thr = [t \in Threads |-> Idle]
    /\ input = 0
    /\ got = <<>>

-----------------------------------------------------------------------------
(* The server.  A request or a device event may queue an event at any time *)
(* between the steps below.  The first queued event that the new one       *)
(* supersedes is freed (GsFreePositionEvent, GsFreeExposureEvent).         *)
Superseded(e) == {i \in DOMAIN squeue : <<e, squeue[i]>> \in Supersedes}
FirstSuperseded(i, e) == i \in Superseded(e) /\ \A j \in Superseded(e) : i <= j

(* A plausible bug: the new event is put where the freed one was.          *)
ReusesPlace ==
    /\ posted < MaxEvents
    /\ posted' = posted + 1
    /\ \/ /\ Superseded(posted') = {}
          /\ squeue' = Append(squeue, posted')
       \/ \E i \in DOMAIN squeue :
             /\ FirstSuperseded(i, posted')
             /\ squeue' = [squeue EXCEPT ![i] = posted']
    /\ UNCHANGED <<waiting, req, rep, evlist, lock, thr, input, got>>

GsAllocEvent ==
    /\ posted < MaxEvents
    /\ posted' = posted + 1
    /\ \/ /\ Superseded(posted') = {}
          /\ squeue' = Append(squeue, posted')
       \/ \E i \in DOMAIN squeue :
             /\ FirstSuperseded(i, posted')
             /\ squeue' = Append(RemoveAt(squeue, i), posted')
    /\ UNCHANGED <<waiting, req, rep, evlist, lock, thr, input, got>>

Packet(type, e) == [type |-> type, ev |-> e]

(* GsCheckNextEvent: the head of the queue; an event that the window       *)
(* manager keeps becomes no event.                                         *)
Taken == IF squeue = <<>> \/ Head(squeue) \in WmEvents THEN NoEvent ELSE Head(squeue)
Rest  == IF squeue = <<>> THEN <<>> ELSE Tail(squeue)

(* A plausible bug: the answer has the type of another request.            *)
FinishAsPeek ==
    /\ waiting
    /\ squeue # <<>>
    /\ waiting' = FALSE
    /\ rep' = Append(rep, Packet("peek", Taken))
    /\ squeue' = Rest
    /\ UNCHANGED <<posted, req, evlist, lock, thr, input, got>>

(* GsSelect finds the client waiting with an event to give it.             *)
GrGetNextEventWrapperFinish ==
    /\ waiting
    /\ squeue # <<>>
    /\ waiting' = FALSE
    /\ rep' = Append(rep, Packet("event", Taken))
    /\ squeue' = Rest
    /\ UNCHANGED <<posted, req, evlist, lock, thr, input, got>>

GsHandleClient(r) ==
    /\ req # <<>>
    /\ Head(req) = r
    /\ req' = Tail(req)
    /\ UNCHANGED <<posted, evlist, lock, thr, input, got>>

(* A plausible bug: the client waits only if the queue is empty now.       *)
WaitIfEmpty ==
    /\ GsHandleClient("GetNextEvent")
    /\ waiting' = (squeue = <<>>)
    /\ UNCHANGED <<squeue, rep>>

GrGetNextEventWrapper ==
    /\ GsHandleClient("GetNextEvent")
    /\ waiting' = TRUE
    /\ UNCHANGED <<squeue, rep>>

(* A plausible bug: no answer when there is no event.                      *)
CheckAnswersEvents ==
    /\ GsHandleClient("CheckNextEvent")
    /\ rep' = IF squeue = <<>> THEN rep ELSE Append(rep, Packet("event", Taken))
    /\ squeue' = Rest
    /\ UNCHANGED waiting

GrCheckNextEventWrapper ==
    /\ GsHandleClient("CheckNextEvent")
    /\ rep' = Append(rep, Packet("event", Taken))
    /\ squeue' = Rest
    /\ UNCHANGED waiting

(* Nothing to peek at also makes the client wait for its next event.       *)
GrPeekEventWrapper ==
    /\ GsHandleClient("PeekEvent")
    /\ rep' = Append(rep, Packet("peek", IF squeue = <<>> THEN NoEvent ELSE Head(squeue)))
    /\ waiting' = (waiting \/ squeue = <<>>)
    /\ UNCHANGED squeue

(* Any other request that has a reply.                                     *)
QueryWrapper ==
    /\ GsHandleClient("Query")
    /\ rep' = Append(rep, Packet("reply", NoEvent))
    /\ UNCHANGED <<squeue, waiting>>

ServerStep ==
    \/ GrGetNextEventWrapperFinish
    \/ GrGetNextEventWrapper
    \/ GrCheckNextEventWrapper
    \/ GrPeekEventWrapper
    \/ QueryWrapper

-----------------------------------------------------------------------------
(* The client library.                                                     *)
Send(r) == Len(req) < MaxReqs /\ req' = Append(req, r)

Hand(e) == got' = IF e = NoEvent THEN got ELSE Append(got, e)

Enter(t, k) == k \in Calls /\ lock = Nobody /\ thr[t] = Idle

(* TypedReadBlock starts: the lock is held until the packet has come.      *)
Await(t, k, want) ==
    /\ lock' = t
    /\ thr' = [thr EXCEPT ![t] = [@ EXCEPT !.pc = "read", !.call = k, !.want = want]]

(* GrGetNextEvent and GrGetNextEventTimeout: from the list if it has one,  *)
(* else ask the server and wait in select with the lock free.              *)
GrGetNextEventTimeout(t, k) ==
    /\ k \in {"get", "timed"}
    /\ Enter(t, k)
    /\ \/ /\ evlist # <<>>
          /\ Hand(Head(evlist))
          /\ evlist' = Tail(evlist)
          /\ UNCHANGED <<req, thr>>
       \/ /\ evlist = <<>>
          /\ Send("GetNextEvent")
          /\ thr' = [thr EXCEPT ![t] = [@ EXCEPT !.pc = "select", !.call = k]]
          /\ UNCHANGED <<evlist, got>>
    /\ UNCHANGED <<server, rep, lock, input>>

GrCheckNextEvent(t) ==
    /\ Enter(t, "check")
    /\ \/ /\ evlist # <<>>
          /\ Hand(Head(evlist))
          /\ evlist' = Tail(evlist)
          /\ UNCHANGED <<req, lock, thr>>
       \/ /\ evlist = <<>>
          /\ Send("CheckNextEvent")
          /\ Await(t, "check", "event")
          /\ UNCHANGED <<evlist, got>>
    /\ UNCHANGED <<server, rep, input>>

GrPeekEvent(t) ==
    /\ Enter(t, "peek")
    /\ \/ /\ evlist # <<>>
          /\ UNCHANGED <<req, lock, thr>>
       \/ /\ evlist = <<>>
          /\ Send("PeekEvent")
          /\ Await(t, "peek", "peek")
    /\ UNCHANGED <<server, rep, evlist, input, got>>

(* GrPeekWaitEvent holds the lock itself, so that the unlock around select *)
(* in the GrGetNextEvent it calls leaves the lock held.                    *)
GrPeekWaitEvent(t) ==
    /\ Enter(t, "peekwait")
    /\ \/ /\ evlist # <<>>
          /\ UNCHANGED <<req, lock, thr>>
       \/ /\ evlist = <<>>
          /\ Send("GetNextEvent")
          /\ lock' = t
          /\ thr' = [thr EXCEPT ![t] = [@ EXCEPT !.pc = "select", !.call = "peekwait"]]
    /\ UNCHANGED <<server, rep, evlist, input, got>>

(* Any other call that waits for a reply.                                  *)
Query(t) ==
    /\ Enter(t, "query")
    /\ Send("Query")
    /\ Await(t, "query", "reply")
    /\ UNCHANGED <<server, rep, evlist, input, got>>

(* An iteration of GrMainLoop: ask, and wait in select.                    *)
GrPrepareSelect(t) ==
    /\ Enter(t, "main")
    /\ Send("GetNextEvent")
    /\ thr' = [thr EXCEPT ![t] = [@ EXCEPT !.pc = "select", !.call = "main"]]
    /\ UNCHANGED <<server, rep, evlist, lock, input, got>>

(* select returns: the socket is readable, or in GrMainLoop a registered   *)
(* descriptor is.                                                          *)
SelectReturns(t) ==
    /\ thr[t].pc = "select"
    /\ \/ /\ rep # <<>>
          /\ thr' = [thr EXCEPT ![t] = [@ EXCEPT !.pc = "woken", !.sock = TRUE]]
          /\ UNCHANGED input
       \/ /\ thr[t].call = "main" /\ input < MaxInput
          /\ input' = input + 1
          /\ thr' = [thr EXCEPT ![t] = [@ EXCEPT !.pc = "woken", !.sock = (rep # <<>>), !.fd = TRUE]]
    /\ UNCHANGED <<server, req, rep, evlist, lock, got>>

(* select times out (or returns for a registered descriptor): the call     *)
(* returns, and the request it sent stays with the server.                 *)
SelectTimesOut(t) ==
    /\ At(t, "select", "timed")
    /\ rep = <<>>
    /\ thr' = [thr EXCEPT ![t] = Idle]
    /\ UNCHANGED <<server, req, rep, evlist, lock, input, got>>

(* The lock again after select, and the read of the event.                 *)
Relock(t) ==
    /\ thr[t].pc = "woken" /\ thr[t].call # "main"
    /\ lock \in {Nobody, t}
    /\ Await(t, thr[t].call, "event")
    /\ UNCHANGED <<server, req, rep, evlist, input, got>>

(* GrServiceSelect ends with the callback for the descriptor, here one     *)
(* that makes a call with a reply.                                         *)
ServiceInput(t) ==
    IF thr[t].fd
    THEN /\ req' = Append(req, "Query")
         /\ lock' = t
         /\ thr' = [thr EXCEPT ![t] = [Idle EXCEPT !.pc = "read", !.call = "main", !.want = "reply"]]
    ELSE /\ lock' = Nobody
         /\ thr' = [thr EXCEPT ![t] = Idle]
         /\ UNCHANGED req

GrServiceSelect(t) ==
    /\ At(t, "woken", "main")
    /\ lock = Nobody
    /\ \/ /\ evlist # <<>>
          /\ Hand(Head(evlist))
          /\ evlist' = Tail(evlist)
          /\ ServiceInput(t)
       \/ /\ evlist = <<>> /\ thr[t].sock
          /\ Await(t, "main", "event")
          /\ UNCHANGED <<evlist, got, req>>
       \/ /\ evlist = <<>> /\ ~thr[t].sock
          /\ ServiceInput(t)
          /\ UNCHANGED <<evlist, got>>
    /\ UNCHANGED <<server, rep, input>>

(* A plausible bug: the event goes in front of the list.                   *)
QueueInFront(t) ==
    /\ thr[t].pc = "read"
    /\ rep # <<>>
    /\ Head(rep).type = "event" /\ thr[t].want # "event"
    /\ evlist' = <<Head(rep).ev>> \o evlist
    /\ rep' = Tail(rep)
    /\ UNCHANGED <<server, req, lock, thr, input, got>>

(* CheckBlockType meets an event while waiting for another packet.         *)
QueueEvent(t) ==
    /\ thr[t].pc = "read"
    /\ rep # <<>>
    /\ Head(rep).type = "event" /\ thr[t].want # "event"
    /\ evlist' = Append(evlist, Head(rep).ev)
    /\ rep' = Tail(rep)
    /\ UNCHANGED <<server, req, lock, thr, input, got>>

(* The packet waited for has come.  GrPeekWaitEvent links the event it got *)
(* in front of the list but never moves the list's head there, then peeks; *)
(* the other calls return.                                                 *)
ReadReply(t) ==
    /\ thr[t].pc = "read"
    /\ rep # <<>>
    /\ Head(rep).type = thr[t].want
    /\ rep' = Tail(rep)
    /\ \/ /\ thr[t].call = "peekwait" /\ thr[t].want = "event"
          /\ req' = Append(req, "PeekEvent")
          /\ Await(t, "peekwait", "peek")
          /\ UNCHANGED got
       \/ /\ thr[t].call = "main" /\ thr[t].want = "event"
          /\ Hand(Head(rep).ev)
          /\ ServiceInput(t)
       \/ /\ thr[t].call \notin {"main", "peekwait"} \/ thr[t].want # "event"
          /\ IF thr[t].want = "event" THEN Hand(Head(rep).ev) ELSE UNCHANGED got
          /\ lock' = Nobody
          /\ thr' = [thr EXCEPT ![t] = Idle]
          /\ UNCHANGED req
    /\ UNCHANGED <<server, evlist, input>>

Start(t) ==
    \/ \E k \in Calls : GrGetNextEventTimeout(t, k)
    \/ GrCheckNextEvent(t)
    \/ GrPeekEvent(t)
    \/ GrPeekWaitEvent(t)
    \/ Query(t)
    \/ GrPrepareSelect(t)

Continue(t) ==
    \/ SelectReturns(t)
    \/ Relock(t)
    \/ GrServiceSelect(t)
    \/ QueueEvent(t)
    \/ ReadReply(t)

Next ==
    \/ GsAllocEvent
    \/ ServerStep
    \/ \E t \in Threads : Start(t) \/ Continue(t) \/ SelectTimesOut(t)

(* The server's main loop never stops, and a thread inside a library call  *)
(* runs on as soon as it can; GrMainLoop also starts its next iteration.   *)
Fairness ==
    /\ WF_vars(ServerStep)
    /\ \A t \in Threads :
          /\ WF_vars(SelectReturns(t) /\ UNCHANGED input)
          /\ WF_vars(Relock(t) \/ GrServiceSelect(t) \/ QueueEvent(t) \/ ReadReply(t))
          /\ WF_vars(GrPrepareSelect(t))

Spec == Init /\ [][Next]_vars /\ Fairness

-----------------------------------------------------------------------------
(* Events on the way, without those that are no event (any more) for the   *)
(* application.                                                            *)
OnSocket == [i \in DOMAIN rep |-> IF rep[i].type = "event" THEN rep[i].ev ELSE NoEvent]
Pending == (ToSet(evlist) \cup ToSet(OnSocket) \cup ToSet(squeue)) \ (WmEvents \cup {NoEvent})

(* However calls that wait, time out, poll and query follow each other,    *)
(* the application is handed each event once, in the order the server      *)
(* queued them, but for those that a later event of their kind supersedes  *)
(* (one each) and those that GrPeekWaitEvent takes to peek at.             *)
Promise ==
    INSTANCE EventFifo WITH
        pending <- Pending,
        peeking <- \E t \in Threads : thr[t].call = "peekwait" /\ thr[t].want # "peek"
InOrder == Promise!FifoSpec

(* A thread that reads with the lock held is going to be answered: its     *)
(* packet is there, or the server has a request of it to answer, or it is  *)
(* waiting to be given its next event.  Otherwise the thread keeps the     *)
(* lock and stops every other call of the application ("give other threads *)
(* a chance to run").                                                      *)
ReadIsAnswered ==
    \A t \in Threads : thr[t].pc = "read" => rep # <<>> \/ req # <<>> \/ waiting

(* A thread never meets a packet that neither it waits for nor is an       *)
(* event: the replies come in the order of the calls that wait for them.   *)
NoWrongPacket ==
    \A t \in Threads :
        thr[t].pc = "read" /\ rep # <<>> => Head(rep).type \in {thr[t].want, "event"}

(* A call that waits returns once there is an event for it, also after     *)
(* calls that timed out left their requests with the server.               *)
WaitingCallReturns ==
    \A t \in Threads : (thr[t].pc # "idle" /\ squeue # <<>>) ~> (thr[t].pc = "idle")

=============================================================================
