------------------------------- MODULE NxSelect -------------------------------
(***************************************************************************)
(* The main loop of the nano-X server and its list of clients              *)
(* (src/nanox/srvmain.c, srvnet.c): each pass answers a client that waits  *)
(* for an event and has one, or else waits in select and then serves the   *)
(* devices, a new connection and the clients that sent something.          *)
(*                                                                         *)
(* Clients run on their own: they connect, write a request, all of it or a *)
(* part first, and hang up, at any time.  What a request does to windows is*)
(* in NxTree and NxWindows; here it may queue events for clients.          *)
(***************************************************************************)
EXTENDS Naturals, SequencesExt

CONSTANTS
    Clients,    \* connections there may be, told by their descriptors
    Talkers,    \* bound: those that send requests and get events
    Slow,       \* bound: those of them that may write one in two parts
    NULL        \* no client

ASSUME SelectAssumption ==
    NULL \notin Clients /\ Talkers \subseteq Clients /\ Slow \subseteq Talkers

VARIABLES
    root_client, next, prev, connectcount,
    persistent_mode,
    pc,         \* where GsSelect is; or the server has exited, or crashed
    curclient,
    rfds,       \* the clients whose descriptors select found readable
    waiting,    \* clients with waiting_for_event
    events,     \* clients with an event in their queue
    socket,     \* what a client has written that is not read: a request?
    hungup,     \* clients whose process has closed the connection
    backlog,    \* connections that are not accepted yet
    order,      \* the clients accepted and not dropped, in that order
    ahead       \* history: while a request of c waits to be read, ahead[c][d]
                \* is how often d has been served since c wrote it

list   == <<root_client, next, prev, connectcount>>
queues == <<waiting, events>>
outer  == <<socket, hungup, backlog>>
vars   == <<list, persistent_mode, pc, curclient, rfds, queues, outer, order, ahead>>

Live == ToSet(order)

-----------------------------------------------------------------------------
(* The list of clients, as a record to compute with.                       *)
List == [root |-> root_client, next |-> next, prev |-> prev, count |-> connectcount]

(* The clients from c to the end of the list, and all that are on it.      *)
From[c \in Clients] == IF next[c] = NULL THEN {c} ELSE {c} \cup From[next[c]]
Listed == IF root_client = NULL THEN {} ELSE From[root_client]

ListBecomes(l) ==
    root_client' = l.root /\ next' = l.next /\ prev' = l.prev /\ connectcount' = l.count

(* A plausible bug: the new client's way back is not set.                  *)
LinkedForward(l, c) ==
    IF l.count = 0 THEN [l EXCEPT !.count = 1, !.root = c]
    ELSE LET last == CHOOSE d \in Listed : l.next[d] = NULL
         IN  [l EXCEPT !.count = @ + 1, !.next[last] = c]

(* GsAcceptClientFd: at the end of the list.                               *)
Linked(l, c) ==
    IF l.count = 0 THEN [l EXCEPT !.count = 1, !.root = c]
    ELSE LET last == CHOOSE d \in Listed : l.next[d] = NULL
         IN  [l EXCEPT !.count = @ + 1, !.prev[c] = last, !.next[last] = c]

(* A plausible bug: the first client of the list is freed and stays there. *)
DroppedButFirst(l, c) ==
    LET p == l.prev[c]
        n == l.next[c]
    IN  [root  |-> l.root,
         next  |-> [d \in Clients |-> IF d = c THEN NULL ELSE IF d = p THEN n ELSE l.next[d]],
         prev  |-> [d \in Clients |-> IF d = c THEN NULL ELSE IF d = n THEN p ELSE l.prev[d]],
         count |-> l.count - 1]

(* GsDropClient, which leaves nothing in the structure that it frees.      *)
Dropped(l, c) ==
    LET p == l.prev[c]
        n == l.next[c]
    IN  [root  |-> IF c = l.root THEN n ELSE l.root,
         next  |-> [d \in Clients |-> IF d = c THEN NULL ELSE IF d = p THEN n ELSE l.next[d]],
         prev  |-> [d \in Clients |-> IF d = c THEN NULL ELSE IF d = n THEN p ELSE l.prev[d]],
         count |-> l.count - 1]

Init ==
    /\ root_client = NULL
    /\ next = [c \in Clients |-> NULL]
    /\ prev = [c \in Clients |-> NULL]
    /\ connectcount = 0
    /\ persistent_mode \in BOOLEAN
    /\ pc = "select"
    /\ curclient = NULL
    /\ rfds = {}
    /\ waiting = {} /\ events = {}
    /\ socket = [c \in Clients |-> "empty"]
    /\ hungup = {} /\ backlog = {}
    /\ order = <<>>
    /\ ahead = [c \in Talkers |-> [d \in Talkers |-> 0]]

(* GsClose(c), after what the clients of read wrote was read; the last     *)
(* client to go takes the server with it.                                  *)
GsClose(c, read) ==
    /\ ListBecomes(Dropped(List, c))
    /\ order' = RemoveAt(order, CHOOSE i \in DOMAIN order : order[i] = c)
    /\ socket' = [d \in Clients |-> IF d \in {c} \cup read THEN "empty" ELSE socket[d]]
    /\ hungup' = hungup \ {c}

(* The clients of S are served once more, ahead of those whose requests    *)
(* wait to be read.                                                        *)
Overtake(S) ==
    ahead' = [c \in Talkers |-> [d \in Talkers |->
                 IF socket'[c] # "request" THEN 0
                 ELSE IF d \in S THEN ahead[c][d] + 1 ELSE ahead[c][d]]]

Exits == ~persistent_mode /\ connectcount' = 0

-----------------------------------------------------------------------------
(* The events that work on windows may queue.                              *)
Queued == {events \cup S : S \in SUBSET (Live \cap Talkers)}

(* A plausible bug: only the first client of the list is looked at.        *)
FirstToAnswer == waiting \cap events \cap {root_client}

(* The clients that wait and have an event.                                *)
ToAnswer == waiting \cap events \cap Listed

(* The pass over the list comes to the first of them, and                  *)
(* GrGetNextEventWrapperFinish sends its event.  When the client is gone   *)
(* that fails, and it is dropped.                                          *)
Answer ==
    LET c == CHOOSE d \in ToAnswer : ToAnswer \subseteq From[d]
    IN  /\ pc = "select"
        /\ ToAnswer # {}
        /\ waiting' = waiting \ {c}
        /\ \/ /\ c \in hungup
              /\ GsClose(c, {})
              /\ \E E \in Queued : events' = E \ {c}
              /\ pc' = IF Exits THEN "exit" ELSE "select"
           \/ /\ c \notin hungup
              /\ events' \in {events, events \ {c}}
              /\ UNCHANGED <<list, order, socket, hungup, pc>>
        /\ Overtake({})
        /\ UNCHANGED <<persistent_mode, curclient, rfds, backlog>>

Readable == {c \in Listed : socket[c] # "empty" \/ c \in hungup}

(* With no client to answer the server waits in select until something is  *)
(* there.  The mouse and the keyboard may have queued events, and one      *)
(* connection is accepted.                                                 *)
Wake ==
    /\ pc = "select"
    /\ ToAnswer = {}
    /\ pc' = "serve"
    /\ rfds' = Readable
    /\ events' \in Queued
    /\ \/ /\ backlog = {}
          /\ UNCHANGED <<list, order, backlog>>
       \/ \E c \in backlog :
             /\ backlog' = backlog \ {c}
             /\ ListBecomes(Linked(List, c))
             /\ order' = Append(order, c)
    /\ curclient' = root_client'
    /\ UNCHANGED <<persistent_mode, waiting, socket, hungup, ahead>>

(* select times out, nothing being readable: timers may queue events.      *)
Timeout ==
    /\ pc = "select"
    /\ ToAnswer = {}
    /\ Readable = {} /\ backlog = {}
    /\ events' \in Queued
    /\ UNCHANGED <<list, persistent_mode, pc, curclient, rfds, waiting, outer, order, ahead>>

-----------------------------------------------------------------------------
(* GsHandleClient for curclient, by the request.  GsRead waits for all of  *)
(* it, and drops a client that is gone.                                    *)
Kinds ==
    {"gone", "GetNextEvent", "PeekEvent", "CheckNextEvent", "Query", "Other", "Close"} \cup Clients

CanRead(kind) ==
    IF kind = "gone" THEN socket[curclient] # "request" /\ curclient \in hungup
    ELSE socket[curclient] = "request"

(* The client that a request ends the connection of.  Replies to a client  *)
(* that is gone fail; GrKillWindow names a window of any client.           *)
Ended(kind) ==
    CASE kind \in {"gone", "Close"} -> {curclient}
      [] kind \in {"PeekEvent", "CheckNextEvent", "Query"} -> {curclient} \cap hungup
      [] kind \in Clients -> {kind}
      [] OTHER -> {}

(* The clients that a request makes wait for an event.  GrPeekEventWrapper *)
(* looks at curclient after its reply, which may have failed: GsDropClient *)
(* has made that the first client of those left.                           *)
Waits(kind) ==
    CASE (kind = "GetNextEvent") -> {curclient}
      [] (kind = "PeekEvent" /\ curclient \notin events) ->
            IF curclient \in hungup THEN {root_client'} ELSE {curclient}
      [] OTHER -> {}

EventsAfter(kind) ==
    CASE kind = "CheckNextEvent" -> {events, events \ {curclient}}
      [] kind = "Other" -> Queued
      [] OTHER -> {events}

(* A plausible bug: the pass starts again when a client has gone.          *)
RestartIfDropped(kind) == IF Ended(kind) = {} THEN next[curclient] ELSE root_client'

(* The pass goes on to the client that was next when the request came.     *)
NextOf(kind) == next[curclient]

Handle(kind) ==
    /\ pc = "serve" /\ curclient \in rfds
    /\ CanRead(kind)
    /\ kind \in Clients => kind \in Live
    /\ \/ /\ Ended(kind) = {}
          /\ socket' = [socket EXCEPT ![curclient] = "empty"]
          /\ events' \in EventsAfter(kind)
          /\ UNCHANGED <<list, order, hungup>>
       \/ \E c \in Ended(kind) :
             /\ GsClose(c, {curclient})
             /\ \E E \in Queued : events' = E \ {c}
    /\ waiting' = (waiting \ Ended(kind)) \cup (Waits(kind) \ {NULL})
    /\ pc' = IF Ended(kind) # {} /\ Exits THEN "exit"
             ELSE IF Waits(kind) = {NULL} \/ next[curclient] \in Ended(kind) THEN "crashed"
             ELSE "serve"
    /\ curclient' = NextOf(kind)
    /\ Overtake({curclient})
    /\ UNCHANGED <<persistent_mode, rfds, backlog>>

Skip ==
    /\ pc = "serve" /\ curclient # NULL /\ curclient \notin rfds
    /\ curclient' = next[curclient]
    /\ UNCHANGED <<list, persistent_mode, pc, rfds, queues, outer, order, ahead>>

PassDone ==
    /\ pc = "serve" /\ curclient = NULL
    /\ pc' = "select"
    /\ rfds' = {}
    /\ UNCHANGED <<list, persistent_mode, curclient, queues, outer, order, ahead>>

-----------------------------------------------------------------------------
(* The clients.                                                            *)
Connect(c) ==
    /\ c \notin Live \cup backlog
    /\ backlog' = backlog \cup {c}
    /\ UNCHANGED <<list, persistent_mode, pc, curclient, rfds, queues, socket, hungup, order, ahead>>

Write(c, what) ==
    /\ c \in (Live \cap Talkers) \ hungup
    /\ socket[c] = "empty" \/ (socket[c] = "part" /\ what = "request")
    /\ what = "part" => c \in Slow
    /\ socket' = [socket EXCEPT ![c] = what]
    /\ UNCHANGED <<list, persistent_mode, pc, curclient, rfds, queues, hungup, backlog, order, ahead>>

HangUp(c) ==
    /\ c \in Live \ hungup
    /\ hungup' = hungup \cup {c}
    /\ UNCHANGED <<list, persistent_mode, pc, curclient, rfds, queues, socket, backlog, order, ahead>>

GsSelect ==
    \/ Answer
    \/ Wake
    \/ \E kind \in Kinds : Handle(kind)
    \/ Skip
    \/ PassDone

Running == pc \notin {"exit", "crashed"}

Next ==
    \/ GsSelect
    \/ Timeout
    \/ \E c \in Clients :
          Running /\ (Connect(c) \/ (\E what \in {"part", "request"} : Write(c, what)) \/ HangUp(c))

(* The server runs on, and a client that has begun to write a request goes *)
(* on to write all of it, or is gone.                                      *)
Fairness ==
    /\ WF_vars(GsSelect)
    /\ \A c \in Slow : WF_vars(socket[c] = "part" /\ (Write(c, "request") \/ HangUp(c)))

Spec == Init /\ [][Next]_vars /\ Fairness

-----------------------------------------------------------------------------
(* The list of clients, the pointers back and the count stay right however *)
(* clients come and go, in the middle of a pass too: each client that is   *)
(* connected is on it, oldest first, and nothing that was freed.           *)
ListSound ==
    /\ connectcount = Len(order)
    /\ root_client = IF order = <<>> THEN NULL ELSE order[1]
    /\ \A i \in DOMAIN order :
          /\ next[order[i]] = IF i < Len(order) THEN order[i + 1] ELSE NULL
          /\ prev[order[i]] = IF i > 1 THEN order[i - 1] ELSE NULL

(* The pass over the clients never goes on to one that was freed, except   *)
(* when a request kills the client that is next (GrKillWindow), and no     *)
(* request leaves curclient null, except the peek of a client that is gone *)
(* and was the only one, in a server that stays.                           *)
ServesTheLiving ==
    /\ [](pc = "serve" => curclient \in Live \cup {NULL})
    /\ [][pc' = "crashed" /\ pc # "crashed" =>
             \/ next[curclient] \notin ToSet(order') \cup {NULL}
             \/ order' = <<>> /\ persistent_mode]_vars

(* While a request of a client waits to be read no other client is served  *)
(* more than twice, once in what is left of the pass and once at most      *)
(* ahead of it in the next, though requests and failed replies take        *)
(* clients, the one that is served among them, off the list that the pass  *)
(* goes along.                                                             *)
OvertakenTwice == \A c, d \in Talkers : ahead[c][d] <= 2

(* No client is starved, whatever the others and the devices do: what it   *)
(* writes is read, and when it waits for an event and has one it gets it,  *)
(* if it does not go away and the server goes on.                          *)
EveryoneServed ==
    \A c \in Talkers :
        /\ socket[c] = "request" ~> (socket[c] # "request" \/ ~Running)
        /\ (c \in waiting \cap events) ~> (c \notin waiting \cap events \/ ~Running)
=============================================================================
