------------------------------ MODULE EventFifo ------------------------------
(***************************************************************************)
(* What an application is promised of its events: each one the server      *)
(* queues for it is handed to it once, in the order they were queued;      *)
(* except that a new event may take the place of one it supersedes, at the *)
(* end of the line, and that GrPeekWaitEvent may lose the first one.       *)
(* Events are numbered as they are queued, so that the first is the least. *)
(***************************************************************************)
EXTENDS Naturals, Sequences

CONSTANTS
    MaxEvents,  \* bound: events queued in a behaviour
    WmEvents,   \* the ones the window manager in the server keeps for itself
    Supersedes  \* <<e, d>>: when e is queued, d need not be handed over

VARIABLES
    posted,     \* events queued so far, numbered from 1
    pending,    \* events queued for the application and not handed to it
    got,        \* events handed to it, in order
    peeking     \* GrPeekWaitEvent is waiting for an event

fifoVars == <<posted, pending, got, peeking>>

FifoInit == posted = 0 /\ pending = {} /\ got = <<>> /\ peeking \in BOOLEAN

(* At most one event is dropped, and only for the one that supersedes it.  *)
Dropped(e) == {{}} \cup {{d} : d \in {p \in pending : <<e, p>> \in Supersedes}}

Post ==
    /\ posted < MaxEvents
    /\ posted' = posted + 1
    /\ \E D \in Dropped(posted') :
          pending' = (pending \ D) \cup ({posted'} \ WmEvents)
    /\ UNCHANGED <<got, peeking>>

IsFirst(e) == e \in pending /\ \A d \in pending : e <= d

Hand ==
    \E e \in pending :
        /\ IsFirst(e)
        /\ got' = Append(got, e)
        /\ pending' = pending \ {e}
        /\ UNCHANGED <<posted, peeking>>

Peek ==
    /\ peeking' = ~peeking
    /\ UNCHANGED <<posted, pending, got>>

Lose ==
    \E e \in pending :
        /\ IsFirst(e)
        /\ peeking /\ ~peeking'
        /\ pending' = pending \ {e}
        /\ UNCHANGED <<posted, got>>

FifoSpec == FifoInit /\ [][Post \/ Hand \/ Peek \/ Lose]_fifoVars
=============================================================================
