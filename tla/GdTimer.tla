------------------------------- MODULE GdTimer -------------------------------
(***************************************************************************)
(* Timers (src/engine/devtimer.c), and the waits of the server's main loop *)
(* that they end (GsSelect, src/nanox/srvmain.c), in the server that is    *)
(* linked to its application: the screen saver's one-shot timer, the       *)
(* periodic timers of clients, and the check for a console switch, which   *)
(* adds itself again from its callback.                                    *)
(*                                                                         *)
(* Time goes by in ticks, of which a millisecond has some; a second has    *)
(* MsPerSec milliseconds.  A timeval's seconds count from the one that the *)
(* clock is in.                                                            *)
(***************************************************************************)
EXTENDS Integers, SequencesExt

CONSTANTS
    UsPerMs, MsPerSec,  \* ticks of a millisecond, milliseconds of a second
    Ids,                \* bound: the ids of clients' timers (never reused)
    Periods,            \* bound: periods of clients' timers, in milliseconds
    Delays,             \* bound: delays of the screen saver, in milliseconds
    VtPeriod,           \* the period of the check for a console switch
    Timeouts,           \* bound: timeouts of calls that wait, 0 to block
    StepsBack,          \* bound: how far the clock is set back, in ticks
    MaxSteps,           \* bound: how often
    MaxTimers,          \* bound: timers at a time
    MaxLate             \* bound: how late, in ticks, the server is at most

ASSUME TimerAssumption ==
    /\ UsPerMs \in Nat \ {0} /\ MsPerSec \in Nat \ {0}
    /\ Periods \cup Delays \subseteq Nat \ {0} /\ VtPeriod \in Nat \ {0}
    /\ Timeouts \subseteq Nat /\ StepsBack \subseteq Nat
    /\ MaxSteps \in Nat /\ MaxTimers \in Nat /\ MaxLate \in Nat
    /\ Ids \cap {"saver", "vt"} = {}

Second  == UsPerMs * MsPerSec
Forever == -1

VARIABLES
    clock,          \* tv_usec of gettimeofday
    timers,         \* timerlist; due is the ticks left, by any other clock
    mainloop,       \* mainloop_timeout and due; on unless tv_sec is -1
    screensaver_delay,
    screensaver_active,
    phase,          \* the server is working, or in a select that waits or polls
    sleep,          \* ticks until select times out
    steps,          \* times the clock was set back
    stepped         \* it was, since the wait began

server == <<screensaver_delay, screensaver_active>>
vars   == <<clock, timers, mainloop, server, phase, sleep, steps, stepped>>

-----------------------------------------------------------------------------
(* A plausible bug: the seconds are not carried.                           *)
NoCarry(to) == [sec |-> to \div MsPerSec, usec |-> (clock + (to % MsPerSec) * UsPerMs) % Second]

calculate_timeval(to) ==
    LET usec == clock + (to % MsPerSec) * UsPerMs
    IN  IF usec > Second THEN [sec |-> to \div MsPerSec + 1, usec |-> usec - Second]
        ELSE [sec |-> to \div MsPerSec, usec |-> usec]

(* Division of integers in C.                                              *)
Truncated(a, b) == IF a >= 0 THEN a \div b ELSE -((-a) \div b)

time_to_expiry(tv) == tv.sec * MsPerSec + Truncated(tv.usec - clock, UsPerMs)

Timer(arg, period) ==
    [arg |-> arg, period |-> period, timeout |-> calculate_timeval(period),
     due |-> period * UsPerMs]

GdAddTimer(arg, period, list) == <<Timer(arg, period)>> \o list

(* The one that GdFindTimer comes to first.                                *)
GdDestroyTimer(arg, list) ==
    LET found == {i \in DOMAIN list : list[i].arg = arg}
    IN  IF found = {} THEN list ELSE RemoveAt(list, Min(found))

Armed(arg) == \E i \in DOMAIN timers : timers[i].arg = arg

(* A plausible bug: a timer that is too far away is left.                  *)
NeverCorrected(t) == t

(* A timer that is further away than its period, because the clock was set *)
(* back, is set again.                                                     *)
Corrected(t) ==
    IF time_to_expiry(t.timeout) > 0 /\ time_to_expiry(t.timeout) > t.period
    THEN Timer(t.arg, t.period)
    ELSE t

Init ==
    /\ clock \in 0 .. Second - 1
    /\ timers = <<>>
    /\ mainloop = [on |-> FALSE, sec |-> 0, usec |-> 0, due |-> 0]
    /\ screensaver_delay = 0
    /\ screensaver_active = FALSE
    /\ phase = "working"
    /\ sleep = Forever
    /\ steps = 0
    /\ stepped = FALSE

Working == phase = "working"

(* What requests and devices do with timers.                               *)
Becomes(list) ==
    /\ Working
    /\ Len(list) <= MaxTimers
    /\ timers' = list
    /\ UNCHANGED <<clock, mainloop, phase, sleep, steps, stepped>>

GrCreateTimer(id, period) ==
    /\ ~Armed(id)
    /\ Becomes(GdAddTimer(id, period, timers))
    /\ UNCHANGED server

(* A client's own request, or the end of its connection.                   *)
GrDestroyTimer(id) == Armed(id) /\ Becomes(GdDestroyTimer(id, timers)) /\ UNCHANGED server

(* The server begins to look for console switches.                         *)
GsInitialize ==
    /\ ~Armed("vt")
    /\ Becomes(GdAddTimer("vt", VtPeriod, timers))
    /\ UNCHANGED server

(* A plausible bug: the screen saver's timer is not taken out first.       *)
AddSaver(delay) == IF delay = 0 THEN timers ELSE GdAddTimer("saver", delay, timers)

SetSaver(delay) ==
    LET others == GdDestroyTimer("saver", timers)
    IN  IF delay = 0 THEN others ELSE GdAddTimer("saver", delay, others)

GrSetScreenSaverTimeout(delay) ==
    /\ Becomes(SetSaver(delay))
    /\ screensaver_delay' = delay
    /\ UNCHANGED screensaver_active

(* The mouse or the keyboard was used.                                     *)
GsResetScreenSaver ==
    /\ Becomes(IF screensaver_delay = 0 THEN timers ELSE SetSaver(screensaver_delay))
    /\ screensaver_active' = FALSE
    /\ UNCHANGED screensaver_delay

-----------------------------------------------------------------------------
(* GdGetNextTimeout(timeout), and select begins.                           *)
GdGetNextTimeout(timeout) ==
    LET fresh  == [i \in DOMAIN timers |->
                      IF timeout = 0 /\ i = 1 THEN timers[i] ELSE Corrected(timers[i])]
        tv     == calculate_timeval(timeout)
        waits  == {time_to_expiry(fresh[i].timeout) : i \in DOMAIN timers}
                     \cup (IF timeout = 0 THEN {} ELSE {time_to_expiry(tv)})
        lowest == CHOOSE n \in waits : \A m \in waits : n <= m
    IN  /\ Working
        /\ timers' = IF waits = {} THEN timers ELSE fresh
        /\ mainloop' = CASE waits = {} -> mainloop
                         [] timeout # 0 -> [on |-> TRUE, sec |-> tv.sec, usec |-> tv.usec,
                                            due |-> timeout * UsPerMs]
                         [] OTHER -> [mainloop EXCEPT !.on = FALSE, !.sec = -1]
        /\ sleep' = CASE waits = {} -> Forever
                      [] OTHER -> IF lowest <= 0 THEN 0 ELSE lowest * UsPerMs
        /\ phase' = "select"
        /\ UNCHANGED <<clock, server, steps, stepped>>

(* A call that does not wait.                                              *)
Poll ==
    /\ Working
    /\ phase' = "poll"
    /\ sleep' = 0
    /\ UNCHANGED <<clock, timers, mainloop, server, steps, stepped>>

Return == phase' = "working" /\ sleep' = Forever /\ stepped' = FALSE

(* Something can be read: timers are not looked at in this pass.           *)
InputReady ==
    /\ ~Working
    /\ Return
    /\ UNCHANGED <<clock, timers, mainloop, server, steps>>

(* A plausible bug: the timer must be late.                                *)
ExpiredBefore(t) == time_to_expiry(t.timeout) < 0

Expired(t) == time_to_expiry(t.timeout) <= 0

Ran == {i \in DOMAIN timers : Expired(timers[i])}

(* A plausible bug: whether a timeout is in force is not looked at.        *)
ToldAnyway == time_to_expiry(mainloop) <= 0

(* GdTimeout's answer.  With no timeout asked for tv_sec is -1, and tv_usec*)
(* is what it was last.                                                    *)
Told ==
    IF mainloop.on THEN time_to_expiry(mainloop) <= 0 ELSE mainloop.usec > 0

TimedOut == ~Working /\ sleep = 0

(* select has timed out: GdTimeout runs the timers that have expired, from *)
(* the newest on.  The console switch's is added again by its callback and *)
(* not looked at in this pass.                                             *)
GdTimeout ==
    LET After(t) == CASE ~Expired(t) -> <<Corrected(t)>>
                      [] Expired(t) /\ t.arg \in Ids -> <<Timer(t.arg, t.period)>>
                      [] OTHER -> <<>>
        kept  == FlattenSeq([i \in DOMAIN timers |-> After(timers[i])])
        again == \E i \in Ran : timers[i].arg = "vt"
    IN  /\ TimedOut
        /\ Return
        /\ timers' = IF again THEN GdAddTimer("vt", VtPeriod, kept) ELSE kept
        /\ screensaver_active' = (screensaver_active \/ \E i \in Ran : timers[i].arg = "saver")
        /\ UNCHANGED <<clock, mainloop, screensaver_delay, steps>>

-----------------------------------------------------------------------------
(* The clock is now in a second that is n later.                           *)
Later(r, n) == [r EXCEPT !.sec = @ - n]

Tick ==
    LET n == (clock + 1) \div Second
    IN  /\ \A i \in DOMAIN timers : timers[i].due > -MaxLate
        /\ ~mainloop.on \/ mainloop.due > -MaxLate
        /\ clock' = (clock + 1) % Second
        /\ timers' = [i \in DOMAIN timers |->
                         [timers[i] EXCEPT !.timeout = Later(@, n), !.due = @ - 1]]
        /\ mainloop' = IF mainloop.on THEN [Later(mainloop, n) EXCEPT !.due = @ - 1] ELSE mainloop
        /\ sleep' = IF sleep > 0 THEN sleep - 1 ELSE sleep
        /\ UNCHANGED <<server, phase, steps, stepped>>

SetClockBack(d) ==
    LET n == (clock - d) \div Second
    IN  /\ steps < MaxSteps
        /\ steps' = steps + 1
        /\ stepped' = ~Working
        /\ clock' = (clock - d) % Second
        /\ timers' = [i \in DOMAIN timers |-> [timers[i] EXCEPT !.timeout = Later(@, n)]]
        /\ mainloop' = IF mainloop.on THEN Later(mainloop, n) ELSE mainloop
        /\ UNCHANGED <<server, phase, sleep>>

Next ==
    \/ \E id \in Ids :
          \/ \E period \in Periods : GrCreateTimer(id, period)
          \/ GrDestroyTimer(id)
    \/ GsInitialize
    \/ \E delay \in {0} \cup Delays : GrSetScreenSaverTimeout(delay)
    \/ GsResetScreenSaver
    \/ \E timeout \in Timeouts : GdGetNextTimeout(timeout)
    \/ Poll
    \/ InputReady
    \/ GdTimeout
    \/ Tick
    \/ \E d \in StepsBack : SetClockBack(d)

Spec == Init /\ [][Next]_vars

-----------------------------------------------------------------------------
(* No timer runs a whole millisecond before its period has gone by since   *)
(* it was set, whatever becomes of the clock's fractions and carries and   *)
(* when it is set back.                                                    *)
NotEarly == TimedOut => \A i \in Ran : timers[i].due < UsPerMs

(* A wait that ends by its timeout is never for nothing: a timer runs or   *)
(* the caller is told that its timeout is over, so the server does not     *)
(* spin on a fraction of a millisecond that is left.                       *)
NoIdleWake == TimedOut /\ phase # "poll" /\ ~stepped => Ran # {} \/ Told

(* select comes back less than a millisecond after any timer is due.  When *)
(* the clock was set back it does so within the timer's period, unless the *)
(* timer is the newest and no timeout was asked for, when GdGetNextTimeout *)
(* does not correct it.                                                    *)
WakesInTime ==
    phase = "select" =>
        \A i \in DOMAIN timers :
            \/ sleep >= 0 /\ sleep < UsPerMs
            \/ sleep >= 0 /\ sleep < timers[i].due + UsPerMs
            \/ steps > 0 /\ sleep >= 0 /\ sleep <= timers[i].period * UsPerMs
            \/ steps > 0 /\ i = 1 /\ ~mainloop.on

(* GdTimeout "returns TRUE if the timeout specified in the last            *)
(* GdGetNextTimeout() call has expired, or FALSE otherwise", to less than a*)
(* millisecond; but with none specified also when an earlier one has left  *)
(* microseconds behind.                                                    *)
TimeoutTold ==
    TimedOut =>
        \/ Told /\ mainloop.on /\ mainloop.due < UsPerMs
        \/ Told /\ ~mainloop.on /\ mainloop.usec > 0
        \/ ~Told /\ (mainloop.on => mainloop.due > 0 \/ steps > 0)

(* While the screen saver is on and has not come up there is one timer to  *)
(* bring it up, and none while it is off, in any order of requests, input  *)
(* and timeouts.                                                           *)
SaverArmed ==
    LET n == Cardinality({i \in DOMAIN timers : timers[i].arg = "saver"})
    IN  /\ n <= 1
        /\ screensaver_delay = 0 => n = 0
        /\ screensaver_delay # 0 /\ ~screensaver_active => n = 1
=============================================================================
