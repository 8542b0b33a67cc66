# The nano-X server and its client library in TLA+

Microwindows is a small windowing system.  Its nano-X API has the shape of X11:
a server process owns the screen, the mouse and the keyboard, and applications
link a client library that sends requests over a socket and hands events back.
This directory holds specifications of the parts of it where the order of
steps matters, the configurations that model-check them with TLC, and proofs
checked by TLAPS.

All paths below are relative to the repository; `nanox/` is `src/src/nanox/`.

## 1. The system

### Components

| component | source | state | operations |
|---|---|---|---|
| window tree | `nanox/srvfunc.c`, `srvutil.c` | `listwp`, each window's `parent`, `children`, `siblings`, `mapped`, `realized`, `output`, `owner`, and `nextid` | new, map, unmap, raise, lower, move, resize, reparent, destroy |
| pointer and focus | `nanox/srvutil.c`, `srvevent.c` | `mousewp`, `focuswp`, `focusfixed`, `grabbuttonwp`, `curbuttons`, the cursor position, event masks | mouse reports, `GrSetFocus`, `GrMoveCursor`, `GrSelectEvents`, re-evaluation after each change of the tree |
| key grabs | `nanox/srvfunc.c`, `srvevent.c` | `list_grabbed_keys` | `GrGrabKey`, `GrUngrabKey`, `GsDeliverKeyboardEvent` |
| window clipping | `nanox/srvclip2.c`, `srvutil.c` | `clipwp` and the region installed for it | `GsPrepareDrawing`, `GsSetClipWindow`, every request that clears windows |
| clients and their resources | `nanox/srvnet.c`, `srvmain.c` | the list of clients, `curclient`, everything with an `owner` | accept, close, `GrKillWindow`, `GsDestroyClientResources` |
| server main loop | `nanox/srvmain.c` | the descriptors it selects on, the pass over the clients | `GsSelect` |
| event queue of a client | `nanox/srvnet.c`, `srvevent.c` | `eventhead` .. `eventtail`, `waiting_for_event` | `GsAllocEvent`, get, check, peek |
| client library: events | `nanox/client.c` | `evlist`, `nxGlobalLock`, registered descriptors | `GrGetNextEvent`, `...Timeout`, `GrCheckNextEvent`, `GrPeekEvent`, `GrPeekWaitEvent`, `GrMainLoop` |
| client library: requests | `nanox/client.c`, `nxproto.c` | the request buffer, the socket | every other `Gr...` call |
| timers | `engine/devtimer.c`, `nanox/srvfunc.c` | the timer list, the timeout being waited for, the screen saver | create, destroy, `GdGetNextTimeout`, `GdTimeout`, `GrSetScreenSaverTimeout` |
| mouse cursor | `engine/devmouse.c` | visibility count, saved pixels, `curneedsrestore` | show, hide, move, check and fix around drawing |
| drawing engine | `engine/devdraw.c`, `devblit.c`, `devclip2.c` | the clip region, the clip cache, the frame buffer | points, lines, rectangles, fills, reading, blits |
| regions | `engine/devrgn.c`, `devrgn2.c` | arrays of rectangles | union, intersection, difference, exclusive or, offset, tests |
| drawables | `nanox/srvfunc.c`, `srvutil.c` | pixmaps, buffers, background pixmaps, the caches of the last window, pixmap and GC | create, destroy, find |
| built-in window manager | `nanox/wm*.c` | frames, the drag in progress | takes events before the application |
| fonts, images, drivers | `engine/`, `drivers/` | pixels, hardware | I/O |
| Win32 and X11 APIs | `mwin/`, `nx11/` | their own | a second server, and a translation layer |

### How they interact

The server is one thread.  `GsSelect` waits for descriptors, reads the mouse
and the keyboard, handles at most one request of each client, and finishes the
wait of a client whose queue has become non-empty.  A request is a function
call: it changes the tree, the tree's helpers re-evaluate the pointers, and
events are put on the queues of the clients whose masks are on the windows
concerned.  Nothing is interrupted; what can go wrong in the server is a
*sequence* of requests and reports of several clients, and the loops that
destroy a client's resources one by one while each destruction changes the
structures being walked.

Between server and application there is real concurrency: the server queues
events at any time, answers a waiting client later than it asked, and the
library meets events in front of replies.  With `THREADSAFE=Y` several threads
of one application share the socket, the event list and one lock.

### What is hard, and what makes each part correct

* Window tree: intrusive sibling chains are relinked by hand, the realized flag
  is kept incrementally, and windows die with their parents and their clients.
  It must stay a tree, with total stacking orders, exact flags, and no trace of
  a dropped client.
* Pointer and focus: bare pointers to windows, moved by a dozen code paths.
  They must never lead to a freed window, leave what is hidden, respect a fixed
  focus and the NOFOCUS property, and the implicit button grab must end.
* Key grabs: the delivery loop relies on an order of the list that three other
  pieces of code maintain.
* Events: an application must be handed every event once and in order whatever
  mix of calls it makes, but for those that a newer one of their kind supersedes,
  and a call that waits must return.
* Main loop: the list of clients is walked while requests take clients off it,
  and every client must be served whatever the others do.
* Clipping and drawing: a region computed once is used until somebody forgets
  it, a box of points tested once is used until the region changes, and pixels
  are saved under the cursor until somebody draws there.  Each of the three
  caches has to be right after any sequence of requests.
* Timers: expiry is computed with truncating divisions on a clock that carries,
  and that the user may set back.
* Regions: each operation relies on a form of the array that the others keep.

`PROJECT.json` lists the hazards line by line, with the property that covers
each one or the reason why none does yet.

The configuration modelled is the repository's default: client and server as
separate processes (`LINK_APP_INTO_SERVER=N`), `THREADSAFE=Y` with a recursive
mutex, the built-in window manager (`NANOWM=Y`), no shared-memory requests, a
software cursor, `DYNAMICREGIONS`, and not `MW_FEATURE_TINY`.  Two modules say
where they cover more: NxSelect has the server with and without
`persistent_mode`, and GdTimer has the waits with a timeout that only an
application linked into the server asks for.

## 2. The modules

```
EventFifo        NxTree                              GdClip
    ^               ^                                   ^
(refined by)    (extended by)                       (extended by)
    |               |                                   |
NxEvents        NxWindows <--- NxWindowsProofs       GdDraw <----- GdDrawProofs
    ^             ^    ^         ^        ^
NxEventsProofs    |    |         |        |       GdRegion <-- GdRegionProofs
                  |    |         |        |
          NxKeyboard  NxClip     |        |       NxSelect <-- NxSelectProofs
              ^          ^       |        |
              |   NxClipProofs --+        |       GdTimer <--- GdTimerProofs
       NxKeyboardProofs ------------------+
```

`MC*.tla` add the model values, the symmetry set, and the sets of masks, regions
and shapes that the configurations use.

**NxTree** - the tree alone, and clients dropped with their windows.  The
windows live are the set `listwp`.  Sibling chains are the relation `above`
(`<<a, b>>`: a comes before b on the chain of their parent); the code's unlink
and link are `Unlinked`, `FrontOf` and `BackOf`, so that a bad relink shows as
an order that is not total (`StackingOrder`) or is not the old one
(`OthersKeepOrder`).  The recursive walks `GsUnrealizeWindow` and
`GsRealizeWindow` are least sets closed under "child of", because what has to
be proved about cannot use recursive operators.  Dropping a client is a loop in
`GsDestroyClientResources`: one action `TreeDestroyOwned` for each window,
newest first, with `closing` set, and `TreeDropDone` at its end.

**NxWindows** - the tree with the pointers, positions, masks and properties.
Each action is a whole request: its tree action (the `Tree...` operator of the
same name) and what it does to the rest.  The order in which
`GsUnrealizeWindow` meets the old mouse window and the old focus window matters
to what it gives the focus to, and is in `VisitedBefore` and `FocusAfter`.
Temporary unmaps (`GrMoveWindow`, a border set by `GrSetWMProperties`) leave
the pointers alone where the code passes `temp`.  `nopropmask` is zero for every
window, as nothing in the code sets it.  The screen is one row of cells.
`GsSetClipWindow` is here too, because it is a second walk of the same tree that
`GsFindVisibleWindow` walks the other way.  `Cells` are numbered from 0, as the
columns of the screen are.

**NxKeyboard** - NxWindows with the list of key grabs.  The list is again a set
and its order, `before`.  Any request of NxWindows also takes the grabs of the
windows it destroys off the list (`WindowsStep`); the requests that drop a
client remember whose request it is (`curclient`), as the code does.  The last
key press and who hears of it is `keysent`.

**NxClip** - NxWindows with `clipwp`, the window the engine's clip region was
last computed for.  `GsPrepareDrawing` is the start of any drawing request.
What makes the server forget `clipwp` is mostly a side effect: `GsClearWindow`
painting some window.  Each request therefore carries the set of
windows it clears, computed as the code's walks over siblings and children do
(`Uncovered`, `GsExposeArea`, `Raised`, `Lowered`, `Resized`, `Recolored`).
`GsClearWindow` paints nothing in a window without a background, and returns early
(`nanox/srvutil.c:739`) for a buffered one whose drawing is not done (`Paints`, by
`props`, which `GrSetWMProperties` replaces, a flush completes, and a new buffer
resets).  Drawing on a buffered window or on a pixmap sets the region of the
buffer and forgets `clipwp`; so does clearing a new buffer to the background
(`BufferErased`), and a buffer for which there is no memory leaves the window
unbuffered (`BufferKept`).  `skipped` is a history variable that no action reads:
the windows that `GsClearWindow` was called for and left alone since the region
was set.  A `GrSetWMProperties` call that sets several things is modelled as
several, in the order of the code.  The mouse does not move in this module, as
no region depends on where it is.

**GdClip** - the engine below: the clip region as an array of rectangles, the
box `GdClipPoint` remembers, which for a point outside of the region is bounded
by the nearest edges of the rectangles on each side (`OutsideBox`, the loop of
the code as minima and maxima).

**GdDraw** - GdClip with the frame buffer and the software cursor.  A call of
the engine is an operator on the record of its state (`Dev`) and is one action;
`drawn` counts how often it draws each pixel.  A pixel shows what was drawn there
last (`"app"`), the cursor, or something stale (`"old"`).  `drawrow` and
`drawcol` skip from one edge of the cached box to the next, as in the code.
A loop is a function of the number of turns, whose value at the last turn is the
state the loop ends in; a turn (`RowTurn`, `ColTurn`, `Step`) is an operator of
its own.  `drawrow`'s loop is given as many turns as the row has pixels, and what
is left of them when the row is done changes nothing.  The driver's own routines
are external.

**GdTimer** - the timer list and the wait it ends.  Time is ticks: `UsPerMs` to
a millisecond and `MsPerSec` of those to a second, so that carries and truncated
divisions happen within a few ticks; every timer also has `due`, the ticks left
by a clock nobody sets, which only the properties read.  The server works, sets
up its wait (`GdGetNextTimeout`, `Poll`), and returns by input or by timeout
(`GdTimeout` with all callbacks).  `Tick` is held back by `MaxLate` while the
server has something to do.

**NxSelect** - the main loop over several clients, each step of the pass on its
own: answering a waiting client, `select`, accepting, one request of one
client, the next client.  Clients write, hang up and connect between any two of
them.  `ahead` is a history variable that no action reads: while a request of a
client waits, how often each other client was served.  The list is the code's doubly linked list.  What a request does besides is
only that it may queue events for anybody.

**GdRegion** - the band algorithm.  The overlap functions work on bands, each
operation on arrays, and the two variables are a client's regions; `area` is
the set of points that they ought to be.  As in GdDraw a loop is a function of
the number of turns and a turn (`UnionTurn`, `IntersectTurn`, `SubtractTurn`,
`RegionTurn`, `ScanTurn`) is an operator.  Each turn leaves at least one
rectangle of the operands behind, so a loop is given as many turns as they have
rectangles, and what is left of them changes nothing.  `MERGERECT` looks at the
rectangle put out last only if it has the height of the band being made, so
`Merge` works on that band alone.

**NxEvents** - the way of an event of one client: the server's queue and
`waiting_for_event`, the socket's two directions `req` and `rep`, the library's
`evlist` and its lock.  A thread is idle, in `select` (lock free), woken, or
reading (lock held).  A request with a reply stands for all others (`query`).
The window manager in the server keeps some events for itself (`WmEvents`),
which is why a wait can end with no event.  When a position of the mouse or an
exposure is queued, the first queued event that it supersedes is freed from
wherever it is in the queue (`GsFreePositionEvent`, `GsFreeExposureEvent`, called
at `nanox/srvevent.c:426` and :632).  Which events supersede which is a matter of
their windows and areas, and is the constant relation `Supersedes`.  A removal
puts the element on the free list, from which the new event is taken, so that an
event that was freed is always followed by the one it was freed for; where
`malloc` fails otherwise, no event is queued.

**EventFifo** - what the application is promised: events queued are handed over
once and in order, but for those that a later event supersedes, at most one each
(`Dropped`), as the comments at `nanox/srvevent.c:420` and :647 say, and for one
that `GrPeekWaitEvent` takes and loses (`Lose`).  Events
are numbered as they are queued, so what is pending is a set of numbers and the
first of it is the least.  `NxEvents` implements it under the mapping `pending <- Pending` (the library's
list, then the socket, then the server's queue, without those that are no event
for the application).

## 3. What TLC checks

| run | bounds | what it shows |
|---|---|---|
| `tree` | 2 clients, 3 windows beside the root | `StackingOrder`, `Rooted`, `RealizedIffViewable`, `OwnersConnected`, and `OthersKeepOrder` for every step |
| `focus` | 1 client, 2 windows, 2 cells, 2 widths | `OnlyReparentHides`: only reparenting can leave the pointers in a hidden window; `FixedFocusStays` |
| `pointers` | 1 client, 2 windows, one that may have NOFOCUS, one input-only, a button and the wheel | `PointersLive`, `SelectionsConnected`, `GrabHasButton`, `GrabHeld` |
| `clip` | 1 client, 2 windows on 2 cells, 2 widths, one that may be input-only, the other with or without a background and a buffer, changed and flushed at any time | `DrawnWhereHit`: drawing and pointing agree about what is visible; `ClipLive`, `StaleOnlyWhereSkipped` |
| `draw` | a screen of 5 by 4, a cursor of 2 by 2 in two shapes and four places, 5 regions, shown once | `CacheSound`, `ScreenIntact`, `ReadsApp`, `DrawsExactly`, `BlitsUpOrLeft`, `CursorComesBack` |
| `timers` | 2 ticks to a millisecond, 3 milliseconds to a second, 2 timers of all kinds, 1 tick late, the clock set back once by more than a second | `NotEarly`, `NoIdleWake`, `WakesInTime`, `TimeoutTold`, `SaverArmed` |
| `select` | 3 clients, two that talk, one of them slowly | `ListSound`, `ServesTheLiving`, `EveryoneServed`; `OvertakenTwice`: no client is served more than twice while another's request waits |
| `regions` | any bitmap of 3 by 3 points as the start, a second region of at most two rectangles | `AreaExact`, `BandsKept`, `AnswersExact` |
| `events` | 1 thread, all calls, 5 events, three of them superseded by later ones, 3 requests in flight | `InOrder` (the refinement of EventFifo), `WaitingCallReturns`, `ReadIsAnswered`, `NoWrongPacket` |
| `keys` | 2 clients, 1 window, 2 cells, 1 key, 2 grabs of three types | `HotkeysListedLast`, `OneExclusiveGrab`, `ExclusiveSilencesHotkeys`, `FocusHearsKeys` |
| `keys_kill`, `threads` | as `keys` on one cell; two threads | expected to be violated, see below |

**Windows.**  Window ids are never given out twice, so `MaxWid` bounds how many
windows are created in a behaviour, not only how many are live.  Three windows
beside the root allow two siblings under a window and one below a sibling, which
is what relinking, nested destruction and hiding need; two make a parent and a
child, or two siblings, which is what the pointers need.  In `pointers` there is
one client, which closes and kills itself; several clients are in `tree`, in
`keys`, and in the proofs of all four of its properties.  Two cells let windows
overlap partly, cover each other, and move apart.  In `clip` window 3 takes on
every combination of having no background and being buffered, before or after it
is flushed, and window 2 stays as it was created, so that windows of all kinds
come in front of one another and of the window drawn on; more of them, and more
cells, are in the proofs.

**Keys and events.**  One key is enough, since grabs of different keys never
meet; two grabs are an exclusive and a hotkey one in either order.  The type
left out of the run, `GR_GRAB_EXCLUSIVE`, is `GR_GRAB_EXCLUSIVE_MOUSE` without
its second case; the proofs cover all four.  Five events make one on each of the
three stations between queue and application, one that the window manager
keeps (2), and among the exposures one that encloses two others (4) and one that
encloses three (5), so that an event is taken from the front, the middle and the
end of the queue, or is no longer there.  In `threads` the second event is a
position of the mouse that supersedes the first.

**Clients.**  Two clients that talk meet in either order on the list; the third
only comes and goes around them.  The bound of `OvertakenTwice` is reached: once
in the rest of a pass that had not seen the request yet, and once at the
beginning of the next.

**Drawing.**  The five regions are nothing, a window cut by the screen, and
windows with a corner, the middle or both corners covered, which gives the box
of the cache every side to be cut at.  Lines and areas start and end outside the
screen, on the edge and inside.  `MaxVisible` is 1: `GdShowCursor` counts, and a
second show before a hide would let the cursor be moved without being taken
away; nothing in the server shows it twice but `GrInjectPointerEvent`, whose
caller is assumed not to.

**Timers.**  With two ticks to a millisecond and three of those to a second all
of truncation, carry and the exact boundary `usec = 1000000` occur with periods
of 1, 2 and 3.  A client's timer, the screen saver and the console check share a
list of two.  The step back is longer than any period.

**Regions.**  On nine points every bitmap is a start, so arrays of up to five
rectangles in three bands meet each other; the rectangles added are squares of
two by two points, which meet two bands of any such array, and bitmaps make the
single points and the long rectangles.

Clients are symmetric in the runs with two and no liveness.  Deadlock is checked
for the server's modules and the engine's; in NxEvents and NxSelect the
application may stop calling, and the server may exit.

### Fairness

NxEvents and NxSelect have liveness.  In NxEvents `ServerStep` is weakly fair:
`main` calls `GsSelect` in a loop for ever (`nanox/srvmain.c:191`) and each call
scans all clients.  A thread inside a library call goes on when it can: `select`
returns when the socket is readable, and a woken thread takes the lock and reads.
`GrPrepareSelect` is fair because `GrMainLoop` is an endless loop.  No fairness
makes the application call anything else, input arrive, or an event be queued,
and none decides between `select` timing out and returning.

In NxSelect the same loop makes `GsSelect` weakly fair, and nothing else of the
server is assumed.  Of the clients it is only assumed that one which has begun
to write a request finishes it or is gone: `GsRead` blocks the whole server
until then.  `EveryoneServed` needs no more, because a client that is answered
at the start of a pass no longer waits and has to be served to wait again.

### Where code and comments disagree

Two runs are expected to be violated, by one property each, with the text it
contradicts quoted in `PROJECT.json`:

* `keys_kill`: when one client kills another, the key grabs of the *killer* are
  freed and those of the dropped client stay, with an owner that is freed
  (`nanox/srvnet.c:2065`).
* `threads`: a thread woken in `select` blocks with the lock held when another
  has read its event (`nanox/client.c:1010`).

Others are in the models as the code has them, and the properties say exactly
how far what they promise is weakened:

* `GrPeekWaitEvent` never links the event it got into the list
  (`nanox/client.c:1124`, against the comment at :1121): the one loss that
  EventFifo allows (`Lose`).
* `GrMainLoop` may go to sleep in `select` with an event on the library's list
  (`nanox/client.c:855`, against the doc at :839); `WaitingCallReturns` promises a return
  for events in the server's queue only.
* The mouse window changes during a grab (`nanox/srvutil.c:1390`, against the
  comment at :1371).
* A request that kills the client that is next in the pass leaves
  `curclient_next` at freed memory (`nanox/srvmain.c:546`), and the peek of a
  client that is gone makes another client wait (`nanox/srvnet.c:584`): the
  exceptions in `ServesTheLiving`, and the second also in the operator `Waits`.
* `GdGetNextTimeout` leaves the microseconds of an earlier timeout when it is
  asked for none, which `GdTimeout` then may report as expired
  (`engine/devtimer.c:182`), and does not correct the newest timer after the
  clock was set back when no timeout is asked for (:186): the exceptions in
  `TimeoutTold` and `WakesInTime`.
* Windows without a background, and buffered ones that were not flushed, are
  mapped, raised and resized without the installed region being recomputed
  (`nanox/srvutil.c:1190`, as :739 and :769 paint nothing), so that they are drawn
  over where they are in front of the drawing window: the exception in
  `StaleOnlyWhereSkipped`, for windows that `GsClearWindow` has come to and left
  alone since the region was set.
* An input-only window is resized without its output children being cleared
  (`nanox/srvfunc.c:673`); `StaleOnlyWhereSkipped` is about drawing windows that
  are in no input-only one, where only reparenting can put them.
* `GdRect` returns without `GdFixCursor` when the rectangle is less than three
  rows high (`engine/devdraw.c:466`): the exception in `CursorComesBack`.
* A slanted line is drawn with its last point even if the caller asks for it
  not to be (`engine/devdraw.c:284`, against the doc at :192): in `DrawsExactly`.
* A blit that overlaps itself downwards or to the right under a region of
  several rectangles copies pixels it has already overwritten
  (`engine/devblit.c:629`): `BlitsUpOrLeft` is about the other two directions.

## 4. What is proved

The proofs hold for any number of windows, clients, threads and timers, any
screen, any regions and any sets of masks, buttons and keys, from the
assumptions on the constants alone (`TreeAssumption`, `InputAssumption`,
`KeyAssumption`, `ClipAssumption`, `RegionAssumption` and the ones of the other modules).  Two
theorems about events and two about drawing have one hypothesis more, said below.

**NxWindowsProofs** begins with the tree alone, under `TreeSpec`.  The inductive
invariant is `TypeInv == TreeTypeOK /\ ParentsLive /\ OwnersConnected`: none of the three is
inductive alone, as a destruction keeps parents live only because the set it
removes is closed, and a new window's parent is live only by its guard and
`nextid`'s type.  On top of it, each preserved by every action given `TypeInv`:

* `RealizedCorrect`: `RealizedIffViewable`, through `UnrealizeHides` and
  `RealizeShows`, which say what the two walks do to a set of flags that is exact;
* `TreeRooted`: `Rooted` is first restated as "every set that holds the root and,
  with a window, its children, holds all windows" (`ConnectedIsRooted`), which
  is what reparenting and destruction are shown to keep;
* `StackingCorrect` and `OrderKept`: the sibling chains;
* the facts about `Below` (`BelowClosed`, `BelowLeast`, `BelowUp`,
  `BelowTransitive`) that stand in for an induction over the tree.

Then the whole server.  `WindowsImplementTree`: every request and report of
NxWindows is a step of NxTree or leaves the tree alone, so that all the theorems
above hold of the server with its pointers.  Its own invariant is
`WindowInv == TypeInv /\ PointersLive /\ TypeOK`.  `PointersCorrect`: with what
the walks return (`FindVisibleIn`, `NearestIn`), no pointer outlives its window.
`SelectionsCorrect`: no selection outlives its client, in the middle of the loop
that destroys them too; this is what the single-client run `pointers` cannot
show.  `GrabCorrect` and `GrabKept` are about the implicit grab,
`FixedFocusKept` and `NoFocusKept` about the focus, `WindowTypesCorrect` about
types (the pointer stays on the screen because `Cells` is finite).

* `DrawnWhereHitCorrect`: the search for the window under a cell goes down from
  the root, the clipping of a window goes up from it.  Both are shown to end in
  the one window that covers the cell with all its ancestors and that nothing in
  front covers.  It needs that the root covers every cell (`RootCovers`), the
  total order of siblings, and that the tree is rooted.
* `OnlyReparentHidesCorrect`: what becomes of the two pointers is in the hidden
  part only if a parent changed; the walks up (`UpClosed`) end on the screen
  because what is realized has a realized parent (`OnScreenStep`).

**NxKeyboardProofs.** `KeyboardImplementsWindows` composes once more.  `KeyInv`
adds to the two properties of the list that it lists only grabs and in one
order; it is inductive because a grab is added at the end it belongs to, and
leaving the list disturbs nothing.  From it `HotkeysLastCorrect`,
`OneExclusiveCorrect`, and `HotkeysSilenced`, the promise of `nano-X.h` about
exclusive reservations; `KeyTypesCorrect` for the types.  `FocusHeard`: a walk
up that may start anywhere finds some window of those it looks for if it passes
one (`NearestExists`).

**NxClipProofs.** `ClipImplementsWindows`, and `ClipLiveCorrect`: a window that
leaves the screen is forgotten by whatever takes it off, directly or as a
descendant of a window hidden, moved, reparented or destroyed.

`StaleCorrect`, for the region itself.  `StaleOnlyWhereSkipped` excuses a cell
inside any realized window that was left alone, which is more than any
one step gives: the window could go and leave the cell wrong.  The invariant
`StaleInv` therefore says which window is the excuse: one that would be drawn on
the cell if nothing were in front of it, all its ancestors being on the screen
and covering the cell (`Reached`).  A step that keeps `clipwp` has called
`GsClearWindow` only for windows that it leaves alone, and these are then in
`skipped`, whatever their properties come to be later; so

* what it took from in front of `clipwp` (`Parted`) has `clipwp` among those
  skipped, and what it put there (`Joined`) is itself skipped; either is then the
  excuse (`StaysStale`);
* a window that was the excuse stays it, or goes with the window moved or
  hidden, whose parent is skipped in the same place and takes over
  (`StillReached`, `ResizedReached`).

Each request is a lemma: `AroundStale` for those that hide, move, reparent and
destroy a window `clipwp` is not in, `GrowStale` and `RestackStale` for those
that map, create, raise and lower, `ResizedStale`.

**GdDrawProofs** is about GdClip and GdDraw. `CacheCorrect`: the box that
`GdClipPoint` keeps never holds both visible and hidden points, whatever regions
of rectangles on the screen are set and whatever points are tested. The
invariant `ClipInv` says this of all points, not only those on the screen, and
that an empty region is cached as empty. The step for a point outside shows that
the box `OutsideBox` holds the point and meets no rectangle, because each
rectangle that does not hold the point is off it on some side, and that side of
the box stops at it.

The drawing routines keep `Inv == clipregion \in Regions /\ Good(Dev, 1)`.
`Good(d, n)` says of the state `d` that a call works on that the cache is right,
that the screen is intact, and that the cursor is shown, or hidden and still to
be restored, at most `n` times.  `ScreenIntact` alone is not inductive: a cursor
that is shown and still to be restored would come to be shown twice, and then be
moved without being taken away.  `n` is 1, and 0 in the middle of `MoveBits`,
where the blit and the fill run with the cursor hidden.  From it, for screens,
regions, cursors, lines and areas of any size:

* `NoTrail` (`ScreenIntact`) and `CursorNotRead` (`ReadsApp`).  The argument
  is the same for each routine: after `GdCheckCursor` the cursor is hidden
  or away from the shape (`Apart`), and as a call only ever hides the
  cursor (`Since`), it stays so until the end.  Each lemma about a routine gives
  this for what the routine draws (`RowGood`, `FillRectCall`, `CopyRectsGood`, ...).
* `CursorRestored` (`CursorComesBack`): where a routine may return without
  `GdFixCursor`, it has not hidden the cursor, because `GdClipPoint` has found
  nothing visible.
* `DrawnOnce` (`DrawsExactly`).  The state after a routine has drawn `P` is
  `Painted(d, P)`: the visible pixels of `P` are counted once more.  A turn of
  `drawrow` draws or skips up to the edge of the box, whose points all agree with
  the one tested; the parts of a row, the rows of an area and the sides of a
  rectangle have no pixel in common, so that the counts add up
  (`PaintedTwice`).  For a slanted line, the remainder that the loop carries is
  shown to be that of the division by which the ideal line is defined
  (`RoundStep`), so that each turn comes to the next ideal point (`LinePath`),
  and the steps along the longer axis keep the points apart (`OnLonger`).
* `CacheOfDrawing`: the cache as the drawing routines leave it.
* `CopiedExactly` (`BlitsUpOrLeft`).  A blit up or to the left goes through the
  rectangles of the region in their order, and after k of them the pixels are
  `CopiedBy(.., k)`: those in one of the k have what was at their source before
  the blit, the others are as they were.  A turn keeps this because what the
  next rectangle is copied from no rectangle before it was copied to
  (`SourceAhead`): rectangles come in bands, and so each is below or right of
  those before it.  That is `OrderAssumption`; `RectsInOrder` below shows it of
  the regions the engine makes.

`NoTrail` and `CursorNotRead` have the hypothesis `MaxVisible <= 1`, which is the
assumption about the cursor of section 5; the run `draw` has it too.  The others
hold however often the cursor is shown.  `CursorAssumption` says that the shape
of a cursor lies within its width and height, `ShapesAssumption` that what is
drawn has coordinates an `MWCOORD` can hold and that areas are not empty and
blits take some part of the screen.

**GdRegionProofs.**  The inductive invariant is `RegionsGood`: each region is
`Good` for the points that the requests so far make it of, that is, its array
covers exactly those points and is `Formed` (no empty rectangle, `Banded`,
`Joinless`), and its extents are their box.  Neither half is inductive alone.
The operations are right about the points only for arrays in bands with exact
extents, and the sweep leaves bands that could be one only if its operands have
such bands.  From it, for an area of any size:

* `RegionsExact` (`AreaExact`).  The overlap functions first: after k turns what
  a loop has put out has the columns of the operation up to where it has come
  (`UnionIs`, `IntersectIs`, `SubtractIs`).  Then the sweep of `REGION_RegionOp`:
  after each turn the array covers what the operation makes of the two regions
  above `ybot` and nothing below, and each region goes on from there (`Swept`,
  `RegionDone`); a turn adds the part that one region has alone (`OnlyPart`) and
  the part of both (`BothPart`).  Each turn leaves a band behind, so that after
  as many turns as there are rectangles one region is done, and `RegionOpIs`
  adds the rest of the other.
* `FormKept` (`BandsKept`).  `REGION_Coalesce` joins two bands just if the lower
  one begins where the upper one ends and has the same spans; the spans of a
  band are determined by the points of its row (`SameSpans`), so what it does
  not join has another row below (`JoinFormed`, `AddedGood`).  The last bands,
  added together, are in form among themselves.  From the form also
  `RectsInOrder`, on which the blits of GdDraw rely.
* `AnsweredExactly` (`AnswersExact`).  For a set of points there is only one
  array in form (`Canonical`: at the first difference of two, the points of one
  of them differ) and one box (`BoxSame`), so comparing arrays compares regions.
  `GdRectInRegion` stops at the first thing that decides: as long as it goes on,
  the rectangle down to `ry` is either all inside or all outside (`Undecided`,
  `ScanTurnGood`).

**NxEventsProofs.** `AnswerInv == TypeOK /\ LockHeld /\ OneAnswer`: requests
whose answer is not an event, and those answers, are on the socket one at a
time, while the thread that holds the lock reads for it.  From it
`NoWrongPacketCorrect`, for any number of threads.

`ReadIsAnsweredAlone` and `EventsImplementFifo` are for one thread: both are
false of two, which the run `threads` shows for the first, and two readers may
hand over events out of order.  The first adds that what `select` saw on the
socket is still there when the thread reads.  The second is the refinement,
step by step.  Its invariant `WayInv` says that the list, the socket and the
queue are each in order and each before the next; with that, whichever of them a
call takes an event from, it is the least of `Pending` (`HandedInOrder`,
`SocketRead`, `ListHanded`).  A superseded event that is taken out of the queue
leaves the rest in order (`FreedInOrder`), and the new one is the last
(`PostMoves`).

**NxSelectProofs.** `SelectInv` is `TypeOK`, the soundness of the list, that a
connection is accepted once (`NotYetAccepted`), and that the pass is at a
client that is connected or at the end (`PassIsOnList`).  The list is `order`,
and `ComesLinked` and `GoesUnlinked` show that the pointer updates of accept and
drop are an append and a removal.  From it `ListSoundCorrect` and
`ServesTheLivingCorrect`.

`OvertakenTwiceCorrect` needs to know where the pass is.  `AheadInv` adds that
between passes nobody was served more than once ahead of a client that waits to
be read, and in a pass (`AheadInPass`) twice only if the pass has yet to come to
that client and has gone by the other, and once only if one of the two holds.
`ToServe` is what the pass has not gone by; it loses the client served and no
other by each request (`NextUpto`), since dropping a client leaves the order of
the others (`UptoKept`).  A pass never begins again before its end.

**GdTimerProofs.** `TimerInv` has, besides types, `ClockInv` (the time kept for
each timer is not before it is due by a clock nobody sets, and exactly then
while the clock was not set back), `SleepsForOne` (a sleep is the distance of
one of the times waited for, to less than a millisecond), `SaverInv`, and
`WakesInTime` itself.  From it `NotEarlyCorrect`, `TimeoutToldCorrect`,
`NoIdleWakeCorrect`, `WakesInTimeCorrect` and `SaverArmedCorrect`, for any
resolution of the clock and any number of steps back.

Where a proof has to go along a list or through a sequence, or through the turns
of a loop (`LoopRuns`), it takes the smallest counterexample among the naturals
(`SmallestOfNats`, from the well-founded order of the library).

**Only model-checked.** Liveness (`WaitingCallReturns`, `EveryoneServed`), which
needs fairness and ENABLED.  Every safety invariant and every action property
that a passing run checks is a theorem.

## 5. What the models take for granted

* A client does not reparent a window into its own subtree, does not kill the
  root window, and does not set NOFOCUS on the root: the code does not check,
  and follows a cycle or a NULL pointer.  Windows stay inside the
  cells of the screen.
* A region is not combined with itself into itself, except by union:
  `REGION_RegionOp` sizes the result by operands that it has just emptied
  (`engine/devrgn.c:793`).  Rectangles asked for are not empty (:469 does not
  look).  Otherwise arrays have the room they need.
* The screen has at least one pixel. The regions set in the engine do not reach
  beyond the device, as those of `GsSetClipWindow` do not, and their rectangles
  are in bands (`OrderAssumption`, which `RectsInOrder` of GdRegionProofs shows of
  what the engine computes).
* The cursor is not shown a second time while it is shown.
* No client changes how the root window is painted (`ClipAssumption`).
* Memory is not exhausted, and the socket does not fail in the middle of a
  packet; a client that closes or fails is dropped as a whole.  The socket
  towards a client takes all that is written: with one that does not, `GsWrite`
  stops the server (`nanox/srvnet.c:2213`).
* Requests are buffered by the library and flushed before every read, so the
  order of requests is that of the calls.
* The clock goes back at most once within the life of a timer, and forward only
  as time does.

Not modelled: which clients button, motion, update and exposure events are
queued for, enter and leave events, raw mouse mode; pixmaps, graphics contexts,
fonts and cursors as resources of a client, with the caches of the last one
found; window shapes and the regions of graphics contexts; dashes, polygons,
arcs, drawing modes and colours, images and text; polygon regions; the window
manager's frames; the Win32 and X11 APIs; drivers.  Fonts, most of the
repository by lines, are data.

## 6. Plan

1. **Delivery of events** (`NxDelivery`, on NxWindows): which clients a button,
   motion, exposure or child-update event is queued for, and how often
   (`GsDeliverButtonEvent` queues one for every ancestor selected,
   `nanox/srvevent.c:313`; `GrSelectEvents` reads the mask of a selection it has
   not filled in, `nanox/srvfunc.c:1713`).
2. **Drawables** (`NxPixmaps`): background pixmaps shared by windows
   (`nanox/srvfunc.c:3711`), and the caches of the last resource found
   (`nanox/srvutil.c:979`).
3. **Polygon regions and the size of the array** in GdRegion.
4. **Bounded sockets** between NxSelect and NxEvents, for the case in which both
   sides write.
