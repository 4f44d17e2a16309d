# TLA+ models of the X server

Specifications of core parts of the X.Org server 1.3.0 as it is in `src/`
(dix, mi, os, randr, Xi, the XFree86 DDX, two versions of the evdev driver),
model-checked with TLC; nine of the modules are also proved with TLAPS.
Paths below are relative to `src/xorg-server-1.3.0.0/`. `PROJECT.json` maps
each definition to the lines it translates and lists runs, mutants, findings,
hazards and theorems.

## 1. Inventory

The server is one thread. `Dispatch` (dix/dispatch.c) takes input from the
device queue, asks `WaitForSomething` (os/WaitFor.c) which clients have
requests, and executes them. What makes it hard is not threads:

- a SIGIO handler runs drivers on top of that thread, between any two
  instructions, and shares the event queue with it;
- calls nest. Ending a grab replays events, which activate grabs; freeing a
  resource frees others; a callback changes the list it is called from;
- clients die at any moment, their deaths are handled in several steps, and
  whatever refers to them (grabs, lists on windows, masks, queues, tables of
  the round that is running) has to be brought up to date;
- whether a client is listened to is kept in several masks and their saved
  copies, changed by independent operations in any order.

| Part | State | Operations | Talks to | Hard | What makes it correct |
|---|---|---|---|---|---|
| Input event queue (mi/mieq.c; copy in hw/xfree86/common/xf86Xinput.c) | ring, head, tail, last motion and time, enqueue and dequeue screen | enqueue (signal), switch screen, process | drivers; `processInputProc` of dix; sprite code (screens) | the handler interrupts the reader, motion is replaced in place, full ring, clocks | order, nothing lost but by the rules, no torn event, times do not go back |
| Synchronous grabs (dix/events.c) | per device: grab, sync state, whose grab freezes it, saved event, event procedure; queue of frozen events | grab, ungrab, AllowEvents, input, replay; unmap and destroy; death of a client | window tree, clients, input queue | replay inside replay, freezes of one device by another's grab, release during unmapping | freezes come from live grabs; no event lost, out of order or stranded; only an owner thaws; loops end |
| Scheduling and server grabs (dix/dispatch.c, os/connection.c, os/io.c, os/WaitFor.c) | descriptor masks and saved masks, grab state in dix and in os, waiting and sleeping clients, buffers | grab, ungrab, ignore, attend, impervious, pervious, sleep, accept, kill, close | the dispatch loop, fonts (sleep), XTEST and others (impervious) | a grab in the middle of a round, deaths of owner and waiters, masks changed under a grab | mutual exclusion, agreement of the two layers, nobody forgotten, everybody served |
| Resources (dix/resource.c and its delete functions) | a hash table per client, fake-ID range, window tree, lists on windows, save sets | add, free (nested), retain, free all, select events, save sets | every module that registers a type | tables changed during a scan, two-sided links, order of frees, ID reuse, retained clients | each free finds its object, tables and lists agree, IDs unique, saved windows survive |
| Timers (os/WaitFor.c) | sorted list of timers, a 32-bit clock | set, cancel, force, the check for a clock set back, the loops that call | keyboard repeat, drivers, DPMS | callbacks set and free timers, the clock wraps and jumps | never asleep past a timer; called in order; each is called in the end |
| Callback lists, block/wakeup handlers, work queue (dix/dixutils.c) | lists with deletion marks | add, delete, call, sleep, signal | everything | the list changes during its traversal, calls nest | each called once a round, nothing skipped, no marked entry kept |
| Output buffers (os/io.c) | per-client buffer, pending and blocked masks | write, flush, grow, abort, close | transport, `WaitForSomething` | partial writes, permanent errors, two masks and two flags | each connection an ordered stream that is delivered |
| Window tree (dix/window.c, mi/miwindow.c, mi/mivaltree.c) | links, geometry, clip lists, visibility, what is painted | map, unmap, configure, circulate, reparent, destroy | input, resources, regions | only windows a change may touch are looked at; bits are copied over each other | clip lists are what is visible; every pixel shows its window |
| Masks, propagation, focus (dix/events.c) | selections, deliverable-event masks, focus and its trace | select, deliver, set focus, revert | tree, devices | focus in a dying subtree | focus viewable, masks up to date |
| Passive grab lists (dix/grabs.c) | details and modifiers with exceptions, per window | grab, ungrab, match | active grabs | a wildcard minus a combination is split in two | exactly the combinations asked for |
| Properties, atoms, selections (dix/property.c, dix/atom.c, dix/dispatch.c) | per-window lists, atom table, owners and times | change, get, set owner, convert | events, deaths | owner dies or is replaced | one owner, latest time wins |
| Colormaps (dix/colormap.c) | cells with reference counts, pixels per client | alloc, store, free, copy | resources | two-sided frees, failure half-way | counts equal the pixels held |
| Font requests (dix/dixfonts.c) | reference counts of fonts, closures of sleeping requests | open, close, draw text, sleep, wake, resume | clients, GCs, font library, work queue | a request is cut in the middle and what it uses is freed | references are counted; a font in use stays |
| GCs, pixmaps, cursors (dix/gc.c, ...) | reference counts, serial numbers | change, validate, free | resources, screen functions | shared objects | freed at zero only |
| Start-up, reset, extensions, privates (dix/main.c, ...) | registries | init, reset | all | what survives a reset | registries empty after a reset |
| Access and authorization (os/) | host and cookie lists | add, remove, check | connections | none | only permitted clients |
| XDMCP (os/xdmcp.c) | state of the protocol, retransmissions, session and its connection | query, request, manage, keep alive, reset | connections, server reset | lost, repeated and late datagrams; managers that crash | the session has its client; a session comes in the end |
| RandR (randr/) | modes, CRTCs, outputs, properties | set, query, notify | drivers, resources | half-applied configurations | CRTCs and outputs agree |
| X Input (Xi/), evdev, XFree86 input | device lists, translation state | open, close, grab, read | event queue, grabs | devices that come and go | no event of a closed device |
| Regions (mi/miregion.c) | bands of boxes | union, intersection, ..., validation | everything that clips | bands, coalescing, 16-bit edges | one form per set of pixels |
| Software cursor (mi/misprite.c, mi/midispcur.c) | saved bits, place, colours, up or not | move, remove, restore, find colours | all drawing and reading, damage, colormaps, the block handler | the cursor shares the frame buffer with everything | the cursor is an overlay; its colours are current |
| Drawing, damage, backing store (mi/, miext/) | pixels, grown regions | draw, report, save | drivers | wrappers around wrappers | the right pixels |
| XFree86 DDX (hw/xfree86) | screens, modes, bus resources, VT, off-screen memory | init, switch VT, allocate | hardware | a switch that fails half-way | devices and screens enabled together |

`PROJECT.json` lists all of them by file, with what is left out and why, and
the hazards at their lines.


## 2. The modules

| Module | Models | Checked in | Proofs |
|---|---|---|---|
| `EventQueue` | mi/mieq.c, and the xf86eq copy by the constant `Variant` | `MCServices`, `MCEventQueue` | `ServicesProofs` |
| `SyncGrabs` | synchronous grabs and replay, dix/events.c | `MCSyncGrabs` | `SyncGrabsProofs` |
| `ServerGrab` | who is listened to: dispatch loop, masks, grabs, sleepers | `MCServerGrab` | `ServerGrabProofs` |
| `Resources` | tables, window tree, selections, save sets | `MCObjects` | `ResourceTablesProofs`, `ResourcesProofs` |
| `Timers` | the timers of os/WaitFor.c | `MCServices` | `ServicesProofs` |
| `Output` | output buffers, os/io.c; implements `OutputStream` | `MCServices` | `ServicesProofs` |
| `OutputStream` | abstract: a connection is an ordered queue of bytes | as a property | |
| `Xdmcp` | the display's side of XDMCP, os/xdmcp.c | `MCServices` | `ServicesProofs` |
| `FontRequests` | requests that sleep on fonts, dix/dixfonts.c | `MCObjects`, `MCFontRequests` | `SharingProofs` |
| `Callbacks` | callback lists and block handlers, dix/dixutils.c | `MCObjects` | `ObjectsProofs` |
| `PassiveGrabs` | dix/grabs.c; implements `GrabCombinations` | `MCObjects` | `ObjectsProofs` |
| `GrabCombinations` | abstract: a client holds a set of combinations | as a property | |
| `Colormaps` | cells of PseudoColor maps, dix/colormap.c | `MCObjects`, `MCColormaps` | `SharingProofs` |
| `Regions` | mi/miregion.c on arrays of boxes | `MCServices` | |
| `WindowClips` | geometry, stacking, clip lists, copies: dix/window.c, mi/miwindow.c, mi/mivaltree.c | `MCServices`, `MCWindowClips` | |
| `Sprite` | the software cursor, mi/misprite.c and mi/midispcur.c | `MCObjects` | `SpriteProofs` |
| `Geometry` | points, boxes and sets of pixels of the last two | | |

`MCServices` and `MCObjects` each put several components into one run. These
share no variable, so that interleaving them would only multiply their
states: a behaviour of such a module is one of a single component, `part`,
chosen in the initial state and constant, while the others keep an initial value.
The states of the run are the sum of the components'. Each component has its
own `Init`, `Next` and specification, which the run uses as they are.

Where the components meet each keeps only its neighbour's interface:
`ServerGrab` executes requests whose effects are those of the other modules;
`EventQueue` hands events to the `DeviceInput` of `SyncGrabs`, whose passive
grabs are those `PassiveGrabs` matches; the sleepers of `ServerGrab` are the
clients of `FontRequests`; the sets of pixels of `WindowClips` are what
`Regions` shows the arrays of boxes to be; the wrapped drawing of `Sprite` is
`WindowClips`' copying; the colours of `Sprite` are cells as `Colormaps` counts
them. The death of a client is `CloseDownClient` in five modules, with the
part of the function that concerns each.

### EventQueue

The main thread has a program counter (`pc`) with a step per access to the
shared record, because `SIGIO` can come between any two; an enqueue by the
handler is one step, as it cannot be interrupted. `DeviceEvent` is
`mieqEnqueue`, `CrossScreen` is `mieqSwitchScreen` with FALSE (from the
handler), `WarpCursor` the same from the main thread, and `TestQueue`, `Compare`,
`SetScreen`, `ReadFirst`, `ReadRest`, `Advance`, `Dispatch` are
`mieqProcessInputEvents`. An event has its number in two fields, which are read
in two steps, so that a mixture of two events shows. History variables
(`serial`, `enq`, `deq`, `lastOut`, `pointer`) are read by properties only.

What was learned: all keys and buttons are safe from the reentrancy. Motions
are not: the comment "Must be reentrant with ProcessInputEvents" does not hold
of `lastMotion`, and a motion that replaces a slot just read is lost (run
`event_queue_motion`, a finding). `Variant = "xf86eq"` violates
`TimesDontGoBackwards`: xf86Xinput.c:741 never assigns `lastEventTime`, while
mieq.c:128 does. A key queued before a warp to another screen is consumed as a
screen switch (mieq.c:162).

### SyncGrabs

`todo` is the stack of what the current request or input event still has to do.
A request is an action that changes what it changes at once and pushes the
rest: `Input(ev)` a call of a device's `processInputProc`, `PlayReleased` the
loop of `PlayReleasedEvents`, `Replay` the event a device replays,
`Drop(w, d)` `DeleteWindowFromAnyEvents` on an unmapped window, and so on.
Only with `todo` empty does the next request or input come. That makes the
nesting explicit: `ComputeFreezes` within a replay changes the freezes but, as
`playingEvents` is set, starts no second loop. The windows are the path of
nested windows under the pointer.

`activatingKey` says whether the field of the keyboard with this name holds the
key. Only `CoreProcessKeyboardEvent` notes it (events.c:2816, `NotesActivatingKey`);
a grab that the replay in `ComputeFreezes` activates (events.c:1157) does not,
and before the first time it is what `xalloc` left there (dix/devices.c:87),
so that it starts with any value. A release ends a passive key grab only if its
key is the one noted (`EndsGrab`, events.c:2837).

Abstracted: whether an event is delivered to somebody is a choice; time stamps
of requests are valid; one key or button per device; two core devices; focus is
PointerRoot. Grabs are drawn from the constants `PassiveGrabs` and
`RequestedGrabs`. Motion compression and the split of a repeated press are
modelled.

What was learned: a client that died can hold an active grab (run `sync_dead`, a
finding the code itself suspects in a comment). A passive key grab that a replay
activated outlives its press if the key was never noted: no release ends it.
Therefore `PassiveGrabHoldsThePress` says that a button is held as long as
the grab it activated is, and a key only once it has been noted. A replay in
the middle of an unmapping may activate a passive grab on the window being
unmapped (events.c:4376). A press split by a replay may be overtaken by later keys
(events.c:2796).

### ServerGrab

`masks` is a record of the masks of os/connection.c and the operators with the
names of its functions compute the next one. `ready` is the rest of the round
(`clientReady`), `current` the client whose slice it is, `closing` the calls of
`CloseDownClient` that are under way. `WaitForSomething`
also covers the work queue before it. A request's kind is chosen when the
server reads it; a buffer is a number of whole requests; `retry` marks a client
whose `GrabServer` was put off with `ResetCurrentRequest`. `Dumb` chooses the
round-robin scheduler, `Breaks` and `Retains` whether connections break and
whether clients are retained.

Abstracted: a client, its index and its descriptor are one number; the
priorities of the smart scheduler (a choice); setup; big requests; resets.
`Impervious` and `Pervious` stand for the callers of
`MakeClientGrabImpervious`, which are in extensions outside the repository.

What was learned, as two findings: a waiter put off by `GrabServer` stays ignored
if the waiter before it is killed between its wake-up and its new request
(`server_grab_lost`); a retained client killed in the round has a slot but no
connection when `Dispatch` comes to it (`server_grab_retained`).
Three properties hold for the requests of their run and not for all together,
by the source: `SleepersAreIgnored` fails for impervious sleepers (`IgnoreClient`
leaves `SavedAllClients`, connection.c:1149), and is about sleepers only: the
clients that wait for the grab are impervious, as nobody else is dispatched
during one, and the same line lets them be attended; `NobodyIsForgotten`, a conjunct of
`EveryRequestIsRemembered`, fails when clients both sleep and become impervious
and pervious (connection.c:1236); `RequestsAreServed` fails when an impervious
client competes with one that grabs the server again every round.

### Resources

Tables are modelled as what they are, buckets of lists with `elements` and a
`hashsize` that grows, because the hazards are about scans of a bucket while
nested frees change it. `todo` is the stack of calls: `FreeResource` unlinks an
entry and calls the delete function of its type; `DeleteWindow` crushes the
subtree leaf by leaf and frees the selections of others one by one;
`FreeNextOfAll` and `FreeNextNeverRetained` are the two loops of a dying client
with their own treatment of `elements` (they do not count). `FakeClientID`
takes IDs from the range that `GetXIDRange` cuts out of the used ones.

`RRSelect` adds two entries, the client's and the list's, in the source's
order. That order is what makes the death of a client safe: entries of a bucket
are freed newest first, `RebuildTable` keeps the order when the table doubles,
and so the list of a window goes before the window does (`FreesAreNested`).

Abstracted: the order of siblings and of the lists on windows (a choice); an
allocation never fails; a client does not run out of its 2^22 fake IDs
(`MaySelect`); `FlushClientCaches` and `lastDrawable`; types other than windows,
selections and RandR lists; a second RandR selection of a client on a
window, which only keeps the old mask. A save set protects a window whose
superiors of the dying client begin at its parent; one inside somebody else's
window inside the dying client's is destroyed with it, as `HandleSaveSet`
stops at the first superior that is not the client's. `Protected` says so.

### Timers

`timers` is the linked list, `expires` and `delta` the fields of a timer, `clock`
what `GetTimeInMillis` returns, modulo `ClockSize`, and `tpc` where
`WaitForSomething` is. `left` is a history: the true time until a timer is due.
`DoTimer` is one step with whatever the callback does (nothing, or set or
cancel a timer, its own too) and the time it returns.
`SetBack` sets the clock back, a `Tick` may be late.

What the model follows although a comment says otherwise: the check for a clock
set back looks at the head of the list only, so that a later timer keeps its
old time until it gets there (the comment at WaitFor.c:440 speaks of all
timers); the loops go on with the `now` of before `CheckAllTimers`; clients
with requests in their buffers keep the server from its timers, which the
fairness therefore excludes. `TimerAbsolute` has no caller in the repository.

### Output and OutputStream

`out` is a buffer, bytes numbered in the order of their writing; `outPending`,
`newOutput`, `writeBlocked` and `anyBlocked` are the masks and flags of
os/connection.c and os/io.c. The loop of `FlushClient` over `writev` is its
outcome: some bytes are taken, and then all went or the transport would block.
`WriteToClient` of a message that does not fit flushes both; a failed
allocation aborts the client (`enough` is FALSE). `FlushAllOutput` looks at one
client per step, as it may be aborted in between, and select reports blocked
clients that can take more.

`OutputStream` is what callers rely on: a queue of bytes per client that is
delivered in order, and all of it in the end. The refinement maps `queue` to
the buffer of a client whose connection is open, so partial writes, halving and
blocking are steps that move bytes, and the fairness of `Deliver` is a theorem
about the loop (checked, not proved).

### Xdmcp

One action per datagram received and per time-out. Datagrams are sets of those
on their way, in both directions, so that they may be lost, repeated and
reordered. The manager is external, modelled from the answers the code waits
for, and may crash. `calm` is the assumption of the liveness property: from some
moment on datagrams get through and answers come before time-outs.

What was learned, and is in the model as it is: any datagram resets
`timeOutRtx`; an UNWILLING or a DECLINE acts in any state; a late ALIVE of an
earlier session ends the one that runs (which is why `calm` is about what is
sent later, and old datagrams still arrive); `restart()` is not reachable.

### FontRequests

A closure is what is left of a request: the strings, the GC with the font it has
to get back, whether the drawable is still there. `ClientSleep`,
`ClientWakeup`, `ClientSignal` and the work queue are the ones of dixutils.c, with
`ProcessWorkQueue` calling one entry per step. Between them the other client
frees fonts, GCs and drawables, or kills the sleeper. `Execute` runs strings up to
the next font that must be fetched, and `FallAsleep` marks the fonts of the rest.

What was learned: a finding (`font_requests`), and more ways in which the counts
of fonts come out wrong. Which fonts these are is kept in three history
variables, sets of fonts, and `FontsAreCounted` is about every font that is not
in them, whatever happens to the others:

- `abandoned`: a request that lost its drawable or its client while it slept is
  executed without drawing, and for each mark on another font closes the one of
  its scratch GC (dixfonts.c:1241-1253): this one may have too few counts.
- `reopened`: a font opened under an ID that a sleeping request mentions is
  closed by that request, which never marked it: too few counts.
- `leaked`: a font that a request marked and did not come to (it failed, it was
  executed without its drawable, or the ID was closed meanwhile): too many.

So exact counts are not promised, and are not what the code has: a font in none
of the three sets is counted exactly, one in `leaked` alone is never freed too
early. The second signal to a client that dies while it is on the work queue
runs its freed closure (`wrong`, dispatch.c:3536); the model stops there.

### Callbacks

`handlers` is the array of dixutils.c with its deletion marks, `callbacks` a list
whose calls nest, `calls` the cursors of the calls that are running. Both are
changed between any two calls of their functions. Removing, registering and
removing the same function within one handler marks the first entry twice, so
that `numDeleted` of the callback list may stay above the number of marks; the
sweep looks for entries and not for the count, and nothing breaks.
dixutils.c:834 assigns where it means to compare; it concerns the deletion of a
whole list, which is not modelled.

### PassiveGrabs and GrabCombinations

A grab has two details, each exact or any with exceptions. The operators have
the names of the functions of grabs.c. `Held` computes which combinations of a
key and modifiers activate a client's grabs, and that is the refinement
mapping: adding is `Grab` or nothing, deleting with all its splits is `Ungrab`.

### Colormaps

A map has cells with their counts, the number of free cells, and each client's
list of pixels; `shared` are the SHAREDCOLORs of `AllocColorPlanes`;
`cmapEntries` the resources that free a client's cells in somebody else's map.
`FreeColors` follows the combinations of planes, `CopyColormapAndFree` moves the
cells of a client. The choice among suitable cells is open. A request allocates one
pixel, with at most one plane; `Released` takes from a SHAREDCOLOR a reference for
each cell that an operation leaves without it, which is when `FreeCell` does.

What was learned: a finding (`colormaps`), counts of shared greens and blues.
Left out also: `FindColor` when its reallocation fails, where it counts the cell
as free though others may share it (colormap.c:1370).

### Regions

The array is modelled as the array, since the claim is about its form: `RegionOp`
sweeps bands of two arrays, `Coalesce` joins a band to the one before, `Validate`
scatters boxes into sorted lists and joins these in pairs. `pixels` is the set
the region should stand for. An allocation fails at once or not; the sort is
unstable, hence a choice. Left out: `miClipSpans`, `CT_YXBANDED`, translation
of broken and of empty regions, allocations that fail in the middle.

### WindowClips

An operation is an operator on a record of the tree, the marked windows and the
screen, composed in the order of the code: mark what overlaps, change the tree,
validate (`ValidateTree` with `ComputeClips`, which visits marked windows
only), copy bits, hand out exposures. `screen` holds what is painted at each
pixel, and only copies and exposures change it. The expected clip lists are
computed from the tree alone (`Territory`, `Uncovered`).

What was learned: a finding (`sliding_bits`): `nx` and `ny` of
miSlideAndSizeWindow are overwritten in the loop over child gravities
(miwindow.c:789) and used as the window's own at :829. `SomeTrees` of the
passing run excludes the windows where that makes a difference: with a border,
bits to keep, and children of another gravity.

Left out: shapes, redirected windows, backing store, save unders, InputOnly
windows, borders with a pixmap, SubstructureRedirect, broken regions, overflow
of 16 bits.

### Sprite

`sprite` is miSpriteScreenRec with the saved pixmap (`pSave`), the frame buffer
(`shown`) and the installed colormaps; `content` is what the frame buffer would hold
without a cursor. `SetCursor` is miSpriteSetCursor with its three ways: nothing
to do, sliding (`Slide`: `ChangeSave` patches the saved strips, `DCMoveCursor`
draws in a pixmap of its own), and remove and restore. Every wrapped operation
removes the cursor if it must and then draws, reads or copies; damage is
reported before drawing. Off-screen parts of the saved pixmap are garbage.
`FakeAllocColor` searches from a pixel that is never initialized, so that which
of several cells it finds is open.

What was learned, and is as the code has it: `miRecolorCursor` sets
`checkPixels` by realizing the cursor, but displaying it at the same place then
finds colours without drawing, so that a displayed cursor may keep its old
colours until it moves or is drawn over; the loop of `miSpriteStoreColors` stops
at its second match. A colormap that is freed and whose address is used again
is taken for the old one by `miSpriteFindColors`; colormaps are not freed here.

## 3. The runs

| Run | Question | Instance |
|---|---|---|
| `event_queue_motion` | violation: does the server learn of the last motion? | 3 slots, 3 arrivals, 1 screen |
| `sync_grabs` | are freezes, order, thawing and termination right with two clients who freeze each other's devices? | 2 windows, 2 passive grabs, 2 requested grabs, 2 events a device |
| `sync_dead` | violation: does a dead client hold nothing? | the same, one passive grab |
| `server_grab` | exclusion, agreement and bookkeeping under the smart scheduler with imperviousness, retention and kills | 3 clients, words of 2, 2 requests a buffer, 3 in all |
| `server_grab_served` | is every client served in the round-robin scheduler with breaks, kills and sleep? | 3 clients, 1 request a buffer, 6 in all |
| `server_grab_lost` | violation: does a put-off grab go on? | 3 clients |
| `server_grab_retained` | violation: does each slice have a connection? | 3 clients |
| `services` | what the server owes the outside: events, timers, output, a session, regions, the screen | below |
| `objects` | what clients make and share: resources, fonts, callbacks, grabs, colours, the cursor | below |
| `font_requests` | violation: is a font in use kept? | 2 clients, 2 fonts, 4 requests |
| `colormaps` | violation: are shared colours counted? | 2 clients, 2 maps of 2 cells |
| `sliding_bits` | violation: does the screen show the windows after a resize? | one tree of 3 windows |

Instances of `services`: the event queue with 3 slots, 2 screens, 4 arrivals
and times 1 and 3 with slack 3; 2 timers with delays 1 and 2 on a clock of 16
that is set back once by 2 and a server at most 1 late; 2 output clients with a
buffer of 4, a transport of 3, messages of 3 padded to 4, 3 requests;
XDMCP with 2 retransmissions, 1 keepalive, 2 connections, 2 sessions, 1
datagram each way; regions of 3 by 3 pixels; 3 windows on a screen of 4 by 3
with all maps and unmaps and one other request at any time, from some 60 trees.

Instances of `objects`: resources of 2 clients with a window each and with three
windows, a fake ID a client, tables of 1 and 2 buckets that grow at 2 entries
a bucket, one selection; 2 clients with 2 fonts and 4 requests; 2 functions, calls
2 deep, 4 changes; 2 keys and 2 modifiers with lists of 2 grabs; 2 colormaps of 2
cells; a screen of 3 by 2 with 2 cursors, a pad of 1, 2 colormaps, and 2 changes
of colours or one drawing at any time.

Why the bounds are enough for the cases that matter:

- A ring of three slots wraps, fills (two events) and empties within four
  arrivals, and each arrival can meet each of the reader's program points.
  The two times are closer than the slack, so `ClocksAgree` holds and both
  a step back and a step forward occur.
- Two devices are all that the core protocol has, two clients are what it takes
  to freeze each other, and two events per device put an event behind an event
  that changes the freezes. Two windows are needed for an unmapping that does
  not unmap the root, which cannot be unmapped.
- Three clients are a grabber, a waiter and a third: a second waiter, a killer,
  an impervious client or a newcomer. A word of two puts two waiters in one
  word of `grabWaiters` and one in the next.
- A clock of 16 wraps several times in a behaviour, and the assumption of
  `Timers` bounds delays by half of it, as 2^31 does in the source. Two timers
  are a head and one behind it.
- A buffer of 4 and messages of 4 make a message that fits, one that does not
  and one that goes out in two parts; a second client makes the masks nonempty
  while the first is flushed.
- Two sessions are the one that runs and the one a late datagram is about.
- In `Resources`, FakeRange 1 makes a client search its range again; `Load` 2
  and one doubling make a bucket hold several entries and a rebuild split it;
  three windows give the alternation X(a) in Y(b) in Z(b) in every nesting.
- Two functions, two levels and four changes include removing the entry a call
  stands at from inside, adding it again, and the sweep of an outer call
  after an inner one.
- A wildcard of two keys and two modifiers is split by a single combination, and
  its parts by another.
- Three by three pixels have all 512 regions, every band structure of up to
  three bands and two boxes a band; the operands include touching, nested and
  crossing ones.
- Windows of the trees overlap, leave the screen, have borders and children with
  several gravities; the one request is preceded and followed by any maps and
  unmaps, which restack what is visible.
- On 3 by 2 pixels with a pad of 1 every saved box leaves the screen, sliding
  goes in all directions, and a point outside the cursor but inside its box exists.

`CHECK_DEADLOCK FALSE` is there where the bound on events ends every behaviour
(`event_queue_motion`, `sync*`, `sliding_bits`); the others check it. For
`Resources` that shows that no call gets stuck: a call that can neither go on
nor return would be a deadlock.

Mutants. Each property has one, beside the definition it replaces: the
off-by-one, forgotten reset or dropped guard that it would detect, e.g.
`RebuildLosesHalf` (entries of new buckets are lost), `TrustsPrev`
(`FreeResource` keeps `prev` across a delete function), `PlaceByValue` (times are
compared without regard to the wrap), `CanSlideAnySize` (the saved box of
another cursor is taken for this one's).

### Fairness

- `EventQueue`: WF of `ProcessInputEvents`. `Dispatch` calls it whenever head
  and tail differ (dispatch.c:377, `icheck`), and the handler does not block.
- `SyncGrabs`: WF of `ServerStep`. A call of a single-threaded server goes on
  until it returns; that it returns is what `CallsReturn` checks.
- `ServerGrab`: WF of the work queue, the select, the kickout, and of the
  slices, rounds and closes of each client. `Dispatch` loops for ever and each
  round goes over all of `clientReady`. This is the round-robin scheduler:
  with the smart scheduler a client's turn depends on priorities that are not
  modelled, and no liveness is claimed.
- `Timers`: WF of the loops and of time; SF of going to sleep without buffered
  requests and of looking at the timers. The last two are an assumption about
  the clients, not a fact of the code: busy clients starve timers.
- `Output`: WF of the flushing loop and of closing aborted clients; SF of
  select's reports and of serving clients with requests, since the dispatch loop
  returns to both; WF of the clients' reading.
- `Xdmcp`: WF of datagrams that arrive, of the manager's answers and
  connections, of time-outs and the reset the dispatch loop executes.
- The components of `objects`, `Regions` and `WindowClips`: none.

`MCServices` states these as fairness of disjunctions over the components
(`Works`, `Goes`, ...). As `part` is constant, only one disjunct of each can ever
be enabled in a behaviour, and the formula means each component's own fairness.

## 4. The proofs

They hold for every value of the constants that the `ASSUME`s allow: any ring,
any number of screens, events, clients, windows, grabs, timers, requests. Each
proof module states its inductive invariant, proves it kept by one lemma per group
of actions, and ends with the theorems `PROJECT.json` lists.

`SyncGrabsProofs` (TypeCorrect, FreezesCorrect, OthersCorrect, NothingStolen,
NothingStranded, OnlyOwnersThaw, ReplaysAreCurrent, EventsStay). The invariant has
parts that are proved one after another: `SyncsOK` for the devices' sync records,
`EventsOK` and `WorldOK` for the types of what is queued and of the tree,
`StackOK` for the stack of calls. The freezes are conjuncts of `SyncsOK`;
`StackOK` adds that a replay is only ever on top of the stack, where its device is
still not grabbed. Three more invariants are proved on top of these:

- `PlayOK`, for `NoStrandedEvents`: while events are being played the loop that
  plays them is on the stack, and when none are, every queued event waits for a
  frozen device.
- `LastOK`, for `ReplayIsOfTheLast`: the saved event of a device that is frozen
  with it is the last one processed (`SavedIsLast`), and so is what a replay on
  top of the stack is about (`ReplayIsLast`). What makes this inductive is
  `SavesOK`, about the saves that are still on the stack: one whose device has
  processed something since is behind another save of that device, which
  answers the freeze first. A saved press is still held, which
  `PassiveGrabHoldsThePress` needs of the grab its replay may activate. Its
  exception, a key never noted, has to be shown to be the only one: noting the
  key must not find an old grab whose key is up. A saved press of a key that will
  note it when it returns is still held, nothing processes a key before it, and
  none waits in the queue (`KeySavesOK`; it uses `PlayOK`: once the events are
  played, no key is queued for a keyboard that is not frozen).
- `KeptOK`, for `EventsAreKept`: queued events of a device are numbered in order
  after those that are done (`QueueOK`); the one on its way to `processInputProc`
  is the newest if its device is frozen and is older than all that are queued if
  it is not (`NextOK` in `TopOK`); and the last event of a device is done, queued,
  or on its way (`LastKept`). It uses `NothingStranded`: when the server takes the
  next input, an unfrozen device has nothing queued that it could overtake.

`OnlyTheOwnerThaws` is an action property; its proof goes through each way in
which a device's `other` changes, and is the one place where the number of
devices matters: a grab that frees a device was made by the owner of the grab that
froze it, because there is no third device.

`ServerGrabProofs` (TypeCorrect, ExclusionCorrect, AgreementCorrect,
MasksCorrect, GrabsAreExclusive, NothingIsForgotten, SleepersCorrect). `IInv`
joins the type invariant, what the masks refer to (`MaskOK`), the agreement of
the two layers (`GrabsAgree`), what the sets of clients say of each other
(`ClientsOK`), and two parts about the scheduler: once the kickout is over, only
clients that may run are left of the round (`RoundOK`), and the slice's client
may run unless it is about to be closed (`SliceOK`). Exclusion follows from these
and is not inductive alone: it needs that during a grab the masks hold nobody else
(`MaskOK`), through every operation on them. GrabsAreExclusive says that a grab
ends before the next one begins, an action property that no run checks again.

NothingIsForgotten is about what each operation on the masks keeps (`Remembers`):
a client in some mask, or waiting, is still in one of them or waiting afterwards,
and the same of a buffer with a request in it. `RInv` adds to this that whoever
is left of the round is listened to, now or after the grab (`ListenedOK`). Its
hypothesis is that requests are not `Mixed`, which is that of section 2: with clients that
sleep, are made impervious and are made pervious, the code forgets one
(`MakeClientGrabPervious` at connection.c:1236 removes a client from
`AllClients` during a grab, and one that was attended while it was impervious is
not in the saved copy).
With any two of the three kinds the theorem holds. SleepersCorrect assumes
that no request is `Impervious`: `IgnoreClient` during a grab leaves the saved
mask of all clients alone (connection.c:1149) for such a client.

`ResourceTablesProofs` (RebuildingKeepsAll, FakeIdsAreNew) and `ResourcesProofs`
(ResourcesTypeCorrect, TablesAgree, FreesNested, SavedSurvive). The first is about
a table alone. `TableOK` says what a client's table always is: each entry in the
bucket its ID hashes to, its ID the client's, windows and lists under the
window's own ID and selections under fake ones, and of two entries of one ID the
list of RandR selections before its window. `InOrder`, `RebuildTable` and
`GetXIDRange` are recursive functions; each is shown to have the right values by
the least place at which it would not (`SetInduction`). The scan of
`FreeResource` is the delicate part: it compares the count of entries before and
after a delete function. `ScanOK` is what makes the comparison right: entries are
counted down only when they are freed and nothing is added while a call runs, so
that an equal count means that nothing was unlinked with counting, and then
`prev` is still in the bucket. The other way of emptying a table
(`FreeNextNeverRetained`, `FreeNextOfAll`) unlinks without counting, and must
not run inside a scan.

The second has the invariant `ResourcesInv`, on the stack of calls. `StackOK`
says which call can run in which: that of a window's own ID, of a fake one, and of
one type skipped are different kinds, and no window is deleted inside its own
deletion, because what is deleted inside a deletion is a leaf. While calls run,
tables, tree and lists do not agree; `WindowsOK` and `SelectionsOK` say
how far they disagree, in terms of the stack: a window without an entry is
being freed (`Freeing`), a selection without an entry is being deleted
(`Deleting`), a RandR selection that has an entry and is on no list is one whose
entry is to go without its delete function (`Sparing`), a list of RandR selections
without an entry is being emptied (`Clearing`). With an empty stack these parts
are the property. `TreeOK` says that the tree has no cycle, as "every set of
windows has one whose parent is not in it", which needs no measure;
`Above` and `HeirOf`, again recursive functions, are shown to reach all
superiors in as many steps as there are windows. `SparedOK` is stronger than
the property, which is not inductive: there is a set of windows of others
(`Shelter`), closed under parents, that no running call deletes. That this holds
when the closing begins is the lemma about `HandleSaveSet` (`ProtectedHeirs`):
each protected window's new parent is its nearest superior of somebody else, and
above that is none of the client's. No bound of the model is used
(`MaxSelections` and `RRWindows` may be anything), and no assumption beyond
positive sizes.

`ServicesProofs` is about four modules. For the event queue (TypeCorrect, RingCorrect,
AdvanceCorrect, KeysAreWhole, KeysAreStable, TimesAreInOrder) the invariant `IInv` is in the model. That a
key is not torn needs to know that the handler replaces only a slot that holds a
motion, so that while `lastMotion` is set the newest queued event is a motion
(`NewestIsMotion`); that in turn needs `RingHoldsTheQueue`, for "newest" to be the
slot before `tail`; and the half-made copy needs an invariant of its own
(`KeyHalfCopied`). `NeverAdvancesPastTail` says why the reader may trust an old
test: the handler only adds. For the times `TimesInv` adds that queued times
are in order up to `lastEventTime`, and that what is being copied out, or was
handed on last, is no later than any that is queued (`NotLate`): a motion that
replaces the slot that is being read is only later. The theorem is about
`Variant = "mieq"`; the copy in xf86Xinput.c never writes `lastEventTime`, and
breaks the property.

For timers (TimersTypeCorrect, TimersAreInTime) the clock is modular, and times are
compared by the sign of a difference (`Signed`): the lemmas about `Shift`, `Minus`
and `Signed` say when that sign is right. The invariant says,
as long as the clock was not set back, that the list is in order and each
`expires` is the clock plus what is left (`OnTime`). The server calls timers by a
`now` that it read before the callbacks ran; `Young` bounds how far a timer that
a callback set can be ahead of that `now`, which is why it is not mistaken for one
of half a clock ago. Once the clock was set back nothing orders the list, and what
remains is that the server wakes up: `CheckAllTimers` puts right the head, by
`NowIsNear` (the clock is no farther from `now` than all set-backs together). The
assumption is that twice the longest delay, with slack, lateness and all set-backs,
is less than the clock; in the source 2^31 ms are 24 days.

For output (OutputIsNeverStuck, OutputImplementsStream). `NoOutputIsStuck` is
inductive once it is known which clients the loop of `FlushAllOutput` has still to look at (`OutputInv`): between its test of `newOutput` and the end of
the loop the flag says nothing. The second theorem is the refinement without its
fairness: each write, partial write, abort and close is one step of the stream,
`Write`, `Deliver` or `Lose` of one client, or changes nothing a client sees.

For XDMCP (XdmcpTypeCorrect, SessionHasItsClient). The invariant adds to the
property the packets that the two sides can have sent, and that a display that
has used up its retransmissions is about to terminate, without which the
counter has no bound.

`SharingProofs` is about who refers to what is counted. For fonts (FontsTypeCorrect,
FontsCounted) the invariant `FontsInv` adds to the property what the queues and
closures say of each other (`QueueOK`: whoever sleeps has a closure and the others
have none, and a client is on the work queue once, and then not to be signalled
any more). The argument is about a difference: the `Debt` of a font is its count
less its references. No step lowers that of a font that is neither `abandoned`
nor `reopened` after the step, and none raises that of a font that is not
`leaked` (`DebtKept`); these are two arguments, as a request without its drawable
closes its own font and never another (`BlindlyExecuted`), and so gives back too
much of the one and too little of the rest. No step is exempt from the claim.
`Execute` and `PolyText` are loops over a text, in which the font of the GC moves
from one change to the next; `HasExecuted` says what the loop has exchanged after
any number of elements, and `RecursionExists` and `SetInduction` carry it to the
end. That a closure's marks are those of the rest of the text, and no others, is
counting: the marks are pairs of a client and a place, and `OneMore`, `SameCount`
and `TwoParts` compare such sets when one place or one client changes.

For colormaps (ColoursTypeCorrect, ColoursCounted) the inductive invariant
`ColoursInv` has the property for each map alone (`MapOK`: each cell's count is how
often its pixel is on the lists, and `free` the number of cells on none), who may
have a list in it (`Holders`), and the types of what is shared. The loops
are those that free a client's list (`FreePixels`) and that copy it to another
map (`CopyFree`). In the middle of these the lists are empty and the cells are not:
`CountsAre` compares cells with any counts, and the loop's invariant with those of
the places that are left (`Rest`) and, in the other map, of those that are done
(`Done`). A private cell occurs once, so that the copy meets it once
(`Halves`): this is what keeps the copy of a count of -1 from being counted up.

`ObjectsProofs` is about the two lists of dix/grabs.c and dix/dixutils.c, and about
the composition of `MCObjects`. For passive grabs (PassiveTypeCorrect, GrabsImplementCombinations,
NoCombinationOfTwoClients). A grab covers the combinations of the keys and
modifiers its details cover. The lemmas relate the tests of grabs.c to these sets:
`GrabSupersedesSecond` to inclusion, and the overlap that `AddPassiveGrabToList`
refuses to a common combination. That a request deletes exactly its combinations is
then, for each grab of the list, one of the four cases of
`DeletePassiveGrabFromList`: kept, deleted, a detail reduced, or split in two. No
list is walked through by induction: `Held` is a set over the list's places. That
no combination belongs to two clients is proved of the abstract specification
and carried over by the refinement.

For callbacks and block handlers (CallbacksTypeCorrect, EachCalledOnce) the
invariant has two parts, as the module has. `HandlersOK` says who was called in a
round from the round's state and the index of the next handler alone. `ListOK`
says that entries are numbered as they were added, newest first; that each call
still running began with a tail of the list that is there yet, since the head
only grows and nothing is taken out while calls run, so that a position in the list
is a position in that tail; and that `numDeleted` counts at least the entries that
are marked, so that the sweep, which stops after as many, finds them all. What
the sweep leaves (`Leaving`) is recursive, and the induction is by the least
position at which the claim would fail (`NatLessThanWellFounded`).

The composition (PartsAreComponents, ObjectsTypeCorrect, ReferencesCounted): a step of
`MCObjects` is one of the part that runs and leaves the others' variables alone, so
that a behaviour of it is, whatever `part` is, a behaviour of every component. What
is proved of `Resources`, `FontRequests`, `Callbacks`, `PassiveGrabs`, `Colormaps` and
`Sprite` is therefore true of the run that checks them, and its own two
properties follow without an invariant of their own.

`SpriteProofs` (CursorIsOverlay, CursorColoursAreCurrent, SpriteTypeCorrect). For the
overlay, the invariant is the property and what it
needs of the next step: the saved box contains the cursor, and there is room for
it in the pixmap (`Steady`). Between the steps of `SetCursor` only a weaker one
holds (`Loose`: outside the saved box everything is as drawn). Each of the copies
between screen and pixmap is a lemma about the pixels it changes (`PuttingBack`,
`Fetching`, `Shifting`); `BoxSlides` composes the five of `ChangeSave`: the rows
and columns that leave the box go back to the screen, the bits that stay move
within the pixmap, and the new rows and columns are fetched, in an order in which
nothing is fetched that still has the cursor on it. That takes each of the four
directions of the slide, by arithmetic on the edges. The assumption about cursors is
that their bits are within their size; hot spots may be anywhere.

For the colours, the property alone is not inductive: while `checkPixels` is set the
sprite may believe anything about its pixels' colours, but it will act on what it
believes as soon as it has looked. The invariant (`Agrees`) says for both planes that in
the map in which the pixel was found, its cell has the colour it had when it was picked
or the one the sprite believes (`Picked`: storing in the cell changes both, since the
sprite hears of it), and that a sprite that is not to check believes the colours
of its cursor (`Believes`, `Knows`). `FindColors` looks for the two planes one after
the other, in between which it has cells of its own in the map; a plane once found
stays found (`Settled`: its cell is not free for the other plane to take, unless
no cell is). The loop over the definitions of a request (`UpdatedColors`) is shown by
its least failing step to update each plane that is defined with its definition.
That needs a request to define no pixel twice (`DefinitionsAssumption`), and is
false otherwise: miSpriteStoreColors stops at its second match, which is meant for
one match per plane, but a pixel that is defined twice uses up both, and the
definitions after it are missed (mi/misprite.c:505). With a request that defines
pixel 0 twice and then pixel 1, TLC finds a cursor shown as checked in a colour
that is neither the one picked nor the right one. No doc or comment says that
such requests are handled, so it is recorded here and not as a finding.

Only model-checked:

- liveness (`EveryEventIsTaken`, `CallsReturn`, `RequestsAreServed`,
  `TimersAreServed`, `XdmcpGetsASession`, and that of `OutputIsAStream`): out of
  the prover's reach, like ENABLED;
- `RegionsAreTheirPixels`, `ClipsAreVisible`, `ScreenIsRight`: `Regions` and
  `WindowClips` recurse over lists and trees (RECURSIVE operators), and what they
  compute needs induction;
- `ServicesTypeOK`, the types of the other composed run, which reaches those two
  modules (the parts about the event queue, timers, output and XDMCP are theorems).

No module with a proof, and none it extends, uses RECURSIVE; recursion is written
as functions or folds there.

## 5. The plan

1. (done) event queue; synchronous grabs; scheduling and server grabs;
   resources; timers; output with its abstract stream; callbacks; XDMCP; font
   requests; passive grabs with their abstract sets; colormaps; regions;
   windows; the cursor.
2. Proofs: (done) every component but regions and windows, and the composition of
   the objects. Left: `Regions` and `WindowClips`, of which each operation would have to
   be written as a recursive function before it can be proved to keep the banded form
   and the set of pixels.
3. Models: focus and its trace; properties and selections; the switch of
   virtual terminals with its failures; backing store on `WindowClips`; off-screen memory
   (xf86fbman.c).

Runs stay on two or three actors and under five minutes.

## 6. What is not modelled

`PROJECT.json` says so for each component. In short: drawing (arithmetic on
pixels, where a model is the code again), hardware and its
configuration (its state is outside the repository), parsing and swapping of
requests (data), the rest of the request set (sequential, validated and local),
and the parts listed in section 5.

The one hazard without a property has a note in `PROJECT.json` that the code does
what should be excluded (dispatch.c:3536). Known
and not in the list, as their component is not modelled or needs more actors than
the instances have: the screen of a queued event after a warp (mieq.c:162);
a second key beside `activatingKey` (events.c:2837); a third device's freeze
(events.c:1237); the count of free cells after a failed reallocation
(colormap.c:1370); the focus in an unmapped window (events.c:4409); a switch
of terminals that fails half-way (xf86Events.c:1534).

To check, in this directory: `tlc -config Services.cfg MCServices`, and so on
for each run; `tlapm ServicesProofs.tla`, and so on for each module whose name ends
in `Proofs`.
