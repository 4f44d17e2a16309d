----------------------------- MODULE EventQueue -----------------------------
(***************************************************************************)
(* The ring of input events between the SIGIO handler of a driver and the  *)
(* dispatch loop: mi/mieq.c and the copy of it that the XFree86 DDX uses,  *)
(* hw/xfree86/common/xf86Xinput.c (xf86eq...).                             *)
(*                                                                         *)
(* The handler runs to completion on top of the main thread, so one call   *)
(* of mieqEnqueue is one action.  The main thread runs                     *)
(* mieqProcessInputEvents, which the handler may interrupt between any two *)
(* reads or writes of the shared record: it has a program counter.         *)
(***************************************************************************)
EXTENDS Integers, Sequences

CONSTANTS
  QUEUE_SIZE,  \* slots of the ring (256 in the code)
  Screens,     \* the ScreenPtr values
  Times,       \* event times the drivers report, a range of integers
  TimeSlack,   \* a time this far behind the last one is a wrap (10000 ms)
  Variant,     \* "mieq" or "xf86eq": the two copies of the code
  MaxArrivals  \* bound: how many events the devices produce

ASSUME QueueAssumption ==
  /\ QUEUE_SIZE \in Nat /\ QUEUE_SIZE >= 2
  /\ Screens # {}
  /\ Times \subseteq Int
  /\ TimeSlack \in Nat
  /\ Variant \in {"mieq", "xf86eq"}
  /\ MaxArrivals \in Nat

VARIABLES
  head, tail, events, lastEventTime, lastMotion,  \* miEventQueue
  pEnqueueScreen, pDequeueScreen,
  pc,         \* where mieqProcessInputEvents is
  switching,  \* the branch it took: e->pScreen # pDequeueScreen
  xe,         \* its locals: xe, or x and y
  arrivals,   \* how many events the devices have produced
  serial,     \* for each slot, which accepted event it holds (history)
  enq, deq,   \* how many slots were filled and emptied so far (history)
  newestMotion, \* the last motion event accepted (history)
  lastOut,    \* the last event given to the rest of the server (history)
  pointer     \* <<x, y>> of the last motion it was given (history)

shared  == <<head, tail, events, lastEventTime, lastMotion,
             pEnqueueScreen, pDequeueScreen>>
history == <<arrivals, serial, enq, deq, newestMotion, lastOut, pointer>>
vars    == <<shared, pc, switching, xe, history>>

Slots == 0 .. QUEUE_SIZE - 1
Types == {"motion", "key"}   \* "key" stands for every event but MotionNotify

\* The arrival number of an event stands for its rootX and its rootY, so that
\* a copy made of two events shows: then x # y.
NoEvent == [type |-> "key", x |-> 0, y |-> 0, time |-> 0]
Events  == [type : Types, x : Nat, y : Nat, time : Int]

NextSlotNoWrap(i) == IF i = QUEUE_SIZE THEN 0 ELSE i + 1   \* mutant
NextSlot(i) == IF i + 1 = QUEUE_SIZE THEN 0 ELSE i + 1
PrevSlot(i) == (IF i = 0 THEN QUEUE_SIZE ELSE i) - 1

Init ==
  /\ head = 0 /\ tail = 0
  /\ lastEventTime \in Times
  /\ lastMotion = FALSE
  /\ pEnqueueScreen \in Screens
  /\ pDequeueScreen = pEnqueueScreen
  /\ events = [i \in Slots |-> [event |-> NoEvent, pScreen |-> pEnqueueScreen]]
  /\ pc = "test" /\ switching = FALSE /\ xe = NoEvent
  /\ arrivals = 0 /\ enq = 0 /\ deq = 0
  /\ serial = [i \in Slots |-> 0]
  /\ newestMotion = 0
  /\ lastOut = [event |-> NoEvent, kind |-> "none"]
  /\ pointer = <<0, 0>>

-----------------------------------------------------------------------------
(* The handler: mieqEnqueue and mieqSwitchScreen.                          *)

CompressesKeys(isMotion) == ~isMotion /\ ~lastMotion /\ tail # head   \* mutants
CompressesOnAnything(isMotion) == isMotion /\ tail # head
\* A motion event on top of a motion event that is still queued replaces it.
Compresses(isMotion) == isMotion /\ lastMotion /\ tail # head

UnclampedTime(t) == t   \* mutant
\* Late by less than TimeSlack: "make sure that event times don't go backwards".
ClampedTime(t) ==
  IF t < lastEventTime /\ lastEventTime - t < TimeSlack THEN lastEventTime ELSE t

\* xf86eqEnqueue reads lastEventTime and never writes it.
LastTimeAfter(t) == IF Variant = "mieq" THEN ClampedTime(t) ELSE lastEventTime

QueueFullNever == FALSE    \* mutant
\* newtail == miEventQueue.head: one slot always stays free.
QueueFull == NextSlot(tail) = head

\* What mieqEnqueue does with event e while pEnqueueScreen is s.
Enqueue(e, s) ==
  LET isMotion == e.type = "motion"
      merge    == Compresses(isMotion)
      slot     == IF merge THEN PrevSlot(tail) ELSE tail
      full     == ~merge /\ QueueFull
  IN IF full
     THEN UNCHANGED <<tail, events, lastEventTime, lastMotion, serial, enq,
                      newestMotion>>
     ELSE /\ tail' = IF merge THEN tail ELSE NextSlot(tail)
          /\ lastMotion' = isMotion
          /\ events' = [events EXCEPT ![slot] =
                          [event |-> [e EXCEPT !.time = ClampedTime(e.time)],
                           pScreen |-> s]]
          /\ lastEventTime' = LastTimeAfter(e.time)
          /\ enq' = IF merge THEN enq ELSE enq + 1
          /\ serial' = IF merge THEN serial ELSE [serial EXCEPT ![slot] = enq]
          /\ newestMotion' = IF isMotion THEN e.x ELSE newestMotion

Arrival(type, t) == [type |-> type, x |-> arrivals + 1, y |-> arrivals + 1, time |-> t]

\* A device reports a key or button, or motion within the screen.
DeviceEvent(type, t) ==
  /\ arrivals < MaxArrivals
  /\ arrivals' = arrivals + 1
  /\ Enqueue(Arrival(type, t), pEnqueueScreen)
  /\ UNCHANGED <<head, pEnqueueScreen, pDequeueScreen, pc, switching, xe, deq, lastOut, pointer>>

\* miPointerAbsoluteCursor moves the pointer off its screen: NewEventScreen
\* (mieqSwitchScreen, fromDIX FALSE), then miPointerMove enqueues the motion.
CrossScreen(s, t) ==
  /\ arrivals < MaxArrivals
  /\ s # pEnqueueScreen
  /\ arrivals' = arrivals + 1
  /\ pEnqueueScreen' = s
  /\ Enqueue(Arrival("motion", t), s)
  /\ UNCHANGED <<head, pDequeueScreen, pc, switching, xe, deq, lastOut, pointer>>

\* miPointerWarpCursor, called by the main thread with SIGIO blocked when it is
\* not inside the dequeuing of an event: mieqSwitchScreen, fromDIX TRUE, then
\* with generateEvent the motion.
WarpCursor(s, t, generateEvent) ==
  /\ pc = "test"
  /\ arrivals < MaxArrivals
  /\ s # pEnqueueScreen
  /\ pEnqueueScreen' = s
  /\ pDequeueScreen' = s
  /\ IF generateEvent
     THEN arrivals' = arrivals + 1 /\ Enqueue(Arrival("motion", t), s)
     ELSE UNCHANGED <<arrivals, tail, events, lastEventTime, lastMotion,
                      serial, enq, newestMotion>>
  /\ UNCHANGED <<head, pc, switching, xe, deq, lastOut, pointer>>

-----------------------------------------------------------------------------
(* The main thread: mieqProcessInputEvents.                                *)

Goto(from, to) == pc = from /\ pc' = to

\* while (head != tail), and the test e->pScreen != pDequeueScreen.
TestQueue ==
  /\ Goto("test", "compare")
  /\ head # tail
  /\ UNCHANGED <<shared, switching, xe, history>>

Compare ==
  /\ pc = "compare"
  /\ switching' = (events[head].pScreen # pDequeueScreen)
  /\ pc' = IF switching' THEN "setScreen" ELSE "readFirst"
  /\ UNCHANGED <<shared, xe, history>>

SetScreen ==
  /\ Goto("setScreen", "readFirst")
  /\ pDequeueScreen' = events[head].pScreen
  /\ UNCHANGED <<head, tail, events, lastEventTime, lastMotion, pEnqueueScreen,
                 switching, xe, history>>

\* The event is copied out word by word: its first words, then the others.
ReadFirst ==
  /\ Goto("readFirst", "readRest")
  /\ xe' = [events[head].event EXCEPT !.y = xe.y]
  /\ UNCHANGED <<shared, switching, history>>

ReadRest ==
  /\ Goto("readRest", "advance")
  /\ xe' = [xe EXCEPT !.y = events[head].event.y]
  /\ UNCHANGED <<shared, switching, history>>

Advance ==
  /\ Goto("advance", "dispatch")
  /\ head' = NextSlot(head)
  /\ deq' = deq + 1
  /\ UNCHANGED <<tail, events, lastEventTime, lastMotion, pEnqueueScreen,
                 pDequeueScreen, switching, xe, arrivals, serial, enq,
                 newestMotion, lastOut, pointer>>

\* NewCurrentScreen, which keeps only x and y, or processInputProc.
Dispatch ==
  /\ Goto("dispatch", "test")
  /\ lastOut' = [event |-> xe,
                 kind |-> IF switching THEN "NewCurrentScreen" ELSE "processInputProc"]
  /\ pointer' = IF xe.type = "motion" THEN <<xe.x, xe.y>> ELSE pointer
  /\ UNCHANGED <<shared, switching, xe, arrivals, serial, enq, deq, newestMotion>>

Handler ==
  \/ \E type \in Types, t \in Times : DeviceEvent(type, t)
  \/ \E s \in Screens, t \in Times : CrossScreen(s, t)

ProcessInputEvents ==
  \/ TestQueue
  \/ Compare
  \/ SetScreen
  \/ ReadFirst
  \/ ReadRest
  \/ Advance
  \/ Dispatch

Next ==
  \/ Handler
  \/ \E s \in Screens, t \in Times, g \in BOOLEAN : WarpCursor(s, t, g)
  \/ ProcessInputEvents

Spec == Init /\ [][Next]_vars

\* The dispatch loop calls ProcessInputEvents whenever head # tail.
FairSpec == Spec /\ WF_vars(ProcessInputEvents)

-----------------------------------------------------------------------------
(* Properties.                                                             *)

TypeOK ==
  /\ head \in Slots /\ tail \in Slots
  /\ events \in [Slots -> [event : Events, pScreen : Screens]]
  /\ lastEventTime \in Int
  /\ lastMotion \in BOOLEAN
  /\ pEnqueueScreen \in Screens /\ pDequeueScreen \in Screens
  /\ pc \in {"test", "compare", "setScreen", "readFirst", "readRest", "advance", "dispatch"}
  /\ switching \in BOOLEAN
  /\ xe \in Events
  /\ arrivals \in Nat /\ enq \in Nat /\ deq \in Nat /\ newestMotion \in Nat
  /\ serial \in [Slots -> Nat]
  /\ lastOut \in [event : Events, kind : {"none", "NewCurrentScreen", "processInputProc"}]
  /\ pointer \in Nat \X Nat

\* The slot of the k-th event counted from head.
SlotAt(k) == IF head + k < QUEUE_SIZE THEN head + k ELSE head + k - QUEUE_SIZE

\* head and tail delimit exactly the accepted events that were not taken yet,
\* oldest first, and none of them was overwritten by a later one: whatever the
\* handler does between two instructions of mieqProcessInputEvents, events
\* leave the ring in the order they entered it, each of them once.
RingHoldsTheQueue ==
  /\ enq - deq \in 0 .. QUEUE_SIZE - 1
  /\ tail = SlotAt(enq - deq)
  /\ \A k \in 0 .. enq - deq - 1 : serial[SlotAt(k)] = deq + k

\* While mieqProcessInputEvents works on a slot, the ring is not empty: the
\* head it advances past is an event, although the handler moved tail meanwhile.
Working == pc \in {"compare", "setScreen", "readFirst", "readRest", "advance"}
NeverAdvancesPastTail == Working => head # tail

\* A key or button event is copied out whole: the handler never replaces one
\* that is being read (it may replace a motion, see PointerIsWhereItWasMoved).
KeyIsNeverTorn ==
  /\ pc = "advance" /\ xe.type = "key" => xe = events[head].event
  /\ xe.type = "key" /\ pc = "dispatch" => xe.x = xe.y

\* What the proofs add to the invariants above to make them inductive: while
\* lastMotion is set the newest queued event is a motion (so compressing never
\* hits a key), every slot holds the two halves of one event, and the half-made
\* copy of a key agrees with its slot.
NewestIsMotion ==
  lastMotion /\ enq - deq > 0 => events[SlotAt(enq - deq - 1)].event.type = "motion"
SlotsAreWhole == \A i \in Slots : events[i].event.x = events[i].event.y
KeyHalfCopied ==
  pc = "readRest" /\ xe.type = "key" =>
    LET e == events[head].event
    IN xe.type = e.type /\ xe.x = e.x /\ xe.time = e.time
IInv ==
  /\ TypeOK
  /\ RingHoldsTheQueue
  /\ NeverAdvancesPastTail
  /\ NewestIsMotion
  /\ SlotsAreWhole
  /\ KeyHalfCopied
  /\ KeyIsNeverTorn

\* A queued key or button event stays as it was accepted until it is taken.
QueuedKeysAreStable ==
  [][\A k \in 0 .. QUEUE_SIZE - 2 :
       k < enq - deq /\ events[SlotAt(k)].event.type = "key"
         => events'[SlotAt(k)] = events[SlotAt(k)]]_vars

\* "Make sure that event times don't go backwards": as long as no two device
\* clocks differ by TimeSlack or more, an event never leaves the queue with an
\* earlier time than the one that left before it.
ClocksAgree == \A t, u \in Times : t - u < TimeSlack
TimesDontGoBackwards ==
  [][ClocksAgree /\ lastOut.kind # "none" =>
       lastOut'.event.time >= lastOut.event.time]_lastOut

\* "Must be reentrant with ProcessInputEvents": once the queue is drained the
\* server has been told the position of the last motion the queue accepted.
PointerIsWhereItWasMoved ==
  pc = "test" /\ head = tail => pointer = <<newestMotion, newestMotion>>

\* No accepted event is left in the ring: with the devices' MaxArrivals events
\* behind them, however they were mixed with the work on the ring, all that was
\* accepted has been taken.
EveryEventIsTaken == <>[](deq = enq)
=============================================================================
