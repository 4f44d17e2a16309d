----------------------------- MODULE ServicesProofs -----------------------------
(***************************************************************************)
(* Proofs about EventQueue, Timers, Output and Xdmcp, for a ring of any     *)
(* size, both copies of its code and any number of events, any number of    *)
(* timers and any width of the clock, any clients and sizes of messages and *)
(* buffers, any limits of retransmissions and datagrams on their way: the   *)
(* ring holds the queue and a key is never torn, timers are called in time  *)
(* and in order, no output is left where nobody looks for it, the output    *)
(* buffers are the streams of OutputStream, and a session of XDMCP hangs on *)
(* a connection that is there.                                             *)
(***************************************************************************)
EXTENDS EventQueue, Timers, Output, Xdmcp, SequenceTheorems, WellFoundedInduction, TLAPS

-----------------------------------------------------------------------------
(* The event queue.                                                         *)

\* The slots that the handler and mieqProcessInputEvents compute are slots.
LEMMA SlotsAreSlots ==
  ASSUME NEW i \in Slots
  PROVE  NextSlot(i) \in Slots /\ PrevSlot(i) \in Slots
BY QueueAssumption DEF Slots, NextSlot, PrevSlot

LEMMA ClampedTimeType ==
  ASSUME lastEventTime \in Int, NEW t \in Int
  PROVE  ClampedTime(t) \in Int /\ LastTimeAfter(t) \in Int
BY DEF ClampedTime, LastTimeAfter

LEMMA ArrivalType ==
  ASSUME arrivals \in Nat, NEW type \in Types, NEW t \in Times
  PROVE  /\ Arrival(type, t) \in Events
         /\ Arrival(type, t).x = Arrival(type, t).y
BY QueueAssumption DEF Arrival, Events

\* What the handler does to the shared record keeps its type.
LEMMA EnqueueType ==
  ASSUME TypeOK, NEW e \in Events, NEW s \in Screens, Enqueue(e, s)
  PROVE  /\ tail' \in Slots
         /\ events' \in [Slots -> [event : Events, pScreen : Screens]]
         /\ lastEventTime' \in Int /\ lastMotion' \in BOOLEAN
         /\ enq' \in Nat /\ serial' \in [Slots -> Nat] /\ newestMotion' \in Nat
<1>1. CASE UNCHANGED <<tail, events, lastEventTime, lastMotion, serial, enq, newestMotion>>
  BY <1>1 DEF TypeOK
<1>2. CASE ~ UNCHANGED <<tail, events, lastEventTime, lastMotion, serial, enq, newestMotion>>
  <2> DEFINE isMotion == e.type = "motion"
             merge    == Compresses(isMotion)
             slot     == IF merge THEN PrevSlot(tail) ELSE tail
             filled   == [event |-> [e EXCEPT !.time = ClampedTime(e.time)], pScreen |-> s]
  <2>1. slot \in Slots /\ NextSlot(tail) \in Slots
    BY SlotsAreSlots DEF TypeOK
  <2>2. e.time \in Int /\ e.x \in Nat /\ e.type \in Types /\ e.y \in Nat
    BY DEF Events
  <2>3. ClampedTime(e.time) \in Int /\ LastTimeAfter(e.time) \in Int
    BY <2>2, ClampedTimeType DEF TypeOK
  <2>4. filled \in [event : Events, pScreen : Screens]
    BY <2>2, <2>3 DEF Events
  <2>5. /\ tail' = IF merge THEN tail ELSE NextSlot(tail)
        /\ lastMotion' = isMotion
        /\ events' = [events EXCEPT ![slot] = filled]
        /\ lastEventTime' = LastTimeAfter(e.time)
        /\ enq' = IF merge THEN enq ELSE enq + 1
        /\ serial' = IF merge THEN serial ELSE [serial EXCEPT ![slot] = enq]
        /\ newestMotion' = IF isMotion THEN e.x ELSE newestMotion
    BY <1>2 DEF Enqueue
  <2> HIDE DEF merge, slot, filled
  <2> QED
    BY <2>1, <2>2, <2>3, <2>4, <2>5 DEF TypeOK
<1> QED
  BY <1>1, <1>2

\* One case per action: the step keeps the types.
LEMMA TypeStep == TypeOK /\ [Next]_vars => TypeOK'
<1> SUFFICES ASSUME TypeOK, [Next]_vars PROVE TypeOK'
  OBVIOUS
<1>1. ASSUME NEW type \in Types, NEW t \in Times, DeviceEvent(type, t)
      PROVE  TypeOK'
  <2>1. Arrival(type, t) \in Events
    BY ArrivalType DEF TypeOK
  <2> QED
    BY <1>1, <2>1, EnqueueType DEF TypeOK, DeviceEvent
<1>2. ASSUME NEW s \in Screens, NEW t \in Times, CrossScreen(s, t)
      PROVE  TypeOK'
  <2>1. Arrival("motion", t) \in Events
    BY ArrivalType DEF TypeOK, Types
  <2> QED
    BY <1>2, <2>1, EnqueueType DEF TypeOK, CrossScreen
<1>3. ASSUME NEW s \in Screens, NEW t \in Times, NEW g \in BOOLEAN, WarpCursor(s, t, g)
      PROVE  TypeOK'
  <2>1. Arrival("motion", t) \in Events
    BY ArrivalType DEF TypeOK, Types
  <2> QED
    BY <1>3, <2>1, EnqueueType DEF TypeOK, WarpCursor
<1>4. CASE TestQueue
  BY <1>4 DEF TestQueue, Goto, TypeOK, shared, history
<1>5. CASE Compare
  BY <1>5 DEF Compare, TypeOK, shared, history
<1>6. CASE SetScreen
  BY <1>6 DEF SetScreen, Goto, TypeOK, history
<1>7. CASE ReadFirst
  BY <1>7 DEF ReadFirst, Goto, TypeOK, shared, history, Events
<1>8. CASE ReadRest
  BY <1>8 DEF ReadRest, Goto, TypeOK, shared, history, Events
<1>9. CASE Advance
  BY <1>9, SlotsAreSlots DEF Advance, Goto, TypeOK
<1>10. CASE Dispatch
  BY <1>10 DEF Dispatch, Goto, TypeOK, shared, Events
<1>11. CASE UNCHANGED vars
  BY <1>11 DEF vars, shared, history, TypeOK
<1> QED
  BY <1>1, <1>2, <1>3, <1>4, <1>5, <1>6, <1>7, <1>8, <1>9, <1>10, <1>11
     DEF Next, Handler, ProcessInputEvents

-----------------------------------------------------------------------------
(* The ring.                                                               *)

\* The three things one call of mieqEnqueue can do.
Tossed == UNCHANGED <<tail, events, lastEventTime, lastMotion, serial, enq, newestMotion>>
Merged(e, s) ==
  /\ e.type = "motion" /\ lastMotion /\ tail # head
  /\ events' = [events EXCEPT ![PrevSlot(tail)] =
                  [event |-> [e EXCEPT !.time = ClampedTime(e.time)], pScreen |-> s]]
  /\ lastMotion' = TRUE
  /\ lastEventTime' = LastTimeAfter(e.time)
  /\ UNCHANGED <<tail, serial, enq>>
Added(e, s) ==
  /\ NextSlot(tail) # head
  /\ tail' = NextSlot(tail)
  /\ events' = [events EXCEPT ![tail] =
                  [event |-> [e EXCEPT !.time = ClampedTime(e.time)], pScreen |-> s]]
  /\ lastMotion' = (e.type = "motion")
  /\ lastEventTime' = LastTimeAfter(e.time)
  /\ enq' = enq + 1
  /\ serial' = [serial EXCEPT ![tail] = enq]

LEMMA EnqueueCases ==
  ASSUME TypeOK, NEW e, NEW s, Enqueue(e, s)
  PROVE  Tossed \/ Merged(e, s) \/ Added(e, s)
<1>1. CASE Compresses(e.type = "motion")
  <2>1. e.type = "motion" /\ lastMotion /\ tail # head
    BY <1>1 DEF Compresses
  <2> QED
    BY <1>1, <2>1 DEF Enqueue, Merged
<1>2. CASE ~ Compresses(e.type = "motion") /\ QueueFull
  BY <1>2 DEF Enqueue, Tossed
<1>3. CASE ~ Compresses(e.type = "motion") /\ ~ QueueFull
  BY <1>3 DEF Enqueue, Added, QueueFull
<1> QED
  BY <1>1, <1>2, <1>3

\* Where the ends of the ring are, in terms of the count of queued events.
LEMMA RingEnds ==
  ASSUME TypeOK, RingHoldsTheQueue
  PROVE  /\ tail # head <=> enq - deq > 0
         /\ enq - deq > 0 => PrevSlot(tail) = SlotAt(enq - deq - 1)
         /\ NextSlot(tail) # head <=> enq - deq < QUEUE_SIZE - 1
         /\ \A k \in 0 .. QUEUE_SIZE - 1 : SlotAt(k) \in Slots
         /\ SlotAt(0) = head
         /\ \A j, k \in 0 .. QUEUE_SIZE - 1 : SlotAt(j) = SlotAt(k) => j = k
<1>1. /\ QUEUE_SIZE \in Nat /\ QUEUE_SIZE >= 2
      /\ head \in 0 .. QUEUE_SIZE - 1
      /\ enq - deq \in 0 .. QUEUE_SIZE - 1
      /\ tail = IF head + (enq - deq) < QUEUE_SIZE
                  THEN head + (enq - deq) ELSE head + (enq - deq) - QUEUE_SIZE
  BY QueueAssumption DEF TypeOK, RingHoldsTheQueue, Slots, SlotAt
<1>2. tail # head <=> enq - deq > 0
  BY <1>1
<1>3. enq - deq > 0 => PrevSlot(tail) = SlotAt(enq - deq - 1)
  BY <1>1 DEF PrevSlot, SlotAt
<1>4. NextSlot(tail) # head <=> enq - deq < QUEUE_SIZE - 1
  BY <1>1 DEF NextSlot
<1>5. \A k \in 0 .. QUEUE_SIZE - 1 : SlotAt(k) \in Slots
  BY <1>1 DEF SlotAt, Slots
<1>6. SlotAt(0) = head
  BY <1>1 DEF SlotAt
<1>7. \A j, k \in 0 .. QUEUE_SIZE - 1 : SlotAt(j) = SlotAt(k) => j = k
  BY <1>1 DEF SlotAt
<1> QED
  BY <1>2, <1>3, <1>4, <1>5, <1>6, <1>7

\* The parts of the inductive invariant that speak of the ring and its slots.
RingInv == RingHoldsTheQueue /\ NewestIsMotion /\ SlotsAreWhole

LEMMA TossedKeepsRing ==
  ASSUME TypeOK, RingInv, Tossed, head' = head, deq' = deq
  PROVE  RingInv'
BY DEF RingInv, Tossed, RingHoldsTheQueue, NewestIsMotion, SlotsAreWhole, SlotAt

LEMMA MergedKeepsRing ==
  ASSUME TypeOK, RingInv, NEW e \in Events, NEW s \in Screens, e.x = e.y,
         Merged(e, s), head' = head, deq' = deq
  PROVE  RingInv'
<1> DEFINE n == enq - deq
<1>1. n > 0 /\ PrevSlot(tail) = SlotAt(n - 1) /\ SlotAt(n - 1) \in Slots
  <2>1. n > 0 /\ n \in 0 .. QUEUE_SIZE - 1 /\ PrevSlot(tail) = SlotAt(n - 1)
    BY RingEnds DEF RingInv, Merged, RingHoldsTheQueue
  <2>2. n - 1 \in 0 .. QUEUE_SIZE - 1
    BY <2>1, QueueAssumption
  <2> QED
    BY <2>1, <2>2, RingEnds DEF RingInv
<1>2. \A k \in Int : SlotAt(k)' = SlotAt(k)
  BY DEF SlotAt
<1>3. RingHoldsTheQueue'
  BY <1>2 DEF RingInv, RingHoldsTheQueue, Merged, TypeOK
<1>4. events'[SlotAt(n - 1)].event = [e EXCEPT !.time = ClampedTime(e.time)]
  BY <1>1 DEF Merged, TypeOK
<1>5. NewestIsMotion'
  <2>1. events'[SlotAt(n - 1)].event.type = "motion"
    BY <1>4 DEF Merged, Events
  <2>2. enq' - deq' = n
    BY DEF Merged
  <2> QED
    BY <2>1, <2>2 DEF NewestIsMotion, SlotAt
<1>6. SlotsAreWhole'
  <2>1. [e EXCEPT !.time = ClampedTime(e.time)].x = [e EXCEPT !.time = ClampedTime(e.time)].y
    BY DEF Events
  <2> QED
    BY <2>1, <1>1 DEF RingInv, SlotsAreWhole, Merged, TypeOK
<1> QED
  BY <1>3, <1>5, <1>6 DEF RingInv

LEMMA AddedKeepsRing ==
  ASSUME TypeOK, RingInv, NEW e \in Events, NEW s \in Screens, e.x = e.y,
         Added(e, s), head' = head, deq' = deq
  PROVE  RingInv'
<1> DEFINE n == enq - deq
<1>1. /\ n \in 0 .. QUEUE_SIZE - 2 /\ n + 1 \in 0 .. QUEUE_SIZE - 1
      /\ tail = SlotAt(n) /\ tail \in Slots /\ head \in Slots
      /\ enq' - deq' = n + 1
      /\ \A j, k \in 0 .. QUEUE_SIZE - 1 : SlotAt(j) = SlotAt(k) => j = k
      /\ \A k \in 0 .. QUEUE_SIZE - 1 : SlotAt(k) \in Slots
  BY RingEnds, QueueAssumption DEF RingInv, RingHoldsTheQueue, Added, TypeOK
<1>2. \A k \in Int : SlotAt(k)' = SlotAt(k)
  BY DEF SlotAt
<1>3. tail' = SlotAt(n + 1)
  <2>1. tail' = NextSlot(tail)
    BY DEF Added
  <2> QED
    BY <2>1, <1>1, QueueAssumption DEF NextSlot, SlotAt, Slots
<1>4. ASSUME NEW k \in 0 .. n PROVE serial'[SlotAt(k)] = deq + k
  <2>1. CASE k = n
    BY <2>1, <1>1 DEF Added, TypeOK
  <2>2. CASE k # n
    <3>1. k \in 0 .. n - 1 /\ k \in 0 .. QUEUE_SIZE - 1 /\ n \in 0 .. QUEUE_SIZE - 1
      BY <2>2, <1>1, QueueAssumption
    <3>2. SlotAt(k) # tail /\ SlotAt(k) \in Slots
      BY <3>1, <1>1, <2>2
    <3>3. serial[SlotAt(k)] = deq + k
      BY <3>1 DEF RingInv, RingHoldsTheQueue
    <3> QED
      BY <3>2, <3>3 DEF Added, TypeOK
  <2> QED
    BY <2>1, <2>2
<1>5. RingHoldsTheQueue'
  <2>1. \A k \in 0 .. enq' - deq' - 1 : serial'[SlotAt(k)'] = deq' + k
    BY <1>1, <1>2, <1>4
  <2> QED
    BY <2>1, <1>1, <1>2, <1>3 DEF RingHoldsTheQueue
<1>6. events'[tail].event = [e EXCEPT !.time = ClampedTime(e.time)]
  BY <1>1 DEF Added, TypeOK
<1>7. NewestIsMotion'
  <2>1. events'[tail].event.type = e.type
    BY <1>6 DEF Events
  <2>2. enq' - deq' - 1 = n
    BY <1>1
  <2>3. lastMotion' => e.type = "motion"
    BY DEF Added
  <2> QED
    BY <2>1, <2>2, <2>3, <1>1 DEF NewestIsMotion, SlotAt
<1>8. SlotsAreWhole'
  <2>1. [e EXCEPT !.time = ClampedTime(e.time)].x = [e EXCEPT !.time = ClampedTime(e.time)].y
    BY DEF Events
  <2> QED
    BY <2>1, <1>1 DEF RingInv, SlotsAreWhole, Added, TypeOK
<1> QED
  BY <1>5, <1>7, <1>8 DEF RingInv

\* One call of mieqEnqueue: the ring stays in order, nothing leaves it, the slot
\* at head of a non-empty ring stays as it is or is a motion that a motion replaces.
LEMMA EnqueueKeepsRing ==
  ASSUME TypeOK, RingInv, NEW e \in Events, NEW s \in Screens, e.x = e.y,
         Enqueue(e, s), head' = head, deq' = deq
  PROVE  /\ RingInv'
         /\ head # tail => head' # tail'
         /\ \A k \in 0 .. QUEUE_SIZE - 2 :
              k < enq - deq /\ events[SlotAt(k)].event.type = "key"
                => events'[SlotAt(k)] = events[SlotAt(k)]
         /\ head # tail /\ events[head].event.type = "motion"
              => events'[head].event.type = "motion"
<1> DEFINE n == enq - deq
<1>1. RingInv'
  BY EnqueueCases, TossedKeepsRing, MergedKeepsRing, AddedKeepsRing
<1>2. head # tail => head' # tail'
  BY EnqueueCases DEF Tossed, Merged, Added
<1>3. /\ head # tail => n > 0 /\ PrevSlot(tail) = SlotAt(n - 1)
      /\ tail = SlotAt(n) /\ n \in 0 .. QUEUE_SIZE - 1
      /\ SlotAt(0) = head
  BY RingEnds DEF RingInv, RingHoldsTheQueue
<1>4. \A j, k \in 0 .. QUEUE_SIZE - 1 : SlotAt(j) = SlotAt(k) => j = k
  BY RingEnds DEF RingInv
<1>5. ASSUME NEW k \in 0 .. QUEUE_SIZE - 2, k < n, events[SlotAt(k)].event.type = "key"
      PROVE  events'[SlotAt(k)] = events[SlotAt(k)]
  <2>1. k \in 0 .. QUEUE_SIZE - 1 /\ SlotAt(k) # tail
    BY <1>3, <1>4, <1>5, QueueAssumption
  <2>2. CASE Merged(e, s)
    <3>1. events[SlotAt(n - 1)].event.type = "motion"
      BY <1>3, <2>2 DEF RingInv, NewestIsMotion, Merged
    <3>2. SlotAt(k) # PrevSlot(tail)
      BY <3>1, <1>3, <1>5, <2>2 DEF Merged
    <3> QED
      BY <3>2, <2>2 DEF Merged, TypeOK
  <2>3. CASE Added(e, s)
    BY <2>1, <2>3 DEF Added, TypeOK
  <2> QED
    BY <2>2, <2>3, EnqueueCases DEF Tossed
<1>6. ASSUME head # tail, events[head].event.type = "motion"
      PROVE  events'[head].event.type = "motion"
  <2>1. CASE Merged(e, s)
    <3>1. PrevSlot(tail) \in Slots
      BY SlotsAreSlots DEF TypeOK
    <3>2. [e EXCEPT !.time = ClampedTime(e.time)].type = "motion"
      BY <2>1 DEF Merged, Events
    <3> QED
      BY <3>1, <3>2, <2>1, <1>6 DEF Merged, TypeOK
  <2>2. CASE Added(e, s)
    BY <2>2, <1>6 DEF Added, TypeOK
  <2> QED
    BY <2>1, <2>2, <1>6, EnqueueCases DEF Tossed
<1> QED
  BY <1>1, <1>2, <1>5, <1>6

\* mieqProcessInputEvents moves head past a slot: the others keep their places.
LEMMA AdvanceKeepsRing ==
  ASSUME TypeOK, RingInv, head # tail, Advance
  PROVE  RingInv'
<1> DEFINE n == enq - deq
<1>1. /\ n \in 1 .. QUEUE_SIZE - 1 /\ tail = SlotAt(n) /\ head \in Slots
      /\ enq' - deq' = n - 1 /\ deq' = deq + 1
      /\ head' = NextSlot(head) /\ tail' = tail /\ serial' = serial
      /\ events' = events /\ lastMotion' = lastMotion
  <2>1. n > 0
    BY RingEnds DEF RingInv
  <2> QED
    BY <2>1 DEF RingInv, RingHoldsTheQueue, Advance, TypeOK
<1>2. SlotAt(1) = head'
  BY <1>1, QueueAssumption DEF SlotAt, NextSlot, Slots
<1>3. ASSUME NEW k \in 0 .. QUEUE_SIZE - 2
      PROVE  (IF head' + k < QUEUE_SIZE THEN head' + k ELSE head' + k - QUEUE_SIZE) = SlotAt(k + 1)
  BY <1>1, QueueAssumption DEF SlotAt, NextSlot, Slots
<1>4. RingHoldsTheQueue'
  <2>1. tail = IF head' + (n - 1) < QUEUE_SIZE
               THEN head' + (n - 1) ELSE head' + (n - 1) - QUEUE_SIZE
    BY <1>1, <1>3, QueueAssumption
  <2>2. ASSUME NEW k \in 0 .. n - 2
        PROVE  serial[IF head' + k < QUEUE_SIZE THEN head' + k ELSE head' + k - QUEUE_SIZE]
                 = deq + 1 + k
    <3>1. k \in 0 .. QUEUE_SIZE - 2 /\ k + 1 \in 0 .. n - 1
      BY <1>1, QueueAssumption
    <3>2. serial[SlotAt(k + 1)] = deq + (k + 1)
      BY <3>1 DEF RingInv, RingHoldsTheQueue
    <3>3. deq + (k + 1) = deq + 1 + k
      BY DEF TypeOK
    <3> QED
      BY <3>1, <3>2, <3>3, <1>3
  <2>3. n - 1 \in 0 .. QUEUE_SIZE - 1 /\ (n - 1) - 1 = n - 2
    BY <1>1, QueueAssumption
  <2> QED
    BY <2>1, <2>2, <2>3, <1>1 DEF RingHoldsTheQueue, SlotAt
<1>5. NewestIsMotion'
  <2>1. ASSUME lastMotion, n - 1 > 0
        PROVE  events[IF head' + (n - 2) < QUEUE_SIZE THEN head' + (n - 2)
                      ELSE head' + (n - 2) - QUEUE_SIZE].event.type = "motion"
    <3>1. n - 2 \in 0 .. QUEUE_SIZE - 2 /\ (n - 2) + 1 = n - 1
      BY <1>1, <2>1, QueueAssumption
    <3>2. events[SlotAt(n - 1)].event.type = "motion"
      BY <1>1, <2>1 DEF RingInv, NewestIsMotion
    <3> QED
      BY <3>1, <3>2, <1>3
  <2>2. (n - 1) - 1 = n - 2
    BY <1>1
  <2> QED
    BY <2>1, <2>2, <1>1 DEF NewestIsMotion, SlotAt
<1>6. SlotsAreWhole'
  BY <1>1 DEF RingInv, SlotsAreWhole
<1> QED
  BY <1>4, <1>5, <1>6 DEF RingInv

-----------------------------------------------------------------------------
(* The inductive invariant.                                                *)

\* What the main thread has read of the slot at head, with NeverAdvancesPastTail.
ReaderInv == NeverAdvancesPastTail /\ KeyHalfCopied /\ KeyIsNeverTorn

LEMMA InitInv == Init => IInv
<1> SUFFICES ASSUME Init PROVE IInv
  OBVIOUS
<1>1. 0 \in Slots /\ QUEUE_SIZE \in Nat /\ QUEUE_SIZE >= 2
  BY QueueAssumption DEF Slots
<1>2. TypeOK
  <2>1. NoEvent \in Events
    BY DEF NoEvent, Events, Types
  <2>2. 0 \in Slots /\ lastEventTime \in Int
    BY QueueAssumption DEF Init, Slots
  <2> QED
    BY <2>1, <2>2 DEF Init, TypeOK
<1>3. RingHoldsTheQueue
  BY <1>1 DEF Init, RingHoldsTheQueue, SlotAt
<1>4. NewestIsMotion /\ SlotsAreWhole /\ ReaderInv
  BY DEF Init, NewestIsMotion, SlotsAreWhole, NoEvent, ReaderInv,
         NeverAdvancesPastTail, Working, KeyHalfCopied, KeyIsNeverTorn
<1> QED
  BY <1>2, <1>3, <1>4 DEF IInv, ReaderInv

\* A step of the handler, or a warp, that calls mieqEnqueue: the reader is either
\* idle, or its slot keeps its place and, when it holds a key, its contents.
LEMMA EnqueueKeepsReader ==
  ASSUME IInv, NEW e \in Events, NEW s \in Screens, e.x = e.y, Enqueue(e, s),
         UNCHANGED <<head, deq, pc, xe>>
  PROVE  RingInv' /\ ReaderInv'
<1>1. /\ RingInv'
      /\ head # tail => head' # tail'
      /\ \A k \in 0 .. QUEUE_SIZE - 2 :
              k < enq - deq /\ events[SlotAt(k)].event.type = "key"
                => events'[SlotAt(k)] = events[SlotAt(k)]
      /\ head # tail /\ events[head].event.type = "motion"
              => events'[head].event.type = "motion"
  BY EnqueueKeepsRing DEF IInv, RingInv
<1>2. ASSUME head # tail, events[head].event.type = "key"
      PROVE  events'[head] = events[head]
  <2>1. SlotAt(0) = head /\ enq - deq > 0 /\ 0 \in 0 .. QUEUE_SIZE - 2
    BY <1>2, RingEnds, QueueAssumption DEF IInv
  <2> QED
    BY <2>1, <1>1, <1>2
<1>3. head \in Slots /\ events[head].event.type \in {"motion", "key"}
  BY DEF IInv, TypeOK, Events, Types
<1>4. NeverAdvancesPastTail'
  BY <1>1 DEF IInv, NeverAdvancesPastTail, Working
<1>5. KeyHalfCopied'
  BY <1>1, <1>2, <1>3 DEF IInv, KeyHalfCopied, NeverAdvancesPastTail, Working
<1>6. KeyIsNeverTorn'
  <2>1. CASE pc = "advance" /\ xe.type = "key"
    BY <2>1, <1>2 DEF IInv, KeyIsNeverTorn, NeverAdvancesPastTail, Working
  <2>2. CASE ~ (pc = "advance" /\ xe.type = "key")
    BY <2>2 DEF IInv, KeyIsNeverTorn
  <2> QED
    BY <2>1, <2>2
<1> QED
  BY <1>1, <1>4, <1>5, <1>6 DEF ReaderInv

\* Every step keeps the inductive invariant: one case per action.
LEMMA NextInv == IInv /\ [Next]_vars => IInv'
<1> SUFFICES ASSUME IInv, [Next]_vars PROVE RingInv' /\ ReaderInv'
  BY TypeStep DEF IInv, RingInv, ReaderInv
<1>1. ASSUME NEW type \in Types, NEW t \in Times, DeviceEvent(type, t)
      PROVE  RingInv' /\ ReaderInv'
  BY <1>1, ArrivalType, EnqueueKeepsReader DEF IInv, TypeOK, DeviceEvent
<1>2. ASSUME NEW s \in Screens, NEW t \in Times, CrossScreen(s, t)
      PROVE  RingInv' /\ ReaderInv'
  BY <1>2, ArrivalType, EnqueueKeepsReader DEF IInv, TypeOK, CrossScreen, Types
<1>3. ASSUME NEW s \in Screens, NEW t \in Times, NEW g \in BOOLEAN, WarpCursor(s, t, g)
      PROVE  RingInv' /\ ReaderInv'
  <2>1. CASE g
    BY <1>3, <2>1, ArrivalType, EnqueueKeepsReader DEF IInv, TypeOK, WarpCursor, Types
  <2>2. CASE ~g
    <3>1. UNCHANGED <<head, tail, events, lastMotion, serial, enq, deq, pc, xe>>
      BY <1>3, <2>2 DEF WarpCursor
    <3> QED
      BY <3>1 DEF IInv, RingInv, RingHoldsTheQueue, NewestIsMotion, SlotsAreWhole,
                  SlotAt, ReaderInv, NeverAdvancesPastTail, Working, KeyHalfCopied,
                  KeyIsNeverTorn
  <2> QED
    BY <2>1, <2>2
<1>4. ASSUME UNCHANGED <<head, tail, events, lastMotion, serial, enq, deq>>
      PROVE  RingInv'
  BY <1>4 DEF IInv, RingInv, RingHoldsTheQueue, NewestIsMotion, SlotsAreWhole, SlotAt
<1>5. CASE TestQueue
  BY <1>4, <1>5 DEF TestQueue, Goto, shared, history, IInv, ReaderInv,
       NeverAdvancesPastTail, Working, KeyHalfCopied, KeyIsNeverTorn
<1>6. CASE Compare
  BY <1>4, <1>6 DEF Compare, shared, history, IInv, ReaderInv,
       NeverAdvancesPastTail, Working, KeyHalfCopied, KeyIsNeverTorn
<1>7. CASE SetScreen
  BY <1>4, <1>7 DEF SetScreen, Goto, history, IInv, ReaderInv,
       NeverAdvancesPastTail, Working, KeyHalfCopied, KeyIsNeverTorn
<1>8. CASE ReadFirst
  <2>1. /\ pc = "readFirst" /\ pc' = "readRest"
        /\ xe' = [events[head].event EXCEPT !.y = xe.y]
        /\ UNCHANGED <<head, tail, events, lastMotion, serial, enq, deq>>
    BY <1>8 DEF ReadFirst, Goto, shared, history
  <2>2. events[head].event \in Events
    BY DEF IInv, TypeOK
  <2> QED
    BY <2>1, <2>2, <1>4 DEF IInv, ReaderInv, NeverAdvancesPastTail, Working,
       KeyHalfCopied, KeyIsNeverTorn, Events
<1>9. CASE ReadRest
  <2>1. /\ pc = "readRest" /\ pc' = "advance"
        /\ xe' = [xe EXCEPT !.y = events[head].event.y]
        /\ UNCHANGED <<head, tail, events, lastMotion, serial, enq, deq>>
    BY <1>9 DEF ReadRest, Goto, shared, history
  <2>2. events[head].event \in Events /\ xe \in Events
    BY DEF IInv, TypeOK
  <2>3. xe.type = "key" => xe' = events[head].event
    BY <2>1, <2>2 DEF IInv, KeyHalfCopied, Events
  <2>4. xe'.type = xe.type
    BY <2>1, <2>2 DEF Events
  <2> QED
    BY <2>1, <2>3, <2>4, <1>4 DEF IInv, ReaderInv, NeverAdvancesPastTail, Working,
       KeyHalfCopied, KeyIsNeverTorn
<1>10. CASE Advance
  <2>1. /\ pc = "advance" /\ pc' = "dispatch" /\ xe' = xe
    BY <1>10 DEF Advance, Goto
  <2>2. head # tail /\ (xe.type = "key" => xe = events[head].event)
    BY <2>1 DEF IInv, NeverAdvancesPastTail, Working, KeyIsNeverTorn
  <2>3. events[head].event.x = events[head].event.y
    BY DEF IInv, SlotsAreWhole, TypeOK
  <2>4. RingInv'
    BY <1>10, <2>2, AdvanceKeepsRing DEF IInv, RingInv
  <2> QED
    BY <2>1, <2>2, <2>3, <2>4 DEF ReaderInv, NeverAdvancesPastTail, Working,
       KeyHalfCopied, KeyIsNeverTorn
<1>11. CASE Dispatch
  BY <1>4, <1>11 DEF Dispatch, Goto, shared, IInv, ReaderInv,
       NeverAdvancesPastTail, Working, KeyHalfCopied, KeyIsNeverTorn
<1>12. CASE UNCHANGED vars
  BY <1>4, <1>12 DEF vars, shared, history, IInv, ReaderInv,
       NeverAdvancesPastTail, Working, KeyHalfCopied, KeyIsNeverTorn
<1> QED
  BY <1>1, <1>2, <1>3, <1>5, <1>6, <1>7, <1>8, <1>9, <1>10, <1>11, <1>12
     DEF Next, Handler, ProcessInputEvents

\* Every variable keeps its type, whatever the devices and the main thread do.
THEOREM TypeCorrect == Spec => []TypeOK
BY InitInv, NextInv, PTL DEF Spec, IInv

\* The ring holds exactly the accepted events not yet taken, in order, whatever
\* the interleaving of mieqEnqueue with mieqProcessInputEvents.
THEOREM RingCorrect == Spec => []RingHoldsTheQueue
BY InitInv, NextInv, PTL DEF Spec, IInv

\* head is never advanced past an empty ring, although the test head # tail of
\* mieqProcessInputEvents is long past when it advances.
THEOREM AdvanceCorrect == Spec => []NeverAdvancesPastTail
BY InitInv, NextInv, PTL DEF Spec, IInv

\* No key or button event is ever handed on half copied or mixed with another.
THEOREM KeysAreWhole == Spec => []KeyIsNeverTorn
BY InitInv, NextInv, PTL DEF Spec, IInv

\* No step of anyone changes a queued key or button event before it is taken.
THEOREM KeysAreStable == Spec => QueuedKeysAreStable
<1> DEFINE Stable == \A k \in 0 .. QUEUE_SIZE - 2 :
              k < enq - deq /\ events[SlotAt(k)].event.type = "key"
                => events'[SlotAt(k)] = events[SlotAt(k)]
<1>1. IInv /\ [Next]_vars => [Stable]_vars
  <2> SUFFICES ASSUME IInv, Next PROVE Stable
    OBVIOUS
  <2>1. ASSUME NEW type \in Types, NEW t \in Times, DeviceEvent(type, t) PROVE Stable
    BY <2>1, ArrivalType, EnqueueKeepsRing DEF IInv, RingInv, TypeOK, DeviceEvent
  <2>2. ASSUME NEW s \in Screens, NEW t \in Times, CrossScreen(s, t) PROVE Stable
    BY <2>2, ArrivalType, EnqueueKeepsRing DEF IInv, RingInv, TypeOK, CrossScreen, Types
  <2>3. ASSUME NEW s \in Screens, NEW t \in Times, NEW g \in BOOLEAN, WarpCursor(s, t, g)
        PROVE Stable
    <3>1. CASE g
      BY <2>3, <3>1, ArrivalType, EnqueueKeepsRing DEF IInv, RingInv, TypeOK, WarpCursor, Types
    <3>2. CASE ~g
      BY <2>3, <3>2 DEF WarpCursor
    <3> QED
      BY <3>1, <3>2
  <2>4. CASE ProcessInputEvents
    BY <2>4 DEF ProcessInputEvents, TestQueue, Compare, SetScreen, ReadFirst, ReadRest,
         Advance, Dispatch, shared
  <2> QED
    BY <2>1, <2>2, <2>3, <2>4 DEF Next, Handler
<1> QED
  BY <1>1, InitInv, NextInv, PTL DEF Spec, QueuedKeysAreStable

-----------------------------------------------------------------------------
(* Times.                                                                  *)

\* The time of the k-th queued event, and a time that is not after any that
\* will still leave the queue.
TimeAt(k) == events[SlotAt(k)].event.time
NotLate(t) == t <= lastEventTime /\ \A k \in 0 .. enq - deq - 1 : t <= TimeAt(k)

\* The queued times are in order and none is after lastEventTime, and what was
\* handed on last, and what is being copied, is not after any of them.
TimesInv ==
  /\ lastEventTime \in Times
  /\ \A k \in 0 .. enq - deq - 1 : TimeAt(k) <= lastEventTime
  /\ \A j, k \in 0 .. enq - deq - 1 : j < k => TimeAt(j) <= TimeAt(k)
  /\ lastOut.kind # "none" => NotLate(lastOut.event.time)
  /\ pc \in {"readRest", "advance", "dispatch"} =>
       /\ NotLate(xe.time)
       /\ lastOut.kind # "none" => lastOut.event.time <= xe.time

\* The clocks agree, and it is the copy in mi that keeps lastEventTime.
InStep == ClocksAgree /\ Variant = "mieq"

LEMMA ClampedIsLater ==
  ASSUME InStep, lastEventTime \in Times, NEW t \in Times
  PROVE  /\ ClampedTime(t) \in Times /\ lastEventTime <= ClampedTime(t)
         /\ LastTimeAfter(t) = ClampedTime(t)
<1>1. lastEventTime - t < TimeSlack /\ lastEventTime \in Int /\ t \in Int
  BY QueueAssumption DEF InStep, ClocksAgree
<1> QED
  BY <1>1 DEF InStep, ClampedTime, LastTimeAfter

LEMMA QueuedTimes ==
  ASSUME TypeOK, RingInv, NEW k \in 0 .. enq - deq - 1
  PROVE  TimeAt(k) \in Int
<1>1. k \in 0 .. QUEUE_SIZE - 1
  BY QueueAssumption DEF RingInv, RingHoldsTheQueue
<1>2. SlotAt(k) \in Slots
  BY <1>1, RingEnds DEF RingInv
<1> QED
  BY <1>2 DEF TypeOK, TimeAt, Events

\* mieqEnqueue changes one time at most, that of the newest event, and it is not
\* before any that were accepted.
LEMMA EnqueueTimes ==
  ASSUME InStep, TypeOK, RingInv, lastEventTime \in Times,
         NEW e \in Events, e.time \in Times, NEW s \in Screens, e.x = e.y,
         Enqueue(e, s), head' = head, deq' = deq
  PROVE  /\ lastEventTime' \in Times /\ lastEventTime <= lastEventTime'
         /\ \A k \in 0 .. enq' - deq' - 1 :
              \/ k \in 0 .. enq - deq - 1 /\ TimeAt(k)' = TimeAt(k)
              \/ k = enq' - deq' - 1 /\ TimeAt(k)' = lastEventTime'
<1> DEFINE n == enq - deq
<1>1. \A k \in Int : SlotAt(k)' = SlotAt(k)
  BY DEF SlotAt
<1>2. /\ n \in 0 .. QUEUE_SIZE - 1 /\ tail = SlotAt(n)
      /\ \A k \in 0 .. QUEUE_SIZE - 1 : SlotAt(k) \in Slots
      /\ \A j, k \in 0 .. QUEUE_SIZE - 1 : SlotAt(j) = SlotAt(k) => j = k
      /\ tail # head => n > 0 /\ PrevSlot(tail) = SlotAt(n - 1)
      /\ NextSlot(tail) # head => n < QUEUE_SIZE - 1
  BY RingEnds DEF RingInv, RingHoldsTheQueue
<1> DEFINE filled == [event |-> [e EXCEPT !.time = ClampedTime(e.time)], pScreen |-> s]
<1>3. /\ filled.event.time = ClampedTime(e.time) /\ ClampedTime(e.time) \in Times
      /\ lastEventTime <= ClampedTime(e.time) /\ LastTimeAfter(e.time) = ClampedTime(e.time)
      /\ lastEventTime <= lastEventTime
  BY ClampedIsLater, QueueAssumption DEF Events, TypeOK
<1> HIDE DEF filled
<1>4. CASE Tossed
  <2>1. \A k \in 0 .. n - 1 : TimeAt(k)' = TimeAt(k)
    BY <1>1, <1>4 DEF Tossed, TimeAt
  <2> QED
    BY <1>3, <1>4, <2>1 DEF Tossed
<1>5. ASSUME NEW q \in 0 .. QUEUE_SIZE - 1, n' = q + 1, q \in {n - 1, n}, events' = [events EXCEPT ![SlotAt(q)] = filled],
             lastEventTime' = LastTimeAfter(e.time)
      PROVE  \A k \in 0 .. n' - 1 :
               \/ k \in 0 .. n - 1 /\ TimeAt(k)' = TimeAt(k)
               \/ k = n' - 1 /\ TimeAt(k)' = lastEventTime'
  <2> SUFFICES ASSUME NEW k \in 0 .. n' - 1
               PROVE  \/ k \in 0 .. n - 1 /\ TimeAt(k)' = TimeAt(k)
                      \/ k = n' - 1 /\ TimeAt(k)' = lastEventTime'
    OBVIOUS
  <2>0. events \in [Slots -> [event : Events, pScreen : Screens]] /\ k \in 0 .. QUEUE_SIZE - 1
        /\ n \in Int /\ q \in Int /\ k \in Int /\ k <= q /\ QUEUE_SIZE \in Nat
    BY <1>2, <1>5, QueueAssumption DEF TypeOK
  <2>1. CASE k = q
    <3>1. events'[SlotAt(k)] = filled
      BY <1>2, <1>5, <2>0, <2>1
    <3> QED
      BY <1>1, <1>3, <1>5, <2>0, <2>1, <3>1 DEF TimeAt
  <2>2. CASE k # q
    <3>1. SlotAt(k) # SlotAt(q) /\ k \in 0 .. n - 1
      BY <1>2, <1>5, <2>0, <2>2
    <3>2. events'[SlotAt(k)] = events[SlotAt(k)]
      BY <1>2, <1>5, <2>0, <3>1
    <3> QED
      BY <1>1, <2>0, <3>1, <3>2 DEF TimeAt
  <2> QED
    BY <2>1, <2>2
<1>6. CASE Merged(e, s)
  <2>1. n - 1 \in 0 .. QUEUE_SIZE - 1 /\ n' = (n - 1) + 1 /\ n - 1 \in {n - 1, n}
    BY <1>2, <1>6, QueueAssumption DEF Merged, TypeOK
  <2>2. events' = [events EXCEPT ![SlotAt(n - 1)] = filled] /\ lastEventTime' = LastTimeAfter(e.time)
    BY <1>2, <1>6 DEF Merged, filled
  <2> QED
    BY <1>3, <1>5, <2>1, <2>2
<1>7. CASE Added(e, s)
  <2>1. /\ n' = n + 1 /\ n \in {n - 1, n}
        /\ events' = [events EXCEPT ![SlotAt(n)] = filled] /\ lastEventTime' = LastTimeAfter(e.time)
    BY <1>2, <1>7, QueueAssumption DEF Added, filled, TypeOK
  <2> QED
    BY <1>2, <1>3, <1>5, <2>1
<1> QED
  BY <1>4, <1>6, <1>7, EnqueueCases

\* So the handler keeps the order of times.
LEMMA EnqueueKeepsTimes ==
  ASSUME InStep, IInv, TimesInv,
         NEW e \in Events, e.time \in Times, NEW s \in Screens, e.x = e.y,
         Enqueue(e, s), UNCHANGED <<head, deq, pc, xe, lastOut>>
  PROVE  TimesInv'
<1> DEFINE n == enq - deq
           m == enq' - deq'
<1>1. /\ lastEventTime' \in Times /\ lastEventTime <= lastEventTime'
      /\ \A k \in 0 .. m - 1 :
           \/ k \in 0 .. n - 1 /\ TimeAt(k)' = TimeAt(k)
           \/ k = m - 1 /\ TimeAt(k)' = lastEventTime'
  BY EnqueueTimes DEF IInv, RingInv, TimesInv
<1>2. /\ lastEventTime \in Int /\ lastEventTime' \in Int /\ n \in Nat
      /\ xe.time \in Int /\ lastOut.event.time \in Int
  BY <1>1, QueueAssumption DEF IInv, TypeOK, TimesInv, RingHoldsTheQueue, Events
<1>3. \A k \in 0 .. n - 1 : TimeAt(k) \in Int
  BY QueuedTimes DEF IInv, RingInv
<1>4. m \in Int
  BY EnqueueType DEF IInv, TypeOK
<1> HIDE DEF n, m
<1>5. ASSUME NEW k \in 0 .. m - 1 PROVE TimeAt(k)' <= lastEventTime'
  BY <1>1, <1>2, <1>3, <1>5 DEF TimesInv, n, m
<1>6. ASSUME NEW j \in 0 .. m - 1, NEW k \in 0 .. m - 1, j < k
      PROVE  TimeAt(j)' <= TimeAt(k)'
  <2>0. j # m - 1
    BY <1>4, <1>6
  <2>1. j \in 0 .. n - 1 /\ TimeAt(j)' = TimeAt(j)
    BY <1>1, <2>0
  <2>2. CASE k \in 0 .. n - 1 /\ TimeAt(k)' = TimeAt(k)
    BY <1>6, <2>1, <2>2 DEF TimesInv, n, m
  <2>3. CASE TimeAt(k)' = lastEventTime'
    BY <1>5, <2>3
  <2> QED
    BY <1>1, <2>2, <2>3
<1>7. ASSUME NEW t \in Int, NotLate(t) PROVE NotLate(t)'
  <2>1. t <= lastEventTime'
    BY <1>1, <1>2, <1>7 DEF NotLate
  <2>2. ASSUME NEW k \in 0 .. m - 1 PROVE t <= TimeAt(k)'
    BY <1>1, <1>7, <2>1, <2>2 DEF NotLate, n
  <2> QED
    BY <2>1, <2>2 DEF NotLate, n, m
<1> QED
  BY <1>1, <1>2, <1>5, <1>6, <1>7 DEF TimesInv, n, m

\* Nothing was accepted or taken.
LEMMA QuietKeepsTimes ==
  ASSUME TimesInv, UNCHANGED <<head, events, lastEventTime, enq, deq>>
  PROVE  /\ \A t : NotLate(t) => NotLate(t)'
         /\ lastEventTime' \in Times
         /\ \A k \in 0 .. enq' - deq' - 1 : TimeAt(k)' <= lastEventTime'
         /\ \A j, k \in 0 .. enq' - deq' - 1 : j < k => TimeAt(j)' <= TimeAt(k)'
BY DEF TimesInv, NotLate, TimeAt, SlotAt

\* The others move up by one place.
LEMMA AdvanceKeepsTimes ==
  ASSUME IInv, TimesInv, Advance
  PROVE  TimesInv'
<1> DEFINE n == enq - deq
<1>0. /\ n \in 1 .. QUEUE_SIZE - 1 /\ n' = n - 1 /\ head' = NextSlot(head)
      /\ UNCHANGED <<events, lastEventTime, xe, lastOut>> /\ pc = "advance" /\ pc' = "dispatch"
  <2>1. n > 0 /\ n \in 0 .. QUEUE_SIZE - 1
    BY RingEnds DEF IInv, RingHoldsTheQueue, NeverAdvancesPastTail, Working, Advance, Goto
  <2> QED
    BY <2>1 DEF IInv, TypeOK, Advance, Goto
<1>1. ASSUME NEW k \in 0 .. QUEUE_SIZE - 2 PROVE TimeAt(k)' = TimeAt(k + 1)
  <2>1. SlotAt(k)' = SlotAt(k + 1)
    BY <1>0, QueueAssumption DEF SlotAt, NextSlot, Slots, IInv, TypeOK
  <2> QED
    BY <1>0, <2>1 DEF TimeAt
<1> HIDE DEF n
<1>2. ASSUME NEW k \in 0 .. n' - 1 PROVE k + 1 \in 0 .. n - 1 /\ TimeAt(k)' = TimeAt(k + 1)
  BY <1>0, <1>1, QueueAssumption
<1>3. ASSUME NEW t, NotLate(t) PROVE NotLate(t)'
  BY <1>0, <1>2, <1>3 DEF NotLate, n
<1>4. \A k \in 0 .. n' - 1 : TimeAt(k)' <= lastEventTime'
  BY <1>0, <1>2 DEF TimesInv, n
<1>5. ASSUME NEW j \in 0 .. n' - 1, NEW k \in 0 .. n' - 1, j < k PROVE TimeAt(j)' <= TimeAt(k)'
  <2>1. j + 1 < k + 1
    BY <1>0, <1>5
  <2> QED
    BY <1>2, <2>1 DEF TimesInv, n
<1> QED
  BY <1>0, <1>3, <1>4, <1>5 DEF TimesInv, n

LEMMA TimesStep ==
  ASSUME InStep, IInv, TimesInv, [Next]_vars
  PROVE  TimesInv'
<1>1. ASSUME NEW type \in Types, NEW t \in Times, DeviceEvent(type, t) PROVE TimesInv'
  <2>1. /\ Arrival(type, t) \in Events /\ Arrival(type, t).x = Arrival(type, t).y
        /\ Arrival(type, t).time \in Times /\ pEnqueueScreen \in Screens
    BY ArrivalType DEF IInv, TypeOK, Arrival
  <2> QED
    BY <1>1, <2>1, EnqueueKeepsTimes DEF DeviceEvent
<1>2. ASSUME NEW s \in Screens, NEW t \in Times, Enqueue(Arrival("motion", t), s),
             UNCHANGED <<head, deq, pc, xe, lastOut>>
      PROVE  TimesInv'
  <2>1. /\ Arrival("motion", t) \in Events /\ Arrival("motion", t).x = Arrival("motion", t).y
        /\ Arrival("motion", t).time \in Times
    BY ArrivalType DEF IInv, TypeOK, Arrival, Types
  <2> QED
    BY <1>2, <2>1, EnqueueKeepsTimes
<1>3. ASSUME NEW s \in Screens, NEW t \in Times, CrossScreen(s, t) PROVE TimesInv'
  BY <1>2, <1>3 DEF CrossScreen
<1>4. ASSUME UNCHANGED <<head, events, lastEventTime, enq, deq, pc, xe, lastOut>> PROVE TimesInv'
  BY <1>4, QuietKeepsTimes DEF TimesInv
<1>5. ASSUME NEW s \in Screens, NEW t \in Times, NEW g \in BOOLEAN, WarpCursor(s, t, g) PROVE TimesInv'
  <2>1. CASE g
    BY <1>2, <1>5, <2>1 DEF WarpCursor
  <2>2. CASE ~g
    BY <1>4, <1>5, <2>2 DEF WarpCursor
  <2> QED
    BY <2>1, <2>2
<1>6. CASE TestQueue
  BY <1>6, QuietKeepsTimes DEF TestQueue, Goto, shared, history, TimesInv
<1>7. CASE Compare
  BY <1>7, QuietKeepsTimes DEF Compare, shared, history, TimesInv
<1>8. CASE SetScreen
  BY <1>8, QuietKeepsTimes DEF SetScreen, Goto, history, TimesInv
<1>9. CASE ReadFirst
  <2>1. /\ pc = "readFirst" /\ xe' = [events[head].event EXCEPT !.y = xe.y]
        /\ UNCHANGED <<head, events, lastEventTime, enq, deq, lastOut>>
    BY <1>9 DEF ReadFirst, Goto, shared, history
  <2>2. 0 \in 0 .. enq - deq - 1 /\ SlotAt(0) = head
    BY <2>1, RingEnds DEF IInv, NeverAdvancesPastTail, Working, TypeOK
  <2>3. xe'.time = TimeAt(0)
    BY <2>1, <2>2 DEF TimeAt, IInv, TypeOK, Events
  <2>4. ASSUME NEW k \in 0 .. enq - deq - 1 PROVE TimeAt(0) <= TimeAt(k)
    BY <2>2, QueuedTimes DEF TimesInv, IInv, RingInv
  <2>5. NotLate(xe'.time)
    BY <2>2, <2>3, <2>4 DEF NotLate, TimesInv
  <2>6. NotLate(xe.time)'
    BY <2>1, <2>5 DEF NotLate, TimeAt, SlotAt
  <2>7. lastOut.kind # "none" => lastOut.event.time <= xe'.time
    BY <2>2, <2>3 DEF TimesInv, NotLate
  <2> QED
    BY <2>1, <2>6, <2>7, QuietKeepsTimes DEF TimesInv
<1>10. CASE ReadRest
  <2>1. /\ pc = "readRest" /\ xe' = [xe EXCEPT !.y = events[head].event.y]
        /\ UNCHANGED <<head, events, lastEventTime, enq, deq, lastOut>>
    BY <1>10 DEF ReadRest, Goto, shared, history
  <2>2. xe'.time = xe.time
    BY <2>1 DEF IInv, TypeOK, Events
  <2> QED
    BY <2>1, <2>2, QuietKeepsTimes DEF TimesInv
<1>11. CASE Advance
  BY <1>11, AdvanceKeepsTimes
<1>12. CASE Dispatch
  <2>1. /\ pc = "dispatch" /\ pc' = "test" /\ lastOut'.event = xe /\ xe' = xe
        /\ UNCHANGED <<head, events, lastEventTime, enq, deq>>
    BY <1>12 DEF Dispatch, Goto, shared
  <2>2. NotLate(lastOut.event.time)'
    BY <2>1 DEF TimesInv, NotLate, TimeAt, SlotAt
  <2> QED
    BY <2>1, <2>2, QuietKeepsTimes DEF TimesInv
<1>13. CASE UNCHANGED vars
  BY <1>4, <1>13 DEF vars, shared, history
<1> QED
  BY <1>1, <1>3, <1>5, <1>6, <1>7, <1>8, <1>9, <1>10, <1>11, <1>12, <1>13
     DEF Next, Handler, ProcessInputEvents

LEMMA TimesInit == Init => TimesInv
BY DEF Init, TimesInv

\* In mieq, an event never leaves the queue with an earlier time than the one
\* before it, as long as no two device clocks differ by TimeSlack; the copy in
\* xf86Xinput.c never writes lastEventTime and promises nothing.
THEOREM TimesAreInOrder ==
  ASSUME Variant = "mieq"
  PROVE  Spec => TimesDontGoBackwards
<1> DEFINE Forward == ClocksAgree /\ lastOut.kind # "none" =>
                        lastOut'.event.time >= lastOut.event.time
           Inv == IInv /\ (InStep => TimesInv)
<1>1. Init => Inv
  BY InitInv, TimesInit
<1>2. Inv /\ [Next]_vars => Inv'
  BY NextInv, TimesStep DEF InStep, ClocksAgree
<1>3. Inv /\ [Next]_vars => [Forward]_lastOut
  <2> SUFFICES ASSUME Inv, ClocksAgree, [Next]_vars, lastOut' # lastOut, lastOut.kind # "none"
               PROVE  lastOut'.event.time >= lastOut.event.time
    OBVIOUS
  <2>1. Dispatch
    BY DEF Next, Handler, DeviceEvent, CrossScreen, WarpCursor, ProcessInputEvents, TestQueue,
           Compare, SetScreen, ReadFirst, ReadRest, Advance, vars, shared, history
  <2>2. lastOut'.event = xe /\ lastOut.event.time <= xe.time
    BY <2>1 DEF Dispatch, Goto, TimesInv, InStep
  <2> QED
    BY <2>2 DEF IInv, TypeOK, Events
<1> QED
  BY <1>1, <1>2, <1>3, PTL DEF Spec, TimesDontGoBackwards

-----------------------------------------------------------------------------
(* Timers.  The list.                                                       *)

LEMMA PartOfSeq ==
    ASSUME NEW S, NEW s \in Seq(S), NEW m \in 1 .. Len(s) + 1, NEW n \in 0 .. Len(s)
    PROVE  /\ SubSeq(s, m, n) \in Seq(S)
           /\ Len(SubSeq(s, m, n)) = IF m <= n THEN n - m + 1 ELSE 0
           /\ \A i \in 1 .. n - m + 1 : SubSeq(s, m, n)[i] = s[m + i - 1]
<1>1. Len(s) \in Nat /\ \A i \in 1 .. Len(s) : s[i] \in S
  BY ElementOfSeq
<1>2. m \in Int /\ n \in Int /\ \A i \in m .. n : s[i] \in S
  BY <1>1
<1> QED
  BY <1>2, SubSeqProperties

LEMMA RemoveAtProperties ==
    ASSUME NEW S, NEW s \in Seq(S), NEW i \in 1 .. Len(s)
    PROVE  /\ RemoveAt(s, i) \in Seq(S)
           /\ Len(RemoveAt(s, i)) = Len(s) - 1
           /\ \A j \in 1 .. Len(s) - 1 : RemoveAt(s, i)[j] = IF j < i THEN s[j] ELSE s[j + 1]
<1> DEFINE a == SubSeq(s, 1, i - 1)
           b == SubSeq(s, i + 1, Len(s))
<1>0. Len(s) \in Nat /\ i \in 1 .. Len(s)
  OBVIOUS
<1>1. /\ a \in Seq(S) /\ Len(a) = i - 1
      /\ \A j \in 1 .. i - 1 : a[j] = s[j]
  <2>1. 1 \in 1 .. Len(s) + 1 /\ i - 1 \in 0 .. Len(s)
    BY <1>0
  <2>2. /\ a \in Seq(S) /\ Len(a) = IF 1 <= i - 1 THEN (i - 1) - 1 + 1 ELSE 0
        /\ \A j \in 1 .. (i - 1) - 1 + 1 : a[j] = s[1 + j - 1]
    BY <2>1, PartOfSeq
  <2> HIDE DEF a
  <2> QED
    BY <1>0, <2>2
<1>2. /\ b \in Seq(S) /\ Len(b) = Len(s) - i
      /\ \A j \in 1 .. Len(s) - i : b[j] = s[i + j]
  <2>1. i + 1 \in 1 .. Len(s) + 1 /\ Len(s) \in 0 .. Len(s)
    BY <1>0
  <2>2. /\ b \in Seq(S) /\ Len(b) = IF i + 1 <= Len(s) THEN Len(s) - (i + 1) + 1 ELSE 0
        /\ \A j \in 1 .. Len(s) - (i + 1) + 1 : b[j] = s[i + 1 + j - 1]
    BY <2>1, PartOfSeq
  <2> HIDE DEF b
  <2> QED
    BY <1>0, <2>2
<1> HIDE DEF a, b
<1>3. /\ a \o b \in Seq(S) /\ Len(a \o b) = Len(a) + Len(b)
      /\ \A j \in 1 .. Len(a) + Len(b) : (a \o b)[j] = IF j <= Len(a) THEN a[j] ELSE b[j - Len(a)]
  BY <1>1, <1>2, ConcatProperties
<1>4. Len(a \o b) = Len(s) - 1
  BY <1>0, <1>1, <1>2, <1>3
<1>5. ASSUME NEW j \in 1 .. Len(s) - 1
      PROVE  (a \o b)[j] = IF j < i THEN s[j] ELSE s[j + 1]
  <2>1. (a \o b)[j] = IF j <= i - 1 THEN a[j] ELSE b[j - (i - 1)]
    BY <1>0, <1>1, <1>2, <1>3, <1>5
  <2>2. CASE j < i
    <3>1. j \in 1 .. i - 1 /\ j <= i - 1
      BY <1>0, <1>5, <2>2
    <3> QED
      BY <1>1, <2>1, <2>2, <3>1
  <2>3. CASE ~(j < i)
    <3>1. /\ j - (i - 1) \in 1 .. Len(s) - i /\ ~(j <= i - 1)
          /\ i + (j - (i - 1)) = j + 1
      BY <1>0, <1>5, <2>3
    <3> QED
      BY <1>2, <2>1, <2>3, <3>1
  <2> QED
    BY <2>2, <2>3
<1> QED
  BY <1>3, <1>4, <1>5 DEF RemoveAt, a, b

\* What stands at j when e has been put in at i.
ItemAt(s, i, e, j) == IF j < i THEN s[j] ELSE IF j = i THEN e ELSE s[j - 1]

LEMMA InsertAtProperties ==
    ASSUME NEW S, NEW s \in Seq(S), NEW i \in 1 .. Len(s) + 1, NEW e \in S
    PROVE  /\ InsertAt(s, i, e) \in Seq(S)
           /\ Len(InsertAt(s, i, e)) = Len(s) + 1
           /\ \A j \in 1 .. Len(s) + 1 :
                 InsertAt(s, i, e)[j] = ItemAt(s, i, e, j)
<1> DEFINE a == SubSeq(s, 1, i - 1)
           b == SubSeq(s, i, Len(s))
<1>0. Len(s) \in Nat /\ i \in 1 .. Len(s) + 1
  OBVIOUS
<1>1. /\ a \in Seq(S) /\ Len(a) = i - 1
      /\ \A j \in 1 .. i - 1 : a[j] = s[j]
  <2>1. 1 \in 1 .. Len(s) + 1 /\ i - 1 \in 0 .. Len(s)
    BY <1>0
  <2>2. /\ a \in Seq(S) /\ Len(a) = IF 1 <= i - 1 THEN (i - 1) - 1 + 1 ELSE 0
        /\ \A j \in 1 .. (i - 1) - 1 + 1 : a[j] = s[1 + j - 1]
    BY <2>1, PartOfSeq
  <2> HIDE DEF a
  <2> QED
    BY <1>0, <2>2
<1>2. /\ b \in Seq(S) /\ Len(b) = Len(s) - i + 1
      /\ \A j \in 1 .. Len(s) - i + 1 : b[j] = s[i + j - 1]
  <2>1. Len(s) \in 0 .. Len(s)
    BY <1>0
  <2>2. /\ b \in Seq(S) /\ Len(b) = IF i <= Len(s) THEN Len(s) - i + 1 ELSE 0
        /\ \A j \in 1 .. Len(s) - i + 1 : b[j] = s[i + j - 1]
    BY <2>1, PartOfSeq
  <2> HIDE DEF b
  <2> QED
    BY <1>0, <2>2
<1> DEFINE m == <<e>>
<1>3. m \in Seq(S) /\ Len(m) = 1 /\ m[1] = e
  OBVIOUS
<1> HIDE DEF a, b, m
<1>4. /\ a \o m \in Seq(S) /\ Len(a \o m) = Len(a) + 1
      /\ \A j \in 1 .. Len(a) + 1 : (a \o m)[j] = IF j <= Len(a) THEN a[j] ELSE m[j - Len(a)]
  <2>1. /\ a \o m \in Seq(S) /\ Len(a \o m) = Len(a) + Len(m)
        /\ \A j \in 1 .. Len(a) + Len(m) : (a \o m)[j] = IF j <= Len(a) THEN a[j] ELSE m[j - Len(a)]
    BY <1>1, <1>3, ConcatProperties
  <2> QED
    BY <1>3, <2>1
<1>5. /\ (a \o m) \o b \in Seq(S) /\ Len((a \o m) \o b) = Len(a \o m) + Len(b)
      /\ \A j \in 1 .. Len(a \o m) + Len(b) :
            ((a \o m) \o b)[j] = IF j <= Len(a \o m) THEN (a \o m)[j] ELSE b[j - Len(a \o m)]
  BY <1>2, <1>4, ConcatProperties
<1>6. Len((a \o m) \o b) = Len(s) + 1 /\ Len(a \o m) = i
  BY <1>0, <1>1, <1>2, <1>4, <1>5
<1>7. ASSUME NEW j \in 1 .. Len(s) + 1
      PROVE  ((a \o m) \o b)[j] = IF j < i THEN s[j] ELSE IF j = i THEN e ELSE s[j - 1]
  <2>1. ((a \o m) \o b)[j] = IF j <= i THEN (a \o m)[j] ELSE b[j - i]
    BY <1>0, <1>2, <1>5, <1>6, <1>7
  <2>2. CASE j < i
    <3>1. j \in 1 .. i - 1 /\ j <= i /\ j \in 1 .. Len(a) + 1 /\ j <= Len(a)
      BY <1>0, <1>1, <1>7, <2>2
    <3> QED
      BY <1>1, <1>4, <2>1, <2>2, <3>1
  <2>3. CASE j = i
    <3>1. i \in Int /\ 1 <= i /\ Len(a) = i - 1
      BY <1>0, <1>1
    <3>2. j <= i /\ j \in 1 .. Len(a) + 1 /\ ~(j <= Len(a)) /\ j - Len(a) = 1 /\ ~(j < i)
      BY <2>3, <3>1
    <3> QED
      BY <1>3, <1>4, <2>1, <2>3, <3>2
  <2>4. CASE j > i
    <3>1. ~(j <= i) /\ ~(j < i) /\ j # i /\ j - i \in 1 .. Len(s) - i + 1 /\ i + (j - i) - 1 = j - 1
      BY <1>0, <1>7, <2>4
    <3> QED
      BY <1>2, <2>1, <3>1
  <2>5. j < i \/ j = i \/ j > i
    BY <1>0, <1>7
  <2> QED
    BY <2>2, <2>3, <2>4, <2>5
<1> DEFINE q == (a \o m) \o b
<1>8. q = InsertAt(s, i, e)
  BY DEF InsertAt, a, b, m
<1>9. q \in Seq(S) /\ Len(q) = Len(s) + 1
  BY <1>5, <1>6
<1>10. \A j \in 1 .. Len(s) + 1 : q[j] = ItemAt(s, i, e, j)
  BY <1>7 DEF ItemAt
<1> HIDE DEF q
<1> QED
  BY <1>8, <1>9, <1>10

LEMMA SmallestIsThere ==
    ASSUME NEW S \in SUBSET Nat, S # {}
    PROVE  \E x \in S : \A y \in S : x <= y
<1> DEFINE R == OpToRel(<, Nat)
<1>1. IsWellFoundedOn(R, Nat)
  BY NatLessThanWellFounded
<1> HIDE DEF R
<1>2. PICK c \in S : \A d \in S : <<d, c>> \notin R
  BY <1>1, WFMin
<1>3. \A d \in Nat : <<d, c>> \notin R => c <= d
  BY DEF R, OpToRel
<1> QED
  BY <1>2, <1>3

LEMMA RemoveFirstProperties ==
    ASSUME NEW S, NEW s \in Seq(S), NEW t
    PROVE  \/ t \notin ToSet(s) /\ RemoveFirst(s, t) = s
           \/ \E i \in 1 .. Len(s) : s[i] = t /\ RemoveFirst(s, t) = RemoveAt(s, i)
<1> DEFINE at == {i \in 1 .. Len(s) : s[i] = t}
<1>1. CASE at = {}
  <2>1. ~\E i \in 1 .. Len(s) : s[i] = t
    BY <1>1
  <2> QED
    BY <2>1 DEF RemoveFirst, ToSet
<1>2. CASE at # {}
  <2>1. at \subseteq Nat /\ \E i \in 1 .. Len(s) : s[i] = t
    BY <1>2
  <2>2. Min(at) \in at
    <3> HIDE DEF at
    <3>1. at \in SUBSET Nat /\ at # {}
      BY <1>2, <2>1
    <3>2. \E x \in at : \A y \in at : x <= y
      BY <3>1, SmallestIsThere
    <3> QED
      BY <3>2 DEF Min
  <2>3. SelectInSeq(s, LAMBDA v : v = t) = IF at # {} THEN Min(at) ELSE 0
    BY DEF SelectInSeq
  <2>4. RemoveFirst(s, t) = RemoveAt(s, Min(at))
    BY <1>2, <2>1, <2>3 DEF RemoveFirst
  <2> QED
    BY <2>2, <2>4
<1> QED
  BY <1>1, <1>2

-----------------------------------------------------------------------------
(* The clock.  A time k milliseconds from another, either way.              *)

N == ClockSize
Clocks == 0 .. N - 1
Shift(a, k) == (a + k) % N

LEMMA WidthIsPositive == N \in Nat \ {0}
BY TimersAssumption DEF N

LEMMA Reduce ==
    ASSUME NEW x \in -2 * N .. 3 * N - 1
    PROVE  x % N = IF x < -N THEN x + 2 * N ELSE IF x < 0 THEN x + N ELSE IF x < N THEN x
                   ELSE IF x < 2 * N THEN x - N ELSE x - 2 * N
BY WidthIsPositive

LEMMA ShiftInRange ==
    ASSUME NEW a \in Clocks, NEW k \in Int
    PROVE  Shift(a, k) \in Clocks
BY WidthIsPositive DEF Shift, Clocks

LEMMA ShiftShift ==
    ASSUME NEW a \in Clocks, NEW j \in -N .. N, NEW k \in -N .. N, j + k \in -N .. N
    PROVE  Shift(Shift(a, j), k) = Shift(a, j + k)
<1>1. a + j \in -2 * N .. 3 * N - 1 /\ a + (j + k) \in -2 * N .. 3 * N - 1
  BY WidthIsPositive DEF Clocks
<1>2. Shift(a, j) + k \in -2 * N .. 3 * N - 1
  <2>1. Shift(a, j) \in Clocks
    BY WidthIsPositive, ShiftInRange
  <2> QED
    BY <2>1, WidthIsPositive DEF Clocks
<1> QED
  BY <1>1, <1>2, Reduce, WidthIsPositive DEF Shift, Clocks

\* The signed difference finds how far two times are apart, if that is less
\* than half a turn of the clock.
LEMMA SignedIsDistance ==
    ASSUME NEW a \in Clocks, NEW k \in Int, -N <= 2 * k, 2 * k < N
    PROVE  Signed(Minus(Shift(a, k), a)) = k
<1>0. Shift(a, k) \in Clocks
  BY WidthIsPositive, ShiftInRange DEF Clocks
<1>1. a + k \in -2 * N .. 3 * N - 1 /\ Shift(a, k) \in Clocks
  BY <1>0, WidthIsPositive DEF Clocks
<1>2. Shift(a, k) - a \in -2 * N .. 3 * N - 1
  BY <1>1, WidthIsPositive DEF Clocks
<1> QED
  BY <1>1, <1>2, Reduce, WidthIsPositive DEF Shift, Clocks, Signed, Minus, N

\* Any two times are apart by a signed and by an unsigned distance.
LEMMA DistanceOf ==
    ASSUME NEW a \in Clocks, NEW b \in Clocks
    PROVE  /\ Signed(Minus(b, a)) \in Int
           /\ -N <= 2 * Signed(Minus(b, a)) /\ 2 * Signed(Minus(b, a)) < N
           /\ b = Shift(a, Signed(Minus(b, a)))
           /\ Minus(b, a) \in Clocks /\ b = Shift(a, Minus(b, a))
<1>1. b - a \in -2 * N .. 3 * N - 1
  BY WidthIsPositive DEF Clocks
<1>2. Minus(b, a) = IF b - a < 0 THEN b - a + N ELSE b - a
  BY <1>1, Reduce, WidthIsPositive DEF Minus, Clocks, N
<1>3. Minus(b, a) \in Clocks
  BY <1>1, <1>2, WidthIsPositive DEF Clocks
<1>4. /\ Signed(Minus(b, a)) \in Int
      /\ -N <= 2 * Signed(Minus(b, a)) /\ 2 * Signed(Minus(b, a)) < N
      /\ a + Signed(Minus(b, a)) \in {b, b + N, b - N}
  BY <1>2, <1>3, WidthIsPositive DEF Signed, Clocks, N
<1>5. \A x \in {b, b + N, b - N} : x % N = b
  BY Reduce, WidthIsPositive DEF Clocks
<1>6. a + Minus(b, a) \in {b, b + N, b - N}
  BY <1>2, WidthIsPositive DEF Clocks
<1> QED
  BY <1>3, <1>4, <1>5, <1>6 DEF Shift

LEMMA MinusIsDistance ==
    ASSUME NEW a \in Clocks, NEW k \in Clocks
    PROVE  Minus(Shift(a, k), a) = k
<1>0. Shift(a, k) \in Clocks
  BY WidthIsPositive, ShiftInRange DEF Clocks
<1>1. a + k \in -2 * N .. 3 * N - 1 /\ Shift(a, k) \in Clocks
  BY <1>0, WidthIsPositive DEF Clocks
<1>2. Shift(a, k) - a \in -2 * N .. 3 * N - 1
  BY <1>1, WidthIsPositive DEF Clocks
<1>3. Minus(Shift(a, k), a) = (Shift(a, k) - a) % N
  BY DEF Minus, N
<1> QED
  BY <1>1, <1>2, <1>3, Reduce, WidthIsPositive DEF Shift, Clocks

-----------------------------------------------------------------------------
(* Lists without repetitions, before and after a timer leaves or enters.    *)

LEMMA InList ==
    ASSUME NEW S, NEW s \in Seq(S)
    PROVE  /\ Len(s) \in Nat /\ DOMAIN s = 1 .. Len(s)
           /\ \A x : x \in ToSet(s) <=> \E i \in 1 .. Len(s) : s[i] = x
           /\ \A i \in 1 .. Len(s) : s[i] \in S /\ s[i] \in ToSet(s)
<1>1. Len(s) \in Nat /\ DOMAIN s = 1 .. Len(s) /\ \A i \in 1 .. Len(s) : s[i] \in S
  BY ElementOfSeq
<1> QED
  BY <1>1 DEF ToSet

LEMMA WithoutTimer ==
    ASSUME NEW S, NEW s \in Seq(S), IsInjective(s), NEW t, NEW r, r = RemoveFirst(s, t)
    PROVE  /\ r \in Seq(S) /\ IsInjective(r) /\ ToSet(r) = ToSet(s) \ {t}
           /\ \A i, j \in 1 .. Len(r) : i < j =>
                 \E k, l \in 1 .. Len(s) : k < l /\ s[k] = r[i] /\ s[l] = r[j]
<1>1. CASE t \notin ToSet(s) /\ r = s
  BY <1>1
<1>2. ASSUME NEW n \in 1 .. Len(s), s[n] = t, r = RemoveAt(s, n)
      PROVE  /\ r \in Seq(S) /\ IsInjective(r) /\ ToSet(r) = ToSet(s) \ {t}
             /\ \A i, j \in 1 .. Len(r) : i < j =>
                   \E k, l \in 1 .. Len(s) : k < l /\ s[k] = r[i] /\ s[l] = r[j]
  <2>1. Len(s) \in Nat /\ DOMAIN s = 1 .. Len(s) /\ \A x : x \in ToSet(s) <=> \E i \in 1 .. Len(s) : s[i] = x
    BY InList
  <2>2. /\ r \in Seq(S) /\ Len(r) = Len(s) - 1
        /\ \A j \in 1 .. Len(s) - 1 : r[j] = IF j < n THEN s[j] ELSE s[j + 1]
    BY <1>2, RemoveAtProperties
  <2>3. DOMAIN r = 1 .. Len(r) /\ \A x : x \in ToSet(r) <=> \E i \in 1 .. Len(r) : r[i] = x
    BY <2>2, InList
  <2> DEFINE from(j) == IF j < n THEN j ELSE j + 1
  <2>4. /\ \A j \in 1 .. Len(r) : from(j) \in 1 .. Len(s) \ {n} /\ r[j] = s[from(j)]
        /\ \A i, j \in 1 .. Len(r) : i < j => from(i) < from(j)
        /\ \A k \in 1 .. Len(s) \ {n} : \E j \in 1 .. Len(r) : from(j) = k
    <3>1. \A j \in 1 .. Len(r) : from(j) \in 1 .. Len(s) \ {n} /\ r[j] = s[from(j)]
      BY <2>1, <2>2
    <3>2. \A i, j \in 1 .. Len(r) : i < j => from(i) < from(j)
      BY <2>1, <2>2
    <3>3. ASSUME NEW k \in 1 .. Len(s) \ {n} PROVE \E j \in 1 .. Len(r) : from(j) = k
      <4>1. CASE k < n
        <5>1. k \in 1 .. Len(r) /\ from(k) = k
          BY <2>1, <2>2, <4>1
        <5> QED
          BY <5>1
      <4>2. CASE ~(k < n)
        <5>1. k - 1 \in 1 .. Len(r) /\ from(k - 1) = k
          BY <2>1, <2>2, <3>3, <4>2
        <5> QED
          BY <5>1
      <4> QED
        BY <4>1, <4>2
    <3> QED
      BY <3>1, <3>2, <3>3
  <2> HIDE DEF from
  <2>5. IsInjective(r)
    <3> SUFFICES ASSUME NEW i \in 1 .. Len(r), NEW j \in 1 .. Len(r), r[i] = r[j] PROVE i = j
      BY <2>3 DEF IsInjective
    <3>1. from(i) = from(j)
      BY <2>1, <2>4 DEF IsInjective
    <3>2. from(i) \in Int /\ ~(i < j) /\ ~(j < i)
      BY <2>4, <3>1
    <3> QED
      BY <2>2, <3>2
  <2>6. ToSet(r) = ToSet(s) \ {t}
    BY <1>2, <2>1, <2>3, <2>4 DEF IsInjective
  <2>7. \A i, j \in 1 .. Len(r) : i < j =>
           \E k, l \in 1 .. Len(s) : k < l /\ s[k] = r[i] /\ s[l] = r[j]
    BY <2>4
  <2> QED
    BY <2>2, <2>5, <2>6, <2>7
<1> QED
  BY <1>1, <1>2, RemoveFirstProperties

\* r is s with t put in at p: the order of the others is kept.
Inserted(S, s, t, p, r) ==
    /\ r \in Seq(S) /\ IsInjective(r) /\ ToSet(r) = ToSet(s) \cup {t}
    /\ \A i, j \in 1 .. Len(r) : i < j =>
          \/ \E k, l \in 1 .. Len(s) : k < l /\ s[k] = r[i] /\ s[l] = r[j]
          \/ r[i] = t /\ \E l \in 1 .. Len(s) : p <= l /\ s[l] = r[j]
          \/ r[j] = t /\ \E k \in 1 .. Len(s) : k < p /\ s[k] = r[i]

LEMMA WithTimer ==
    ASSUME NEW S, NEW s \in Seq(S), IsInjective(s), NEW t \in S, t \notin ToSet(s),
           NEW p \in 1 .. Len(s) + 1, NEW r, r = InsertAt(s, p, t)
    PROVE  Inserted(S, s, t, p, r)
<1>1. Len(s) \in Nat /\ DOMAIN s = 1 .. Len(s) /\ \A x : x \in ToSet(s) <=> \E i \in 1 .. Len(s) : s[i] = x
  BY InList
<1>2. /\ r \in Seq(S) /\ Len(r) = Len(s) + 1
      /\ \A j \in 1 .. Len(s) + 1 : r[j] = IF j < p THEN s[j] ELSE IF j = p THEN t ELSE s[j - 1]
  <2>1. InsertAt(s, p, t) \in Seq(S)
    BY InsertAtProperties
  <2>2. Len(InsertAt(s, p, t)) = Len(s) + 1
    BY InsertAtProperties
  <2>3. \A j \in 1 .. Len(s) + 1 : InsertAt(s, p, t)[j] = ItemAt(s, p, t, j)
    BY InsertAtProperties
  <2> QED
    BY <2>1, <2>2, <2>3, Zenon DEF ItemAt
<1>3. DOMAIN r = 1 .. Len(r) /\ \A x : x \in ToSet(r) <=> \E i \in 1 .. Len(r) : r[i] = x
  BY <1>2, InList
<1> DEFINE from(j) == IF j < p THEN j ELSE j - 1
<1>4. /\ \A j \in 1 .. Len(r) : j # p => from(j) \in 1 .. Len(s) /\ r[j] = s[from(j)]
      /\ p \in 1 .. Len(r) /\ r[p] = t
      /\ \A i, j \in 1 .. Len(r) : i < j /\ i # p /\ j # p => from(i) < from(j)
      /\ \A j \in 1 .. Len(r) : (j < p => from(j) < p) /\ (j > p => p <= from(j))
      /\ \A k \in 1 .. Len(s) : \E j \in 1 .. Len(r) : j # p /\ from(j) = k
  <2>1. \A j \in 1 .. Len(r) : j # p => from(j) \in 1 .. Len(s) /\ r[j] = s[from(j)]
    BY <1>1, <1>2
  <2>2. p \in 1 .. Len(r) /\ r[p] = t
    BY <1>1, <1>2
  <2>3. \A i, j \in 1 .. Len(r) : i < j /\ i # p /\ j # p => from(i) < from(j)
    BY <1>1, <1>2
  <2>4. \A j \in 1 .. Len(r) : (j < p => from(j) < p) /\ (j > p => p <= from(j))
    BY <1>1, <1>2
  <2>5. ASSUME NEW k \in 1 .. Len(s) PROVE \E j \in 1 .. Len(r) : j # p /\ from(j) = k
    <3>1. CASE k < p
      <4>1. k \in 1 .. Len(r) /\ k # p /\ from(k) = k
        BY <1>1, <1>2, <3>1
      <4> QED
        BY <4>1
    <3>2. CASE ~(k < p)
      <4>1. k + 1 \in 1 .. Len(r) /\ k + 1 # p /\ from(k + 1) = k
        BY <1>1, <1>2, <3>2
      <4> QED
        BY <4>1
    <3> QED
      BY <3>1, <3>2
  <2> QED
    BY <2>1, <2>2, <2>3, <2>4, <2>5
<1> HIDE DEF from
<1>5. IsInjective(r)
  <2> SUFFICES ASSUME NEW i \in 1 .. Len(r), NEW j \in 1 .. Len(r), r[i] = r[j] PROVE i = j
    BY <1>3 DEF IsInjective
  <2>1. i = p <=> j = p
    BY <1>1, <1>4
  <2>2. CASE i # p /\ j # p
    <3>1. from(i) = from(j)
      BY <1>1, <1>4, <2>2 DEF IsInjective
    <3>2. from(i) \in Int /\ ~(i < j) /\ ~(j < i)
      BY <1>4, <2>2, <3>1
    <3> QED
      BY <1>2, <3>2
  <2> QED
    BY <2>1, <2>2
<1>6. ToSet(r) = ToSet(s) \cup {t}
  BY <1>1, <1>3, <1>4
<1>7. ASSUME NEW i \in 1 .. Len(r), NEW j \in 1 .. Len(r), i < j
      PROVE  \/ \E k, l \in 1 .. Len(s) : k < l /\ s[k] = r[i] /\ s[l] = r[j]
             \/ r[i] = t /\ \E l \in 1 .. Len(s) : p <= l /\ s[l] = r[j]
             \/ r[j] = t /\ \E k \in 1 .. Len(s) : k < p /\ s[k] = r[i]
  <2>1. CASE i = p
    <3>1. j # p /\ j > p
      BY <1>7, <2>1
    <3> QED
      BY <1>4, <2>1, <3>1
  <2>2. CASE j = p
    <3>1. i # p /\ i < p
      BY <1>7, <2>2
    <3> QED
      BY <1>4, <2>2, <3>1
  <2>3. CASE i # p /\ j # p
    BY <1>4, <1>7, <2>3
  <2> QED
    BY <2>1, <2>2, <2>3
<1> QED
  BY <1>2, <1>5, <1>6, <1>7 DEF Inserted

-----------------------------------------------------------------------------
(* What every list is, what it is as long as the clock was not set back, and *)
(* what it is while expired timers are called, elapsed milliseconds after    *)
(* the server read the clock.                                               *)

Lists == [list : Seq(Timers), expires : [Timers -> Clocks],
          delta : [Timers -> {0} \cup Delays], left : [Timers -> Int]]

Sound(s) == /\ s \in Lists
            /\ IsInjective(s.list)
            /\ \A t \in ToSet(s.list) : s.delta[t] \in Delays /\ s.left[t] <= s.delta[t]

OnTime(s, c) == /\ \A t \in ToSet(s.list) : -MaxLate <= s.left[t] /\ s.expires[t] = Shift(c, s.left[t])
                /\ \A i, j \in 1 .. Len(s.list) : i < j => s.left[s.list[i]] <= s.left[s.list[j]]

Young(s, elapsed) == \A t \in ToSet(s.list) : s.left[t] + elapsed <= s.delta[t] + MaxLate

LEMMA DelayBound ==
    ASSUME NEW d \in Delays
    PROVE  /\ d \in Nat \ {0} /\ Slack \in Nat /\ MaxLate \in Nat /\ MaxSetbacks \in Nat
           /\ 2 * (d + Slack + MaxLate) < N
           /\ \A r \in Setbacks \cup {0} : r \in Nat /\ 2 * (d + Slack + MaxSetbacks * r + MaxLate) < N
<1>1. /\ d \in Nat \ {0} /\ Slack \in Nat /\ MaxLate \in Nat /\ MaxSetbacks \in Nat
      /\ \A r \in Setbacks \cup {0} : r \in Nat /\ 2 * (d + Slack + MaxSetbacks * r + MaxLate) < N
  BY TimersAssumption DEF N
<1>2. 2 * (d + Slack + MaxSetbacks * 0 + MaxLate) < N /\ MaxSetbacks * 0 = 0
  BY <1>1
<1> QED
  BY <1>1, <1>2

LEMMA UnlinkedOK ==
    ASSUME NEW s, Sound(s), NEW t \in Timers, NEW u, u = Unlinked(s, t)
    PROVE  /\ Sound(u) /\ ToSet(u.list) = ToSet(s.list) \ {t}
           /\ \A c : OnTime(s, c) => OnTime(u, c)
           /\ \A elapsed : Young(s, elapsed) => Young(u, elapsed)
<1>1. /\ u = [list |-> RemoveFirst(s.list, t), expires |-> [s.expires EXCEPT ![t] = 0],
              delta |-> [s.delta EXCEPT ![t] = 0], left |-> [s.left EXCEPT ![t] = 0]]
  BY DEF Unlinked, Sound, Lists
<1>2. /\ s.list \in Seq(Timers) /\ IsInjective(s.list)
      /\ s.expires \in [Timers -> Clocks] /\ s.delta \in [Timers -> {0} \cup Delays] /\ s.left \in [Timers -> Int]
  BY DEF Sound, Lists
<1>3. /\ u.list \in Seq(Timers) /\ IsInjective(u.list) /\ ToSet(u.list) = ToSet(s.list) \ {t}
      /\ \A i, j \in 1 .. Len(u.list) : i < j =>
            \E k, l \in 1 .. Len(s.list) : k < l /\ s.list[k] = u.list[i] /\ s.list[l] = u.list[j]
  <2> DEFINE old == s.list
             new == u.list
  <2>1. new = RemoveFirst(old, t)
    BY <1>1
  <2>2. old \in Seq(Timers) /\ IsInjective(old)
    BY <1>2
  <2> HIDE DEF old, new
  <2>3. new \in Seq(Timers) /\ IsInjective(new) /\ ToSet(new) = ToSet(old) \ {t}
    BY <2>1, <2>2, WithoutTimer, Zenon
  <2>4. \A i, j \in 1 .. Len(new) : i < j =>
              \E k, l \in 1 .. Len(old) : k < l /\ old[k] = new[i] /\ old[l] = new[j]
    BY <2>1, <2>2, WithoutTimer
  <2> QED
    BY <2>3, <2>4 DEF old, new
<1>4. ToSet(u.list) \subseteq Timers /\ \A i \in 1 .. Len(u.list) : u.list[i] \in ToSet(u.list)
  <2> DEFINE new == u.list
  <2>1. new \in Seq(Timers)
    BY <1>3
  <2> HIDE DEF new
  <2>2. ToSet(new) \subseteq Timers /\ \A i \in 1 .. Len(new) : new[i] \in ToSet(new)
    BY <2>1, InList
  <2> QED
    BY <2>2 DEF new
<1>5. \A x \in ToSet(u.list) : /\ u.expires[x] = s.expires[x] /\ u.delta[x] = s.delta[x] /\ u.left[x] = s.left[x]
                               /\ x \in ToSet(s.list)
  BY <1>1, <1>2, <1>3, <1>4
<1>6. u \in Lists
  <2>1. 0 \in Clocks
    BY WidthIsPositive DEF Clocks
  <2> QED
    BY <1>1, <1>2, <1>3, <2>1 DEF Lists
<1>7. Sound(u)
  BY <1>3, <1>5, <1>6 DEF Sound
<1>8. ASSUME NEW c, OnTime(s, c) PROVE OnTime(u, c)
  <2>1. \A x \in ToSet(u.list) : -MaxLate <= u.left[x] /\ u.expires[x] = Shift(c, u.left[x])
    BY <1>5, <1>8 DEF OnTime
  <2>2. ASSUME NEW i \in 1 .. Len(u.list), NEW j \in 1 .. Len(u.list), i < j
        PROVE  u.left[u.list[i]] <= u.left[u.list[j]]
    <3>1. PICK k \in 1 .. Len(s.list), l \in 1 .. Len(s.list) : k < l /\ s.list[k] = u.list[i] /\ s.list[l] = u.list[j]
      BY <1>3, <2>2
    <3>2. s.left[s.list[k]] <= s.left[s.list[l]]
      BY <1>8, <3>1 DEF OnTime
    <3> QED
      BY <1>4, <1>5, <3>1, <3>2
  <2> QED
    BY <2>1, <2>2 DEF OnTime
<1>9. ASSUME NEW elapsed, Young(s, elapsed) PROVE Young(u, elapsed)
  BY <1>5, <1>9 DEF Young
<1> QED
  BY <1>3, <1>7, <1>8, <1>9

\* The place TimerSet looks for exists; if the list is in order it is between
\* the timers that expire earlier and those that expire later.
LEMMA PlaceOK ==
    ASSUME NEW s, Sound(s), NEW c \in Clocks, NEW millis \in Delays, NEW p, p = Place(s, Shift(c, millis))
    PROVE  /\ p \in 1 .. Len(s.list) + 1
           /\ OnTime(s, c) =>
                 /\ \A k \in 1 .. Len(s.list) : k < p => s.left[s.list[k]] <= millis
                 /\ \A l \in 1 .. Len(s.list) : p <= l => s.left[s.list[l]] >= millis
<1> DEFINE e == Shift(c, millis)
           apart(i) == Signed(Minus(s.expires[s.list[i]], e))
           later == {i \in DOMAIN s.list : apart(i) > 0}
<1>1. /\ s.list \in Seq(Timers) /\ Len(s.list) \in Nat /\ DOMAIN s.list = 1 .. Len(s.list)
      /\ \A i \in 1 .. Len(s.list) : s.list[i] \in Timers /\ s.list[i] \in ToSet(s.list)
  <2>1. s.list \in Seq(Timers)
    BY DEF Sound, Lists
  <2> QED
    BY <2>1, InList
<1>2. p = IF later = {} THEN Len(s.list) + 1 ELSE CHOOSE i \in later : \A j \in later : i <= j
  BY DEF Place
<1> HIDE DEF apart
<1>3. later # {} => p \in later /\ \A j \in later : p <= j
  <2> SUFFICES ASSUME later # {} PROVE p \in later /\ \A j \in later : p <= j
    OBVIOUS
  <2>1. later \in SUBSET Nat
    BY <1>1
  <2> HIDE DEF later
  <2>2. \E x \in later : \A y \in later : x <= y
    BY <2>1, SmallestIsThere
  <2> QED
    BY <1>2, <2>2
<1>4. p \in 1 .. Len(s.list) + 1
  BY <1>1, <1>2, <1>3
<1>5. ASSUME OnTime(s, c), NEW i \in 1 .. Len(s.list)
      PROVE  apart(i) = s.left[s.list[i]] - millis
  <2> DEFINE t == s.list[i]
  <2>1. t \in ToSet(s.list) /\ t \in Timers
    BY <1>1
  <2>2. /\ s.left[t] \in Int /\ -MaxLate <= s.left[t] /\ s.left[t] <= s.delta[t] /\ s.delta[t] \in Delays
        /\ s.expires[t] = Shift(c, s.left[t])
    BY <1>5, <2>1 DEF OnTime, Sound, Lists
  <2> DEFINE d == s.delta[t]
             k == s.left[t]
  <2>3. /\ d \in Nat \ {0} /\ MaxLate \in Nat /\ Slack \in Nat /\ 2 * (d + Slack + MaxLate) < N
        /\ millis \in Nat \ {0} /\ 2 * (millis + Slack + MaxLate) < N
    BY <2>2, DelayBound
  <2>4. k \in Int /\ -MaxLate <= k /\ k <= d
    BY <2>2
  <2> HIDE DEF d, k
  <2>5. /\ millis \in -N .. N /\ k - millis \in -N .. N /\ millis + (k - millis) \in -N .. N
        /\ millis + (k - millis) = k /\ k - millis \in Int /\ -N <= 2 * (k - millis) /\ 2 * (k - millis) < N
    BY <2>3, <2>4, WidthIsPositive
  <2>6. Shift(c, k) = Shift(e, k - millis)
    <3>1. Shift(Shift(c, millis), k - millis) = Shift(c, millis + (k - millis))
      BY <2>5, ShiftShift
    <3> QED
      BY <2>5, <3>1
  <2>7. e \in Clocks
    BY <2>3, ShiftInRange
  <2> HIDE DEF e
  <2>8. Signed(Minus(Shift(e, k - millis), e)) = k - millis
    BY <2>5, <2>7, SignedIsDistance
  <2> QED
    BY <2>2, <2>6, <2>8 DEF apart, k
<1>6. ASSUME OnTime(s, c)
      PROVE  /\ \A k \in 1 .. Len(s.list) : k < p => s.left[s.list[k]] <= millis
             /\ \A l \in 1 .. Len(s.list) : p <= l => s.left[s.list[l]] >= millis
  <2>1. \A i \in 1 .. Len(s.list) : s.left[s.list[i]] \in Int /\ millis \in Int /\ apart(i) = s.left[s.list[i]] - millis
    <3>1. millis \in Int
      BY DelayBound
    <3> QED
      BY <1>1, <1>5, <1>6, <3>1 DEF Sound, Lists
  <2>2. ASSUME NEW k \in 1 .. Len(s.list), k < p PROVE s.left[s.list[k]] <= millis
    <3>1. k \notin later
      BY <1>1, <1>2, <1>3, <2>2
    <3> QED
      BY <1>1, <2>1, <3>1
  <2>3. ASSUME NEW l \in 1 .. Len(s.list), p <= l PROVE s.left[s.list[l]] >= millis
    <3>1. p \in later
      BY <1>1, <1>2, <1>3, <2>3
    <3>2. p \in 1 .. Len(s.list) /\ s.left[s.list[p]] > millis
      BY <1>1, <2>1, <3>1
    <3>3. s.left[s.list[p]] <= s.left[s.list[l]]
      BY <1>6, <2>1, <2>3, <3>2 DEF OnTime
    <3> QED
      BY <2>1, <3>2, <3>3
  <2> QED
    BY <2>2, <2>3
<1> QED
  BY <1>4, <1>6

\* TimerSet keeps the list sound and in order; a timer is set for a time that
\* is not late, however long ago the server read the clock.
LEMMA TimerSetOK ==
    ASSUME NEW s, Sound(s), NEW t \in Timers, NEW millis \in Delays \cup {0}, clock \in Clocks,
           NEW r, r = TimerSet(s, t, millis)
    PROVE  /\ Sound(r)
           /\ OnTime(s, clock) => OnTime(r, clock)
           /\ \A elapsed \in Int : elapsed <= MaxLate /\ Young(s, elapsed) => Young(r, elapsed)
<1> DEFINE u == Unlinked(s, t)
           e == Shift(clock, millis)
           p == Place(u, e)
<1>1. /\ Sound(u) /\ ToSet(u.list) = ToSet(s.list) \ {t}
      /\ OnTime(s, clock) => OnTime(u, clock)
      /\ \A elapsed : Young(s, elapsed) => Young(u, elapsed)
  BY UnlinkedOK
<1>2. CASE millis = 0
  <2>1. r = u
    BY <1>2 DEF TimerSet
  <2> HIDE DEF u
  <2> QED
    BY <1>1, <2>1
<1>3. CASE millis # 0
  <2>0. millis \in Delays /\ millis \in Nat \ {0} /\ e \in Clocks /\ MaxLate \in Nat
    BY <1>3, DelayBound, ShiftInRange
  <2>1. r = [u EXCEPT !.list = InsertAt(@, p, t), !.expires[t] = e, !.delta[t] = millis, !.left[t] = millis]
    BY <1>3 DEF TimerSet, Shift, N
  <2>2. /\ p \in 1 .. Len(u.list) + 1
        /\ OnTime(u, clock) =>
              /\ \A k \in 1 .. Len(u.list) : k < p => u.left[u.list[k]] <= millis
              /\ \A l \in 1 .. Len(u.list) : p <= l => u.left[u.list[l]] >= millis
    <3> HIDE DEF u
    <3> QED
      BY <1>1, <2>0, PlaceOK
  <2> HIDE DEF u, e, p
  <2>3. /\ u.list \in Seq(Timers) /\ IsInjective(u.list)
        /\ u.expires \in [Timers -> Clocks] /\ u.delta \in [Timers -> {0} \cup Delays] /\ u.left \in [Timers -> Int]
        /\ r = [list |-> InsertAt(u.list, p, t), expires |-> [u.expires EXCEPT ![t] = e],
                delta |-> [u.delta EXCEPT ![t] = millis], left |-> [u.left EXCEPT ![t] = millis]]
    BY <1>1, <2>1 DEF Sound, Lists
  <2> DEFINE old == u.list
             new == r.list
  <2>4. old \in Seq(Timers) /\ IsInjective(old) /\ t \notin ToSet(old) /\ p \in 1 .. Len(old) + 1
        /\ new = InsertAt(old, p, t)
    BY <1>1, <2>2, <2>3
  <2>5. /\ \A i \in 1 .. Len(old) : old[i] \in ToSet(old)
        /\ ToSet(old) \subseteq Timers /\ Len(old) \in Nat
    <3> HIDE DEF old, new
    <3> QED
      BY <2>4, InList
  <2>6. Inserted(Timers, old, t, p, new)
    <3> HIDE DEF old, new
    <3> QED
      BY <2>4, WithTimer
  <2>7. /\ new \in Seq(Timers) /\ IsInjective(new) /\ ToSet(new) = ToSet(old) \cup {t}
        /\ \A i, j \in 1 .. Len(new) : i < j =>
              \/ \E k, l \in 1 .. Len(old) : k < l /\ old[k] = new[i] /\ old[l] = new[j]
              \/ new[i] = t /\ \E l \in 1 .. Len(old) : p <= l /\ old[l] = new[j]
              \/ new[j] = t /\ \E k \in 1 .. Len(old) : k < p /\ old[k] = new[i]
    <3> HIDE DEF old, new
    <3> QED
      BY <2>6 DEF Inserted
  <2>8. r \in Lists
    BY <2>0, <2>3, <2>7 DEF Lists
  <2>9. /\ \A x \in ToSet(old) : /\ x # t /\ r.expires[x] = u.expires[x] /\ r.delta[x] = u.delta[x]
                                 /\ r.left[x] = u.left[x] /\ u.left[x] \in Int
        /\ r.expires[t] = e /\ r.delta[t] = millis /\ r.left[t] = millis
    BY <2>3, <2>4, <2>5
  <2> HIDE DEF old, new
  <2>10. Sound(r)
    <3>1. ASSUME NEW x \in ToSet(new) PROVE r.delta[x] \in Delays /\ r.left[x] <= r.delta[x]
      <4>1. CASE x = t
        BY <2>0, <2>9, <4>1
      <4>2. CASE x \in ToSet(old)
        BY <1>1, <2>9, <4>2 DEF Sound, old
      <4> QED
        BY <2>7, <4>1, <4>2
    <3> QED
      BY <2>7, <2>8, <3>1 DEF Sound, new
  <2>11. ASSUME OnTime(s, clock) PROVE OnTime(r, clock)
    <3>0. /\ OnTime(u, clock)
          /\ \A k \in 1 .. Len(old) : k < p => u.left[old[k]] <= millis
          /\ \A l \in 1 .. Len(old) : p <= l => u.left[old[l]] >= millis
      BY <1>1, <2>2, <2>11 DEF old
    <3>1. ASSUME NEW x \in ToSet(new) PROVE -MaxLate <= r.left[x] /\ r.expires[x] = Shift(clock, r.left[x])
      <4>1. CASE x = t
        BY <2>0, <2>9, <4>1 DEF e
      <4>2. CASE x \in ToSet(old)
        BY <2>9, <3>0, <4>2 DEF OnTime, old
      <4> QED
        BY <2>7, <4>1, <4>2
    <3>2. ASSUME NEW i \in 1 .. Len(new), NEW j \in 1 .. Len(new), i < j
          PROVE  r.left[new[i]] <= r.left[new[j]]
      <4>1. ASSUME NEW k \in 1 .. Len(old), NEW l \in 1 .. Len(old), k < l, old[k] = new[i], old[l] = new[j]
            PROVE  r.left[new[i]] <= r.left[new[j]]
        <5>1. u.left[old[k]] <= u.left[old[l]]
          BY <3>0, <4>1 DEF OnTime, old
        <5> QED
          BY <2>5, <2>9, <4>1, <5>1
      <4>2. ASSUME new[i] = t, NEW l \in 1 .. Len(old), p <= l, old[l] = new[j]
            PROVE  r.left[new[i]] <= r.left[new[j]]
        <5>1. u.left[old[l]] >= millis /\ u.left[old[l]] \in Int /\ r.left[new[j]] = u.left[old[l]]
          BY <2>5, <2>9, <3>0, <4>2
        <5> QED
          BY <2>0, <2>9, <4>2, <5>1
      <4>3. ASSUME new[j] = t, NEW k \in 1 .. Len(old), k < p, old[k] = new[i]
            PROVE  r.left[new[i]] <= r.left[new[j]]
        BY <2>5, <2>9, <3>0, <4>3
      <4> QED
        BY <2>7, <3>2, <4>1, <4>2, <4>3
    <3> QED
      BY <3>1, <3>2 DEF OnTime, new
  <2>12. ASSUME NEW elapsed \in Int, elapsed <= MaxLate, Young(s, elapsed) PROVE Young(r, elapsed)
    <3>1. ASSUME NEW x \in ToSet(new) PROVE r.left[x] + elapsed <= r.delta[x] + MaxLate
      <4>1. CASE x = t
        BY <2>0, <2>9, <2>12, <4>1
      <4>2. CASE x \in ToSet(old)
        BY <1>1, <2>9, <2>12, <4>2 DEF Young, old
      <4> QED
        BY <2>7, <4>1, <4>2
    <3> QED
      BY <3>1 DEF Young, new
  <2> QED
    BY <2>10, <2>11, <2>12
<1> QED
  BY <1>2, <1>3

-----------------------------------------------------------------------------
(* What calls and callbacks do to the list.                                 *)

KeepsTheList ==
    /\ Sound(TheList')
    /\ OnTime(TheList, clock) => OnTime(TheList', clock)
    /\ \A elapsed \in Int : elapsed <= MaxLate /\ Young(TheList, elapsed) => Young(TheList', elapsed)

LEMMA ListStep ==
    ASSUME NEW r, Sound(r), SetList(r),
           OnTime(TheList, clock) => OnTime(r, clock),
           \A elapsed \in Int : elapsed <= MaxLate /\ Young(TheList, elapsed) => Young(r, elapsed)
    PROVE  KeepsTheList
<1>1. TheList' = r
  BY DEF TheList, SetList, Sound, Lists
<1> QED
  BY <1>1 DEF KeepsTheList

\* DoTimer: whatever the callback does, its own timer included.
LEMMA CallTimerOK ==
    ASSUME Sound(TheList), clock \in Clocks, NEW t \in Timers, CallTimer(t)
    PROVE  KeepsTheList
<1>0. PICK effect \in CallbackEffects, newTime \in Delays \cup {0} : DoTimer(t, effect, newTime)
  BY DEF CallTimer
<1> DEFINE u == Unlinked(TheList, t)
           after == CASE effect[1] = "cancel" -> Unlinked(u, effect[2])
                      [] effect[1] = "set" -> TimerSet(u, effect[2], effect[3])
                      [] OTHER -> u
           r == IF newTime = 0 THEN after ELSE TimerSet(after, t, newTime)
           Kept(s) == /\ Sound(s)
                      /\ OnTime(TheList, clock) => OnTime(s, clock)
                      /\ \A elapsed \in Int : elapsed <= MaxLate /\ Young(TheList, elapsed) => Young(s, elapsed)
<1>1. SetList(r)
  BY <1>0 DEF DoTimer
<1>2. Kept(u)
  BY UnlinkedOK
<1>3. ASSUME NEW s, Kept(s), NEW x \in Timers, NEW millis \in Delays \cup {0}
      PROVE  Kept(Unlinked(s, x)) /\ Kept(TimerSet(s, x, millis))
  <2>1. Kept(Unlinked(s, x))
    BY <1>3, UnlinkedOK
  <2>2. Kept(TimerSet(s, x, millis))
    BY <1>3, TimerSetOK
  <2> QED
    BY <2>1, <2>2
<1>4. /\ effect[1] = "cancel" => effect[2] \in Timers
      /\ effect[1] = "set" => effect[2] \in Timers /\ effect[3] \in Delays
  BY DEF CallbackEffects
<1> HIDE DEF u, Kept
<1>5. Kept(after)
  <2>1. CASE effect[1] = "cancel"
    <3>1. after = Unlinked(u, effect[2])
      BY <2>1
    <3> QED
      BY <1>2, <1>3, <1>4, <2>1, <3>1
  <2>2. CASE effect[1] = "set"
    <3>1. after = TimerSet(u, effect[2], effect[3])
      BY <2>2
    <3> QED
      BY <1>2, <1>3, <1>4, <2>2, <3>1
  <2>3. CASE effect[1] # "cancel" /\ effect[1] # "set"
    <3>1. after = u
      BY <2>3
    <3> QED
      BY <1>2, <3>1
  <2> QED
    BY <2>1, <2>2, <2>3
<1> HIDE DEF after
<1>6. Kept(r)
  BY <1>3, <1>5
<1> QED
  BY <1>1, <1>6, ListStep DEF Kept

-----------------------------------------------------------------------------
(***************************************************************************)
(* The inductive invariant.  Before the clock is set back the list is in    *)
(* order and tells the time of each timer; while expired ones are called    *)
(* none was set so long ago, or so far ahead of now, that the clock's signed *)
(* difference would mistake it; and while CheckAllTimers runs the clock has  *)
(* not moved farther from now than the assumption leaves room for.         *)
(***************************************************************************)
Apart == Signed(Minus(clock, now))

NowIsNear == /\ Delays # {}
             /\ Apart <= MaxLate
             /\ \E r \in Setbacks \cup {0} : -(setbacks * r) <= Apart

ClocksOK == /\ clock \in Clocks /\ now \in Clocks
            /\ tpc \in {"dispatch", "check", "asleep", "firing"}
            /\ wait \in Nat \cup {Forever} /\ someReady \in BOOLEAN
            /\ setbacks \in 0 .. MaxSetbacks

TimersInv ==
    /\ Sound(TheList)
    /\ ClocksOK
    /\ setbacks = 0 => OnTime(TheList, clock) /\ tpc # "check"
    /\ setbacks = 0 /\ tpc = "firing" => Young(TheList, Minus(clock, now))
    /\ tpc = "check" => NowIsNear
    /\ WakesInTime

LEMMA ListFacts ==
    ASSUME Sound(TheList)
    PROVE  /\ timers \in Seq(Timers) /\ Len(timers) \in Nat /\ Linked \subseteq Timers
           /\ \A i \in 1 .. Len(timers) : timers[i] \in Linked
           /\ timers # <<>> => 1 \in 1 .. Len(timers)
           /\ \A t \in Linked : /\ expires[t] \in Clocks /\ delta[t] \in Delays
                                /\ left[t] \in Int /\ left[t] <= delta[t]
<1>1. /\ timers \in Seq(Timers) /\ expires \in [Timers -> Clocks] /\ left \in [Timers -> Int]
      /\ \A t \in Linked : delta[t] \in Delays /\ left[t] <= delta[t]
  BY DEF Sound, Lists, TheList, Linked
<1>2. /\ Len(timers) \in Nat /\ \A i \in 1 .. Len(timers) : timers[i] \in Timers /\ timers[i] \in Linked
      /\ \A x : x \in Linked <=> \E i \in 1 .. Len(timers) : timers[i] = x
  BY <1>1, InList DEF Linked
<1>3. timers # <<>> => 1 \in 1 .. Len(timers)
  BY <1>1, <1>2
<1>4. Linked \subseteq Timers
  BY <1>2
<1> QED
  BY <1>1, <1>2, <1>3, <1>4

\* Before the clock is set back the signed difference is the time left.
LEMMA AheadIsLeft ==
    ASSUME Sound(TheList), clock \in Clocks, OnTime(TheList, clock), NEW t \in Linked
    PROVE  Ahead(t) = left[t] /\ -MaxLate <= left[t]
<1>1. /\ left[t] \in Int /\ left[t] <= delta[t] /\ delta[t] \in Delays
      /\ -MaxLate <= left[t] /\ expires[t] = Shift(clock, left[t])
  BY ListFacts DEF OnTime, TheList, Linked
<1>2. -N <= 2 * left[t] /\ 2 * left[t] < N
  <2>1. delta[t] \in Nat /\ Slack \in Nat /\ MaxLate \in Nat /\ 2 * (delta[t] + Slack + MaxLate) < N
    BY <1>1, DelayBound
  <2> QED
    BY <1>1, <2>1, WidthIsPositive
<1> QED
  BY <1>1, <1>2, SignedIsDistance DEF Ahead

LEMMA FirstIsEarliest ==
    ASSUME Sound(TheList), OnTime(TheList, clock), timers # <<>>
    PROVE  timers[1] \in Linked /\ \A t \in Linked : left[timers[1]] <= left[t]
<1>1. /\ Len(timers) \in Nat /\ 1 \in 1 .. Len(timers) /\ timers[1] \in Linked /\ timers \in Seq(Timers)
      /\ \A t \in Linked : left[t] \in Int
  BY ListFacts
<1>2. ASSUME NEW t \in Linked PROVE left[timers[1]] <= left[t]
  <2>1. PICK i \in 1 .. Len(timers) : timers[i] = t
    BY <1>1, InList DEF Linked
  <2>2. CASE i = 1
    BY <1>1, <2>1, <2>2
  <2>3. CASE 1 < i
    BY <1>1, <2>1, <2>3 DEF OnTime, TheList
  <2> QED
    BY <1>1, <2>2, <2>3
<1> QED
  BY <1>1, <1>2

\* The loop calls a timer only if it is due, and soon after the server read
\* the clock.
LEMMA ExpiredIsDue ==
    ASSUME TimersInv, setbacks = 0, tpc = "firing", Expired
    PROVE  left[timers[1]] <= 0 /\ Minus(clock, now) <= MaxLate
<1> DEFINE t == timers[1]
           e == Minus(clock, now)
           k == left[t]
<1>1. /\ Sound(TheList) /\ clock \in Clocks /\ now \in Clocks /\ OnTime(TheList, clock)
      /\ Young(TheList, e) /\ timers # <<>>
  BY DEF TimersInv, ClocksOK, Expired
<1>2. t \in Linked
  BY <1>1, FirstIsEarliest
<1>3. /\ k \in Int /\ k <= delta[t] /\ delta[t] \in Delays /\ -MaxLate <= k
      /\ expires[t] = Shift(clock, k) /\ k + e <= delta[t] + MaxLate
  BY <1>1, <1>2, ListFacts DEF OnTime, Young, TheList, Linked
<1>4. e \in Clocks /\ clock = Shift(now, e)
  BY <1>1, DistanceOf
<1>5. Signed(Minus(expires[t], now)) <= 0
  BY DEF Expired
<1> HIDE DEF e, k
<1>6. /\ MaxLate \in Nat /\ e \in -N .. N /\ k \in -N .. N /\ e + k \in -N .. N
      /\ e + k \in Int /\ -N <= 2 * (e + k) /\ 2 * (e + k) < N
  BY <1>3, <1>4, DelayBound, WidthIsPositive DEF Clocks
<1>7. expires[t] = Shift(now, e + k)
  BY <1>1, <1>3, <1>4, <1>6, ShiftShift
<1>8. e + k <= 0
  BY <1>1, <1>5, <1>6, <1>7, SignedIsDistance
<1>9. e >= 0 /\ e \in Int
  BY <1>4, WidthIsPositive DEF Clocks
<1> QED
  BY <1>3, <1>6, <1>8, <1>9 DEF e, k

\* Nothing but the list changes, in a place where the server does not sleep.
LEMMA ListChanges ==
    ASSUME TimersInv, KeepsTheList, UNCHANGED <<clock, tpc, now, wait, someReady, setbacks>>, tpc # "asleep",
           setbacks = 0 /\ tpc = "firing" => Minus(clock, now) <= MaxLate
    PROVE  TimersInv'
<1>1. Sound(TheList)' /\ ClocksOK'
  BY DEF KeepsTheList, TimersInv, ClocksOK
<1>2. setbacks = 0 => OnTime(TheList, clock)' /\ tpc' # "check"
  BY DEF KeepsTheList, TimersInv
<1>3. setbacks = 0 /\ tpc = "firing" => Young(TheList, Minus(clock, now))'
  <2>1. Minus(clock, now) \in Int
    BY DistanceOf, WidthIsPositive DEF TimersInv, ClocksOK, Clocks
  <2>2. Minus(clock, now)' = Minus(clock, now)
    BY DEF Minus
  <2> QED
    BY <2>1, <2>2 DEF KeepsTheList, TimersInv
<1>4. (tpc = "check" => NowIsNear)' /\ WakesInTime'
  BY DEF TimersInv, NowIsNear, Apart, Minus, Signed, WakesInTime
<1> QED
  BY <1>1, <1>2, <1>3, <1>4 DEF TimersInv

\* The calls of TimerSet, TimerCancel and TimerForce.
LEMMA RequestsOK == ASSUME TimersInv, Requests PROVE TimersInv'
<1>0. Sound(TheList) /\ clock \in Clocks /\ Linked \subseteq Timers
  BY ListFacts DEF TimersInv, ClocksOK
<1>1. ASSUME NEW t \in Timers, NEW d \in Delays \cup {0}, Set(t, d) PROVE TimersInv'
  <2>1. KeepsTheList
    BY <1>0, <1>1, TimerSetOK, ListStep DEF Set
  <2> QED
    BY <1>1, <2>1, ListChanges DEF Set, Idle
<1>2. ASSUME NEW t \in Timers, TimerCancel(t) PROVE TimersInv'
  <2>1. KeepsTheList
    BY <1>0, <1>2, UnlinkedOK, ListStep DEF TimerCancel
  <2> QED
    BY <1>2, <2>1, ListChanges DEF TimerCancel, Idle
<1>3. ASSUME NEW t \in Timers, TimerForce(t) PROVE TimersInv'
  <2>1. KeepsTheList
    BY <1>0, <1>3, CallTimerOK DEF TimerForce
  <2> QED
    BY <1>3, <2>1, ListChanges DEF TimerForce, Idle
<1> QED
  BY <1>1, <1>2, <1>3 DEF Requests

LEMMA FireNextOK == ASSUME TimersInv, FireNext PROVE TimersInv'
<1>0. Sound(TheList) /\ clock \in Clocks /\ timers # <<>>
  BY DEF TimersInv, ClocksOK, FireNext, Expired
<1>1. timers[1] \in Timers
  BY <1>0, ListFacts
<1>2. KeepsTheList
  BY <1>0, <1>1, CallTimerOK DEF FireNext
<1>3. setbacks = 0 /\ tpc = "firing" => Minus(clock, now) <= MaxLate
  BY ExpiredIsDue DEF FireNext
<1> QED
  BY <1>2, <1>3, ListChanges DEF FireNext, Idle

\* Before the server sleeps, and when it wakes.
LEMMA SleepOK == ASSUME TimersInv, NEW ready \in BOOLEAN, WaitForSomething(ready) PROVE TimersInv'
<1>0. /\ Sound(TheList) /\ ClocksOK /\ clock \in Clocks
      /\ setbacks = 0 => OnTime(TheList, clock)
      /\ tpc = "dispatch" /\ UNCHANGED <<timers, expires, delta, left, clock, setbacks>>
      /\ Slack \in Nat /\ MaxLate \in Nat
  BY TimersAssumption DEF TimersInv, ClocksOK, WaitForSomething
<1>1. /\ Sound(TheList)' /\ (setbacks = 0 => OnTime(TheList, clock)')
  BY <1>0 DEF TheList
<1>2. timers # <<>> => /\ timers[1] \in Linked /\ Ahead(timers[1]) \in Int
                       /\ delta[timers[1]] \in Nat
  <2>1. timers # <<>> => timers[1] \in Linked /\ expires[timers[1]] \in Clocks /\ delta[timers[1]] \in Delays
    BY <1>0, ListFacts
  <2> QED
    BY <1>0, <2>1, DistanceOf, DelayBound DEF Ahead
<1>3. CASE tpc' = "asleep" /\ wait' = 0 /\ UNCHANGED now
  <2>1. ClocksOK' /\ WakesInTime'
    BY <1>0, <1>2, <1>3 DEF ClocksOK, WaitForSomething, WakesInTime, Forever
  <2> QED
    BY <1>0, <1>1, <1>3, <2>1 DEF TimersInv
<1>4. CASE ClockSetBack /\ tpc' = "check" /\ now' = clock /\ UNCHANGED wait
  <2>1. ClocksOK' /\ WakesInTime'
    BY <1>0, <1>4 DEF ClocksOK, WaitForSomething, WakesInTime
  <2>2. NowIsNear'
    <3>1. Minus(clock', now') = 0 /\ Signed(0) = 0
      BY <1>0, <1>4, Reduce, WidthIsPositive DEF Minus, Signed, Clocks, N
    <3>2. Apart' = 0
      BY <3>1 DEF Apart, Minus
    <3>3. Delays # {}
      BY <1>0, <1>4, ListFacts DEF ClockSetBack
    <3>4. setbacks' \in Int /\ -(setbacks' * 0) <= Apart'
      BY <1>0, <3>2 DEF ClocksOK
    <3> QED
      BY <1>0, <3>2, <3>3, <3>4 DEF NowIsNear
  <2>3. setbacks # 0
    <3>1. CASE setbacks = 0
      <4>1. /\ timers[1] \in Linked /\ Ahead(timers[1]) = left[timers[1]] /\ left[timers[1]] \in Int
            /\ left[timers[1]] <= delta[timers[1]] /\ delta[timers[1]] \in Nat
        BY <1>0, <1>2, <1>4, <3>1, AheadIsLeft, ListFacts DEF ClockSetBack
      <4> QED
        BY <1>0, <1>4, <4>1 DEF ClockSetBack
    <3> QED
      BY <3>1
  <2> QED
    BY <1>0, <1>1, <1>4, <2>1, <2>2, <2>3 DEF TimersInv
<1>5. CASE /\ ~ClockSetBack /\ tpc' = "asleep" /\ UNCHANGED now
           /\ wait' = IF timers = <<>> THEN Forever ELSE TimeToSleep(clock)
  <2>1. timers # <<>> => wait' = IF Ahead(timers[1]) < 0 THEN 0 ELSE Ahead(timers[1])
    BY <1>5 DEF TimeToSleep, Ahead
  <2>2. ClocksOK'
    BY <1>0, <1>2, <1>5, <2>1 DEF ClocksOK, WaitForSomething
  <2>3. timers # <<>> => wait' # Forever /\ wait' <= delta[timers[1]] + Slack + MaxLate
    BY <1>0, <1>2, <1>5, <2>1 DEF ClockSetBack, Forever
  <2>4. ASSUME timers # <<>>, setbacks = 0, NEW t \in Linked PROVE wait' = 0 \/ wait' <= left[t]
    <3>1. /\ Ahead(timers[1]) = left[timers[1]] /\ left[timers[1]] \in Int
          /\ left[t] \in Int /\ left[timers[1]] <= left[t]
      BY <1>0, <1>2, <2>4, AheadIsLeft, FirstIsEarliest, ListFacts
    <3> QED
      BY <2>1, <2>4, <3>1
  <2>5. WakesInTime'
    BY <1>0, <2>3, <2>4 DEF WakesInTime, Linked
  <2> QED
    BY <1>0, <1>1, <1>5, <2>2, <2>5 DEF TimersInv
<1> QED
  BY <1>3, <1>4, <1>5 DEF WaitForSomething

LEMMA WakeOK ==
    ASSUME TimersInv, NEW result, NEW input, SelectReturns(result, input)
    PROVE  TimersInv'
<1>0. /\ Sound(TheList) /\ ClocksOK /\ clock \in Clocks /\ MaxLate \in Nat
      /\ setbacks = 0 => OnTime(TheList, clock)
      /\ tpc' \in {"dispatch", "firing"}
      /\ tpc' = "firing" => now' = clock
      /\ UNCHANGED <<timers, expires, delta, left, clock, setbacks>>
  BY TimersAssumption DEF TimersInv, ClocksOK, SelectReturns
<1>1. Sound(TheList)' /\ (setbacks = 0 => OnTime(TheList, clock)')
  BY <1>0 DEF TheList
<1>2. ClocksOK' /\ WakesInTime'
  BY <1>0 DEF ClocksOK, SelectReturns, WakesInTime
<1>3. ASSUME tpc' = "firing" PROVE Young(TheList, Minus(clock, now))'
  <2>1. Minus(clock', now') = 0
    BY <1>0, <1>3, Reduce, WidthIsPositive DEF Minus, Clocks, N
  <2>2. ASSUME NEW t \in Linked PROVE left[t] + 0 <= delta[t] + MaxLate
    <3>1. left[t] \in Int /\ delta[t] \in Nat /\ left[t] <= delta[t]
      BY <1>0, ListFacts, DelayBound
    <3> QED
      BY <1>0, <3>1
  <2>3. Young(TheList, 0)
    BY <2>2 DEF Young, TheList, Linked
  <2> QED
    BY <1>0, <2>1, <2>3 DEF TheList, Minus
<1> QED
  BY <1>0, <1>1, <1>2, <1>3 DEF TimersInv

LEMMA FiringEndsOK == ASSUME TimersInv, FiringEnds PROVE TimersInv'
<1>1. 0 \in Clocks
  BY WidthIsPositive DEF Clocks
<1> QED
  BY <1>1 DEF TimersInv, ClocksOK, FiringEnds, WakesInTime, TheList

-----------------------------------------------------------------------------
(* CheckAllTimers and the clock.                                            *)

LEMMA SetbacksBound ==
    ASSUME NEW b \in 0 .. MaxSetbacks, NEW r \in Setbacks \cup {0}, NEW d \in Delays
    PROVE  b * r \in Nat /\ r \in Nat /\ 2 * (d + Slack + b * r + MaxLate) < N
<1>1. /\ d \in Nat /\ Slack \in Nat /\ MaxLate \in Nat /\ MaxSetbacks \in Nat /\ r \in Nat
      /\ 2 * (d + Slack + MaxSetbacks * r + MaxLate) < N
  BY DelayBound
<1>2. b \in Nat /\ b <= MaxSetbacks
  BY <1>1
<1>3. \A x, y, z \in Nat : x <= y => x * z \in Nat /\ y * z \in Nat /\ x * z <= y * z
  OBVIOUS
<1>4. b * r \in Nat /\ MaxSetbacks * r \in Nat /\ b * r <= MaxSetbacks * r
  BY <1>1, <1>2, <1>3
<1> QED
  BY <1>1, <1>4, WidthIsPositive

LEMMA CheckOK == ASSUME TimersInv, CheckAllTimers PROVE TimersInv'
<1>0. /\ Sound(TheList) /\ ClocksOK /\ clock \in Clocks /\ now \in Clocks /\ tpc = "check"
      /\ setbacks # 0 /\ setbacks \in 0 .. MaxSetbacks /\ NowIsNear
      /\ UNCHANGED <<clock, someReady, setbacks>>
  BY DEF TimersInv, ClocksOK, CheckAllTimers
<1>1. CASE Affected # {}
  <2>1. PICK i \in DOMAIN timers : CallTimer(timers[i])
    BY <1>1 DEF CheckAllTimers
  <2>2. timers[i] \in Timers
    BY <1>0, <2>1, ListFacts
  <2>3. KeepsTheList
    BY <1>0, <2>1, <2>2, CallTimerOK
  <2> QED
    BY <1>0, <1>1, <2>3, ListChanges DEF CheckAllTimers
<1>2. CASE Affected = {}
  <2>1. /\ tpc' = "asleep" /\ now' = 0 /\ UNCHANGED <<timers, expires, delta, left>>
        /\ wait' = IF timers = <<>> THEN Forever ELSE TimeToSleep(now)
    BY <1>2 DEF CheckAllTimers
  <2>2. Sound(TheList)'
    BY <1>0, <2>1 DEF TheList
  <2>3. ASSUME timers # <<>>
        PROVE  TimeToSleep(now) \in Nat /\ TimeToSleep(now) <= delta[timers[1]] + Slack + MaxLate
    <3> DEFINE t == timers[1]
               d == delta[t]
               u == Minus(expires[t], clock)
               k == Apart
    <3>1. t \in Linked /\ expires[t] \in Clocks /\ d \in Delays
      BY <1>0, <2>3, ListFacts
    <3>2. u \in Clocks /\ expires[t] = Shift(clock, u)
      BY <1>0, <3>1, DistanceOf
    <3>3. u <= d + Slack
      <4>1. ~(u > d + Slack)
        BY <1>2, <3>1 DEF Affected
      <4>2. d \in Nat /\ Slack \in Nat /\ u \in Int
        BY <3>1, <3>2, DelayBound, WidthIsPositive DEF Clocks
      <4> HIDE DEF d, u
      <4> QED
        BY <4>1, <4>2
    <3>4. k \in Int /\ -N <= 2 * k /\ 2 * k < N /\ clock = Shift(now, k)
      BY <1>0, DistanceOf DEF Apart
    <3>5. PICK r \in Setbacks \cup {0} : -(setbacks * r) <= k
      BY <1>0 DEF NowIsNear
    <3>6. k <= MaxLate
      BY <1>0 DEF NowIsNear
    <3> DEFINE past == setbacks * r
    <3>7. /\ past \in Nat /\ 2 * (d + Slack + past + MaxLate) < N /\ -past <= k
          /\ d \in Nat /\ Slack \in Nat /\ MaxLate \in Nat
      BY <1>0, <3>1, <3>5, SetbacksBound, DelayBound
    <3> HIDE DEF d, u, k, past
    <3>8. /\ k \in -N .. N /\ u \in -N .. N /\ k + u \in -N .. N /\ k + u \in Int
          /\ -N <= 2 * (k + u) /\ 2 * (k + u) < N /\ k + u <= d + Slack + MaxLate
      BY <3>2, <3>3, <3>4, <3>6, <3>7, WidthIsPositive DEF Clocks
    <3>9. expires[t] = Shift(now, k + u)
      BY <1>0, <3>2, <3>4, <3>8, ShiftShift
    <3>10. Signed(Minus(expires[t], now)) = k + u
      BY <1>0, <3>8, <3>9, SignedIsDistance
    <3>11. TimeToSleep(now) = IF k + u < 0 THEN 0 ELSE k + u
      BY <3>10 DEF TimeToSleep
    <3> QED
      BY <3>7, <3>8, <3>11 DEF d
  <2>4. ClocksOK'
    <3>1. 0 \in Clocks
      BY WidthIsPositive DEF Clocks
    <3> QED
      BY <1>0, <2>1, <2>3, <3>1 DEF ClocksOK
  <2>5. WakesInTime'
    BY <1>0, <2>1, <2>3 DEF WakesInTime, Forever
  <2> QED
    BY <1>0, <2>1, <2>2, <2>4, <2>5 DEF TimersInv
<1> QED
  BY <1>1, <1>2

LEMMA SetBackOK == ASSUME TimersInv, NEW r \in Setbacks, SetBack(r) PROVE TimersInv'
<1>0. /\ Sound(TheList) /\ ClocksOK /\ clock \in Clocks /\ now \in Clocks
      /\ setbacks \in Nat /\ setbacks < MaxSetbacks /\ setbacks' = setbacks + 1 /\ r \in Nat \ {0}
      /\ MaxSetbacks \in Nat
      /\ UNCHANGED <<timers, expires, delta, left, tpc, now, wait, someReady>>
  BY TimersAssumption DEF TimersInv, ClocksOK, SetBack
<1>1. clock' = Shift(clock, -r)
  BY <1>0 DEF SetBack, Minus, Shift, N, Clocks
<1>2. clock' \in Clocks
  BY <1>0, <1>1, ShiftInRange
<1>3. /\ Sound(TheList)' /\ ClocksOK' /\ setbacks' # 0
  BY <1>0, <1>2 DEF TheList, ClocksOK
<1>4. WakesInTime'
  BY <1>0 DEF TimersInv, WakesInTime
<1>5. ASSUME tpc = "check" PROVE NowIsNear'
  <2> DEFINE k == Apart
  <2>1. PICK R \in Setbacks \cup {0} : -(setbacks * R) <= k
    BY <1>5 DEF TimersInv, NowIsNear
  <2>2. k <= MaxLate /\ Delays # {}
    BY <1>5 DEF TimersInv, NowIsNear
  <2>3. PICK d \in Delays : TRUE
    BY <2>2
  <2>4. k \in Int /\ -N <= 2 * k /\ 2 * k < N /\ clock = Shift(now, k)
    BY <1>0, DistanceOf DEF Apart
  <2> DEFINE longer == IF R >= r THEN R ELSE r
  <2>5. R \in Nat /\ longer \in Setbacks \cup {0} /\ longer \in Nat /\ R <= longer /\ r <= longer
    BY <1>0, <2>3, DelayBound
  <2> HIDE DEF longer, k
  <2>6. \A x, y, z \in Nat : y <= z => x * y \in Nat /\ x * y <= x * z /\ (x + 1) * z = x * z + z
    OBVIOUS
  <2>7. setbacks * R \in Nat /\ setbacks * R <= setbacks * longer /\ (setbacks + 1) * longer = setbacks * longer + longer
    BY <1>0, <2>5, <2>6
  <2> DEFINE past == (setbacks + 1) * longer
             before == setbacks * longer
  <2>8. past \in Nat /\ d \in Nat /\ Slack \in Nat /\ MaxLate \in Nat /\ 2 * (d + Slack + past + MaxLate) < N
    <3>1. setbacks + 1 \in 0 .. MaxSetbacks
      BY <1>0
    <3> QED
      BY <2>3, <2>5, <3>1, SetbacksBound, DelayBound
  <2>9. before \in Int /\ past = before + longer /\ -before <= k
    <3>1. before \in Nat
      BY <1>0, <2>5
    <3>2. setbacks * R \in Nat /\ setbacks * R <= before
      BY <2>7
    <3> DEFINE was == setbacks * R
    <3>3. -was <= k /\ was \in Nat /\ was <= before
      BY <2>1, <3>2
    <3> HIDE DEF was, before
    <3>4. -before <= k
      BY <2>4, <3>1, <3>3
    <3> QED
      BY <2>7, <3>1, <3>4 DEF before
  <2> HIDE DEF past, before
  <2>10. /\ -past <= k - r /\ k - r \in Int /\ -N <= 2 * (k - r) /\ 2 * (k - r) < N /\ k - r <= MaxLate
         /\ k \in -N .. N /\ -r \in -N .. N /\ k + (-r) \in -N .. N /\ k + (-r) = k - r
    BY <1>0, <2>2, <2>4, <2>5, <2>8, <2>9, WidthIsPositive
  <2>11. clock' = Shift(now, k - r)
    <3>1. Shift(Shift(now, k), -r) = Shift(now, k + (-r))
      BY <1>0, <2>10, ShiftShift
    <3> QED
      BY <1>1, <2>4, <2>10, <3>1
  <2>12. Signed(Minus(clock', now)) = k - r
    BY <1>0, <2>10, <2>11, SignedIsDistance
  <2>13. Apart' = k - r
    BY <1>0, <2>12 DEF Apart, Minus, Signed
  <2> QED
    BY <1>0, <2>2, <2>5, <2>10, <2>13 DEF NowIsNear, past
<1> QED
  BY <1>0, <1>3, <1>4, <1>5 DEF TimersInv

LEMMA TickOK == ASSUME TimersInv, Tick PROVE TimersInv'
<1>0. /\ Sound(TheList) /\ ClocksOK /\ clock \in Clocks /\ now \in Clocks
      /\ UNCHANGED <<timers, expires, delta, tpc, now, someReady, setbacks>>
      /\ left' = [t \in Timers |-> IF t \in Linked THEN left[t] - 1 ELSE left[t]]
      /\ wait' = IF wait > 0 THEN wait - 1 ELSE wait
      /\ setbacks = 0 => OnTime(TheList, clock) /\ tpc # "check"
      /\ MaxLate \in Nat
  BY TimersAssumption DEF TimersInv, ClocksOK, Tick
<1>1. clock' = Shift(clock, 1) /\ clock' \in Clocks
  BY <1>0, ShiftInRange DEF Tick, Shift, N
<1>2. /\ timers \in Seq(Timers) /\ Linked \subseteq Timers /\ Linked' = Linked
      /\ \A i \in 1 .. Len(timers) : timers[i] \in Linked
      /\ \A t \in Linked : /\ left[t] \in Int /\ left'[t] = left[t] - 1 /\ delta[t] \in Delays
                           /\ left[t] <= delta[t] /\ delta[t] \in Nat
  BY <1>0, ListFacts, DelayBound DEF Linked
<1>3. Sound(TheList)'
  <2>1. left' \in [Timers -> Int]
    BY <1>0, <1>2 DEF Sound, Lists, TheList
  <2>2. TheList' \in Lists
    BY <1>0, <2>1 DEF Sound, Lists, TheList
  <2>3. \A t \in Linked : left'[t] <= delta[t]
    BY <1>2
  <2> QED
    BY <1>0, <1>2, <2>2, <2>3 DEF Sound, TheList, Linked
<1>4. ClocksOK'
  <2>1. wait' \in Nat \cup {Forever}
    BY <1>0 DEF ClocksOK, Forever
  <2> QED
    BY <1>0, <1>1, <2>1 DEF ClocksOK
<1>5. ASSUME setbacks = 0, NEW t \in Linked
      PROVE  /\ -MaxLate < left[t]
             /\ left[t] \in -N .. N /\ left[t] - 1 \in -N .. N /\ 1 \in -N .. N
             /\ 2 * (delta[t] + MaxLate) < N
  <2>1. Ahead(t) > -MaxLate /\ Ahead(t) = left[t]
    BY <1>0, <1>5, AheadIsLeft DEF Tick
  <2>2. delta[t] \in Nat /\ Slack \in Nat /\ 2 * (delta[t] + Slack + MaxLate) < N
    BY <1>2, DelayBound
  <2>3. left[t] \in Int /\ left[t] <= delta[t]
    BY <1>2
  <2> DEFINE d == delta[t]
             k == left[t]
  <2>4. /\ d \in Nat /\ Slack \in Nat /\ 2 * (d + Slack + MaxLate) < N /\ k \in Int /\ k <= d /\ -MaxLate < k
    BY <2>1, <2>2, <2>3
  <2> HIDE DEF d, k
  <2>5. k \in -N .. N /\ k - 1 \in -N .. N /\ 1 \in -N .. N /\ 2 * (d + MaxLate) < N
    BY <1>0, <2>4, WidthIsPositive
  <2> QED
    BY <2>4, <2>5 DEF d, k
<1>6. setbacks = 0 => OnTime(TheList, clock)'
  <2> SUFFICES ASSUME setbacks = 0 PROVE OnTime(TheList, clock)'
    OBVIOUS
  <2>1. ASSUME NEW t \in Linked PROVE -MaxLate <= left'[t] /\ expires[t] = Shift(clock', left'[t])
    <3>1. left'[t] = left[t] - 1 /\ left[t] \in Int /\ -MaxLate <= left[t] - 1 /\ 1 + (left[t] - 1) = left[t]
      BY <1>0, <1>2, <1>5
    <3>2. expires[t] = Shift(clock, left[t])
      BY <1>0 DEF OnTime, TheList, Linked
    <3>3. Shift(Shift(clock, 1), left[t] - 1) = Shift(clock, 1 + (left[t] - 1))
      <4>1. 1 + (left[t] - 1) \in -N .. N
        BY <1>5, <3>1
      <4> QED
        BY <1>0, <1>5, <4>1, ShiftShift
    <3> QED
      BY <1>1, <3>1, <3>2, <3>3
  <2>2. ASSUME NEW i \in 1 .. Len(timers), NEW j \in 1 .. Len(timers), i < j
        PROVE  left'[timers[i]] <= left'[timers[j]]
    <3>1. left[timers[i]] <= left[timers[j]]
      BY <1>0, <2>2 DEF OnTime, TheList
    <3> QED
      BY <1>2, <3>1
  <2> QED
    BY <1>0, <2>1, <2>2 DEF OnTime, TheList, Linked
<1>7. setbacks = 0 /\ tpc = "firing" => Young(TheList, Minus(clock, now))'
  <2> SUFFICES ASSUME setbacks = 0, tpc = "firing" PROVE Young(TheList, Minus(clock, now))'
    OBVIOUS
  <2> DEFINE e == Minus(clock, now)
  <2>1. Young(TheList, e) /\ e \in Clocks /\ clock = Shift(now, e)
    BY <1>0, DistanceOf DEF TimersInv
  <2> HIDE DEF e
  <2>2. ASSUME NEW t \in Linked PROVE left'[t] + Minus(clock', now) <= delta[t] + MaxLate
    <3>1. left[t] + e <= delta[t] + MaxLate
      BY <2>1 DEF Young, TheList, Linked
    <3> DEFINE d == delta[t]
               k == left[t]
    <3>2. /\ k \in Int /\ d \in Nat /\ -MaxLate < k /\ 2 * (d + MaxLate) < N
          /\ k + e <= d + MaxLate /\ e \in 0 .. N - 1
      BY <1>2, <1>5, <2>1, <3>1 DEF Clocks
    <3> HIDE DEF d, k
    <3>3. e + 1 \in Clocks /\ e \in -N .. N /\ e + 1 \in -N .. N /\ e \in Int
      BY <1>0, <3>2, WidthIsPositive DEF Clocks
    <3> USE DEF d, k
    <3>4. clock' = Shift(now, e + 1)
      BY <1>0, <1>1, <1>5, <2>1, <3>3, ShiftShift
    <3>5. Minus(clock', now) = e + 1
      BY <1>0, <3>3, <3>4, MinusIsDistance
    <3>6. left'[t] = left[t] - 1 /\ left[t] \in Int
      BY <1>2
    <3> QED
      BY <3>1, <3>3, <3>5, <3>6
  <2>3. Minus(clock, now)' = Minus(clock', now)
    BY <1>0 DEF Minus
  <2> QED
    BY <1>0, <2>2, <2>3 DEF Young, TheList, Linked
<1>8. tpc = "check" => NowIsNear'
  <2> SUFFICES ASSUME tpc = "check" PROVE NowIsNear'
    OBVIOUS
  <2> DEFINE k == Apart
  <2>1. NowIsNear /\ k < MaxLate
    BY DEF TimersInv, Tick, Apart
  <2>2. k \in Int /\ -N <= 2 * k /\ 2 * k < N /\ clock = Shift(now, k)
    BY <1>0, DistanceOf DEF Apart
  <2>3. 2 * MaxLate < N
    <3>1. PICK d \in Delays : TRUE
      BY <2>1 DEF NowIsNear
    <3>2. d \in Nat /\ Slack \in Nat /\ 2 * (d + Slack + MaxLate) < N
      BY <3>1, DelayBound
    <3> QED
      BY <1>0, <3>2, WidthIsPositive
  <2> HIDE DEF k
  <2>4. /\ k \in -N .. N /\ 1 \in -N .. N /\ k + 1 \in -N .. N /\ k + 1 \in Int
        /\ -N <= 2 * (k + 1) /\ 2 * (k + 1) < N /\ k + 1 <= MaxLate
    BY <1>0, <2>1, <2>2, <2>3, WidthIsPositive
  <2>5. Signed(Minus(clock', now)) = k + 1
    BY <1>0, <1>1, <2>2, <2>4, ShiftShift, SignedIsDistance
  <2>6. Apart' = k + 1
    BY <1>0, <2>5 DEF Apart, Minus, Signed
  <2>7. PICK r \in Setbacks \cup {0} : -(setbacks * r) <= k
    BY <2>1 DEF NowIsNear, k
  <2>8. -(setbacks * r) <= k + 1
    <3>1. setbacks * r \in Int
      BY <1>0, TimersAssumption DEF ClocksOK
    <3> DEFINE past == setbacks * r
    <3>2. past \in Int /\ -past <= k
      BY <2>7, <3>1
    <3> HIDE DEF past
    <3>3. -past <= k + 1
      BY <2>2, <3>2
    <3> QED
      BY <3>3 DEF past
  <2> QED
    BY <1>0, <2>1, <2>4, <2>6, <2>7, <2>8 DEF NowIsNear
<1>9. WakesInTime'
  <2> SUFFICES ASSUME tpc = "asleep", timers # <<>>
               PROVE  /\ wait' # Forever
                      /\ wait' <= delta[timers[1]] + Slack + MaxLate
                      /\ setbacks = 0 => \A t \in Linked : wait' = 0 \/ wait' <= left'[t]
    BY <1>0, <1>2 DEF WakesInTime
  <2>1. /\ wait \in Nat /\ wait <= delta[timers[1]] + Slack + MaxLate
        /\ setbacks = 0 => \A t \in Linked : wait = 0 \/ wait <= left[t]
    BY DEF TimersInv, WakesInTime, ClocksOK
  <2>2. delta[timers[1]] \in Nat /\ Slack \in Nat
    BY <1>0, <1>2, ListFacts, TimersAssumption
  <2>3. wait' \in Nat /\ wait' <= wait
    BY <1>0, <2>1
  <2> DEFINE latest == delta[timers[1]] + Slack + MaxLate
  <2>4. wait' # Forever /\ wait' <= latest
    <3>1. latest \in Int /\ wait <= latest
      BY <1>0, <2>1, <2>2
    <3> HIDE DEF latest
    <3>2. wait' <= latest
      BY <2>1, <2>3, <3>1
    <3> QED
      BY <2>3, <3>2 DEF Forever
  <2> HIDE DEF latest
  <2>5. ASSUME setbacks = 0, NEW t \in Linked PROVE wait' = 0 \/ wait' <= left'[t]
    <3>1. wait = 0 \/ wait <= left[t]
      BY <2>1, <2>5
    <3>2. left[t] \in Int /\ left'[t] = left[t] - 1
      BY <1>2
    <3> QED
      BY <1>0, <2>1, <3>1, <3>2
  <2> QED
    BY <2>4, <2>5 DEF latest
<1> QED
  BY <1>0, <1>3, <1>4, <1>6, <1>7, <1>8, <1>9 DEF TimersInv

-----------------------------------------------------------------------------
LEMMA TimersInitOK == TimersInit => TimersInv
<1> SUFFICES ASSUME TimersInit PROVE TimersInv
  OBVIOUS
<1>1. 0 \in Clocks
  BY WidthIsPositive DEF Clocks
<1>2. timers = <<>> /\ ToSet(timers) = {} /\ Len(timers) = 0 /\ timers \in Seq(Timers) /\ IsInjective(timers)
  BY DEF TimersInit, ToSet, IsInjective
<1>3. Sound(TheList) /\ OnTime(TheList, clock)
  <2>1. TheList \in Lists
    BY <1>1, <1>2 DEF TimersInit, Lists, TheList
  <2>2. Sound(TheList)
    BY <1>2, <2>1 DEF Sound, TheList
  <2>3. TheList.list = timers
    BY DEF TheList
  <2>4. (\A i \in 1 .. Len(TheList.list) : FALSE) /\ (\A t \in ToSet(TheList.list) : FALSE)
    BY <1>2, <2>3
  <2>5. OnTime(TheList, clock)
    BY <2>4, Zenon DEF OnTime
  <2> QED
    BY <2>2, <2>5
<1>4. ClocksOK
  <2>1. MaxSetbacks \in Nat
    BY TimersAssumption
  <2>2. setbacks \in 0 .. MaxSetbacks
    BY <2>1 DEF TimersInit
  <2>3. /\ clock \in Clocks /\ now \in Clocks
        /\ tpc \in {"dispatch", "check", "asleep", "firing"} /\ wait \in Nat \cup {Forever}
    BY <1>1 DEF TimersInit
  <2>4. someReady \in BOOLEAN
    BY DEF TimersInit
  <2> QED
    BY <2>2, <2>3, <2>4 DEF ClocksOK
<1> QED
  BY <1>2, <1>3, <1>4 DEF TimersInit, TimersInv, WakesInTime

LEMMA TimersStepOK == TimersInv /\ [TimersNext]_timersVars => TimersInv'
<1> SUFFICES ASSUME TimersInv, [TimersNext]_timersVars PROVE TimersInv'
  OBVIOUS
<1>1. CASE UNCHANGED timersVars
  BY <1>1 DEF timersVars, TimersInv, ClocksOK, TheList, NowIsNear, Apart, Minus, Signed, WakesInTime, Linked
<1> QED
  BY <1>1, RequestsOK, SleepOK, CheckOK, WakeOK, FireNextOK, FiringEndsOK, TickOK, SetBackOK DEF TimersNext

LEMMA InTimeByInv == TimersInv => TimersInTime
<1> SUFFICES ASSUME TimersInv PROVE TimersInTime
  OBVIOUS
<1>1. WakesInTime
  BY DEF TimersInv
<1>2. FiresInOrder
  <2>1. setbacks = 0 => tpc # "check"
    BY DEF TimersInv
  <2>2. ASSUME setbacks = 0, tpc = "firing", Expired
        PROVE  left[timers[1]] <= 0 /\ \A t \in Linked : left[timers[1]] <= left[t]
    BY <2>2, ExpiredIsDue, FirstIsEarliest DEF TimersInv, Expired
  <2> QED
    BY <2>1, <2>2 DEF FiresInOrder
<1> QED
  BY <1>1, <1>2 DEF TimersInTime

\* The list is a list of timers without repetitions, and the times are times
\* (TimerSet, DoTimer).
THEOREM TimersTypeCorrect == TimersSpec => []TimersTypeOK
<1>1. TimersInv => TimersTypeOK
  BY DEF TimersInv, ClocksOK, Sound, Lists, TheList, TimersTypeOK, Clocks, N
<1> QED
  BY TimersInitOK, TimersStepOK, <1>1, PTL DEF TimersSpec

\* The server never sleeps past a timer, and calls timers when they are due and
\* in order, whatever callbacks do to the list and wherever the clock wraps
\* around (TimerSet, WaitForSomething, CheckAllTimers).
THEOREM TimersAreInTime == TimersSpec => []TimersInTime
<1> QED
  BY TimersInitOK, TimersStepOK, InTimeByInv, PTL DEF TimersSpec

-----------------------------------------------------------------------------
(* Output.  Sequences of bytes.                                            *)

\* What Blocked keeps of the buffer and of the message...
Rest(a, b, w) == IF w < Len(a) THEN SubSeq(a, w + 1, Len(a)) \o b
                               ELSE SubSeq(b, w - Len(a) + 1, Len(b))

LEMMA SubSeqBytes ==
    ASSUME NEW s \in Seq(Nat), NEW m \in 1 .. Len(s) + 1
    PROVE  /\ SubSeq(s, m, Len(s)) \in Seq(Nat)
           /\ Len(SubSeq(s, m, Len(s))) = Len(s) - m + 1
           /\ \A i \in 1 .. Len(s) - m + 1 : SubSeq(s, m, Len(s))[i] = s[m + i - 1]
<1>1. Len(s) \in Nat /\ \A i \in m .. Len(s) : s[i] \in Nat
  BY ElementOfSeq
<1>2. m \in Int /\ Len(s) \in Int
  BY <1>1
<1>3. /\ SubSeq(s, m, Len(s)) \in Seq(Nat)
      /\ Len(SubSeq(s, m, Len(s))) = IF m <= Len(s) THEN Len(s) - m + 1 ELSE 0
      /\ \A i \in 1 .. Len(s) - m + 1 : SubSeq(s, m, Len(s))[i] = s[m + i - 1]
  BY <1>1, <1>2, SubSeqProperties
<1> QED
  BY <1>1, <1>3

\* ... is the rest of the two.
LEMMA RestOfBoth ==
    ASSUME NEW a \in Seq(Nat), NEW b \in Seq(Nat), NEW w \in 0 .. Len(a) + Len(b)
    PROVE  /\ Rest(a, b, w) \in Seq(Nat) /\ Len(Rest(a, b, w)) = Len(a) + Len(b) - w
           /\ Rest(a, b, w) = SubSeq(a \o b, w + 1, Len(a \o b))
<1> DEFINE all == Rest(a, b, w)
           rest == SubSeq(a \o b, w + 1, Len(a \o b))
<1>1. /\ Len(a) \in Nat /\ Len(b) \in Nat /\ a \o b \in Seq(Nat)
      /\ Len(a \o b) = Len(a) + Len(b)
      /\ \A i \in 1 .. Len(a) + Len(b) : (a \o b)[i] = IF i <= Len(a) THEN a[i] ELSE b[i - Len(a)]
  BY ConcatProperties
<1>2. /\ rest \in Seq(Nat) /\ Len(rest) = Len(a) + Len(b) - w
      /\ \A i \in 1 .. Len(a) + Len(b) - w : rest[i] = (a \o b)[w + i]
  <2>1. w + 1 \in 1 .. Len(a \o b) + 1
    BY <1>1
  <2>2. /\ rest \in Seq(Nat) /\ Len(rest) = Len(a \o b) - (w + 1) + 1
        /\ \A i \in 1 .. Len(a \o b) - (w + 1) + 1 : rest[i] = (a \o b)[w + 1 + i - 1]
    BY <1>1, <2>1, SubSeqBytes
  <2> HIDE DEF rest
  <2>3. Len(rest) = Len(a) + Len(b) - w
    BY <1>1, <2>2
  <2>4. ASSUME NEW i \in 1 .. Len(a) + Len(b) - w PROVE rest[i] = (a \o b)[w + i]
    <3>1. i \in 1 .. Len(a \o b) - (w + 1) + 1 /\ w + 1 + i - 1 = w + i
      BY <1>1
    <3> QED
      BY <2>2, <3>1
  <2> QED
    BY <2>2, <2>3, <2>4
<1> HIDE DEF rest, all
<1>3. CASE w < Len(a)
  <2> DEFINE s == SubSeq(a, w + 1, Len(a))
  <2>1. /\ s \in Seq(Nat) /\ Len(s) = Len(a) - w
        /\ \A i \in 1 .. Len(a) - w : s[i] = a[w + i]
    <3>1. w + 1 \in 1 .. Len(a) + 1
      BY <1>1, <1>3
    <3>2. /\ s \in Seq(Nat) /\ Len(s) = Len(a) - (w + 1) + 1
          /\ \A i \in 1 .. Len(a) - (w + 1) + 1 : s[i] = a[w + 1 + i - 1]
      BY <3>1, SubSeqBytes
    <3> HIDE DEF s
    <3> QED
      BY <1>1, <3>2
  <2>2. all = s \o b
    BY <1>3 DEF all, Rest
  <2> HIDE DEF s
  <2>3. /\ all \in Seq(Nat) /\ Len(all) = Len(s) + Len(b)
        /\ \A i \in 1 .. Len(s) + Len(b) : all[i] = IF i <= Len(s) THEN s[i] ELSE b[i - Len(s)]
    BY <2>1, <2>2, ConcatProperties
  <2>4. Len(all) = Len(a) + Len(b) - w
    BY <1>1, <2>1, <2>3
  <2>5. ASSUME NEW i \in 1 .. Len(all) PROVE all[i] = rest[i]
    <3>1. rest[i] = (a \o b)[w + i] /\ w + i \in 1 .. Len(a) + Len(b)
      BY <1>1, <1>2, <2>4
    <3>2. all[i] = IF i <= Len(s) THEN s[i] ELSE b[i - Len(s)]
      BY <2>3
    <3>3. CASE i <= Len(s)
      BY <1>1, <2>1, <3>1, <3>2, <3>3
    <3>4. CASE ~(i <= Len(s))
      <4>1. i - Len(s) = w + i - Len(a) /\ ~(w + i <= Len(a))
        BY <1>1, <2>1, <3>4
      <4> QED
        BY <1>1, <3>1, <3>2, <3>4, <4>1
    <3> QED
      BY <3>3, <3>4
  <2>6. all = rest
    BY <1>2, <2>3, <2>4, <2>5, SeqEqual
  <2> QED
    BY <2>3, <2>4, <2>6 DEF all, rest
<1>4. CASE ~(w < Len(a))
  <2>1. all = SubSeq(b, w - Len(a) + 1, Len(b))
    BY <1>4 DEF all, Rest
  <2>2. w - Len(a) + 1 \in 1 .. Len(b) + 1
    BY <1>1, <1>4
  <2>3. /\ all \in Seq(Nat) /\ Len(all) = Len(b) - (w - Len(a) + 1) + 1
        /\ \A i \in 1 .. Len(b) - (w - Len(a) + 1) + 1 : all[i] = b[w - Len(a) + 1 + i - 1]
    BY <2>1, <2>2, SubSeqBytes
  <2>4. Len(all) = Len(a) + Len(b) - w
    BY <1>1, <2>3
  <2>5. ASSUME NEW i \in 1 .. Len(all) PROVE all[i] = rest[i]
    <3>1. rest[i] = (a \o b)[w + i] /\ w + i \in 1 .. Len(a) + Len(b)
      BY <1>1, <1>2, <2>4
    <3>2. all[i] = b[w - Len(a) + 1 + i - 1]
      BY <2>3
    <3>3. w - Len(a) + 1 + i - 1 = w + i - Len(a) /\ ~(w + i <= Len(a))
      BY <1>1, <1>4, <2>4
    <3> QED
      BY <1>1, <3>1, <3>2, <3>3
  <2>6. all = rest
    BY <1>2, <2>3, <2>4, <2>5, SeqEqual
  <2> QED
    BY <2>3, <2>4, <2>6 DEF all, rest
<1> QED
  BY <1>3, <1>4

\* What a transport takes of the two.
LEMMA FirstOfBoth ==
    ASSUME NEW a \in Seq(Nat), NEW b \in Seq(Nat), NEW w \in 0 .. Len(a) + Len(b)
    PROVE  /\ SubSeq(a \o b, 1, w) \in Seq(Nat)
           /\ w = 0 => SubSeq(a \o b, 1, w) = <<>>
<1>1. /\ a \o b \in Seq(Nat) /\ Len(a \o b) = Len(a) + Len(b)
  BY ConcatProperties
<1>2. \A i \in 1 .. w : (a \o b)[i] \in Nat
  BY <1>1, ElementOfSeq
<1> QED
  BY <1>1, <1>2, SubSeqProperties, SubSeqEmpty

LEMMA MessageIsBytes ==
    ASSUME OutputTypeOK, NEW c \in OClients, NEW n \in Sizes
    PROVE  /\ Pads(n) \in Nat /\ n \in Nat \ {0}
           /\ Message(c, n) \in Seq(Nat)
           /\ Len(Message(c, n)) = n + Pads(n) /\ Len(Message(c, n)) > 0
           /\ DOMAIN Message(c, n) = 1 .. n + Pads(n)
<1>1. n \in Nat \ {0} /\ Align \in Nat \ {0}
  BY OutputAssumption
<1>2. Pads(n) \in Nat
  BY <1>1 DEF Pads
<1>3. Len(received[c]) \in Nat /\ Len(out[c]) \in Nat
  BY DEF OutputTypeOK
<1>4. \A i \in 1 .. n + Pads(n) :
        (IF i <= n THEN Len(received[c]) + Len(out[c]) + i ELSE 0) \in Nat
  <2> DEFINE k == Len(received[c]) + Len(out[c])
  <2>1. k \in Nat
    <3>1. \A x, y \in Nat : x + y \in Nat
      OBVIOUS
    <3> QED
      BY <1>3, <3>1, Zenon
  <2> HIDE DEF k
  <2>2. \A i \in 1 .. n + Pads(n) : (IF i <= n THEN k + i ELSE 0) \in Nat
    BY <1>1, <1>2, <2>1
  <2> QED
    BY <2>2 DEF k
<1>5. n + Pads(n) \in Nat
  BY <1>1, <1>2
<1> HIDE DEF Pads
<1>6. Message(c, n) \in [1 .. n + Pads(n) -> Nat]
  BY <1>4 DEF Message
<1>7. Message(c, n) \in Seq(Nat) /\ Len(Message(c, n)) = n + Pads(n)
  BY <1>5, <1>6
<1> QED
  BY <1>1, <1>2, <1>6, <1>7

-----------------------------------------------------------------------------
(* What is inductive: besides the types and the property, only clients that  *)
(* are there are flushed, and only while FlushAllOutput runs.                *)

OutputInv ==
    /\ OutputTypeOK
    /\ NoOutputIsStuck
    /\ flushing \subseteq present
    /\ opc # "flush" => flushing = {}

LEMMA OutputInitOK == OutputInit => OutputInv
<1> SUFFICES ASSUME OutputInit PROVE OutputInv
  OBVIOUS
<1> USE OutputAssumption DEF OutputInit
<1>1. OutputTypeOK
  <2>1. /\ out \in [OClients -> Seq(Nat)] /\ received \in [OClients -> Seq(Nat)]
        /\ \A c \in OClients : Len(out[c]) <= size[c]
    BY EmptySeq
  <2>2. size \in [OClients -> Nat] /\ room \in [OClients -> 0 .. Room] /\ 0 \in 0 .. MaxRequests
    OBVIOUS
  <2> QED
    BY <2>1, <2>2 DEF OutputTypeOK
<1>2. NoOutputIsStuck
  BY DEF NoOutputIsStuck
<1> QED
  BY <1>1, <1>2 DEF OutputInv

\* What writing to, flushing or closing c does to its buffer: the others keep
\* theirs, and what is left in that of c waits until c can take more.
OnlyOf(c) ==
    /\ out' \in [OClients -> Seq(Nat)] /\ received' \in [OClients -> Seq(Nat)]
    /\ size' \in [OClients -> Nat] /\ room' \in [OClients -> 0 .. Room]
    /\ Len(out'[c]) <= size'[c]
    /\ \A d \in OClients \ {c} : out'[d] = out[d] /\ size'[d] = size[d] /\ received'[d] = received[d]
    /\ open' \subseteq open /\ open \ {c} \subseteq open'

BlocksOnly(c) ==
    /\ writeBlocked' \ {c} = writeBlocked \ {c}
    /\ anyBlocked' \in BOOLEAN /\ (anyBlocked' <=> writeBlocked' # {})

LEMMA FlushKeeps ==
    ASSUME OutputInv, NEW c \in present, NEW s \in Nat, NEW msg \in Seq(Nat), NEW enough,
           Len(out[c]) <= s, s = 0 => size[c] = 0,
           FlushClient(c, s, msg, enough)
    PROVE  /\ OnlyOf(c) /\ BlocksOnly(c)
           /\ c \in open' /\ out'[c] # <<>> => c \in writeBlocked'
<1> USE OutputAssumption
<1>0. /\ c \in OClients /\ out \in [OClients -> Seq(Nat)] /\ received \in [OClients -> Seq(Nat)]
      /\ size \in [OClients -> Nat] /\ room \in [OClients -> 0 .. Room]
      /\ open \subseteq OClients /\ Len(out[c]) <= size[c]
      /\ out[c] \in Seq(Nat) /\ Len(out[c]) \in Nat /\ Len(msg) \in Nat /\ room[c] \in 0 .. Room
      /\ writeBlocked \subseteq OClients /\ anyBlocked \in BOOLEAN
      /\ anyBlocked <=> writeBlocked # {}
      /\ Room \in Nat /\ BufSize \in Nat
  BY DEF OutputInv, OutputTypeOK, NoOutputIsStuck
<1> DEFINE n == Len(out[c]) + Len(msg)
           w == IF n <= room[c] THEN n ELSE room[c]
<1>1. w \in 0 .. Len(out[c]) + Len(msg) /\ room[c] - w \in 0 .. Room
  BY <1>0
<1>2. CASE s = 0 /\ UNCHANGED <<bufferVars, writeBlocked, anyBlocked>>
  <2>1. out[c] = <<>>
    BY <1>0, <1>2, EmptySeq
  <2> QED
    BY <1>0, <1>2, <2>1 DEF bufferVars, OnlyOf, BlocksOnly
<1>3. CASE Aborted(c, s) /\ UNCHANGED <<received, room, writeBlocked, anyBlocked>>
  <2>1. OnlyOf(c)
    BY <1>0, <1>3, EmptySeq DEF Aborted, OnlyOf
  <2>2. BlocksOnly(c) /\ c \notin open'
    BY <1>0, <1>3 DEF Aborted, BlocksOnly
  <2> QED
    BY <2>1, <2>2
<1>4. CASE /\ room' = [room EXCEPT ![c] = @ - w]
           /\ received' = [received EXCEPT ![c] = @ \o SubSeq(out[c] \o msg, 1, w)]
           /\ \/ w = n /\ Flushed(c)
              \/ w < n /\ Blocked(c, s, msg, w)
              \/ Aborted(c, s) /\ writeBlocked' = writeBlocked \cup {c} /\ anyBlocked' = TRUE
  <2>1. room' \in [OClients -> 0 .. Room] /\ received' \in [OClients -> Seq(Nat)]
        /\ \A d \in OClients \ {c} : received'[d] = received[d]
    <3>1. SubSeq(out[c] \o msg, 1, w) \in Seq(Nat)
      BY <1>0, <1>1, FirstOfBoth
    <3>2. received[c] \o SubSeq(out[c] \o msg, 1, w) \in Seq(Nat)
      BY <1>0, <3>1, ConcatProperties
    <3> HIDE DEF n, w
    <3> QED
      BY <1>0, <1>1, <1>4, <3>2
  <2>2. CASE Flushed(c)
    <3>1. OnlyOf(c)
      BY <1>0, <2>1, <2>2, EmptySeq DEF Flushed, OnlyOf
    <3>2. BlocksOnly(c) /\ out'[c] = <<>>
      BY <1>0, <2>2 DEF Flushed, BlocksOnly
    <3> QED
      BY <3>1, <3>2
  <2>3. CASE Blocked(c, s, msg, w)
    <3> DEFINE all == Rest(out[c], msg, w)
    <3>1. all \in Seq(Nat) /\ Len(all) \in Nat
      <4> HIDE DEF n, w
      <4> QED
        BY <1>0, <1>1, RestOfBoth
    <3>2. /\ writeBlocked' = writeBlocked \cup {c} /\ anyBlocked' = TRUE
          /\ out' = [out EXCEPT ![c] = all]
          /\ size' = [size EXCEPT ![c] = IF Len(all) > s THEN Len(all) + BufSize ELSE s]
          /\ open' = open
      BY <2>3 DEF Blocked, Rest
    <3> HIDE DEF all, n, w
    <3> QED
      BY <1>0, <2>1, <3>1, <3>2 DEF OnlyOf, BlocksOnly
  <2>4. CASE Aborted(c, s) /\ writeBlocked' = writeBlocked \cup {c} /\ anyBlocked' = TRUE
    BY <1>0, <2>1, <2>4, EmptySeq DEF Aborted, OnlyOf, BlocksOnly
  <2> QED
    BY <1>4, <2>2, <2>3, <2>4
<1> QED
  BY <1>2, <1>3, <1>4 DEF FlushClient

LEMMA WriteKeeps ==
    ASSUME OutputInv, flushing = {}, NEW c \in present, NEW n \in Sizes, NEW enough \in BOOLEAN,
           WriteToClient(c, n, enough)
    PROVE  /\ OnlyOf(c) /\ BlocksOnly(c)
           /\ outPending' \ {c} = outPending \ {c}
           /\ newOutput' \in BOOLEAN /\ (outPending' # {} => newOutput')
           /\ c \in open' /\ out'[c] # <<>> => c \in outPending' \cup writeBlocked'
<1> USE OutputAssumption
<1>0. /\ c \in OClients /\ out \in [OClients -> Seq(Nat)] /\ received \in [OClients -> Seq(Nat)]
      /\ size \in [OClients -> Nat] /\ room \in [OClients -> 0 .. Room]
      /\ open \subseteq OClients /\ Len(out[c]) <= size[c]
      /\ out[c] \in Seq(Nat) /\ Len(out[c]) \in Nat
      /\ anyBlocked \in BOOLEAN /\ newOutput \in BOOLEAN
      /\ anyBlocked <=> writeBlocked # {}
      /\ outPending # {} => newOutput
      /\ BufSize \in Nat
  BY DEF OutputInv, OutputTypeOK, NoOutputIsStuck
<1> DEFINE msg == Message(c, n)
           s == IF size[c] = 0 THEN BufSize ELSE size[c]
<1>1. /\ msg \in Seq(Nat) /\ Len(msg) \in Nat /\ s \in Nat
      /\ Len(out[c]) <= s /\ (s = 0 => size[c] = 0)
  BY <1>0, MessageIsBytes DEF OutputInv
<1>2. CASE Aborted(c, 0) /\ UNCHANGED <<received, room, outPending, newOutput, writeBlocked, anyBlocked>>
  <2>1. OnlyOf(c) /\ c \notin open'
    BY <1>0, <1>2, EmptySeq DEF Aborted, OnlyOf
  <2> QED
    BY <1>0, <1>2, <2>1 DEF BlocksOnly
<1>3. CASE /\ outPending' = outPending \ {c}
           /\ newOutput' = (newOutput /\ outPending' # {})
           /\ FlushClient(c, s, msg, enough)
  <2>1. /\ OnlyOf(c) /\ BlocksOnly(c)
        /\ c \in open' /\ out'[c] # <<>> => c \in writeBlocked'
    <3> HIDE DEF msg, s
    <3> QED
      BY <1>1, <1>3, FlushKeeps
  <2> QED
    BY <1>0, <1>3, <2>1
<1>4. CASE Len(out[c]) + Len(msg) <= s /\ Buffered(c, s, msg)
  <2>1. out[c] \o msg \in Seq(Nat) /\ Len(out[c] \o msg) = Len(out[c]) + Len(msg)
    BY <1>0, <1>1, ConcatProperties
  <2>2. /\ out' = [out EXCEPT ![c] = out[c] \o msg]
        /\ size' = [size EXCEPT ![c] = s]
        /\ outPending' = outPending \cup {c} /\ newOutput' = TRUE
        /\ UNCHANGED <<open, received, room, writeBlocked, anyBlocked>>
    BY <1>4 DEF Buffered
  <2> HIDE DEF msg, s
  <2> QED
    BY <1>0, <1>1, <1>4, <2>1, <2>2 DEF OnlyOf, BlocksOnly
<1>5. \/ Aborted(c, 0) /\ UNCHANGED <<received, room, outPending, newOutput, writeBlocked, anyBlocked>>
      \/ /\ Len(out[c]) + Len(msg) > s
         /\ outPending' = outPending \ {c}
         /\ newOutput' = (newOutput /\ outPending' # {})
         /\ FlushClient(c, s, msg, enough)
      \/ ~(Len(out[c]) + Len(msg) > s) /\ Buffered(c, s, msg)
  BY DEF WriteToClient
<1>6. ~(Len(out[c]) + Len(msg) > s) => Len(out[c]) + Len(msg) <= s
  BY <1>0, <1>1
<1> HIDE DEF msg, s
<1> QED
  BY <1>2, <1>3, <1>4, <1>5, <1>6

-----------------------------------------------------------------------------
(* The steps.                                                               *)

\* A step that writes to, or flushes, one client.
LEMMA AfterOutput ==
    ASSUME OutputInv, NEW c \in present, OnlyOf(c), BlocksOnly(c),
           outPending' \ {c} = outPending \ {c},
           newOutput' \in BOOLEAN, outPending' # {} => newOutput',
           c \in open' /\ out'[c] # <<>> => c \in outPending' \cup writeBlocked',
           flushing' = flushing \ {c}, withInput' \subseteq withInput,
           requests' \in 0 .. MaxRequests, UNCHANGED <<opc, back, present, broken>>
    PROVE  OutputInv'
<1>0. OutputTypeOK /\ NoOutputIsStuck /\ flushing \subseteq present /\ present \subseteq OClients
  BY DEF OutputInv, OutputTypeOK
<1>1. \A d \in OClients : Len(out'[d]) <= size'[d]
  BY <1>0 DEF OutputTypeOK, OnlyOf
<1>2. OutputTypeOK'
  BY <1>0, <1>1 DEF OutputTypeOK, OnlyOf, BlocksOnly
<1>3. NoOutputIsStuck'
  <2>1. ASSUME NEW d \in present' \cap open', out'[d] # <<>>
        PROVE  d \in outPending' \cup writeBlocked' \cup flushing'
    <3>1. CASE d = c
      BY <2>1, <3>1
    <3>2. CASE d # c
      <4>1. d \in present \cap open /\ out[d] # <<>>
        BY <1>0, <2>1, <3>2 DEF OnlyOf
      <4> QED
        BY <1>0, <3>2, <4>1 DEF NoOutputIsStuck, BlocksOnly
    <3> QED
      BY <3>1, <3>2
  <2> QED
    BY <2>1 DEF NoOutputIsStuck, BlocksOnly
<1> QED
  BY <1>0, <1>2, <1>3 DEF OutputInv

LEMMA ServesOK ==
    ASSUME OutputInv,
           \/ \E c, d \in OClients, n \in Sizes, enough \in BOOLEAN : Serve(c, d, n, enough)
           \/ \E d \in OClients, n \in Sizes, enough \in BOOLEAN : QueueDeviceEvent(d, n, enough)
    PROVE  OutputInv'
<1>0. requests \in 0 .. MaxRequests /\ MaxRequests \in Nat
  BY OutputAssumption DEF OutputInv, OutputTypeOK
<1>1. ASSUME NEW c \in OClients, NEW d \in OClients, NEW n \in Sizes, NEW enough \in BOOLEAN,
             Serve(c, d, n, enough)
      PROVE  OutputInv'
  <2>1. /\ d \in present /\ opc = "dispatch" /\ WriteToClient(d, n, enough)
        /\ UNCHANGED <<opc, back, flushing, present, broken>>
        /\ withInput' \subseteq withInput /\ requests' \in 0 .. MaxRequests
    BY <1>0, <1>1 DEF Serve, LeavesOrStays, loopVars
  <2>2. flushing = {}
    BY <2>1 DEF OutputInv
  <2> QED
    BY <2>1, <2>2, WriteKeeps, AfterOutput
<1>2. ASSUME NEW d \in OClients, NEW n \in Sizes, NEW enough \in BOOLEAN,
             QueueDeviceEvent(d, n, enough)
      PROVE  OutputInv'
  <2>1. /\ d \in present /\ opc = "dispatch" /\ WriteToClient(d, n, enough)
        /\ UNCHANGED <<opc, back, flushing, present, broken, withInput>>
        /\ requests' \in 0 .. MaxRequests
    BY <1>0, <1>2 DEF QueueDeviceEvent, loopVars
  <2>2. flushing = {}
    BY <2>1 DEF OutputInv
  <2> QED
    BY <2>1, <2>2, WriteKeeps, AfterOutput
<1> QED
  BY <1>1, <1>2

\* FlushAllOutput finds a client with the smallest index.
LEMMA SmallestIsChosen ==
    ASSUME NEW S \in SUBSET Nat, S # {}
    PROVE  (CHOOSE c \in S : \A d \in S : c <= d) \in S
BY SmallestIsThere

LEMMA FlushNextOK ==
    ASSUME OutputInv, NEW enough \in BOOLEAN, FlushNext(enough)
    PROVE  OutputInv'
<1>1. PICK c \in flushing :
         /\ flushing' = flushing \ {c}
         /\ IF c \in withInput
            THEN /\ outPending' = outPending \cup {c} /\ newOutput' = TRUE
                 /\ UNCHANGED <<bufferVars, writeBlocked, anyBlocked>>
            ELSE /\ FlushClient(c, size[c], <<>>, enough)
                 /\ UNCHANGED <<outPending, newOutput>>
         /\ UNCHANGED <<opc, back, withInput, present, broken, requests>>
  <2> DEFINE c == CHOOSE d \in flushing : \A e \in flushing : d <= e
  <2>1. flushing # {} /\ flushing \in SUBSET Nat
    BY OutputAssumption DEF FlushNext, OutputInv, OutputTypeOK
  <2>2. c \in flushing
    BY <2>1, SmallestIsChosen
  <2> QED
    BY <2>2 DEF FlushNext
<1>2. /\ c \in present /\ c \in OClients /\ OutputTypeOK /\ NoOutputIsStuck
  BY DEF OutputInv, OutputTypeOK
<1>3. CASE c \in withInput
  <2>1. OnlyOf(c) /\ BlocksOnly(c)
    BY <1>1, <1>2, <1>3 DEF OnlyOf, BlocksOnly, bufferVars, OutputTypeOK, NoOutputIsStuck
  <2> QED
    BY <1>1, <1>2, <1>3, <2>1, AfterOutput DEF OutputTypeOK
<1>4. CASE c \notin withInput
  <2>1. FlushClient(c, size[c], <<>>, enough) /\ <<>> \in Seq(Nat)
    BY <1>1, <1>4, EmptySeq
  <2>2. size[c] \in Nat /\ Len(out[c]) <= size[c]
    BY <1>2 DEF OutputTypeOK
  <2>3. /\ OnlyOf(c) /\ BlocksOnly(c)
        /\ c \in open' /\ out'[c] # <<>> => c \in writeBlocked'
    BY <1>2, <2>1, <2>2, FlushKeeps
  <2> QED
    BY <1>1, <1>2, <1>4, <2>3, AfterOutput DEF OutputTypeOK, NoOutputIsStuck
<1> QED
  BY <1>3, <1>4

LEMMA ClosesOK ==
    ASSUME OutputInv, NEW c \in OClients, CloseDownConnection(c)
    PROVE  OutputInv'
<1> USE OutputAssumption
<1>0. /\ OutputTypeOK /\ NoOutputIsStuck /\ flushing = {}
      /\ out \in [OClients -> Seq(Nat)] /\ received \in [OClients -> Seq(Nat)]
      /\ out[c] \in Seq(Nat) /\ Len(out[c]) \in Nat /\ room \in [OClients -> 0 .. Room]
      /\ room[c] \in 0 .. Room /\ Room \in Nat
  <2>1. OutputTypeOK /\ NoOutputIsStuck /\ flushing = {}
    BY DEF OutputInv, CloseDownConnection
  <2>2. /\ out \in [OClients -> Seq(Nat)] /\ received \in [OClients -> Seq(Nat)]
        /\ room \in [OClients -> 0 .. Room] /\ Room \in Nat
    BY <2>1 DEF OutputTypeOK
  <2>3. out[c] \in Seq(Nat) /\ room[c] \in 0 .. Room
    BY <2>2
  <2>4. Len(out[c]) \in Nat
    BY <2>3
  <2> QED
    BY <2>1, <2>2, <2>3, <2>4
<1> DEFINE n == Len(out[c])
           w == IF c \notin open \ broken THEN 0 ELSE IF n <= room[c] THEN n ELSE room[c]
<1>1. /\ received' = [received EXCEPT ![c] = @ \o SubSeq(out[c], 1, w)]
      /\ room' = [room EXCEPT ![c] = @ - w]
      /\ out' = [out EXCEPT ![c] = <<>>]
      /\ size' = [size EXCEPT ![c] = 0]
      /\ open' = open \ {c}
      /\ present' = present \ {c}
      /\ withInput' = withInput \ {c}
      /\ outPending' = outPending \ {c}
      /\ writeBlocked' = writeBlocked \ {c}
      /\ anyBlocked' = (writeBlocked' # {})
      /\ UNCHANGED <<newOutput, opc, back, flushing, broken, requests>>
  BY DEF CloseDownConnection, loopVars
<1>2. w \in 0 .. Len(out[c]) /\ room[c] - w \in 0 .. Room
  <2>1. n \in Nat
    BY <1>0
  <2> HIDE DEF n
  <2>2. w \in 0 .. n /\ room[c] - w \in 0 .. Room
    BY <1>0, <2>1
  <2> QED
    BY <2>2 DEF n
<1> HIDE DEF w
<1>3. received' \in [OClients -> Seq(Nat)]
  <2>1. \A i \in 1 .. w : out[c][i] \in Nat
    BY <1>0, <1>2, ElementOfSeq
  <2>2. SubSeq(out[c], 1, w) \in Seq(Nat)
    BY <1>2, <2>1, SubSeqProperties
  <2>3. received[c] \o SubSeq(out[c], 1, w) \in Seq(Nat)
    BY <1>0, <2>2, ConcatProperties
  <2> QED
    BY <1>0, <1>1, <2>3
<1>4. /\ out' \in [OClients -> Seq(Nat)] /\ size' \in [OClients -> Nat]
      /\ \A d \in OClients : Len(out'[d]) <= size'[d]
  BY <1>0, <1>1, EmptySeq DEF OutputTypeOK
<1>5. room' \in [OClients -> 0 .. Room]
  BY <1>0, <1>1, <1>2
<1>6. OutputTypeOK'
  BY <1>0, <1>1, <1>3, <1>4, <1>5 DEF OutputTypeOK
<1>7. NoOutputIsStuck'
  <2>1. ASSUME NEW d \in present' \cap open', out'[d] # <<>>
        PROVE  d \in outPending' \cup writeBlocked' \cup flushing'
    <3>1. d # c /\ d \in present \cap open /\ out[d] # <<>>
      BY <1>0, <1>1, <2>1 DEF OutputTypeOK
    <3> QED
      BY <1>0, <1>1, <3>1 DEF NoOutputIsStuck
  <2> QED
    BY <1>0, <1>1, <2>1 DEF NoOutputIsStuck
<1> QED
  BY <1>0, <1>1, <1>6, <1>7 DEF OutputInv

\* Steps that leave the buffers alone.
LEMMA MarksOK ==
    ASSUME OutputInv, UNCHANGED <<out, size, received>>,
           room' \in [OClients -> 0 .. Room], open' = open, broken' \subseteq OClients,
           requests' \in 0 .. MaxRequests, withInput' \subseteq present, UNCHANGED present,
           opc' \in {"dispatch", "flush", "select"}, back' \in {"dispatch", "select"},
           outPending' \subseteq present, writeBlocked' \subseteq present, flushing' \subseteq present,
           newOutput' \in BOOLEAN, outPending' # {} => newOutput',
           anyBlocked' \in BOOLEAN, anyBlocked' <=> writeBlocked' # {},
           outPending \cup writeBlocked \cup flushing
              \subseteq outPending' \cup writeBlocked' \cup flushing',
           opc' # "flush" => flushing' = {}
    PROVE  OutputInv'
<1>0. OutputTypeOK /\ NoOutputIsStuck /\ present \subseteq OClients
  BY DEF OutputInv, OutputTypeOK
<1>1. OutputTypeOK'
  BY <1>0 DEF OutputTypeOK
<1>2. NoOutputIsStuck'
  BY <1>0 DEF NoOutputIsStuck
<1> QED
  BY <1>1, <1>2 DEF OutputInv

LEMMA OutputStepOK == OutputInv /\ [OutputNext]_outputVars => OutputInv'
<1> SUFFICES ASSUME OutputInv, [OutputNext]_outputVars PROVE OutputInv'
  OBVIOUS
<1> USE DEF bufferVars, flagVars, loopVars
<1>0. /\ requests \in 0 .. MaxRequests /\ MaxRequests \in Nat
      /\ room \in [OClients -> 0 .. Room] /\ Room \in Nat \ {0}
      /\ present \subseteq OClients /\ broken \subseteq OClients /\ withInput \subseteq present
      /\ outPending \subseteq present /\ writeBlocked \subseteq present /\ flushing \subseteq present
      /\ opc \in {"dispatch", "flush", "select"} /\ back \in {"dispatch", "select"}
      /\ newOutput \in BOOLEAN /\ (outPending # {} => newOutput)
      /\ anyBlocked \in BOOLEAN /\ (anyBlocked <=> writeBlocked # {})
      /\ opc # "flush" => flushing = {}
      /\ open \subseteq OClients
  BY OutputAssumption DEF OutputInv, OutputTypeOK, NoOutputIsStuck
<1>1. ASSUME NEW c \in OClients, Arrives(c) PROVE OutputInv'
  BY <1>0, <1>1, MarksOK DEF Arrives
<1>2. ASSUME NEW c \in OClients, ServeSilently(c) PROVE OutputInv'
  BY <1>0, <1>2, MarksOK DEF ServeSilently, LeavesOrStays
<1>3. CASE EndOfSlice
  BY <1>0, <1>3, MarksOK DEF EndOfSlice, FlushAllOutput
<1>4. CASE FlushEnds
  BY <1>0, <1>4, MarksOK DEF FlushEnds
<1>5. CASE WaitForOutput
  BY <1>0, <1>5, MarksOK DEF WaitForOutput, FlushAllOutput
<1>6. ASSUME NEW ready \in BOOLEAN, SelectReports(ready) PROVE OutputInv'
  BY <1>0, <1>6, MarksOK DEF SelectReports, Writable
<1>7. ASSUME NEW c \in OClients, Reads(c) PROVE OutputInv'
  BY <1>0, <1>7, MarksOK DEF Reads
<1>8. ASSUME NEW c \in OClients, Breaks(c) PROVE OutputInv'
  BY <1>0, <1>8, MarksOK DEF Breaks
<1>9. CASE UNCHANGED outputVars
  BY <1>0, <1>9, MarksOK DEF outputVars
<1> QED
  BY <1>1, <1>2, <1>3, <1>4, <1>5, <1>6, <1>7, <1>8, <1>9,
     ServesOK, FlushNextOK, ClosesOK DEF OutputNext

\* No client's buffer holds bytes that nobody looks for (WriteToClient,
\* FlushClient, FlushAllOutput, WaitForSomething and CloseDownConnection).
THEOREM OutputIsNeverStuck == OutputSpec => [](OutputTypeOK /\ NoOutputIsStuck)
<1>1. OutputInv => OutputTypeOK /\ NoOutputIsStuck
  BY DEF OutputInv
<1> QED
  BY OutputInitOK, OutputStepOK, <1>1, PTL DEF OutputSpec

-----------------------------------------------------------------------------
(* The stream.  What a step does to the queue of c: a message is put at its  *)
(* end, w bytes are taken from its front, and the connection is kept or not. *)

Up == open \ broken
QueueOf == [c \in OClients |-> IF c \in open \ broken THEN out[c] ELSE <<>>]

Moves(c, msg, w, keeps) ==
    /\ QueueOf' = [QueueOf EXCEPT ![c] = IF keeps THEN SubSeq(QueueOf[c] \o msg, w + 1, Len(QueueOf[c] \o msg))
                                                   ELSE <<>>]
    /\ received' = [received EXCEPT ![c] = @ \o SubSeq(QueueOf[c] \o msg, 1, w)]
    /\ Up' = IF keeps THEN Up ELSE Up \ {c}

StreamStep(c, msg) ==
    \/ UNCHANGED <<QueueOf, received, Up>>
    \/ /\ c \in Up
       /\ \E w \in 0 .. Len(out[c]) + Len(msg), keeps \in BOOLEAN : Moves(c, msg, w, keeps)

LEMMA MovesIsStep ==
    ASSUME NEW c \in OClients, c \in Up, NEW msg, NEW w, NEW keeps, Moves(c, msg, w, keeps)
    PROVE  Stream!Step(c, msg, w, keeps)
BY DEF Moves, Stream!Step, QueueOf, Up

\* A step that leaves buffers and connections alone, or touches only those of
\* a connection that is lost already.
LEMMA StandsStill ==
    ASSUME NEW c \in OClients, c \notin Up, UNCHANGED <<received, broken>>,
           open' \subseteq open, open \ {c} \subseteq open',
           out \in [OClients -> Seq(Nat)],
           \A d \in OClients \ {c} : out'[d] = out[d]
    PROVE  UNCHANGED <<QueueOf, received, Up>>
<1>1. Up' = Up
  BY DEF Up
<1>2. QueueOf' = QueueOf
  BY <1>1 DEF QueueOf, Up
<1> QED
  BY <1>1, <1>2

\* A step that moves bytes of a connection that is there.
LEMMA MovesBytes ==
    ASSUME OutputTypeOK, NEW c \in OClients, c \in Up, UNCHANGED broken,
           NEW msg \in Seq(Nat), NEW w \in 0 .. Len(out[c]) + Len(msg), NEW keeps \in BOOLEAN,
           NEW rest, out' = [out EXCEPT ![c] = rest],
           keeps => rest = SubSeq(out[c] \o msg, w + 1, Len(out[c] \o msg)),
           open' = IF keeps THEN open ELSE open \ {c},
           received' = [received EXCEPT ![c] = @ \o SubSeq(out[c] \o msg, 1, w)]
    PROVE  Moves(c, msg, w, keeps)
<1>0. out \in [OClients -> Seq(Nat)] /\ QueueOf[c] = out[c]
  BY DEF OutputTypeOK, QueueOf, Up
<1>1. Up' = IF keeps THEN Up ELSE Up \ {c}
  BY DEF Up
<1> DEFINE new == IF keeps THEN SubSeq(QueueOf[c] \o msg, w + 1, Len(QueueOf[c] \o msg)) ELSE <<>>
<1>2. c \in Up' <=> keeps
  BY <1>1
<1>3. (IF c \in Up' THEN out'[c] ELSE <<>>) = new
  BY <1>0, <1>2
<1> HIDE DEF new
<1>4. \A d \in OClients : (IF d \in Up' THEN out'[d] ELSE <<>>)
                            = IF d = c THEN new ELSE IF d \in Up THEN out[d] ELSE <<>>
  BY <1>0, <1>1, <1>3
<1>5. QueueOf' = [d \in OClients |-> IF d \in Up' THEN out'[d] ELSE <<>>]
  BY DEF QueueOf, Up
<1>6. QueueOf = [d \in OClients |-> IF d \in Up THEN out[d] ELSE <<>>]
  BY DEF QueueOf, Up
<1>7. QueueOf' = [QueueOf EXCEPT ![c] = new]
  BY <1>4, <1>5, <1>6
<1>8. received' = [received EXCEPT ![c] = @ \o SubSeq(QueueOf[c] \o msg, 1, w)]
  BY <1>0
<1> QED
  BY <1>1, <1>7, <1>8 DEF Moves, new

\* FlushClient: what goes out and what is kept make up the buffer and the
\* message, however little the transport takes.
LEMMA FlushMoves ==
    ASSUME OutputInv, NEW c \in present, NEW s \in Nat, NEW msg \in Seq(Nat), NEW enough,
           UNCHANGED broken, FlushClient(c, s, msg, enough)
    PROVE  StreamStep(c, msg)
<1> USE OutputAssumption
<1>0. /\ c \in OClients /\ OutputTypeOK
      /\ out \in [OClients -> Seq(Nat)] /\ received \in [OClients -> Seq(Nat)]
      /\ out[c] \in Seq(Nat) /\ received[c] \in Seq(Nat) /\ room[c] \in 0 .. Room
      /\ Len(out[c]) \in Nat /\ Len(msg) \in Nat
  <2>1. c \in OClients /\ OutputTypeOK
    BY DEF OutputInv, OutputTypeOK
  <2>2. out[c] \in Seq(Nat) /\ received[c] \in Seq(Nat) /\ room[c] \in 0 .. Room
    BY <2>1 DEF OutputTypeOK
  <2>3. out \in [OClients -> Seq(Nat)] /\ received \in [OClients -> Seq(Nat)]
    BY <2>1 DEF OutputTypeOK
  <2>4. Len(out[c]) \in Nat
    BY <2>2
  <2>5. Len(msg) \in Nat
    OBVIOUS
  <2> QED
    BY <2>1, <2>2, <2>3, <2>4, <2>5
<1> DEFINE n == Len(out[c]) + Len(msg)
           w == IF n <= room[c] THEN n ELSE room[c]
<1>1. n \in Nat /\ w \in 0 .. n
  <2>1. n \in Nat
    BY <1>0
  <2> HIDE DEF n
  <2> QED
    BY <1>0, <2>1
<1>2. CASE UNCHANGED bufferVars
  <2>1. UNCHANGED <<QueueOf, received, Up>>
    BY <1>2 DEF bufferVars, QueueOf, Up
  <2> QED
    BY <2>1 DEF StreamStep
<1>3. CASE (c \notin open \/ c \in broken) /\ Aborted(c, s) /\ UNCHANGED received
  <2>1. c \notin Up /\ open' = open \ {c} /\ out' = [out EXCEPT ![c] = <<>>]
    BY <1>3 DEF Aborted, Up
  <2>2. UNCHANGED <<QueueOf, received, Up>>
    BY <1>0, <1>3, <2>1, StandsStill
  <2> QED
    BY <2>2 DEF StreamStep
<1>4. CASE /\ n = 0 \/ c \in open \ broken
           /\ received' = [received EXCEPT ![c] = @ \o SubSeq(out[c] \o msg, 1, w)]
           /\ \/ w = n /\ Flushed(c)
              \/ w < n /\ Blocked(c, s, msg, w)
              \/ w < n /\ Aborted(c, s)
  <2>0. /\ out[c] \o msg \in Seq(Nat) /\ Len(out[c] \o msg) = n
    BY <1>0, ConcatProperties
  <2>1. CASE c \in Up
    <3>1. CASE w = n /\ Flushed(c)
      <4>1. out' = [out EXCEPT ![c] = <<>>] /\ open' = open
        BY <3>1 DEF Flushed
      <4>2. SubSeq(out[c] \o msg, w + 1, Len(out[c] \o msg)) = <<>>
        <5> HIDE DEF n, w
        <5>1. w + 1 \in Int /\ Len(out[c] \o msg) \in Int /\ Len(out[c] \o msg) < w + 1
          BY <1>1, <2>0, <3>1
        <5> QED
          BY <5>1, SubSeqEmpty
      <4>3. Moves(c, msg, w, TRUE)
        BY <1>0, <1>1, <1>4, <2>1, <4>1, <4>2, MovesBytes
      <4> HIDE DEF w
      <4> QED
        BY <1>1, <2>1, <4>3 DEF StreamStep
    <3>2. CASE w < n /\ Blocked(c, s, msg, w)
      <4>1. out' = [out EXCEPT ![c] = Rest(out[c], msg, w)] /\ open' = open
        BY <3>2 DEF Blocked, Rest
      <4>2. Rest(out[c], msg, w) = SubSeq(out[c] \o msg, w + 1, Len(out[c] \o msg))
        <5> HIDE DEF w
        <5> QED
          BY <1>0, <1>1, RestOfBoth
      <4>3. Moves(c, msg, w, TRUE)
        BY <1>0, <1>1, <1>4, <2>1, <4>1, <4>2, MovesBytes
      <4> HIDE DEF w
      <4> QED
        BY <1>1, <2>1, <4>3 DEF StreamStep
    <3>3. CASE w < n /\ Aborted(c, s)
      <4>1. out' = [out EXCEPT ![c] = <<>>] /\ open' = open \ {c}
        BY <3>3 DEF Aborted
      <4>2. Moves(c, msg, w, FALSE)
        BY <1>0, <1>1, <1>4, <2>1, <4>1, MovesBytes
      <4> HIDE DEF w
      <4> QED
        BY <1>1, <2>1, <4>2 DEF StreamStep
    <3> QED
      BY <1>4, <3>1, <3>2, <3>3
  <2>2. CASE c \notin Up
    <3>1. n = 0 /\ w = 0 /\ ~(w < n)
      BY <1>0, <1>1, <1>4, <2>2 DEF Up
    <3>2. UNCHANGED received
      <4>1. SubSeq(out[c] \o msg, 1, w) = <<>>
        BY <3>1, SubSeqEmpty
      <4>2. received[c] \o <<>> = received[c]
        BY <1>0, ConcatEmptySeq
      <4> HIDE DEF w
      <4> QED
        BY <1>0, <1>4, <4>1, <4>2
    <3>3. out' = [out EXCEPT ![c] = <<>>] /\ open' = open
      BY <1>4, <3>1 DEF Flushed
    <3>4. UNCHANGED <<QueueOf, received, Up>>
      BY <1>0, <2>2, <3>2, <3>3, StandsStill
    <3> QED
      BY <3>4 DEF StreamStep
  <2> QED
    BY <2>1, <2>2
<1> QED
  BY <1>2, <1>3, <1>4 DEF FlushClient

\* A whole sequence is its own rest.
LEMMA NothingTaken ==
    ASSUME NEW s \in Seq(Nat)
    PROVE  SubSeq(s, 1, Len(s)) = s /\ SubSeq(s, 1, 0) = <<>>
BY SubSeqFull, SubSeqEmpty

\* WriteToClient: the message is lost with the connection, copied, or flushed
\* with what is in the buffer.
LEMMA WriteMoves ==
    ASSUME OutputInv, NEW d \in present, NEW n \in Sizes, NEW enough, UNCHANGED broken,
           WriteToClient(d, n, enough)
    PROVE  StreamStep(d, Message(d, n))
<1> USE OutputAssumption
<1> DEFINE msg == Message(d, n)
           s == IF size[d] = 0 THEN BufSize ELSE size[d]
<1>0. /\ d \in OClients /\ OutputTypeOK
      /\ out \in [OClients -> Seq(Nat)] /\ received \in [OClients -> Seq(Nat)]
      /\ size[d] \in Nat /\ s \in Nat
  BY DEF OutputInv, OutputTypeOK
<1>1. msg \in Seq(Nat)
  BY <1>0, MessageIsBytes
<1>2. out[d] \in Seq(Nat) /\ out[d] \o msg \in Seq(Nat) /\ Len(out[d] \o msg) = Len(out[d]) + Len(msg)
  BY <1>0, <1>1, ConcatProperties
<1>3. Len(out[d]) + Len(msg) \in Nat
  <2>1. Len(out[d]) \in Nat /\ Len(msg) \in Nat
    BY <1>1, <1>2
  <2> QED
    BY <2>1
<1>4. 0 \in 0 .. Len(out[d]) + Len(msg)
  BY <1>3
<1>5. SubSeq(out[d] \o msg, 0 + 1, Len(out[d] \o msg)) = out[d] \o msg
      /\ SubSeq(out[d] \o msg, 1, 0) = <<>>
  BY <1>2, NothingTaken
<1>6. /\ received[d] \o <<>> = received[d]
      /\ received = [received EXCEPT ![d] = @ \o SubSeq(out[d] \o msg, 1, 0)]
  BY <1>0, <1>5, ConcatEmptySeq
<1> HIDE DEF msg, s
<1>7. CASE Aborted(d, 0) /\ UNCHANGED received
  <2>1. out' = [out EXCEPT ![d] = <<>>] /\ open' = open \ {d}
    BY <1>7 DEF Aborted
  <2>2. CASE d \in Up
    <3>1. received' = [received EXCEPT ![d] = @ \o SubSeq(out[d] \o msg, 1, 0)]
      BY <1>6, <1>7
    <3>2. Moves(d, msg, 0, FALSE)
      BY <1>0, <1>1, <1>4, <2>1, <2>2, <3>1, MovesBytes
    <3> QED
      BY <1>4, <2>2, <3>2 DEF StreamStep, msg
  <2>3. CASE d \notin Up
    <3>1. UNCHANGED <<QueueOf, received, Up>>
      BY <1>0, <1>7, <2>1, <2>3, StandsStill
    <3> QED
      BY <3>1 DEF StreamStep
  <2> QED
    BY <2>2, <2>3
<1>8. CASE Buffered(d, s, msg)
  <2>1. out' = [out EXCEPT ![d] = out[d] \o msg] /\ open' = open /\ UNCHANGED received
    BY <1>8 DEF Buffered
  <2>2. CASE d \in Up
    <3>1. received' = [received EXCEPT ![d] = @ \o SubSeq(out[d] \o msg, 1, 0)]
      BY <1>6, <2>1
    <3>2. Moves(d, msg, 0, TRUE)
      BY <1>0, <1>1, <1>4, <1>5, <2>1, <2>2, <3>1, MovesBytes
    <3> QED
      BY <1>4, <2>2, <3>2 DEF StreamStep, msg
  <2>3. CASE d \notin Up
    <3>1. UNCHANGED <<QueueOf, received, Up>>
      BY <1>0, <2>1, <2>3, StandsStill
    <3> QED
      BY <3>1 DEF StreamStep
  <2> QED
    BY <2>2, <2>3
<1>9. CASE FlushClient(d, s, msg, enough)
  <2>1. StreamStep(d, msg)
    BY <1>0, <1>1, <1>9, FlushMoves
  <2> QED
    BY <2>1 DEF msg
<1> QED
  BY <1>7, <1>8, <1>9 DEF WriteToClient, msg, s

\* CloseDownConnection: what the transport takes goes out, the rest is lost.
LEMMA CloseMoves ==
    ASSUME OutputInv, NEW c \in OClients, CloseDownConnection(c)
    PROVE  StreamStep(c, <<>>)
<1> USE OutputAssumption
<1>0. /\ OutputTypeOK /\ room[c] \in 0 .. Room
      /\ out \in [OClients -> Seq(Nat)] /\ received \in [OClients -> Seq(Nat)]
  BY DEF OutputInv, OutputTypeOK
<1>1. out[c] \in Seq(Nat) /\ out[c] \o <<>> = out[c] /\ <<>> \in Seq(Nat)
      /\ received[c] \in Seq(Nat) /\ received[c] \o <<>> = received[c]
  BY <1>0, ConcatEmptySeq
<1>2. Len(out[c]) \in Nat
  BY <1>1
<1>3. /\ out' = [out EXCEPT ![c] = <<>>] /\ open' = open \ {c} /\ UNCHANGED broken
  BY DEF CloseDownConnection
<1> DEFINE n == Len(out[c])
           w == IF c \notin open \ broken THEN 0 ELSE IF n <= room[c] THEN n ELSE room[c]
<1>4. received' = [received EXCEPT ![c] = @ \o SubSeq(out[c], 1, w)]
  BY DEF CloseDownConnection
<1>5. w \in 0 .. n
  BY <1>0, <1>2
<1>6. CASE c \in Up
  <2>1. Len(<<>>) = 0 /\ w \in 0 .. Len(out[c]) + Len(<<>>)
    BY <1>2, <1>5
  <2> HIDE DEF w
  <2>2. received' = [received EXCEPT ![c] = @ \o SubSeq(out[c] \o <<>>, 1, w)]
    BY <1>1, <1>4
  <2>3. Moves(c, <<>>, w, FALSE)
    BY <1>0, <1>1, <1>3, <1>6, <2>1, <2>2, MovesBytes
  <2> QED
    BY <1>6, <2>1, <2>3 DEF StreamStep
<1>7. CASE c \notin Up
  <2>1. w = 0
    BY <1>7 DEF Up
  <2>2. SubSeq(out[c], 1, w) = <<>>
    BY <1>1, <2>1, NothingTaken
  <2> HIDE DEF w
  <2>3. UNCHANGED received
    BY <1>0, <1>1, <1>4, <2>2
  <2>4. UNCHANGED <<QueueOf, received, Up>>
    BY <1>0, <1>3, <1>7, <2>3, StandsStill
  <2> QED
    BY <2>4 DEF StreamStep
<1> QED
  BY <1>6, <1>7

\* A client that goes away loses what is in the buffer.
LEMMA BreakMoves ==
    ASSUME OutputInv, NEW c \in OClients, Breaks(c)
    PROVE  StreamStep(c, <<>>)
<1>0. /\ out \in [OClients -> Seq(Nat)] /\ received \in [OClients -> Seq(Nat)]
      /\ c \in Up /\ out' = out /\ received' = received /\ open' = open /\ broken' = broken \cup {c}
  BY DEF OutputInv, OutputTypeOK, Breaks, Up, bufferVars
<1>1. out[c] \in Seq(Nat) /\ received[c] \in Seq(Nat) /\ received[c] \o <<>> = received[c]
  BY <1>0, ConcatEmptySeq
<1>2. Up' = Up \ {c}
  BY <1>0 DEF Up
<1>3. QueueOf[c] = out[c] /\ out[c] \o <<>> = out[c]
  BY <1>0, <1>1, ConcatEmptySeq DEF QueueOf, Up
<1>4. QueueOf' = [QueueOf EXCEPT ![c] = <<>>]
  <2>1. QueueOf' = [d \in OClients |-> IF d \in Up' THEN out'[d] ELSE <<>>]
    BY DEF QueueOf, Up
  <2>2. QueueOf = [d \in OClients |-> IF d \in Up THEN out[d] ELSE <<>>]
    BY DEF QueueOf, Up
  <2> QED
    BY <1>0, <1>2, <2>1, <2>2
<1>5. received' = [received EXCEPT ![c] = @ \o SubSeq(QueueOf[c] \o <<>>, 1, 0)]
  <2>1. SubSeq(QueueOf[c] \o <<>>, 1, 0) = <<>>
    BY <1>1, <1>3, NothingTaken
  <2> QED
    BY <1>0, <1>1, <2>1
<1>6. Moves(c, <<>>, 0, FALSE)
  BY <1>2, <1>4, <1>5 DEF Moves
<1>7. Len(<<>>) = 0 /\ 0 \in 0 .. Len(out[c]) + Len(<<>>)
  <2>1. Len(out[c]) \in Nat
    BY <1>1
  <2> QED
    BY <2>1
<1> QED
  BY <1>0, <1>6, <1>7 DEF StreamStep

\* A step that changes nothing at c changes nothing.
LEMMA NothingHappens ==
    ASSUME OutputTypeOK, NEW c \in OClients, c \in Up, NEW msg, NEW w, NEW keeps,
           Moves(c, msg, w, keeps), ~Stream!Happens(c)
    PROVE  UNCHANGED Stream!streamVars
<1>1. QueueOf'[c] = QueueOf[c] /\ received'[c] = received[c] /\ (c \in Up' <=> c \in Up)
  BY DEF Stream!Happens, QueueOf, Up
<1>2. QueueOf = [d \in OClients |-> QueueOf[d]] /\ received = [d \in OClients |-> received[d]]
  BY DEF QueueOf, OutputTypeOK
<1>3. QueueOf' = QueueOf /\ received' = received
  BY <1>1, <1>2 DEF Moves
<1>4. Up' = Up
  BY <1>1 DEF Moves
<1> QED
  BY <1>3, <1>4 DEF Stream!streamVars, QueueOf, Up

LEMMA NothingMoves ==
    ASSUME UNCHANGED <<QueueOf, received, Up>>
    PROVE  UNCHANGED Stream!streamVars
BY DEF Stream!streamVars, QueueOf, Up

\* Bytes move and nothing is written: a delivery or a loss.
LEMMA SilentStep ==
    ASSUME OutputInv, NEW c \in OClients, StreamStep(c, <<>>)
    PROVE  [Stream!StreamNext]_(Stream!streamVars)
<1>0. /\ OutputTypeOK
      /\ out \in [OClients -> Seq(Nat)] /\ received \in [OClients -> Seq(Nat)]
  BY DEF OutputInv, OutputTypeOK
<1>1. CASE UNCHANGED <<QueueOf, received, Up>>
  BY <1>1, NothingMoves
<1>2. ASSUME c \in Up, NEW w \in 0 .. Len(out[c]) + Len(<<>>), NEW keeps \in BOOLEAN,
             Moves(c, <<>>, w, keeps), Stream!Happens(c)
      PROVE  Stream!StreamNext
  <2>1. QueueOf[c] = out[c] /\ out[c] \in Seq(Nat) /\ received[c] \in Seq(Nat)
    BY <1>0, <1>2 DEF QueueOf, Up
  <2>2. Len(out[c]) \in Nat
    BY <2>1
  <2>3. Len(<<>>) = 0
    OBVIOUS
  <2>4. w \in 0 .. Len(out[c])
    BY <1>2, <2>2, <2>3
  <2>5. Stream!Step(c, <<>>, w, keeps)
    BY <1>2, MovesIsStep
  <2>6. CASE keeps /\ w = 0
    <3>1. QueueOf[c] \o <<>> = out[c] /\ received[c] \o <<>> = received[c]
      BY <2>1, ConcatEmptySeq
    <3>2. SubSeq(out[c], 0 + 1, Len(out[c])) = out[c] /\ SubSeq(out[c], 1, 0) = <<>>
      BY <2>1, NothingTaken
    <3>3. QueueOf' = [QueueOf EXCEPT ![c] = QueueOf[c]] /\ received' = [received EXCEPT ![c] = received[c]]
      BY <1>2, <2>1, <2>6, <3>1, <3>2 DEF Moves
    <3>4. QueueOf'[c] = QueueOf[c] /\ received'[c] = received[c] /\ Up' = Up
      BY <1>0, <1>2, <2>6, <3>3 DEF Moves, QueueOf
    <3> QED
      BY <1>2, <3>4 DEF Stream!Happens, QueueOf, Up
  <2>7. CASE keeps /\ w # 0
    <3>1. keeps = TRUE /\ w \in 1 .. Len(out[c])
      BY <2>2, <2>4, <2>7
    <3>2. Stream!Step(c, <<>>, w, TRUE)
      BY <2>5, <3>1
    <3>3. Stream!Deliver(c)
      BY <2>1, <3>1, <3>2 DEF Stream!Deliver, QueueOf
    <3> QED
      BY <1>2, <3>3 DEF Stream!StreamNext
  <2>8. CASE ~keeps
    <3>1. keeps = FALSE
      BY <2>8
    <3>2. Stream!Step(c, <<>>, w, FALSE)
      BY <2>5, <3>1
    <3>3. Stream!Lose(c)
      BY <2>1, <2>4, <3>2 DEF Stream!Lose, QueueOf
    <3> QED
      BY <1>2, <3>3 DEF Stream!StreamNext
  <2> QED
    BY <2>6, <2>7, <2>8
<1> QED
  BY <1>0, <1>1, <1>2, NothingHappens DEF StreamStep

\* A message is written.
LEMMA WritingStep ==
    ASSUME OutputInv, NEW c \in OClients, NEW n \in Sizes, StreamStep(c, Message(c, n))
    PROVE  [Stream!StreamNext]_(Stream!streamVars)
<1> USE OutputAssumption
<1> DEFINE bytes == [i \in 1 .. n + Pads(n) |-> IF i <= n THEN 1 ELSE 0]
<1>0. /\ OutputTypeOK
      /\ out \in [OClients -> Seq(Nat)] /\ received \in [OClients -> Seq(Nat)]
  BY DEF OutputInv, OutputTypeOK
<1>1. CASE UNCHANGED <<QueueOf, received, Up>>
  BY <1>1, NothingMoves
<1>2. ASSUME c \in Up, NEW w \in 0 .. Len(out[c]) + Len(Message(c, n)), NEW keeps \in BOOLEAN,
             Moves(c, Message(c, n), w, keeps), Stream!Happens(c)
      PROVE  Stream!StreamNext
  <2>1. QueueOf[c] = out[c] /\ out[c] \in Seq(Nat) /\ received[c] \in Seq(Nat)
    BY <1>0, <1>2 DEF QueueOf, Up
  <2>2. n + Pads(n) \in Nat /\ n \in Nat
    BY DEF Pads
  <2>3. Len(bytes) = n + Pads(n) /\ Len(Message(c, n)) = n + Pads(n)
    BY <2>2 DEF Message
  <2>4. Len(out[c]) \in Nat /\ Len(received[c]) \in Nat
    BY <2>1
  <2>5. Stream!Numbered(c, bytes) = Message(c, n)
    <3>1. Stream!Numbered(c, bytes) = [i \in 1 .. n + Pads(n) |->
               IF bytes[i] = 0 THEN 0 ELSE Len(QueueOf[c]) + Len(received[c]) + i]
      BY DEF Stream!Numbered, QueueOf
    <3>2. \A i \in 1 .. n + Pads(n) : bytes[i] = 0 <=> ~(i <= n)
      BY <2>2
    <3>3. \A a, b, i \in Int : a + b + i = b + a + i
      OBVIOUS
    <3>4. \A i \in 1 .. n + Pads(n) : Len(QueueOf[c]) + Len(received[c]) + i = Len(received[c]) + Len(out[c]) + i
      <4>1. Len(out[c]) \in Int /\ Len(received[c]) \in Int /\ 1 .. n + Pads(n) \subseteq Int
        BY <2>2, <2>4
      <4>2. QueueOf[c] = out[c]
        BY <2>1
      <4> TAKE i \in 1 .. n + Pads(n)
      <4>3. Len(out[c]) + Len(received[c]) + i = Len(received[c]) + Len(out[c]) + i
        BY <3>3, <4>1
      <4> QED
        BY <4>2, <4>3
    <3> HIDE DEF bytes
    <3> QED
      BY <3>1, <3>2, <3>4 DEF Message
  <2>6. Stream!Step(c, Stream!Numbered(c, bytes), w, keeps)
    BY <1>2, <2>5, MovesIsStep
  <2>7. w \in 0 .. Len(QueueOf[c]) + Len(bytes)
    BY <1>2, <2>1, <2>3
  <2>8. bytes \in {[i \in 1 .. k + Pads(k) |-> IF i <= k THEN 1 ELSE 0] : k \in Sizes}
    OBVIOUS
  <2> HIDE DEF bytes
  <2>9. Stream!Write(c)
    BY <2>6, <2>7, <2>8 DEF Stream!Write, QueueOf
  <2> QED
    BY <1>2, <2>9 DEF Stream!StreamNext
<1> QED
  BY <1>0, <1>1, <1>2, NothingHappens DEF StreamStep

LEMMA EveryStepOfTheStream ==
    OutputInv /\ [OutputNext]_outputVars => [Stream!StreamNext]_(Stream!streamVars)
<1> SUFFICES ASSUME OutputInv, [OutputNext]_outputVars
             PROVE  [Stream!StreamNext]_(Stream!streamVars)
  OBVIOUS
<1>0. present \subseteq OClients /\ flushing \subseteq present
  BY DEF OutputInv, OutputTypeOK
<1>1. ASSUME UNCHANGED <<out, open, received, broken>> PROVE UNCHANGED Stream!streamVars
  BY <1>1 DEF Stream!streamVars
<1>2. ASSUME NEW c \in OClients, NEW d \in OClients, NEW n \in Sizes, NEW enough \in BOOLEAN,
             Serve(c, d, n, enough) \/ QueueDeviceEvent(d, n, enough)
      PROVE  [Stream!StreamNext]_(Stream!streamVars)
  <2>1. d \in present /\ WriteToClient(d, n, enough) /\ UNCHANGED broken
    BY <1>2 DEF Serve, QueueDeviceEvent
  <2> QED
    BY <2>1, WriteMoves, WritingStep
<1>3. ASSUME NEW enough \in BOOLEAN, FlushNext(enough) PROVE [Stream!StreamNext]_(Stream!streamVars)
  <2> DEFINE c == CHOOSE d \in flushing : \A e \in flushing : d <= e
  <2>1. c \in flushing
    <3>1. flushing \in SUBSET Nat /\ flushing # {}
      BY <1>0, <1>3, OutputAssumption DEF FlushNext
    <3> QED
      BY <3>1, SmallestIsChosen
  <2>2. UNCHANGED bufferVars \/ FlushClient(c, size[c], <<>>, enough)
    BY <1>3 DEF FlushNext
  <2>3. UNCHANGED broken
    BY <1>3 DEF FlushNext
  <2> HIDE DEF c
  <2>4. CASE UNCHANGED bufferVars
    BY <1>1, <2>3, <2>4 DEF bufferVars
  <2>5. CASE FlushClient(c, size[c], <<>>, enough)
    <3>1. c \in present /\ c \in OClients /\ size[c] \in Nat
      BY <1>0, <2>1 DEF OutputInv, OutputTypeOK
    <3>2. <<>> \in Seq(Nat)
      OBVIOUS
    <3>3. StreamStep(c, <<>>)
      BY <2>3, <2>5, <3>1, <3>2, FlushMoves
    <3> QED
      BY <3>1, <3>3, SilentStep
  <2> QED
    BY <2>2, <2>4, <2>5
<1>4. ASSUME NEW c \in OClients, CloseDownConnection(c) PROVE [Stream!StreamNext]_(Stream!streamVars)
  BY <1>4, CloseMoves, SilentStep
<1>5. ASSUME NEW c \in OClients, Breaks(c) PROVE [Stream!StreamNext]_(Stream!streamVars)
  BY <1>5, BreakMoves, SilentStep
<1>6. ASSUME \/ \E c \in OClients : Arrives(c) \/ ServeSilently(c) \/ Reads(c)
             \/ EndOfSlice \/ FlushEnds \/ WaitForOutput
             \/ \E ready \in BOOLEAN : SelectReports(ready)
             \/ UNCHANGED outputVars
      PROVE  UNCHANGED <<out, open, received, broken>>
  BY <1>6 DEF Arrives, ServeSilently, Reads, EndOfSlice, FlushEnds, WaitForOutput, SelectReports,
              outputVars, bufferVars
<1> QED
  BY <1>1, <1>2, <1>3, <1>4, <1>5, <1>6 DEF OutputNext

LEMMA TheStreamStartsEmpty == OutputInit => Stream!StreamInit
<1> SUFFICES ASSUME OutputInit PROVE Stream!StreamInit
  OBVIOUS
<1> QED
  BY DEF OutputInit, Stream!StreamInit

\* The output to a client is a stream of bytes: whatever is written partly,
\* flushed, aborted or closed, the client gets the bytes in the order in which
\* they were written, and none twice (WriteToClient, FlushClient,
\* FlushAllOutput and CloseDownConnection).  That they arrive in the end is
\* the liveness part of OutputIsAStream, which TLC checks.
THEOREM OutputImplementsStream == OutputSpec => Stream!StreamInit /\ [][Stream!StreamNext]_(Stream!streamVars)
<1> QED
  BY OutputInitOK, OutputStepOK, EveryStepOfTheStream, TheStreamStartsEmpty, PTL DEF OutputSpec

-----------------------------------------------------------------------------
(* XDMCP.                                                                  *)

SessionIDs == {0} \cup Sessions

\* The datagrams the two sides send.
ToManager == [op : {"QUERY", "REQUEST", "MANAGE", "KEEPALIVE"}, id : SessionIDs]
ToDisplay == [op : {"WILLING", "ACCEPT", "REFUSE", "FAILED", "ALIVE", "DEAD"}, id : SessionIDs]

(***************************************************************************)
(* The inductive invariant.  timeout() counts a transmission before it      *)
(* compares, so the count reaches the limit only with the step that         *)
(* terminates the server.                                                  *)
(***************************************************************************)
XdmcpInv ==
    /\ XdmcpTypeOK
    /\ XdmcpSessionHasItsClient
    /\ toManager \subseteq ToManager /\ toDisplay \subseteq ToDisplay
    /\ running /\ exception # "terminate" => timeOutRtx < RtxLimit

\* Types and counts of the display's protocol state.
DisplayOK ==
    /\ state \in XdmcpStates /\ timeOutRtx \in 0 .. RtxLimit /\ sessionID \in SessionIDs
    /\ toManager \subseteq ToManager
    /\ running /\ exception # "terminate" => timeOutRtx < RtxLimit

ServerOK ==
    /\ sessionSocket \in Sockets \cup {0} /\ conns \subseteq Sockets
    /\ exception \in {"none", "reset", "terminate"}
    /\ oneSession \in BOOLEAN /\ running \in BOOLEAN

ManagerOK == granted \in SessionIDs /\ managed \in {0, granted}

LEMMA InvParts ==
    XdmcpInv <=> /\ DisplayOK /\ ServerOK /\ ManagerOK /\ XdmcpSessionHasItsClient
                 /\ toDisplay \subseteq ToDisplay /\ calm \in BOOLEAN
BY DEF XdmcpInv, XdmcpTypeOK, DisplayOK, ServerOK, ManagerOK, SessionIDs

LEMMA PartsMakeInv ==
    ASSUME DisplayOK', ServerOK', ManagerOK', XdmcpSessionHasItsClient', toDisplay' \subseteq ToDisplay,
           calm' \in BOOLEAN
    PROVE  XdmcpInv'
BY DEF XdmcpInv, XdmcpTypeOK, DisplayOK, ServerOK, ManagerOK, SessionIDs

LEMMA LimitIsPositive == RtxLimit \in Nat \ {0} /\ KaLimit \in 1 .. RtxLimit
BY XdmcpAssumption

LEMMA PutIsOK ==
    ASSUME NEW S, NEW channel \in SUBSET S, NEW p \in S, NEW max
    PROVE  Put(channel, p, max) \subseteq S
BY DEF Put

\* What send_packet leaves: a datagram of the protocol, and a state in which
\* it waits for the answer.
LEMMA SendsOK ==
    ASSUME NEW s \in {"QUERY", "START_CONNECTION", "MANAGE", "KEEPALIVE"}, NEW id \in SessionIDs,
           NEW sent, toManager \subseteq ToManager, SendPacket(s, id, sent)
    PROVE  /\ state' \in XdmcpStates \ {"QUERY", "RUN_SESSION"}
           /\ state' = "AWAIT_ALIVE_RESPONSE" => s = "KEEPALIVE"
           /\ toManager' \subseteq ToManager
<1>1. PacketOf(s, id) \in ToManager
  BY DEF PacketOf, Packet, ToManager, SessionIDs
<1>2. toManager' \subseteq ToManager
  BY <1>1, PutIsOK DEF SendPacket
<1>3. /\ state' \in XdmcpStates \ {"QUERY", "RUN_SESSION"}
      /\ state' = "AWAIT_ALIVE_RESPONSE" => s = "KEEPALIVE"
  BY DEF SendPacket, Awaiting, XdmcpStates
<1> QED
  BY <1>2, <1>3

\* XdmcpDeadSession ends the session: the state is that of a query.
LEMMA DeadSessionOK ==
    ASSUME DisplayOK, ServerOK, NEW sent, DeadSession(sent), UNCHANGED sessionID
    PROVE  DisplayOK' /\ ServerOK' /\ XdmcpSessionHasItsClient'
<1>1. state' \in XdmcpStates \ {"QUERY", "RUN_SESSION"} /\ state' # "AWAIT_ALIVE_RESPONSE"
      /\ toManager' \subseteq ToManager
  BY SendsOK DEF DeadSession, DisplayOK
<1>2. DisplayOK'
  BY <1>1, LimitIsPositive DEF DeadSession, DisplayOK, XdmcpStates
<1>3. ServerOK'
  BY DEF DeadSession, ServerOK
<1>4. XdmcpSessionHasItsClient'
  BY <1>1 DEF XdmcpSessionHasItsClient, InSession
<1> QED
  BY <1>2, <1>3, <1>4

\* A state that sends and waits for something else than life.
LEMMA AsksOK ==
    ASSUME DisplayOK, ServerOK, NEW s \in {"QUERY", "START_CONNECTION", "MANAGE"}, NEW id \in SessionIDs,
           NEW sent, SendPacket(s, id, sent), sessionID' \in SessionIDs, UNCHANGED serverVars,
           timeOutRtx' = 0
    PROVE  DisplayOK' /\ ServerOK' /\ XdmcpSessionHasItsClient'
<1>1. state' \in XdmcpStates \ {"QUERY", "RUN_SESSION"} /\ state' # "AWAIT_ALIVE_RESPONSE"
      /\ toManager' \subseteq ToManager
  BY SendsOK DEF DisplayOK
<1>2. DisplayOK'
  BY <1>1, LimitIsPositive DEF DisplayOK, XdmcpStates, serverVars
<1>3. ServerOK'
  BY DEF ServerOK, serverVars
<1>4. XdmcpSessionHasItsClient'
  BY <1>1 DEF XdmcpSessionHasItsClient, InSession
<1> QED
  BY <1>2, <1>3, <1>4

LEMMA IgnoredOK ==
    ASSUME DisplayOK, ServerOK, XdmcpSessionHasItsClient, Ignored, timeOutRtx' = 0
    PROVE  DisplayOK' /\ ServerOK' /\ XdmcpSessionHasItsClient'
BY LimitIsPositive DEF DisplayOK, ServerOK, XdmcpSessionHasItsClient, InSession, Ignored, serverVars

LEMMA FatalOK ==
    ASSUME DisplayOK, ServerOK, Fatal, timeOutRtx' = 0
    PROVE  DisplayOK' /\ ServerOK' /\ XdmcpSessionHasItsClient'
<1>1. ~running'
  BY DEF Fatal
<1>2. DisplayOK'
  BY <1>1, LimitIsPositive DEF DisplayOK, Fatal
<1>3. ServerOK'
  BY <1>1 DEF ServerOK, Fatal
<1>4. XdmcpSessionHasItsClient'
  BY <1>1 DEF XdmcpSessionHasItsClient
<1> QED
  BY <1>2, <1>3, <1>4

\* XdmcpWakeupHandler with a datagram.
LEMMA ReceiveOK ==
    ASSUME XdmcpInv, NEW p \in toDisplay, NEW sent \in BOOLEAN, NEW again \in BOOLEAN,
           PacketArrives(p, sent, again)
    PROVE  XdmcpInv'
<1>0. /\ DisplayOK /\ ServerOK /\ ManagerOK /\ XdmcpSessionHasItsClient
      /\ toDisplay \subseteq ToDisplay /\ calm \in BOOLEAN
  BY InvParts
<1>1. /\ p.op \in {"WILLING", "ACCEPT", "REFUSE", "FAILED", "ALIVE", "DEAD"} /\ p.id \in SessionIDs
  BY <1>0 DEF ToDisplay
<1>2. /\ ManagerOK' /\ calm' \in BOOLEAN /\ toDisplay' \subseteq ToDisplay /\ timeOutRtx' = 0
      /\ running /\ exception = "none"
  BY <1>0 DEF PacketArrives, ReceivePacket, managerVars, ManagerOK
<1>3. sessionID \in SessionIDs
  BY <1>0 DEF DisplayOK
<1>4. DisplayOK' /\ ServerOK' /\ XdmcpSessionHasItsClient'
  <2>1. CASE RecvWilling(sent)
    BY <1>0, <1>2, <1>3, <2>1, AsksOK, IgnoredOK DEF RecvWilling
  <2>2. CASE RecvAccept(p.id, sent)
    BY <1>0, <1>1, <1>2, <1>3, <2>2, AsksOK, IgnoredOK DEF RecvAccept
  <2>3. CASE RecvRefuse(p.id, sent)
    BY <1>0, <1>1, <1>2, <1>3, <2>3, AsksOK, IgnoredOK DEF RecvRefuse
  <2>4. CASE RecvFailed(p.id)
    BY <1>0, <1>2, <2>4, FatalOK, IgnoredOK DEF RecvFailed
  <2>5. ASSUME NEW runs \in BOOLEAN, RecvAlive(runs, p.id, sent)
        PROVE  DisplayOK' /\ ServerOK' /\ XdmcpSessionHasItsClient'
    <3>1. CASE /\ state = "AWAIT_ALIVE_RESPONSE" /\ state' = "RUN_SESSION"
               /\ UNCHANGED <<sessionID, serverVars, toManager>>
      BY <1>0, <1>2, <3>1, LimitIsPositive
         DEF DisplayOK, ServerOK, XdmcpStates, XdmcpSessionHasItsClient, InSession, serverVars
    <3>2. CASE DeadSession(sent) /\ UNCHANGED sessionID
      BY <1>0, <3>2, DeadSessionOK
    <3>3. CASE Ignored
      BY <1>0, <1>2, <3>3, IgnoredOK
    <3> QED
      BY <2>5, <3>1, <3>2, <3>3 DEF RecvAlive
  <2> QED
    BY <1>1, <2>1, <2>2, <2>3, <2>4, <2>5 DEF PacketArrives, ReceivePacket
<1> QED
  BY <1>2, <1>4, PartsMakeInv

\* XdmcpWakeupHandler after a time-out.
LEMMA TimeOutOK ==
    ASSUME XdmcpInv, NEW sent \in BOOLEAN, TimeOut(sent)
    PROVE  XdmcpInv'
<1>0. /\ DisplayOK /\ ServerOK /\ ManagerOK /\ XdmcpSessionHasItsClient
      /\ toDisplay \subseteq ToDisplay /\ calm \in BOOLEAN
      /\ running /\ exception = "none"
  BY InvParts DEF TimeOut
<1>1. ManagerOK' /\ calm' \in BOOLEAN /\ toDisplay' \subseteq ToDisplay
  BY <1>0 DEF TimeOut, managerVars, ManagerOK
<1>2. /\ sessionID \in SessionIDs /\ toManager \subseteq ToManager /\ state \in XdmcpStates
      /\ timeOutRtx \in 0 .. RtxLimit - 1
  BY <1>0, LimitIsPositive DEF DisplayOK
<1>3. CASE KeepAlive(sent)
  <2>1. state' \in XdmcpStates \ {"QUERY", "RUN_SESSION"} /\ toManager' \subseteq ToManager
    BY <1>2, <1>3, SendsOK DEF KeepAlive
  <2>2. DisplayOK' /\ ServerOK'
    BY <1>0, <1>3, <2>1 DEF KeepAlive, DisplayOK, ServerOK, serverVars
  <2>3. XdmcpSessionHasItsClient'
    BY <1>0, <1>3, <2>1 DEF KeepAlive, XdmcpSessionHasItsClient, InSession, serverVars
  <2> QED
    BY <1>1, <2>2, <2>3, PartsMakeInv
<1>4. CASE Timeout(sent)
  <2>1. CASE /\ timeOutRtx + 1 < RetransmissionLimit
             /\ timeOutRtx' = timeOutRtx + 1
             /\ SendPacket(Again[state], sessionID, sent)
             /\ UNCHANGED serverVars
    <3>1. /\ Again[state] \in {"QUERY", "START_CONNECTION", "MANAGE", "KEEPALIVE"}
          /\ Again[state] = "KEEPALIVE" => state = "AWAIT_ALIVE_RESPONSE"
      BY <1>4 DEF Timeout, Again
    <3>2. /\ state' \in XdmcpStates \ {"QUERY", "RUN_SESSION"} /\ toManager' \subseteq ToManager
          /\ state' = "AWAIT_ALIVE_RESPONSE" => state = "AWAIT_ALIVE_RESPONSE"
      BY <1>2, <2>1, <3>1, SendsOK
    <3>3. timeOutRtx' \in 0 .. RtxLimit /\ timeOutRtx' < RtxLimit
      BY <1>2, <2>1, LimitIsPositive DEF RetransmissionLimit
    <3>4. DisplayOK' /\ ServerOK'
      BY <1>0, <1>2, <1>4, <2>1, <3>2, <3>3 DEF Timeout, DisplayOK, ServerOK, serverVars
    <3>5. XdmcpSessionHasItsClient'
      BY <1>0, <2>1, <3>2 DEF XdmcpSessionHasItsClient, InSession, serverVars
    <3> QED
      BY <1>1, <3>4, <3>5, PartsMakeInv
  <2>2. CASE DeadSession(sent)
    <3>1. DisplayOK' /\ ServerOK' /\ XdmcpSessionHasItsClient'
      BY <1>0, <1>4, <2>2, DeadSessionOK DEF Timeout
    <3> QED
      BY <1>1, <3>1, PartsMakeInv
  <2>3. CASE /\ exception' = "terminate" /\ timeOutRtx' = timeOutRtx + 1
             /\ UNCHANGED <<state, sessionSocket, conns, oneSession, running, toManager>>
    <3>1. DisplayOK' /\ ServerOK'
      BY <1>0, <1>2, <1>4, <2>3, LimitIsPositive DEF Timeout, DisplayOK, ServerOK
    <3>2. XdmcpSessionHasItsClient'
      BY <1>0, <2>3 DEF XdmcpSessionHasItsClient, InSession
    <3> QED
      BY <1>1, <3>1, <3>2, PartsMakeInv
  <2> QED
    BY <1>4, <2>1, <2>2, <2>3 DEF Timeout
<1> QED
  BY <1>3, <1>4 DEF TimeOut

\* XdmcpReset, after every client was killed.
LEMMA ResetOK ==
    ASSUME XdmcpInv, NEW sent \in BOOLEAN, XdmcpReset(sent)
    PROVE  XdmcpInv'
<1>0. /\ DisplayOK /\ ServerOK /\ ManagerOK
      /\ toDisplay \subseteq ToDisplay /\ calm \in BOOLEAN
  BY InvParts
<1>1. ManagerOK' /\ calm' \in BOOLEAN /\ toDisplay' \subseteq ToDisplay /\ ServerOK'
  BY <1>0 DEF XdmcpReset, managerVars, ManagerOK, ServerOK, Ends
<1>2. CASE Ends
  <2>1. ~running'
    BY <1>2 DEF XdmcpReset
  <2>2. DisplayOK' /\ XdmcpSessionHasItsClient'
    BY <1>0, <1>2, <2>1 DEF XdmcpReset, DisplayOK, XdmcpSessionHasItsClient, displayVars
  <2> QED
    BY <1>1, <2>2, PartsMakeInv
<1>3. CASE ~Ends
  <2>1. /\ SendPacket("QUERY", sessionID, sent) /\ timeOutRtx' = 0 /\ UNCHANGED sessionID
    BY <1>3 DEF XdmcpReset
  <2>2. state' \in XdmcpStates \ {"QUERY", "RUN_SESSION"} /\ state' # "AWAIT_ALIVE_RESPONSE"
        /\ toManager' \subseteq ToManager
    BY <1>0, <2>1, SendsOK DEF DisplayOK
  <2>3. DisplayOK'
    BY <1>0, <2>1, <2>2, LimitIsPositive DEF DisplayOK
  <2>4. XdmcpSessionHasItsClient'
    BY <2>2 DEF XdmcpSessionHasItsClient, InSession
  <2> QED
    BY <1>1, <2>3, <2>4, PartsMakeInv
<1> QED
  BY <1>2, <1>3

\* A connection comes, with XdmcpOpenDisplay, or goes, with XdmcpCloseDisplay.
LEMMA AcceptOK ==
    ASSUME XdmcpInv, NEW sock \in Sockets, AcceptConnection(sock)
    PROVE  XdmcpInv'
<1>0. /\ DisplayOK /\ ServerOK /\ ManagerOK /\ XdmcpSessionHasItsClient
      /\ toDisplay \subseteq ToDisplay /\ calm \in BOOLEAN
  BY InvParts
<1>1. ManagerOK' /\ calm' \in BOOLEAN /\ toDisplay' \subseteq ToDisplay
  BY <1>0 DEF AcceptConnection, managerVars, ManagerOK
<1>2. DisplayOK' /\ ServerOK'
  BY <1>0 DEF AcceptConnection, OpenDisplay, DisplayOK, ServerOK, XdmcpStates
<1>3. XdmcpSessionHasItsClient'
  BY <1>0 DEF AcceptConnection, OpenDisplay, XdmcpSessionHasItsClient, InSession
<1> QED
  BY <1>1, <1>2, <1>3, PartsMakeInv

LEMMA DisconnectOK ==
    ASSUME XdmcpInv, NEW sock \in Sockets, NEW client \in BOOLEAN, Disconnect(sock, client)
    PROVE  XdmcpInv'
<1>0. /\ DisplayOK /\ ServerOK /\ ManagerOK /\ XdmcpSessionHasItsClient
      /\ toDisplay \subseteq ToDisplay /\ calm \in BOOLEAN
  BY InvParts
<1>1. ManagerOK' /\ calm' \in BOOLEAN /\ toDisplay' \subseteq ToDisplay
  BY <1>0 DEF Disconnect, managerVars, ManagerOK
<1>2. DisplayOK' /\ ServerOK'
  BY <1>0 DEF Disconnect, DisplayOK, ServerOK, XdmcpStates
<1>3. XdmcpSessionHasItsClient'
  BY <1>0 DEF Disconnect, EndsSession, XdmcpSessionHasItsClient, InSession
<1> QED
  BY <1>1, <1>2, <1>3, PartsMakeInv

\* The manager.
LEMMA AnswerOK ==
    ASSUME XdmcpInv, NEW p \in toManager, NEW again \in BOOLEAN, NEW answer \in Answers(p),
           ManagerAnswers(p, answer, again)
    PROVE  XdmcpInv'
<1>0. /\ DisplayOK /\ ServerOK /\ ManagerOK /\ XdmcpSessionHasItsClient
      /\ toDisplay \subseteq ToDisplay /\ calm \in BOOLEAN
  BY InvParts
<1>1. p.op \in {"QUERY", "REQUEST", "MANAGE", "KEEPALIVE"} /\ p.id \in SessionIDs
  BY <1>0 DEF DisplayOK, ToManager
<1>2. /\ answer \in ToDisplay \/ answer = Packet("CONNECTS", granted)
      /\ answer.op = "ACCEPT" => answer.id \in Sessions
  BY <1>0, <1>1 DEF Answers, Packet, ToDisplay, ManagerOK, SessionIDs
<1>3. /\ answer.op # "CONNECTS" => answer \in ToDisplay
      /\ answer.op = "CONNECTS" => answer.id = granted
  BY <1>2 DEF Packet, ToDisplay
<1>4. toDisplay' \subseteq ToDisplay
  BY <1>0, <1>3, PutIsOK DEF ManagerAnswers
<1>5. ManagerOK'
  BY <1>0, <1>2, <1>3 DEF ManagerAnswers, ManagerOK, SessionIDs
<1>6. DisplayOK' /\ ServerOK' /\ calm' \in BOOLEAN
  BY <1>0 DEF ManagerAnswers, DisplayOK, ServerOK, displayVars, serverVars
<1>7. XdmcpSessionHasItsClient'
  BY <1>0 DEF ManagerAnswers, XdmcpSessionHasItsClient, InSession, displayVars, serverVars
<1> QED
  BY <1>4, <1>5, <1>6, <1>7, PartsMakeInv

LEMMA DeclineOK ==
    ASSUME XdmcpInv, NEW p \in toManager, ManagerDeclines(p)
    PROVE  XdmcpInv'
<1>0. /\ DisplayOK /\ ServerOK /\ ManagerOK /\ toDisplay \subseteq ToDisplay /\ calm \in BOOLEAN
  BY InvParts
<1>1. ManagerOK' /\ toDisplay' \subseteq ToDisplay /\ calm' \in BOOLEAN
  BY <1>0 DEF ManagerDeclines, ManagerOK, managerVars
<1>2. DisplayOK' /\ ServerOK' /\ XdmcpSessionHasItsClient'
  BY <1>0, FatalOK DEF ManagerDeclines
<1> QED
  BY <1>1, <1>2, PartsMakeInv

\* What touches neither the display's state nor its connections.
LEMMA OthersOK ==
    ASSUME XdmcpInv,
           \/ HangUp \/ ManagerCrashes \/ CalmDown \/ UNCHANGED xdmcpVars
           \/ \E p \in toManager \cup toDisplay : Lose(p)
    PROVE  XdmcpInv'
<1>0. /\ DisplayOK /\ ServerOK /\ ManagerOK /\ XdmcpSessionHasItsClient
      /\ toDisplay \subseteq ToDisplay /\ calm \in BOOLEAN
  BY InvParts
<1> USE DEF displayVars, serverVars, managerVars
<1>1. CASE HangUp
  BY <1>0, <1>1, PartsMakeInv DEF HangUp, DisplayOK, ServerOK, ManagerOK, XdmcpSessionHasItsClient, InSession
<1>2. CASE ManagerCrashes
  BY <1>0, <1>2, PartsMakeInv DEF ManagerCrashes, DisplayOK, ServerOK, ManagerOK, XdmcpSessionHasItsClient, InSession
<1>3. CASE CalmDown
  BY <1>0, <1>3, PartsMakeInv DEF CalmDown, DisplayOK, ServerOK, ManagerOK, XdmcpSessionHasItsClient, InSession
<1>4. CASE UNCHANGED xdmcpVars
  BY <1>0, <1>4, PartsMakeInv DEF xdmcpVars, DisplayOK, ServerOK, ManagerOK, XdmcpSessionHasItsClient, InSession
<1>5. CASE \E p \in toManager \cup toDisplay : Lose(p)
  BY <1>0, <1>5, PartsMakeInv DEF Lose, DisplayOK, ServerOK, ManagerOK, XdmcpSessionHasItsClient, InSession
<1> QED
  BY <1>1, <1>2, <1>3, <1>4, <1>5

LEMMA XdmcpInitOK == XdmcpInit => XdmcpInv
<1> SUFFICES ASSUME XdmcpInit PROVE XdmcpInv
  OBVIOUS
<1>1. toManager \subseteq ToManager
  BY DEF XdmcpInit, ToManager, Packet, SessionIDs
<1>2. DisplayOK
  BY <1>1, LimitIsPositive DEF XdmcpInit, DisplayOK, XdmcpStates, SessionIDs
<1>3. ServerOK /\ ManagerOK /\ XdmcpSessionHasItsClient
  BY DEF XdmcpInit, ServerOK, ManagerOK, XdmcpSessionHasItsClient, InSession, SessionIDs
<1> QED
  BY <1>2, <1>3, InvParts DEF XdmcpInit

LEMMA XdmcpStepOK == XdmcpInv /\ [XdmcpNext]_xdmcpVars => XdmcpInv'
<1> SUFFICES ASSUME XdmcpInv, [XdmcpNext]_xdmcpVars PROVE XdmcpInv'
  OBVIOUS
<1>1. ASSUME NEW p \in toDisplay, Receives(p) PROVE XdmcpInv'
  BY <1>1, ReceiveOK DEF Receives
<1>2. ASSUME NEW p \in toManager, ManagerServes(p) PROVE XdmcpInv'
  BY <1>2, AnswerOK DEF ManagerServes
<1>3. ASSUME NEW p \in toManager, ManagerDeclines(p) PROVE XdmcpInv'
  BY <1>3, DeclineOK
<1>4. ASSUME NEW sent \in BOOLEAN, TimeOut(sent) \/ XdmcpReset(sent) PROVE XdmcpInv'
  BY <1>4, TimeOutOK, ResetOK
<1>5. ASSUME NEW sock \in Sockets, LocalConnects(sock) \/ ManagerConnects(sock) PROVE XdmcpInv'
  BY <1>5, AcceptOK DEF LocalConnects, ManagerConnects
<1>6. ASSUME NEW sock \in Sockets, NEW client \in BOOLEAN, Disconnect(sock, client) PROVE XdmcpInv'
  BY <1>6, DisconnectOK
<1>7. CASE \/ HangUp \/ ManagerCrashes \/ CalmDown \/ UNCHANGED xdmcpVars
           \/ \E p \in toManager \cup toDisplay : Lose(p)
  BY <1>7, OthersOK
<1>8. CASE Over
  BY <1>8, OthersOK DEF Over
<1> QED
  BY <1>1, <1>2, <1>3, <1>4, <1>5, <1>6, <1>7, <1>8 DEF XdmcpNext

\* The types of the protocol's state.  Retransmissions are never counted past
\* the limit (timeout).
THEOREM XdmcpTypeCorrect == XdmcpSpec => []XdmcpTypeOK
<1>1. XdmcpInv => XdmcpTypeOK
  BY DEF XdmcpInv
<1> QED
  BY XdmcpInitOK, XdmcpStepOK, <1>1, PTL DEF XdmcpSpec

\* A running session hangs on a connection that is open, and the state without
\* a way out is left by a reset (XdmcpOpenDisplay, XdmcpCloseDisplay,
\* recv_alive_msg, timeout and XdmcpReset).
THEOREM SessionHasItsClient == XdmcpSpec => []XdmcpSessionHasItsClient
<1>1. XdmcpInv => XdmcpSessionHasItsClient
  BY DEF XdmcpInv
<1> QED
  BY XdmcpInitOK, XdmcpStepOK, <1>1, PTL DEF XdmcpSpec
=============================================================================
