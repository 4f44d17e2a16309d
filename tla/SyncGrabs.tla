----------------------------- MODULE SyncGrabs -----------------------------
(***************************************************************************)
(* Active and passive grabs of the core pointer and keyboard, the freezing *)
(* and thawing of the two devices, and the queue of events that arrived    *)
(* while a device was frozen (dix/events.c, "synchronous events").         *)
(*                                                                         *)
(* The server is one thread, but its calls nest: playing a queued event    *)
(* can activate a grab, whose ComputeFreezes runs while the outer one is   *)
(* still playing, and unmapping a window deactivates grabs, which replays  *)
(* events in the middle of the unmapping.  todo is the stack of what the   *)
(* server still has to do before it takes the next request or input event. *)
(* The windows are a path of nested windows under the pointer, 1 the root. *)
(* The keyboard focus is PointerRoot.  A device has one key or button.     *)
(***************************************************************************)
EXTENDS Integers, Sequences, FiniteSets

CONSTANTS
  Clients,
  None,           \* no client, no device
  Depth,          \* number of windows on the path under the pointer
  Owner,          \* Owner[w]: the client that created window w, or None
  PassiveGrabs,   \* the passive grabs that clients may have established
  RequestedGrabs, \* the grabs that GrabPointer and GrabKeyboard ask for
  KeyIsModifier,  \* modifiersDetail: a repeated press of a modifier is dropped
  MaxEvents       \* bound: number of events from the devices

Devices == {"mouse", "keybd"}
Windows == 1 .. Depth
Root    == 1

ASSUME SyncGrabsAssumption ==
  /\ None \notin Clients /\ None \notin Devices
  /\ Depth \in Nat \ {0}
  /\ Owner \in [Windows -> Clients \cup {None}]
  /\ Owner[Root] = None
  /\ KeyIsModifier \in BOOLEAN
  /\ MaxEvents \in Nat

\* GrabRec: "this" and "others" are its pointerMode and keyboardMode as
\* CheckGrabForSyncs takes them for the device that is grabbed.
GrabModes == {"Sync", "Async"}
Grabs   == [client : Clients, window : Windows, this : GrabModes, others : GrabModes]
NoGrab  == [client |-> None, window |-> Root, this |-> "Async", others |-> "Async"]
Passive == [grab : Grabs, dev : Devices]

ASSUME GrabsAssumption ==
  /\ PassiveGrabs \subseteq Passive
  /\ RequestedGrabs \subseteq Grabs

Frozen == {"FROZEN_NO_EVENT", "FROZEN_WITH_EVENT"}
States == {"NOT_GRABBED", "THAWED", "FREEZE_NEXT_EVENT", "FREEZE_BOTH_NEXT_EVENT"} \cup Frozen

Press   == "press"      \* KeyPress, ButtonPress
Release == "release"
Motion  == "motion"
\* n numbers the events in the order the devices produced them; again marks
\* the second half of a press that ProcessKeyboardEvent split in two.
Events  == [dev : Devices, type : {Press, Release, Motion}, n : Nat, again : BOOLEAN]
NoEvent == [dev |-> "mouse", type |-> Motion, n |-> 0, again |-> FALSE]

Item(op, dev, ev, arg) == [op |-> op, dev |-> dev, ev |-> ev, arg |-> arg]
Input(ev)        == Item("input", ev.dev, ev, None)     \* processInputProc(ev)
Replay(dev, w)   == Item("replay", dev, NoEvent, w)     \* ComputeFreezes, replayDev
PlayReleased     == Item("play", "mouse", NoEvent, None)
Save(ev, above)  == Item("save", ev.dev, ev, above)     \* end of CheckPassiveGrabsOnWindow
Drop(w, dev)     == Item("drop", dev, NoEvent, w)       \* DeleteWindowFromAnyEvents
Restructure      == Item("restructure", "mouse", NoEvent, None)
FreeWindow(w)    == Item("freeWindow", "mouse", NoEvent, w)
ReleaseGrabs(c)  == Item("release", "mouse", NoEvent, c)
FreeResources(c) == Item("free", "mouse", NoEvent, c)

VARIABLES
  grab,            \* per device: *dev->grab, or NoGrab
  fromPassiveGrab, \* per device
  state,           \* per device: sync.state
  other,           \* per device: the device whose activeGrab sync.other points to
  frozen,          \* per device: sync.frozen, and processInputProc = EnqueueEvent
  saved,           \* per device: sync.event
  activatingKey,   \* keybd->activatingKey is the key
  down,            \* per device: its key or button is down
  pending,         \* syncEvents.pending
  hasTail,         \* *syncEvents.pendtail is the last queued event, not NULL
  playing,         \* syncEvents.playingEvents
  todo,            \* the nested calls still to finish
  trace,           \* how much of the path is in spriteTrace
  realized,        \* how much of the path is realized
  exists,          \* how much of the path still exists
  passive,         \* the passive grabs of the windows
  alive,           \* the clients that are connected
  sent,            \* number of events produced; last number per device (history)
  done             \* per device: the last event processed (history)

syncs   == <<grab, fromPassiveGrab, state, other, frozen>>
queue   == <<pending, hasTail>>
world   == <<trace, realized, exists, passive, alive>>
vars    == <<syncs, saved, activatingKey, down, queue, playing, todo, world, sent, done>>

Idle == todo = <<>>
Top  == Head(todo)
Rest == Tail(todo)
Running(op) == todo # <<>> /\ Top.op = op

Init ==
  /\ grab = [d \in Devices |-> NoGrab]
  /\ fromPassiveGrab = [d \in Devices |-> FALSE]
  /\ state = [d \in Devices |-> "NOT_GRABBED"]
  /\ other = [d \in Devices |-> None]
  /\ frozen = [d \in Devices |-> FALSE]
  /\ saved = [d \in Devices |-> [NoEvent EXCEPT !.dev = d]]
  /\ activatingKey \in BOOLEAN          \* AddInputDevice leaves it as xalloc found it
  /\ down = [d \in Devices |-> FALSE]
  /\ pending = <<>> /\ hasTail = FALSE
  /\ playing = FALSE
  /\ todo = <<>>
  /\ trace = Depth /\ realized = Depth /\ exists = Depth
  /\ passive \in SUBSET PassiveGrabs
  /\ alive = Clients
  /\ sent = [d \in Devices |-> 0]
  /\ done = [d \in Devices |-> 0]

-----------------------------------------------------------------------------
(* Freezing.                                                               *)

ComputeFreezesUnlessPlaying(replay, rest) ==   \* mutant
  IF playing \/ (replay = <<>> /\ pending = <<>>)
  THEN todo' = rest /\ UNCHANGED <<playing, frozen>>
  ELSE /\ frozen' = [d \in Devices |-> other'[d] # None \/ state'[d] \in Frozen]
       /\ todo' = replay \o <<PlayReleased>> \o rest /\ playing' = TRUE
\* ComputeFreezes: every device is frozen by its own state or by another's grab;
\* then, unless a replay is already under way, the event of replayDev and the
\* queued events that are free to go are replayed.
ComputeFreezes(replay, rest) ==
  /\ frozen' = [d \in Devices |-> other'[d] # None \/ state'[d] \in Frozen]
  /\ IF playing \/ (replay = <<>> /\ pending = <<>>)
     THEN todo' = rest /\ UNCHANGED playing
     ELSE todo' = replay \o <<PlayReleased>> \o rest /\ playing' = TRUE

OwnerOf(e) == IF e = None THEN None ELSE grab[e].client

\* The freeze of device e by another's grab after d is grabbed with g: a grab of
\* the same client that does not want e frozen frees it.
OtherAfter(d, g, e) ==
  LET owner == IF other[e] = d THEN g.client ELSE OwnerOf(other[e])
      mode  == IF e = d THEN g.this ELSE g.others
  IN IF e # d /\ mode = "Sync" THEN d
     ELSE IF mode = "Async" /\ owner = g.client THEN None
     ELSE other[e]

\* ActivatePointerGrab or ActivateKeyboardGrab, with CheckGrabForSyncs.
ActivateGrab(d, g, isPassive, rest) ==
  /\ grab' = [grab EXCEPT ![d] = g]
  /\ fromPassiveGrab' = [fromPassiveGrab EXCEPT ![d] = isPassive]
  /\ state' = [state EXCEPT ![d] = IF g.this = "Sync" THEN "FROZEN_NO_EVENT" ELSE "THAWED"]
  /\ other' = [e \in Devices |-> OtherAfter(d, g, e)]
  /\ ComputeFreezes(<<>>, rest)

DeactivateGrabKeepsOther(d, replay, rest) ==   \* mutant
  /\ grab' = [grab EXCEPT ![d] = NoGrab]
  /\ fromPassiveGrab' = [fromPassiveGrab EXCEPT ![d] = FALSE]
  /\ state' = [state EXCEPT ![d] = "NOT_GRABBED"]
  /\ UNCHANGED other
  /\ ComputeFreezes(replay, rest)
\* DeactivatePointerGrab or DeactivateKeyboardGrab: nobody stays frozen by it.
DeactivateGrab(d, replay, rest) ==
  /\ grab' = [grab EXCEPT ![d] = NoGrab]
  /\ fromPassiveGrab' = [fromPassiveGrab EXCEPT ![d] = FALSE]
  /\ state' = [state EXCEPT ![d] = "NOT_GRABBED"]
  /\ other' = [e \in Devices |-> IF other[e] = d THEN None ELSE other[e]]
  /\ ComputeFreezes(replay, rest)

-----------------------------------------------------------------------------
(* One event reaches a device: the processInputProc of the device.         *)

CompressesAnything == Top.ev.type = Motion /\ hasTail   \* mutant
\* A motion replaces the newest queued event when that is a motion.
Compresses ==
  Top.ev.type = Motion /\ hasTail /\ pending[Len(pending)].type = Motion

\* EnqueueEvent, the processInputProc of a frozen device.
EnqueueEvent ==
  /\ Running("input") /\ frozen[Top.dev]
  /\ IF Compresses
     THEN pending' = [pending EXCEPT ![Len(pending)].n = Top.ev.n]
     ELSE pending' = Append(pending, Top.ev)
  /\ hasTail' = TRUE
  /\ todo' = Rest
  /\ UNCHANGED <<syncs, saved, activatingKey, down, playing, world, sent, done>>

Processed(ev) == done' = IF ev.again THEN done ELSE [done EXCEPT ![ev.dev] = ev.n]

\* The passive grabs of device d that CheckDeviceGrabs would activate: those on
\* the outermost window, inside the first `above` of the path, that has one.
Matching(d, above, path) ==
  LET onPath == {p \in passive : p.dev = d /\ p.grab.window \in above + 1 .. path}
  IN {p \in onPath : \A q \in onPath : p.grab.window <= q.grab.window}

ActivatesPassively(ev, above, path) ==
  ev.type = Press /\ Matching(ev.dev, above, path) # {}

\* CheckPassiveGrabsOnWindow: the grab is activated, which may replay events, and
\* only then is the event saved in sync.event.  The check is for all windows of
\* the path if the event came from the device (above = 0).
ActivatePassiveGrab(ev, above, path) ==
  \E p \in Matching(ev.dev, above, path) :
    ActivateGrab(ev.dev, p.grab, TRUE, <<Save(ev, above)>> \o Rest)

NotesActivatingKey ==
  activatingKey' = (activatingKey \/ (Top.dev = "keybd" /\ Top.arg = 0))

SaveEventUncopied ==   \* mutant
  /\ Running("save")
  /\ state' = [state EXCEPT ![Top.dev] = IF @ = "FROZEN_NO_EVENT" THEN "FROZEN_WITH_EVENT" ELSE @]
  /\ todo' = Rest
  /\ NotesActivatingKey
  /\ UNCHANGED <<saved, grab, fromPassiveGrab, other, frozen, down, queue, playing, world,
                 sent, done>>
\* With the event saved CheckDeviceGrabs returns, and CoreProcessKeyboardEvent notes
\* the key that activated the grab.  ComputeFreezes, which replays, does not.
SaveEvent ==
  /\ Running("save")
  /\ IF state[Top.dev] = "FROZEN_NO_EVENT"
     THEN /\ saved' = [saved EXCEPT ![Top.dev] = Top.ev]
          /\ state' = [state EXCEPT ![Top.dev] = "FROZEN_WITH_EVENT"]
     ELSE UNCHANGED <<saved, state>>
  /\ NotesActivatingKey
  /\ todo' = Rest
  /\ UNCHANGED <<grab, fromPassiveGrab, other, frozen, down, queue, playing, world,
                 sent, done>>

\* DeliverGrabbedEvent: an event that a client received, other than a motion, ends
\* a FREEZE_NEXT_EVENT or FREEZE_BOTH_NEXT_EVENT.
DeliverGrabbedEvent(ev) ==
  LET d == ev.dev
      freezesBoth == state[d] = "FREEZE_BOTH_NEXT_EVENT"
      joins(e) == /\ state[e] = "FREEZE_BOTH_NEXT_EVENT"
                  /\ grab[e].client = grab[d].client
  IN \E delivered \in BOOLEAN :
       /\ delivered => grab[d].client \in alive
       /\ IF /\ delivered /\ ev.type # Motion
             /\ state[d] \in {"FREEZE_NEXT_EVENT", "FREEZE_BOTH_NEXT_EVENT"}
          THEN /\ state' = [e \in Devices |->
                              IF e = d THEN "FROZEN_WITH_EVENT"
                              ELSE IF freezesBoth /\ joins(e) THEN "FROZEN_NO_EVENT"
                              ELSE state[e]]
               /\ other' = [e \in Devices |->
                              IF e # d /\ freezesBoth /\ ~joins(e) THEN d ELSE other[e]]
               /\ frozen' = [e \in Devices |-> e = d \/ freezesBoth \/ frozen[e]]
               /\ saved' = [saved EXCEPT ![d] = ev]
          ELSE UNCHANGED <<state, other, frozen, saved>>
       /\ todo' = Rest
       /\ UNCHANGED <<grab, fromPassiveGrab, playing>>

\* DeliverDeviceEvents or DeliverFocusedEvent: no grab, nothing freezes.
DeliverUngrabbed == todo' = Rest /\ UNCHANGED <<syncs, saved, playing>>

Deliver(ev) ==
  IF grab[ev.dev] # NoGrab THEN DeliverGrabbedEvent(ev) ELSE DeliverUngrabbed

\* A press: held down already, ProcessKeyboardEvent sends the key through
\* processInputProc twice, as a release and then as a press.
ProcessPress ==
  /\ Running("input") /\ ~frozen[Top.dev] /\ Top.ev.type = Press
  /\ LET ev == Top.ev IN
     IF ev.dev = "keybd" /\ down["keybd"]
     THEN /\ todo' = IF KeyIsModifier THEN Rest
                     ELSE <<Input([ev EXCEPT !.type = Release]),
                            Input([ev EXCEPT !.again = TRUE])>> \o Rest
          /\ IF KeyIsModifier THEN Processed(ev) ELSE UNCHANGED done
          /\ UNCHANGED <<syncs, saved, down, playing>>
     ELSE /\ down' = [down EXCEPT ![ev.dev] = TRUE]
          /\ Processed(ev)
          /\ IF grab[ev.dev] = NoGrab /\ ActivatesPassively(ev, 0, trace)
             THEN ActivatePassiveGrab(ev, 0, trace) /\ UNCHANGED saved
             ELSE Deliver(ev)
  /\ UNCHANGED <<activatingKey, queue, world, sent>>

EndsGrabUnlessPlaying(d) ==   \* mutant
  fromPassiveGrab[d] /\ (d = "keybd" => activatingKey) /\ ~playing
\* No button is down any more, or the key is the activatingKey.
EndsGrab(d) == fromPassiveGrab[d] /\ (d = "keybd" => activatingKey)

\* A release: of the key or button that activated a passive grab, it ends the
\* grab.  ProcessKeyboardEvent drops the release of a key that is up.
ProcessRelease ==
  /\ Running("input") /\ ~frozen[Top.dev] /\ Top.ev.type = Release
  /\ LET ev == Top.ev IN
     /\ Processed(ev)
     /\ down' = [down EXCEPT ![ev.dev] = FALSE]
     /\ IF ev.dev = "keybd" /\ ~down["keybd"]
        THEN todo' = Rest /\ UNCHANGED <<syncs, saved, playing>>
        ELSE IF EndsGrab(ev.dev)
        THEN DeactivateGrab(ev.dev, <<>>, Rest) /\ UNCHANGED saved
        ELSE Deliver(ev)
  /\ UNCHANGED <<activatingKey, queue, world, sent>>

\* A motion: CheckMotion finds the windows under the pointer again.
ProcessMotion ==
  /\ Running("input") /\ ~frozen[Top.dev] /\ Top.ev.type = Motion
  /\ Processed(Top.ev)
  /\ trace' = realized
  /\ todo' = Rest
  /\ UNCHANGED <<syncs, saved, activatingKey, down, queue, playing, realized, exists,
                 passive, alive, sent>>

-----------------------------------------------------------------------------
(* Replaying.                                                              *)

\* The first half of ComputeFreezes: the saved event of replayDev is offered to
\* the passive grabs below the window of the grab that was given up, and is
\* delivered if there is none.  No button down: CheckDeviceGrabs finds none.
\* XYToWindow finds the windows at the event anew.
ReplaySavedEvent ==
  /\ Running("replay")
  /\ LET ev == saved[Top.dev]
         above == Top.arg
     IN /\ trace' = realized
        /\ IF /\ above <= realized
              /\ ActivatesPassively(ev, above, realized)
              /\ Top.dev = "mouse" => down["mouse"]
           THEN ActivatePassiveGrab(ev, above, realized) /\ UNCHANGED saved
           ELSE DeliverUngrabbed
  /\ UNCHANGED <<activatingKey, down, queue, realized, exists, passive, alive, sent, done>>

\* PlayReleasedEvents: the first queued event whose device is not frozen goes
\* out, and the search starts again at the head of the queue.
PlayableAtHead ==   \* mutant
  {i \in 1 .. Len(pending) : i = 1 /\ ~frozen[pending[i].dev]}
Playable == {i \in 1 .. Len(pending) : ~frozen[pending[i].dev]}
LastPlayable(i)  == i \in Playable /\ \A j \in Playable : j <= i   \* mutant
FirstPlayable(i) == i \in Playable /\ \A j \in Playable : i <= j

StillLinked(i) == pending   \* mutant
Unlinked(i) == SubSeq(pending, 1, i - 1) \o SubSeq(pending, i + 1, Len(pending))

PlayReleasedEvents ==
  /\ Running("play")
  /\ \E i \in 1 .. Len(pending) :
     /\ FirstPlayable(i)
     /\ todo' = <<Input(pending[i])>> \o todo
     /\ pending' = Unlinked(i)
     /\ hasTail' = (hasTail /\ i < Len(pending))
  /\ UNCHANGED <<syncs, saved, activatingKey, down, playing, world, sent, done>>

PlayingEnds ==
  /\ Running("play") /\ Playable = {}
  /\ playing' = FALSE
  /\ todo' = Rest
  /\ UNCHANGED <<syncs, saved, activatingKey, down, queue, world, sent, done>>

-----------------------------------------------------------------------------
(* Input from the devices and requests of the clients: when nothing runs.  *)

DeviceInput(d, type) ==
  /\ Idle
  /\ \A e \in Devices : sent[e] < MaxEvents
  /\ type = Motion => d = "mouse"
  /\ LET n == 1 + (IF sent["mouse"] > sent["keybd"] THEN sent["mouse"] ELSE sent["keybd"])
     IN /\ sent' = [sent EXCEPT ![d] = n]
        /\ todo' = <<Input([dev |-> d, type |-> type, n |-> n, again |-> FALSE])>>
  /\ UNCHANGED <<syncs, saved, activatingKey, down, queue, playing, world, done>>

NotFrozenByOthers(c, d) == ~(frozen[d] /\ other[d] # None /\ OwnerOf(other[d]) # c)   \* mutant
\* Neither AlreadyGrabbed nor GrabFrozen.
MayGrab(c, d) ==
  /\ grab[d].client \in {None, c}
  /\ ~(frozen[d] /\ other[d] # None /\ OwnerOf(other[d]) # c)

\* ProcGrabPointer, ProcGrabKeyboard: AlreadyGrabbed, GrabNotViewable, GrabFrozen.
GrabDevice(d, g) ==
  /\ Idle /\ g.client \in alive
  /\ MayGrab(g.client, d)
  /\ g.window <= realized
  /\ ActivateGrab(d, g, FALSE, <<>>)
  /\ UNCHANGED <<saved, activatingKey, down, queue, world, sent, done>>

UngrabDevice(c, d) ==
  /\ Idle /\ c \in alive /\ grab[d].client = c
  /\ DeactivateGrab(d, <<>>, <<>>)
  /\ UNCHANGED <<saved, activatingKey, down, queue, world, sent, done>>

\* The tests at the head of AllowSome.
ThisGrabbed(c, d) == grab[d].client = c
SyncedByAnyone(c, d) == other[d] # None   \* mutant
ThisSynced(c, d)  == \E e \in Devices \ {d} : grab[e].client = c /\ other[d] = e
OthersFrozen(c, d) ==
  \A e \in Devices \ {d} :
    IF grab[e].client = c THEN state[e] \in Frozen ELSE OwnerOf(other[e]) = c
MayAllow(c, d) ==
  \/ ThisGrabbed(c, d) /\ state[d] \in Frozen
  \/ ThisSynced(c, d)

AllowsRequest(c, d) == Idle /\ c \in alive /\ MayAllow(c, d)

\* AsyncPointer, AsyncKeyboard (THAWED).
AllowAsync(c, d) ==
  /\ AllowsRequest(c, d)
  /\ state' = IF ThisGrabbed(c, d) THEN [state EXCEPT ![d] = "THAWED"] ELSE state
  /\ other' = IF ThisSynced(c, d) THEN [other EXCEPT ![d] = None] ELSE other
  /\ ComputeFreezes(<<>>, <<>>)
  /\ UNCHANGED <<grab, fromPassiveGrab, saved, activatingKey, down, queue, world,
                 sent, done>>

\* SyncPointer, SyncKeyboard (FREEZE_NEXT_EVENT).
AllowSync(c, d) ==
  /\ AllowsRequest(c, d) /\ ThisGrabbed(c, d)
  /\ state' = [state EXCEPT ![d] = "FREEZE_NEXT_EVENT"]
  /\ other' = IF ThisSynced(c, d) THEN [other EXCEPT ![d] = None] ELSE other
  /\ ComputeFreezes(<<>>, <<>>)
  /\ UNCHANGED <<grab, fromPassiveGrab, saved, activatingKey, down, queue, world,
                 sent, done>>

\* AsyncBoth (THAWED_BOTH) and SyncBoth (FREEZE_BOTH_NEXT_EVENT).
AllowBoth(c, newState) ==
  /\ AllowsRequest(c, "keybd") /\ OthersFrozen(c, "keybd")
  /\ state' = [e \in Devices |-> IF grab[e].client = c THEN newState ELSE state[e]]
  /\ other' = [e \in Devices |-> IF OwnerOf(other[e]) = c THEN None ELSE other[e]]
  /\ ComputeFreezes(<<>>, <<>>)
  /\ UNCHANGED <<grab, fromPassiveGrab, saved, activatingKey, down, queue, world,
                 sent, done>>

\* ReplayPointer, ReplayKeyboard (NOT_GRABBED): gives up the grab and replays.
\* sync.other was cleared first if thisSynced.
AllowReplay(c, d) ==
  /\ AllowsRequest(c, d) /\ ThisGrabbed(c, d)
  /\ state[d] = "FROZEN_WITH_EVENT"
  /\ grab' = [grab EXCEPT ![d] = NoGrab]
  /\ fromPassiveGrab' = [fromPassiveGrab EXCEPT ![d] = FALSE]
  /\ state' = [state EXCEPT ![d] = "NOT_GRABBED"]
  /\ other' = [e \in Devices |->
                 IF other[e] = d \/ (e = d /\ ThisSynced(c, d)) THEN None ELSE other[e]]
  /\ ComputeFreezes(<<Replay(d, grab[d].window)>>, <<>>)
  /\ UNCHANGED <<saved, activatingKey, down, queue, world, sent, done>>

\* UngrabButton, UngrabKey.
UngrabPassive(p) ==
  /\ Idle /\ p \in passive /\ p.grab.client \in alive
  /\ passive' = passive \ {p}
  /\ UNCHANGED <<syncs, saved, activatingKey, down, queue, playing, todo, trace, realized, exists,
                 alive, sent, done>>

-----------------------------------------------------------------------------
(* Windows and clients go away.                                            *)

\* UnmapWindow and UnrealizeTree: the window and those inside it, outermost
\* first; each gives up the grabs on it, the pointer's first, while spriteTrace
\* still holds it.  WindowsRestructured comes last.
UnrealizingTooFar(w) ==   \* mutant
  [i \in 1 .. 2 * (realized - w + 2) |->
     Drop(w + (i - 1) \div 2, IF i % 2 = 1 THEN "mouse" ELSE "keybd")]
Unrealizing(w) ==
  [i \in 1 .. 2 * (realized - w + 1) |->
     Drop(w + (i - 1) \div 2, IF i % 2 = 1 THEN "mouse" ELSE "keybd")]
Unmapping(w) == IF w <= realized THEN Unrealizing(w) \o <<Restructure>> ELSE <<>>

\* DeleteWindow after the unmapping: CrushTree and FreeWindowResources, the
\* innermost window first; DeleteWindowFromAnyEvents with freeResources.
Freeing(w) ==
  [i \in 1 .. 3 * (exists - w + 1) |->
     LET v == exists - (i - 1) \div 3
     IN IF i % 3 = 0 THEN FreeWindow(v) ELSE Drop(v, IF i % 3 = 1 THEN "mouse" ELSE "keybd")]

RealizedWithout(w) == IF w <= realized THEN w - 1 ELSE realized

UnmapWindow(w) ==
  /\ Idle /\ w \in 2 .. realized
  /\ todo' = Unmapping(w)
  /\ realized' = w - 1
  /\ UNCHANGED <<syncs, saved, activatingKey, down, queue, playing, trace, exists,
                 passive, alive, sent, done>>

\* MapWindow and RealizeTree, with those of the windows inside it that are mapped.
MapWindow(w) ==
  /\ Idle /\ w = realized + 1 /\ w <= exists
  /\ realized' \in w .. exists
  /\ todo' = <<Restructure>>
  /\ UNCHANGED <<syncs, saved, activatingKey, down, queue, playing, trace, exists,
                 passive, alive, sent, done>>

DestroyWindow(w) ==
  /\ Idle /\ w \in 2 .. exists
  /\ todo' = Unmapping(w) \o Freeing(w)
  /\ realized' = RealizedWithout(w)
  /\ UNCHANGED <<syncs, saved, activatingKey, down, queue, playing, trace, exists,
                 passive, alive, sent, done>>

\* DeleteWindowFromAnyEvents: a grab of the device on this window is deactivated.
DropGrab ==
  /\ Running("drop")
  /\ IF grab[Top.dev] # NoGrab /\ grab[Top.dev].window = Top.arg
     THEN DeactivateGrab(Top.dev, <<>>, Rest)
     ELSE todo' = Rest /\ UNCHANGED <<syncs, playing>>
  /\ UNCHANGED <<saved, activatingKey, down, queue, world, sent, done>>

WindowsRestructured ==
  /\ Running("restructure")
  /\ trace' = realized
  /\ todo' = Rest
  /\ UNCHANGED <<syncs, saved, activatingKey, down, queue, playing, realized, exists,
                 passive, alive, sent, done>>

FreeWindowResources ==
  /\ Running("freeWindow")
  /\ passive' = {p \in passive : p.grab.window # Top.arg}
  /\ exists' = Top.arg - 1
  /\ todo' = Rest
  /\ UNCHANGED <<syncs, saved, activatingKey, down, queue, playing, trace, realized,
                 alive, sent, done>>

\* CloseDownClient: ReleaseActiveGrabs, clientGone, FreeClientResources.
CloseDownClient(c) ==
  /\ Idle /\ c \in alive
  /\ todo' = <<ReleaseGrabs(c), FreeResources(c)>>
  /\ UNCHANGED <<syncs, saved, activatingKey, down, queue, playing, world, sent, done>>

\* ReleaseActiveGrabs goes over the devices until a pass finds no grab.
ReleaseActiveGrabs ==
  /\ Running("release")
  /\ LET c == Top.arg IN
     IF \E d \in Devices : grab[d].client = c
     THEN /\ \E d \in Devices : grab[d].client = c /\ DeactivateGrab(d, <<>>, todo)
          /\ UNCHANGED alive
     ELSE /\ alive' = alive \ {c}
          /\ todo' = Rest
          /\ UNCHANGED <<syncs, playing>>
  /\ UNCHANGED <<saved, activatingKey, down, queue, trace, realized, exists, passive,
                 sent, done>>

\* FreeClientResources: the resources go in the order of their hash buckets.
FreeClientResources ==
  /\ Running("free")
  /\ LET c == Top.arg
         grabs == {p \in passive : p.grab.client = c}
         wins  == {w \in 1 .. exists : Owner[w] = c}
     IN \/ /\ \E p \in grabs : passive' = passive \ {p}
           /\ UNCHANGED <<todo, realized>>
        \/ /\ \E w \in wins :
                /\ todo' = Unmapping(w) \o Freeing(w) \o todo
                /\ realized' = RealizedWithout(w)
           /\ UNCHANGED passive
        \/ /\ grabs = {} /\ wins = {}
           /\ todo' = Rest
           /\ UNCHANGED <<passive, realized>>
  /\ UNCHANGED <<syncs, saved, activatingKey, down, queue, playing, trace, exists,
                 alive, sent, done>>

-----------------------------------------------------------------------------
ServerStep ==
  \/ EnqueueEvent \/ ProcessPress \/ ProcessRelease \/ ProcessMotion \/ SaveEvent
  \/ ReplaySavedEvent \/ PlayReleasedEvents \/ PlayingEnds
  \/ DropGrab \/ WindowsRestructured \/ FreeWindowResources
  \/ ReleaseActiveGrabs \/ FreeClientResources

Request(c) ==
  \/ \E d \in Devices, g \in RequestedGrabs : g.client = c /\ GrabDevice(d, g)
  \/ \E d \in Devices : UngrabDevice(c, d) \/ AllowAsync(c, d) \/ AllowSync(c, d) \/ AllowReplay(c, d)
  \/ \E new \in {"THAWED", "FREEZE_BOTH_NEXT_EVENT"} : AllowBoth(c, new)
  \/ \E p \in passive : p.grab.client = c /\ UngrabPassive(p)
  \/ CloseDownClient(c)

Next ==
  \/ ServerStep
  \/ \E d \in Devices, type \in {Press, Release, Motion} : DeviceInput(d, type)
  \/ \E c \in Clients : Request(c)
  \/ \E w \in Windows : UnmapWindow(w) \/ MapWindow(w) \/ DestroyWindow(w)

Spec == Init /\ [][Next]_vars

\* Every call of the server returns.
FairSpec == Spec /\ WF_vars(ServerStep)

-----------------------------------------------------------------------------
(* Properties.                                                             *)

Ops == {"input", "replay", "play", "save", "drop", "restructure", "freeWindow",
        "release", "free"}

TypeOK ==
  /\ grab \in [Devices -> Grabs \cup {NoGrab}]
  /\ fromPassiveGrab \in [Devices -> BOOLEAN]
  /\ state \in [Devices -> States]
  /\ other \in [Devices -> Devices \cup {None}]
  /\ frozen \in [Devices -> BOOLEAN]
  /\ saved \in [Devices -> Events]
  /\ activatingKey \in BOOLEAN
  /\ down \in [Devices -> BOOLEAN]
  /\ pending \in Seq(Events) /\ hasTail \in BOOLEAN
  /\ playing \in BOOLEAN
  /\ todo \in Seq([op : Ops, dev : Devices, ev : Events, arg : (0 .. Depth) \cup Clients \cup {None}])
  /\ trace \in Windows /\ realized \in Windows /\ exists \in Windows
  /\ passive \in SUBSET PassiveGrabs
  /\ alive \in SUBSET Clients
  /\ sent \in [Devices -> Nat] /\ done \in [Devices -> Nat]

\* The procedure that takes a device's events is EnqueueEvent exactly when its
\* sync state or another device's grab freezes it, at every point of every call.
FrozenForAReason ==
  \A d \in Devices : frozen[d] <=> other[d] # None \/ state[d] \in Frozen

\* sync.other never points to a grab that is over, nor to the device's own, and
\* the sync state is NOT_GRABBED exactly when there is no active grab.
FreezesComeFromGrabs ==
  \A d \in Devices :
    /\ other[d] # None => other[d] # d /\ grab[other[d]] # NoGrab
    /\ state[d] = "NOT_GRABBED" <=> grab[d] = NoGrab
    /\ fromPassiveGrab[d] => grab[d] # NoGrab

\* When the server waits for the next request or input, no event is left in the
\* queue whose device is free to take it: no thaw forgets to replay.
NoStrandedEvents ==
  Idle => ~playing /\ \A i \in 1 .. Len(pending) : frozen[pending[i].dev]

\* The queued events of a device are in order, and later than what was done.
InOrder ==
  \A i \in 1 .. Len(pending) :
    ~pending[i].again =>
      /\ pending[i].n > done[pending[i].dev]
      /\ \A j \in 1 .. i - 1 :
           pending[j].dev = pending[i].dev /\ ~pending[j].again => pending[j].n < pending[i].n
\* A device's last event is done, or queued.
NothingLost ==
  Idle => \A d \in Devices :
    \/ done[d] = sent[d]
    \/ \E i \in 1 .. Len(pending) : pending[i].dev = d /\ pending[i].n = sent[d]

\* Events of a device reach the rest of the server in the order in which the
\* device produced them, none lost, and none twice; a motion may be replaced by a
\* later one.  (The second half of a repeated press is not counted.)
EventsAreKept == InOrder /\ NothingLost

\* What AllowEvents replays is the last event the device processed, and a press
\* that is replayed is one whose release is still to come.  A button grab that a
\* press activated does not outlive that press.  Nor does a key grab, unless a
\* replay activated it before the key was ever noted as the activatingKey: the
\* release that should end the grab is then taken for that of another key.
SavedEventIsTheLast ==
  \A d \in Devices : state[d] = "FROZEN_WITH_EVENT" =>
    /\ saved[d].dev = d
    /\ ~saved[d].again => saved[d].n = done[d]
    /\ saved[d].type = Press => down[d]
PassiveGrabHoldsThePress ==
  \A d \in Devices :
    fromPassiveGrab[d] => down[d] \/ (d = "keybd" /\ ~activatingKey)
ReplayIsOfTheLast == SavedEventIsTheLast /\ PassiveGrabHoldsThePress

\* An active grab of one client is never replaced by another client's.
GrabIsNeverStolen ==
  [][\A d \in Devices :
       grab[d] # NoGrab /\ grab'[d] # NoGrab => grab'[d].client = grab[d].client]_vars

\* A device that is frozen by the grab of another stays so until that grab is
\* over, or its owner allows events, or its owner gets a grab that leaves it free.
OnlyTheOwnerThaws ==
  [][\A d, e \in Devices :
       other[d] = e /\ other'[d] # e /\ grab'[e] # NoGrab =>
         \/ \E f \in Devices : AllowAsync(grab[e].client, f) \/ AllowSync(grab[e].client, f)
                               \/ AllowReplay(grab[e].client, f)
         \/ \E new \in States : AllowBoth(grab[e].client, new)
         \/ \E f \in Devices, g \in RequestedGrabs :
              GrabDevice(f, g) /\ g.client = grab[e].client
         \/ \E f \in Devices : grab[f] = NoGrab /\ grab'[f].client = grab[e].client]_vars

\* "XXX CloseDownClient should remove passive grabs before releasing active
\* grabs": a client that is gone has no active grab.
DeadClientsHoldNothing == Idle => \A d \in Devices : grab[d].client \in alive \cup {None}

\* Every call returns: the replay loops and ReleaseActiveGrabs end.
CallsReturn == ~Idle ~> Idle
=============================================================================
