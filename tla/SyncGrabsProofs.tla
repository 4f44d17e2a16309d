-------------------------- MODULE SyncGrabsProofs --------------------------
(* Theorems about SyncGrabs, for any clients, windows, grabs and bounds.    *)
EXTENDS SyncGrabs, SequenceTheorems, TLAPS

\* The calls that may be on the stack.  A window that is freed is not the root.
Arguments == (0 .. Depth) \cup Clients \cup {None}
Calls == {x \in [op : Ops, dev : Devices, ev : Events, arg : Arguments] :
            /\ x.op = "freeWindow" => x.arg \in 2 .. Depth
            /\ x.op = "free" => x.arg \in Clients
            /\ x.op = "replay" => x.arg \in Windows
            /\ x.op \in {"save", "input"} => x.ev.dev = x.dev}
OtherCalls == {x \in Calls : x.op # "replay"}

\* A replay is only ever on top of the stack: it starts before anything else can
\* happen to its device, which is still not grabbed.
StackOK ==
  /\ todo \in Seq(Calls)
  /\ todo # <<>> =>
       /\ Tail(todo) \in Seq(OtherCalls)
       /\ Head(todo).op = "replay" => grab[Head(todo).dev] = NoGrab

SyncsOK ==
  /\ grab \in [Devices -> Grabs \cup {NoGrab}]
  /\ fromPassiveGrab \in [Devices -> BOOLEAN]
  /\ state \in [Devices -> States]
  /\ other \in [Devices -> Devices \cup {None}]
  /\ frozen \in [Devices -> BOOLEAN]
  /\ playing \in BOOLEAN
  /\ FrozenForAReason
  /\ FreezesComeFromGrabs

SavedOK == saved \in [Devices -> Events] /\ \A d \in Devices : saved[d].dev = d

EventsOK ==
  /\ SavedOK
  /\ activatingKey \in BOOLEAN
  /\ down \in [Devices -> BOOLEAN]
  /\ pending \in Seq(Events) /\ hasTail \in BOOLEAN
  /\ hasTail => pending # <<>>
  /\ sent \in [Devices -> Nat] /\ done \in [Devices -> Nat]

WorldOK ==
  /\ trace \in Windows /\ realized \in Windows /\ exists \in Windows
  /\ passive \in SUBSET PassiveGrabs
  /\ alive \in SUBSET Clients

IInv == SyncsOK /\ StackOK /\ EventsOK /\ WorldOK

-----------------------------------------------------------------------------
(* The stack of calls.                                                     *)

LEMMA Concatenation ==
  ASSUME NEW S, NEW s \in Seq(S), NEW t \in Seq(S)
  PROVE  s \o t \in Seq(S)
  BY ConcatProperties

\* What is pushed on a stack of calls that are no replays.
LEMMA Pushing ==
  ASSUME NEW x \in OtherCalls, NEW rest \in Seq(OtherCalls)
  PROVE  <<x>> \o rest \in Seq(OtherCalls)
  <1>1. <<x>> \in Seq(OtherCalls)
    OBVIOUS
  <1> QED BY <1>1, Concatenation

\* A stack without a replay is a good stack, in the present and in the next state.
LEMMA NoReplayIsOK ==
  ASSUME NEW s \in Seq(OtherCalls)
  PROVE  /\ s \in Seq(Calls)
         /\ s # <<>> => Tail(s) \in Seq(OtherCalls) /\ Head(s).op # "replay"
  <1>1. OtherCalls \subseteq Calls
    BY DEF OtherCalls
  <1>2. s \in Seq(Calls)
    BY <1>1
  <1>3. ASSUME s # <<>> PROVE Tail(s) \in Seq(OtherCalls) /\ Head(s) \in OtherCalls
    BY <1>3, HeadTailProperties
  <1> QED BY <1>2, <1>3 DEF OtherCalls

LEMMA StackStaysOK ==
  ASSUME todo' \in Seq(OtherCalls)
  PROVE  StackOK'
  BY NoReplayIsOK DEF StackOK

\* Below the top there is no replay; if none is on top there is none at all.
LEMMA StackTop ==
  ASSUME StackOK, todo # <<>>
  PROVE  /\ Top \in Calls
         /\ Rest \in Seq(OtherCalls)
         /\ Top.op # "replay" => todo \in Seq(OtherCalls)
  <1>1. Top \in Calls /\ todo = <<Top>> \o Rest /\ Rest \in Seq(OtherCalls)
    BY HeadTailProperties DEF StackOK, Top, Rest
  <1>2. ASSUME Top.op # "replay" PROVE todo \in Seq(OtherCalls)
    <2>1. Top \in OtherCalls
      BY <1>1, <1>2 DEF OtherCalls
    <2> QED BY <1>1, <2>1, Pushing
  <1> QED BY <1>1, <1>2

LEMMA EmptyStack == <<>> \in Seq(OtherCalls)
  OBVIOUS

LEMMA SimpleCallIsOK ==
  /\ \A ev \in Events : Input(ev) \in OtherCalls
  /\ \A ev \in Events, a \in Arguments : Save(ev, a) \in OtherCalls
  /\ PlayReleased \in OtherCalls /\ Restructure \in OtherCalls
  /\ \A c \in Clients : ReleaseGrabs(c) \in OtherCalls /\ FreeResources(c) \in OtherCalls
  BY SyncGrabsAssumption
     DEF OtherCalls, Calls, Arguments, Ops, Input, Save, PlayReleased, Restructure, ReleaseGrabs,
         FreeResources, Item, Events, NoEvent, Motion, Press, Release, Devices

LEMMA ZeroIsAnArgument == 0 \in Arguments
  BY SyncGrabsAssumption DEF Arguments

\* What happens to the windows that are unmapped and destroyed.
UnmapCalls == {x \in OtherCalls : x.op \in {"drop", "restructure", "freeWindow"}}

LEMMA WindowCalls ==
  ASSUME NEW w \in Windows, NEW d \in Devices
  PROVE  /\ Drop(w, d) \in UnmapCalls
         /\ w >= 2 => FreeWindow(w) \in UnmapCalls
         /\ Replay(d, w) \in Calls
  BY SyncGrabsAssumption
     DEF UnmapCalls, OtherCalls, Calls, Arguments, Ops, Drop, FreeWindow, Replay, Item, Events, NoEvent, Motion,
         Press, Release, Devices, Windows

\* Unmapping and freeing a window that is not the root.
LEMMA UnmappingItems ==
  ASSUME WorldOK, NEW w \in Windows, w >= 2
  PROVE  /\ Unmapping(w) \in Seq(UnmapCalls)
         /\ Freeing(w) \in Seq(UnmapCalls)
         /\ RealizedWithout(w) \in Windows
         /\ w - 1 \in Windows
  <1> USE SyncGrabsAssumption
  <1>1. ASSUME w <= realized PROVE Unrealizing(w) \in Seq(UnmapCalls)
    <2> DEFINE n == 2 * (realized - w + 1)
               f(i) == Drop(w + (i - 1) \div 2, IF i % 2 = 1 THEN "mouse" ELSE "keybd")
    <2>1. n \in Nat
      BY <1>1 DEF WorldOK, Windows
    <2>2. ASSUME NEW i \in 1 .. n PROVE f(i) \in UnmapCalls
      <3>1. w + (i - 1) \div 2 \in Windows
        BY <1>1, <2>1 DEF WorldOK, Windows
      <3> QED BY <3>1, WindowCalls DEF Devices
    <2>3. [i \in 1 .. n |-> f(i)] \in Seq(UnmapCalls)
      BY <2>1, <2>2
    <2> QED BY <2>3 DEF Unrealizing
  <1>2. Unmapping(w) \in Seq(UnmapCalls)
    <2>1. <<Restructure>> \in Seq(UnmapCalls)
      BY DEF UnmapCalls, OtherCalls, Calls, Arguments, Ops, Restructure, Item, Events, NoEvent, Motion, Press,
             Release, Devices
    <2>2. CASE w <= realized
      BY <1>1, <2>1, <2>2, Concatenation DEF Unmapping
    <2>3. CASE ~(w <= realized)
      BY <2>3 DEF Unmapping
    <2> QED BY <2>2, <2>3
  <1>3. Freeing(w) \in Seq(UnmapCalls)
    <2> DEFINE n == 3 * (exists - w + 1)
               v(i) == exists - (i - 1) \div 3
               f(i) == IF i % 3 = 0 THEN FreeWindow(v(i))
                       ELSE Drop(v(i), IF i % 3 = 1 THEN "mouse" ELSE "keybd")
    <2>1. n \in Int
      BY DEF WorldOK, Windows
    <2>2. ASSUME NEW i \in 1 .. n PROVE f(i) \in UnmapCalls
      <3>1. v(i) \in Windows /\ v(i) >= 2
        BY <2>1 DEF WorldOK, Windows
      <3> HIDE DEF v
      <3>2. Drop(v(i), "mouse") \in UnmapCalls /\ Drop(v(i), "keybd") \in UnmapCalls
        BY <3>1, WindowCalls DEF Devices
      <3>3. FreeWindow(v(i)) \in UnmapCalls
        BY <3>1, WindowCalls DEF Devices
      <3> QED BY <3>2, <3>3
    <2>3. [i \in 1 .. n |-> f(i)] \in Seq(UnmapCalls)
      <3>1. CASE n \in Nat
        BY <2>2, <3>1
      <3>2. CASE n < 0
        <4>1. 1 .. n = 1 .. 0
          BY <2>1, <3>2
        <4>2. [i \in 1 .. 0 |-> f(i)] \in Seq(UnmapCalls)
          BY <4>1, <2>2
        <4> QED BY <4>1, <4>2
      <3> QED BY <2>1, <3>1, <3>2
    <2> QED BY <2>3 DEF Freeing
  <1>4. RealizedWithout(w) \in Windows /\ w - 1 \in Windows
    BY DEF RealizedWithout, WorldOK, Windows
  <1> QED BY <1>2, <1>3, <1>4

LEMMA UnmappingCalls ==
  ASSUME WorldOK, NEW w \in Windows, w >= 2
  PROVE  /\ Unmapping(w) \in Seq(OtherCalls)
         /\ Freeing(w) \in Seq(OtherCalls)
         /\ RealizedWithout(w) \in Windows
         /\ w - 1 \in Windows
  <1>1. UnmapCalls \subseteq OtherCalls
    BY DEF UnmapCalls
  <1> QED BY <1>1, UnmappingItems

-----------------------------------------------------------------------------
(* The operators that change the state of the devices.                     *)

\* Every device is frozen again for a reason, whatever changed before, and what
\* is pushed is no replay but the one that is given.
LEMMA Freezing ==
  ASSUME SyncsOK, NEW replay, NEW rest, ComputeFreezes(replay, rest)
  PROVE  /\ frozen' \in [Devices -> BOOLEAN]
         /\ playing' \in BOOLEAN
         /\ FrozenForAReason'
         /\ todo' \in {rest, replay \o <<PlayReleased>> \o rest}
  BY DEF SyncsOK, ComputeFreezes, FrozenForAReason

LEMMA PushingPlay ==
  ASSUME NEW rest \in Seq(OtherCalls)
  PROVE  <<>> \o <<PlayReleased>> \o rest \in Seq(OtherCalls)
  <1>1. PlayReleased \in OtherCalls
    BY DEF OtherCalls, Calls, Arguments, Ops, PlayReleased, Item, Events, NoEvent, Motion, Press,
           Release, Devices
  <1>2. <<>> \o <<PlayReleased>> \in Seq(OtherCalls)
    BY <1>1
  <1> QED BY <1>2, Concatenation

LEMMA FreezingWithoutReplay ==
  ASSUME SyncsOK, NEW rest \in Seq(OtherCalls), ComputeFreezes(<<>>, rest)
  PROVE  /\ frozen' \in [Devices -> BOOLEAN]
         /\ playing' \in BOOLEAN
         /\ FrozenForAReason'
         /\ todo' \in Seq(OtherCalls)
  BY Freezing, PushingPlay

LEMMA Activating ==
  ASSUME SyncsOK, NEW d \in Devices, NEW g \in Grabs, NEW isPassive \in BOOLEAN,
         NEW rest \in Seq(OtherCalls), ActivateGrab(d, g, isPassive, rest)
  PROVE  SyncsOK' /\ todo' \in Seq(OtherCalls)
  <1>1. ComputeFreezes(<<>>, rest)
    BY DEF ActivateGrab
  <1>2. g # NoGrab
    BY SyncGrabsAssumption DEF Grabs, NoGrab
  <1>3. /\ grab' \in [Devices -> Grabs \cup {NoGrab}]
        /\ fromPassiveGrab' \in [Devices -> BOOLEAN]
        /\ state' \in [Devices -> States]
    BY DEF SyncsOK, ActivateGrab, States, Frozen
  <1>4. other' \in [Devices -> Devices \cup {None}]
    BY DEF SyncsOK, ActivateGrab, OtherAfter
  <1>5. FreezesComeFromGrabs'
    <2> SUFFICES ASSUME NEW e \in Devices
                 PROVE  /\ other'[e] # None => other'[e] # e /\ grab'[other'[e]] # NoGrab
                        /\ state'[e] = "NOT_GRABBED" <=> grab'[e] = NoGrab
                        /\ fromPassiveGrab'[e] => grab'[e] # NoGrab
      BY DEF FreezesComeFromGrabs
    <2>1. \A f \in Devices : grab[f] # NoGrab => grab'[f] # NoGrab
      BY <1>2 DEF SyncsOK, ActivateGrab
    <2>2. other'[e] # None => other'[e] # e /\ grab'[other'[e]] # NoGrab
      <3>1. other'[e] \in {None, other[e]} \/ (other'[e] = d /\ e # d)
        BY DEF ActivateGrab, OtherAfter
      <3>2. grab'[d] # NoGrab
        BY <1>2 DEF ActivateGrab, SyncsOK
      <3>3. other[e] # None => other[e] # e /\ other[e] \in Devices /\ grab[other[e]] # NoGrab
        BY DEF SyncsOK, FreezesComeFromGrabs
      <3> QED BY <2>1, <3>1, <3>2, <3>3
    <2>3. /\ state'[e] = "NOT_GRABBED" <=> grab'[e] = NoGrab
          /\ fromPassiveGrab'[e] => grab'[e] # NoGrab
      BY <1>2 DEF ActivateGrab, SyncsOK, FreezesComeFromGrabs
    <2> QED BY <2>2, <2>3
  <1> QED BY <1>1, <1>3, <1>4, <1>5, FreezingWithoutReplay DEF SyncsOK

\* A device gives its grab up; "others" is what is left of sync.other.
GivesUp(d) ==
  /\ grab' = [grab EXCEPT ![d] = NoGrab]
  /\ fromPassiveGrab' = [fromPassiveGrab EXCEPT ![d] = FALSE]
  /\ state' = [state EXCEPT ![d] = "NOT_GRABBED"]
  /\ other' \in [Devices -> Devices \cup {None}]
  /\ \A e \in Devices : other'[e] \in {None, other[e]} \ {d}

LEMMA GivingUp ==
  ASSUME SyncsOK, NEW d \in Devices, GivesUp(d)
  PROVE  /\ grab' \in [Devices -> Grabs \cup {NoGrab}]
         /\ fromPassiveGrab' \in [Devices -> BOOLEAN]
         /\ state' \in [Devices -> States]
         /\ FreezesComeFromGrabs'
  <1>1. /\ grab' \in [Devices -> Grabs \cup {NoGrab}]
        /\ fromPassiveGrab' \in [Devices -> BOOLEAN]
        /\ state' \in [Devices -> States]
    BY DEF SyncsOK, GivesUp, States
  <1>2. ASSUME NEW e \in Devices
        PROVE  /\ other'[e] # None => other'[e] # e /\ grab'[other'[e]] # NoGrab
               /\ state'[e] = "NOT_GRABBED" <=> grab'[e] = NoGrab
               /\ fromPassiveGrab'[e] => grab'[e] # NoGrab
    <2>1. ASSUME other'[e] # None PROVE other'[e] # e /\ grab'[other'[e]] # NoGrab
      <3>1. other'[e] = other[e] /\ other[e] # d
        BY <2>1 DEF GivesUp
      <3>2. other[e] # e /\ other[e] \in Devices /\ grab[other[e]] # NoGrab
        BY <2>1, <3>1 DEF SyncsOK, FreezesComeFromGrabs
      <3> QED BY <3>1, <3>2 DEF GivesUp, SyncsOK
    <2>2. /\ state'[e] = "NOT_GRABBED" <=> grab'[e] = NoGrab
          /\ fromPassiveGrab'[e] => grab'[e] # NoGrab
      BY DEF GivesUp, SyncsOK, FreezesComeFromGrabs
    <2> QED BY <2>1, <2>2
  <1> QED BY <1>1, <1>2 DEF FreezesComeFromGrabs

LEMMA Deactivating ==
  ASSUME SyncsOK, NEW d \in Devices, NEW rest \in Seq(OtherCalls),
         DeactivateGrab(d, <<>>, rest)
  PROVE  SyncsOK' /\ todo' \in Seq(OtherCalls)
  <1>1. GivesUp(d) /\ other' \in [Devices -> Devices \cup {None}]
    BY SyncGrabsAssumption DEF SyncsOK, DeactivateGrab, GivesUp
  <1>2. ComputeFreezes(<<>>, rest)
    BY DEF DeactivateGrab
  <1> QED BY <1>1, <1>2, GivingUp, FreezingWithoutReplay DEF SyncsOK

-----------------------------------------------------------------------------
(* Delivery.                                                               *)

LEMMA DeliveringGrabbed ==
  ASSUME SyncsOK, NEW ev \in Events, SavedOK,
         DeliverGrabbedEvent(ev)
  PROVE  SyncsOK' /\ SavedOK' /\ todo' = Rest /\ grab' = grab
  <1> DEFINE d == ev.dev
             both == state[d] = "FREEZE_BOTH_NEXT_EVENT"
             joins(e) == /\ state[e] = "FREEZE_BOTH_NEXT_EVENT"
                         /\ grab[e].client = grab[d].client
             Freezes ==
               /\ state[d] \in {"FREEZE_NEXT_EVENT", "FREEZE_BOTH_NEXT_EVENT"}
               /\ state' = [e \in Devices |->
                              IF e = d THEN "FROZEN_WITH_EVENT"
                              ELSE IF both /\ joins(e) THEN "FROZEN_NO_EVENT"
                              ELSE state[e]]
               /\ other' = [e \in Devices |-> IF e # d /\ both /\ ~joins(e) THEN d ELSE other[e]]
               /\ frozen' = [e \in Devices |-> e = d \/ both \/ frozen[e]]
               /\ saved' = [saved EXCEPT ![d] = ev]
  <1>1. d \in Devices
    BY DEF Events
  <1>2. /\ Freezes \/ UNCHANGED <<state, other, frozen, saved>>
        /\ todo' = Rest
        /\ UNCHANGED <<grab, fromPassiveGrab, playing>>
    BY DEF DeliverGrabbedEvent
  <1>3. CASE UNCHANGED <<state, other, frozen, saved>>
    BY <1>2, <1>3 DEF SyncsOK, SavedOK, FrozenForAReason, FreezesComeFromGrabs
  <1>4. CASE Freezes
    <2>1. /\ state' \in [Devices -> States]
          /\ other' \in [Devices -> Devices \cup {None}]
          /\ frozen' \in [Devices -> BOOLEAN]
          /\ SavedOK'
      BY <1>1, <1>4 DEF SyncsOK, SavedOK, States, Frozen
    <2>2. FrozenForAReason'
      <3>1. ASSUME NEW e \in Devices
            PROVE  frozen'[e] <=> other'[e] # None \/ state'[e] \in Frozen
        <4>1. CASE e = d
          BY <1>1, <1>4, <4>1 DEF Frozen
        <4>2. CASE e # d /\ both
          BY <1>1, <1>4, <4>2, SyncGrabsAssumption DEF Frozen
        <4>3. CASE e # d /\ ~both
          BY <1>1, <1>4, <4>3 DEF SyncsOK, FrozenForAReason
        <4> QED BY <4>1, <4>2, <4>3
      <3> QED BY <3>1 DEF FrozenForAReason
    <2>3. FreezesComeFromGrabs'
      <3>1. grab[d] # NoGrab
        BY <1>1, <1>4 DEF SyncsOK, FreezesComeFromGrabs
      <3>2. ASSUME NEW e \in Devices
            PROVE  /\ other'[e] # None => other'[e] # e /\ grab[other'[e]] # NoGrab
                   /\ state'[e] = "NOT_GRABBED" <=> grab[e] = NoGrab
                   /\ fromPassiveGrab[e] => grab[e] # NoGrab
        <4>1. other'[e] # None => other'[e] # e /\ grab[other'[e]] # NoGrab
          BY <1>1, <1>4, <3>1 DEF SyncsOK, FreezesComeFromGrabs
        <4>2. state[e] # "NOT_GRABBED" => grab[e] # NoGrab
          BY DEF SyncsOK, FreezesComeFromGrabs
        <4>3. state'[e] = "NOT_GRABBED" <=> state[e] = "NOT_GRABBED"
          BY <1>1, <1>4
        <4> QED BY <4>1, <4>2, <4>3 DEF SyncsOK, FreezesComeFromGrabs
      <3> QED BY <1>2, <3>2 DEF FreezesComeFromGrabs
    <2> QED BY <1>2, <2>1, <2>2, <2>3 DEF SyncsOK
  <1> QED BY <1>2, <1>3, <1>4

LEMMA Delivering ==
  ASSUME SyncsOK, NEW ev \in Events, SavedOK, Deliver(ev)
  PROVE  SyncsOK' /\ SavedOK' /\ todo' = Rest /\ grab' = grab
  <1>1. CASE DeliverGrabbedEvent(ev)
    BY <1>1, DeliveringGrabbed
  <1>2. CASE DeliverUngrabbed
    BY <1>2 DEF DeliverUngrabbed, SyncsOK, SavedOK, FrozenForAReason, FreezesComeFromGrabs, syncs
  <1> QED BY <1>1, <1>2 DEF Deliver

\* A passive grab of the device; it may be any of those that match.
LEMMA ActivatingPassively ==
  ASSUME SyncsOK, WorldOK, StackOK, todo # <<>>, NEW ev \in Events, NEW above \in Arguments, NEW path,
         ActivatePassiveGrab(ev, above, path)
  PROVE  SyncsOK' /\ todo' \in Seq(OtherCalls)
  <1>1. PICK p \in Matching(ev.dev, above, path) :
               ActivateGrab(ev.dev, p.grab, TRUE, <<Save(ev, above)>> \o Rest)
    BY DEF ActivatePassiveGrab
  <1>2. p.grab \in Grabs
    BY <1>1, GrabsAssumption DEF Matching, WorldOK, Passive
  <1>3. Save(ev, above) \in OtherCalls
    BY SimpleCallIsOK
  <1>4. <<Save(ev, above)>> \o Rest \in Seq(OtherCalls)
    BY <1>3, StackTop, Pushing
  <1>5. ev.dev \in Devices
    BY DEF Events
  <1> QED BY <1>1, <1>2, <1>4, <1>5, Activating

-----------------------------------------------------------------------------
(* The steps of the server.                                                *)

\* What every step keeps, next to the properties.
StepOK ==
  /\ SyncsOK' /\ StackOK' /\ EventsOK' /\ WorldOK'
  /\ \A d \in Devices : grab[d] # NoGrab /\ grab'[d] # NoGrab => grab'[d].client = grab[d].client

\* The steps that leave the devices' grabs and freezes alone.
LEMMA SyncsUnchanged ==
  ASSUME SyncsOK, UNCHANGED <<syncs, playing>>
  PROVE  /\ SyncsOK'
         /\ \A d \in Devices : grab[d] # NoGrab /\ grab'[d] # NoGrab =>
                                 grab'[d].client = grab[d].client
  BY DEF SyncsOK, FrozenForAReason, FreezesComeFromGrabs, syncs

\* The steps that deactivate or activate a grab steal none.
LEMMA DeactivatingStealsNothing ==
  ASSUME SyncsOK, NEW d \in Devices, NEW replay, NEW rest, DeactivateGrab(d, replay, rest)
  PROVE  \A e \in Devices : grab[e] # NoGrab /\ grab'[e] # NoGrab =>
                              grab'[e].client = grab[e].client
  BY DEF SyncsOK, DeactivateGrab

LEMMA ActivatingStealsNothing ==
  ASSUME SyncsOK, NEW ev \in Events, NEW above, NEW path,
         grab[ev.dev] = NoGrab, ActivatePassiveGrab(ev, above, path)
  PROVE  \A e \in Devices : grab[e] # NoGrab /\ grab'[e] # NoGrab =>
                              grab'[e].client = grab[e].client
  BY DEF SyncsOK, ActivatePassiveGrab, ActivateGrab, Events

LEMMA ServerSteps ==
  ASSUME IInv, ServerStep
  PROVE  StepOK
<1> USE DEF IInv
<1>0. /\ todo # <<>>
      /\ Top \in Calls /\ Top.ev \in Events /\ Top.dev \in Devices /\ Top.ev.dev \in Devices
      /\ Rest \in Seq(OtherCalls)
      /\ Top.op # "replay" => todo \in Seq(OtherCalls)
  <2>1. todo # <<>>
    BY DEF ServerStep, Running, EnqueueEvent, ProcessPress, ProcessRelease, ProcessMotion,
           SaveEvent, ReplaySavedEvent, PlayReleasedEvents, PlayingEnds, DropGrab,
           WindowsRestructured, FreeWindowResources, ReleaseActiveGrabs, FreeClientResources
  <2> QED BY <2>1, StackTop DEF Calls, Events
<1>00. /\ pending \in Seq(Events) /\ Len(pending) \in Nat
       /\ \A i \in 1 .. Len(pending) : pending[i] \in Events
  BY ElementOfSeq DEF EventsOK, SavedOK
<1>1. CASE EnqueueEvent
  <2>1. todo' = Rest /\ EventsOK' /\ WorldOK'
    <3>1. pending' \in Seq(Events)
      <4>1. CASE Compresses
        <5>1. Len(pending) \in 1 .. Len(pending)
          BY <1>00, <4>1 DEF Compresses, EventsOK, SavedOK
        <5>2. [pending[Len(pending)] EXCEPT !.n = Top.ev.n] \in Events
          BY <1>0, <1>00, <5>1 DEF Events
        <5> QED BY <1>00, <1>1, <4>1, <5>1, <5>2 DEF EnqueueEvent
      <4>2. CASE ~Compresses
        BY <1>0, <1>00, <1>1, <4>2 DEF EnqueueEvent
      <4> QED BY <4>1, <4>2
    <3>2. pending' # <<>>
      <4>1. CASE Compresses
        BY <1>00, <1>1, <4>1 DEF EnqueueEvent, EventsOK, SavedOK, Compresses
      <4>2. CASE ~Compresses
        BY <1>00, <1>1, <4>2 DEF EnqueueEvent
      <4> QED BY <4>1, <4>2
    <3> QED BY <1>1, <3>1, <3>2 DEF EnqueueEvent, EventsOK, SavedOK, WorldOK, world
  <2> QED BY <1>0, <1>1, <2>1, SyncsUnchanged, StackStaysOK DEF EnqueueEvent, StepOK
<1>2. CASE ProcessPress
  <2> DEFINE ev == Top.ev
  <2>1. /\ WorldOK' /\ UNCHANGED <<pending, hasTail, sent, activatingKey>>
        /\ Top.op = "input"
    BY <1>2 DEF ProcessPress, WorldOK, world, queue, Running
  <2>2. done' \in [Devices -> Nat]
    BY <1>0, <1>2 DEF ProcessPress, Processed, EventsOK, SavedOK, Events
  <2>3. CASE ev.dev = "keybd" /\ down["keybd"]
    <3>1. Input([ev EXCEPT !.type = Release]) \in OtherCalls
      BY <1>0 DEF Input, Item, OtherCalls, Calls, Arguments, Ops, Events, Release
    <3>2. Input([ev EXCEPT !.again = TRUE]) \in OtherCalls
      BY <1>0 DEF Input, Item, OtherCalls, Calls, Arguments, Ops, Events
    <3>3. <<Input([ev EXCEPT !.type = Release]), Input([ev EXCEPT !.again = TRUE])>>
            \in Seq(OtherCalls)
      BY <3>1, <3>2
    <3>4. todo' \in Seq(OtherCalls)
      BY <1>0, <1>2, <2>3, <3>3, Concatenation DEF ProcessPress
    <3>5. UNCHANGED <<syncs, playing, saved, down>>
      BY <1>2, <2>3 DEF ProcessPress
    <3> QED BY <2>1, <2>2, <3>4, <3>5, SyncsUnchanged, StackStaysOK DEF StepOK, EventsOK, SavedOK
  <2>4. CASE ~(ev.dev = "keybd" /\ down["keybd"])
    <3>1. down' \in [Devices -> BOOLEAN]
      BY <1>0, <1>2, <2>4 DEF ProcessPress, EventsOK, SavedOK
    <3>2. CASE grab[ev.dev] = NoGrab /\ ActivatesPassively(ev, 0, trace)
      <4>1. ActivatePassiveGrab(ev, 0, trace) /\ saved' = saved
        BY <1>2, <2>4, <3>2 DEF ProcessPress
      <4>2. SyncsOK' /\ todo' \in Seq(OtherCalls)
        BY <1>0, <4>1, ZeroIsAnArgument, ActivatingPassively
      <4>3. \A e \in Devices : grab[e] # NoGrab /\ grab'[e] # NoGrab =>
                                 grab'[e].client = grab[e].client
        BY <1>0, <3>2, <4>1, ActivatingStealsNothing
      <4> QED BY <2>1, <2>2, <3>1, <4>1, <4>2, <4>3, StackStaysOK DEF StepOK, EventsOK, SavedOK
    <3>3. CASE ~(grab[ev.dev] = NoGrab /\ ActivatesPassively(ev, 0, trace))
      <4>1. Deliver(ev)
        BY <1>2, <2>4, <3>3 DEF ProcessPress
      <4>2. SyncsOK' /\ SavedOK' /\ todo' = Rest /\ grab' = grab
        BY <1>0, <4>1, Delivering DEF EventsOK, SavedOK
      <4> QED BY <1>0, <2>1, <2>2, <3>1, <4>2, StackStaysOK DEF StepOK, EventsOK, SavedOK
    <3> QED BY <3>2, <3>3
  <2> QED BY <2>3, <2>4
<1>3. CASE ProcessRelease
  <2> DEFINE ev == Top.ev
  <2>1. WorldOK' /\ UNCHANGED <<pending, hasTail, sent, activatingKey>>
    BY <1>3 DEF ProcessRelease, WorldOK, world, queue
  <2>2. done' \in [Devices -> Nat] /\ down' \in [Devices -> BOOLEAN]
    BY <1>0, <1>3 DEF ProcessRelease, Processed, EventsOK, SavedOK, Events
  <2>3. CASE ev.dev = "keybd" /\ ~down["keybd"]
    <3>1. todo' = Rest /\ UNCHANGED <<syncs, saved, playing>>
      BY <1>3, <2>3 DEF ProcessRelease
    <3> QED BY <1>0, <2>1, <2>2, <3>1, SyncsUnchanged, StackStaysOK DEF StepOK, EventsOK, SavedOK
  <2>4. CASE ~(ev.dev = "keybd" /\ ~down["keybd"]) /\ EndsGrab(ev.dev)
    <3>1. DeactivateGrab(ev.dev, <<>>, Rest) /\ saved' = saved
      BY <1>3, <2>4 DEF ProcessRelease
    <3>2. SyncsOK' /\ todo' \in Seq(OtherCalls)
      BY <1>0, <3>1, Deactivating
    <3> QED BY <1>0, <2>1, <2>2, <3>1, <3>2, DeactivatingStealsNothing, StackStaysOK
            DEF StepOK, EventsOK, SavedOK
  <2>5. CASE ~(ev.dev = "keybd" /\ ~down["keybd"]) /\ ~EndsGrab(ev.dev)
    <3>1. Deliver(ev)
      BY <1>3, <2>5 DEF ProcessRelease
    <3>2. SyncsOK' /\ SavedOK' /\ todo' = Rest /\ grab' = grab
      BY <1>0, <3>1, Delivering DEF EventsOK, SavedOK
    <3> QED BY <1>0, <2>1, <2>2, <3>2, StackStaysOK DEF StepOK, EventsOK, SavedOK
  <2> QED BY <2>3, <2>4, <2>5
<1>4. CASE ProcessMotion
  <2>1. todo' = Rest /\ UNCHANGED <<syncs, playing>>
    BY <1>4 DEF ProcessMotion
  <2>2. done' \in [Devices -> Nat] /\ WorldOK'
    BY <1>0, <1>4 DEF ProcessMotion, Processed, EventsOK, SavedOK, Events, WorldOK
  <2> QED BY <1>0, <1>4, <2>1, <2>2, SyncsUnchanged, StackStaysOK
          DEF ProcessMotion, StepOK, EventsOK, SavedOK, queue
<1>5. CASE SaveEvent
  <2>1. todo' = Rest /\ grab' = grab
    BY <1>5 DEF SaveEvent
  <2>2. EventsOK' /\ WorldOK'
    BY <1>0, <1>5 DEF SaveEvent, NotesActivatingKey, Running, Calls, EventsOK, SavedOK, WorldOK, world, queue
  <2>3. SyncsOK'
    <3>1. state' \in [Devices -> States]
      BY <1>0, <1>5 DEF SaveEvent, SyncsOK, States, Frozen
    <3>2. \A d \in Devices : /\ state'[d] \in Frozen <=> state[d] \in Frozen
                             /\ state'[d] = "NOT_GRABBED" <=> state[d] = "NOT_GRABBED"
      BY <1>0, <1>5 DEF SaveEvent, SyncsOK, Frozen
    <3> QED BY <1>5, <3>1, <3>2 DEF SaveEvent, SyncsOK, FrozenForAReason, FreezesComeFromGrabs
  <2> QED BY <1>0, <2>1, <2>2, <2>3, StackStaysOK DEF StepOK
<1>6. CASE ReplaySavedEvent
  <2>1. WorldOK'
    BY <1>6 DEF ReplaySavedEvent, WorldOK
  <2>2. UNCHANGED <<activatingKey, down, pending, hasTail, sent, done>>
    BY <1>6 DEF ReplaySavedEvent, queue
  <2> DEFINE ev == saved[Top.dev]
  <2>3. CASE ActivatePassiveGrab(ev, Top.arg, realized) /\ UNCHANGED saved
    <3>1. SyncsOK' /\ todo' \in Seq(OtherCalls)
      <4>1. ev \in Events
        BY <1>0 DEF EventsOK, SavedOK
      <4>2. Top.arg \in Arguments
        BY <1>0 DEF Calls
      <4> QED BY <1>0, <2>3, <4>1, <4>2, ActivatingPassively
    <3>2. \A e \in Devices : grab[e] # NoGrab /\ grab'[e] # NoGrab =>
                               grab'[e].client = grab[e].client
      <4>1. grab[Top.dev] = NoGrab
        BY <1>0, <1>6 DEF ReplaySavedEvent, Running, StackOK, Top
      <4>2. ev \in Events /\ ev.dev = Top.dev
        BY <1>0 DEF EventsOK, SavedOK
      <4> QED BY <1>0, <2>3, <4>1, <4>2, ActivatingStealsNothing
    <3> QED BY <2>1, <2>2, <2>3, <3>1, <3>2, StackStaysOK DEF StepOK, EventsOK, SavedOK
  <2>4. CASE DeliverUngrabbed
    BY <1>0, <2>1, <2>2, <2>4, SyncsUnchanged, StackStaysOK DEF DeliverUngrabbed, StepOK, EventsOK, SavedOK
  <2> QED BY <1>6, <2>3, <2>4 DEF ReplaySavedEvent
<1>7. CASE PlayReleasedEvents
  <2>1. PICK i \in 1 .. Len(pending) :
               /\ todo' = <<Input(pending[i])>> \o todo
               /\ pending' = Unlinked(i)
               /\ hasTail' = (hasTail /\ i < Len(pending))
    BY <1>7 DEF PlayReleasedEvents
  <2>2. pending' \in Seq(Events) /\ (i < Len(pending) => pending' # <<>>)
    <3> DEFINE before == SubSeq(pending, 1, i - 1)
               after  == SubSeq(pending, i + 1, Len(pending))
    <3>1. before \in Seq(Events) /\ after \in Seq(Events)
      BY <1>00
    <3>2. i < Len(pending) => Len(after) > 0
      BY <1>00
    <3>3. Unlinked(i) = before \o after
      BY DEF Unlinked
    <3> HIDE DEF before, after
    <3>4. Unlinked(i) \in Seq(Events) /\ Len(Unlinked(i)) = Len(before) + Len(after)
      BY <3>1, <3>3, ConcatProperties
    <3>5. i < Len(pending) => Len(Unlinked(i)) > 0
      BY <3>1, <3>2, <3>4, LenProperties
    <3> QED BY <2>1, <3>4, <3>5
  <2>3. todo' \in Seq(OtherCalls)
    <3>1. pending[i] \in Events /\ pending[i].dev \in Devices
      BY <1>00 DEF Events
    <3>2. Input(pending[i]) \in OtherCalls
      BY <3>1 DEF Input, Item, OtherCalls, Calls, Arguments, Ops
    <3> QED BY <1>0, <1>7, <2>1, <3>2, Pushing DEF PlayReleasedEvents, Running
  <2> QED BY <1>7, <2>1, <2>2, <2>3, SyncsUnchanged, StackStaysOK
          DEF PlayReleasedEvents, StepOK, EventsOK, SavedOK, WorldOK, world
<1>8. CASE PlayingEnds
  <2>1. SyncsOK' /\ grab' = grab
    BY <1>8 DEF PlayingEnds, SyncsOK, syncs, FrozenForAReason, FreezesComeFromGrabs
  <2> QED BY <1>0, <1>8, <2>1, StackStaysOK DEF PlayingEnds, StepOK, EventsOK, SavedOK, WorldOK, world, queue
<1>9. CASE DropGrab
  <2>1. EventsOK' /\ WorldOK'
    BY <1>9 DEF DropGrab, EventsOK, SavedOK, WorldOK, world, queue
  <2>2. CASE DeactivateGrab(Top.dev, <<>>, Rest)
    BY <1>0, <2>1, <2>2, Deactivating, DeactivatingStealsNothing, StackStaysOK DEF StepOK
  <2>3. CASE todo' = Rest /\ UNCHANGED <<syncs, playing>>
    BY <1>0, <2>1, <2>3, SyncsUnchanged, StackStaysOK DEF StepOK
  <2> QED BY <1>9, <2>2, <2>3 DEF DropGrab
<1>10. CASE WindowsRestructured
  BY <1>0, <1>10, SyncsUnchanged, StackStaysOK
     DEF WindowsRestructured, StepOK, EventsOK, SavedOK, WorldOK, queue
<1>11. CASE FreeWindowResources
  <2>1. exists' \in Windows
    BY <1>0, <1>11, SyncGrabsAssumption DEF FreeWindowResources, Running, Calls, Windows
  <2> QED BY <1>0, <1>11, <2>1, SyncsUnchanged, StackStaysOK
          DEF FreeWindowResources, StepOK, EventsOK, SavedOK, WorldOK, queue
<1>12. CASE ReleaseActiveGrabs
  <2>1. EventsOK' /\ WorldOK'
    BY <1>12 DEF ReleaseActiveGrabs, EventsOK, SavedOK, WorldOK, queue
  <2>2. ASSUME NEW d \in Devices, DeactivateGrab(d, <<>>, todo) PROVE StepOK
    <3>1. todo \in Seq(OtherCalls)
      BY <1>0, <1>12 DEF ReleaseActiveGrabs, Running
    <3> QED BY <2>1, <2>2, <3>1, Deactivating, DeactivatingStealsNothing, StackStaysOK DEF StepOK
  <2>3. CASE todo' = Rest /\ UNCHANGED <<syncs, playing>>
    BY <1>0, <2>1, <2>3, SyncsUnchanged, StackStaysOK DEF StepOK
  <2> QED BY <1>12, <2>2, <2>3 DEF ReleaseActiveGrabs
<1>13. CASE FreeClientResources
  <2>1. UNCHANGED <<syncs, playing>> /\ EventsOK'
    BY <1>13 DEF FreeClientResources, EventsOK, SavedOK, queue
  <2>2. todo \in Seq(OtherCalls)
    BY <1>0, <1>13 DEF FreeClientResources, Running
  <2>3. passive' \in SUBSET PassiveGrabs /\ UNCHANGED <<trace, exists, alive>>
    BY <1>13 DEF FreeClientResources, WorldOK
  <2>4. todo' \in Seq(OtherCalls) /\ realized' \in Windows
    <3>1. CASE \E w \in 1 .. exists : /\ Owner[w] = Top.arg
                                      /\ todo' = Unmapping(w) \o Freeing(w) \o todo
                                      /\ realized' = RealizedWithout(w)
      <4>1. PICK w \in 1 .. exists : /\ Owner[w] = Top.arg
                                     /\ todo' = Unmapping(w) \o Freeing(w) \o todo
                                     /\ realized' = RealizedWithout(w)
        BY <3>1
      <4>2. w \in Windows /\ w >= 2
        <5>1. Top.arg # None
          BY <1>0, <1>13, SyncGrabsAssumption DEF FreeClientResources, Running, Calls
        <5>2. w # Root
          BY <4>1, <5>1, SyncGrabsAssumption
        <5> QED BY <4>1, <5>2, SyncGrabsAssumption DEF WorldOK, Windows, Root
      <4>3. Unmapping(w) \o Freeing(w) \in Seq(OtherCalls)
        BY <4>2, UnmappingCalls, Concatenation
      <4> QED BY <2>2, <4>1, <4>2, <4>3, UnmappingCalls, Concatenation
    <3>2. CASE todo' \in {todo, Rest} /\ realized' = realized
      BY <1>0, <2>2, <3>2 DEF WorldOK
    <3> QED BY <1>13, <3>1, <3>2 DEF FreeClientResources
  <2> QED BY <2>1, <2>3, <2>4, SyncsUnchanged, StackStaysOK DEF StepOK, WorldOK
<1> QED BY <1>1, <1>2, <1>3, <1>4, <1>5, <1>6, <1>7, <1>8, <1>9, <1>10, <1>11, <1>12, <1>13
        DEF ServerStep

-----------------------------------------------------------------------------
(* The requests, the input, and what happens to windows and clients.       *)

\* A request only reads the queue, and leaves the windows and clients alone.
LEMMA UnchangedEvents ==
  ASSUME EventsOK, UNCHANGED <<saved, activatingKey, down, queue, sent, done>>
  PROVE  EventsOK'
  BY DEF EventsOK, SavedOK, queue

LEMMA UnchangedWorld ==
  ASSUME WorldOK, UNCHANGED world
  PROVE  WorldOK'
  BY DEF WorldOK, world

LEMMA Inputs ==
  ASSUME IInv, NEW d \in Devices, NEW type \in {Press, Release, Motion}, DeviceInput(d, type)
  PROVE  StepOK
<1> USE DEF IInv
<1> DEFINE n == 1 + (IF sent["mouse"] > sent["keybd"] THEN sent["mouse"] ELSE sent["keybd"])
           ev == [dev |-> d, type |-> type, n |-> n, again |-> FALSE]
<1>1. n \in Nat
  BY DEF EventsOK, Devices
<1> HIDE DEF n
<1>2. todo' = <<Input(ev)>> /\ sent' = [sent EXCEPT ![d] = n]
  BY DEF DeviceInput, n
<1>3. ev \in Events
  BY <1>1 DEF Events
<1>4. Input(ev) \in OtherCalls
  BY <1>3, SimpleCallIsOK
<1>5. todo' \in Seq(OtherCalls)
  BY <1>2, <1>4
<1>6. EventsOK'
  BY <1>1, <1>2 DEF DeviceInput, EventsOK, SavedOK, queue
<1> QED BY <1>5, <1>6, SyncsUnchanged, UnchangedWorld, StackStaysOK DEF DeviceInput, StepOK

LEMMA Requests ==
  ASSUME IInv, NEW c \in Clients, Request(c)
  PROVE  StepOK
<1> USE DEF IInv
<1>0. c # None
  BY SyncGrabsAssumption
<1>1. ASSUME NEW d \in Devices, NEW g \in RequestedGrabs, g.client = c, GrabDevice(d, g)
      PROVE  StepOK
  <2>1. ActivateGrab(d, g, FALSE, <<>>) /\ g \in Grabs
    BY <1>1, GrabsAssumption DEF GrabDevice
  <2>2. SyncsOK' /\ todo' \in Seq(OtherCalls)
    BY <2>1, Activating, EmptyStack
  <2>3. \A e \in Devices : grab[e] # NoGrab /\ grab'[e] # NoGrab =>
                             grab'[e].client = grab[e].client
    <3>1. grab[d].client \in {None, c}
      BY <1>1 DEF GrabDevice, MayGrab
    <3>2. grab[d] # NoGrab => grab[d].client # None
      BY SyncGrabsAssumption DEF SyncsOK, Grabs
    <3> QED BY <1>1, <2>1, <3>1, <3>2 DEF ActivateGrab, SyncsOK
  <2>4. UNCHANGED <<saved, activatingKey, down, queue, world, sent, done>>
    BY <1>1 DEF GrabDevice
  <2> QED BY <2>2, <2>3, <2>4, UnchangedEvents, UnchangedWorld, StackStaysOK DEF StepOK
<1>2. ASSUME NEW d \in Devices, UngrabDevice(c, d) PROVE StepOK
  <2>1. DeactivateGrab(d, <<>>, <<>>) /\ UNCHANGED <<saved, activatingKey, down, queue, world, sent, done>>
    BY <1>2 DEF UngrabDevice
  <2> QED BY <2>1, EmptyStack, Deactivating, DeactivatingStealsNothing, UnchangedEvents, UnchangedWorld,
             StackStaysOK DEF StepOK
<1>3. ASSUME UNCHANGED <<grab, fromPassiveGrab, saved, activatingKey, down, queue, world, sent, done>>,
             ComputeFreezes(<<>>, <<>>),
             state' \in [Devices -> States],
             other' \in [Devices -> Devices \cup {None}],
             \A e \in Devices : other'[e] \in {None, other[e]},
             \A e \in Devices : state'[e] = state[e]
                               \/ (grab[e].client = c /\ state'[e] # "NOT_GRABBED")
      PROVE  StepOK
  <2>1. FreezesComeFromGrabs'
    BY <1>0, <1>3 DEF SyncsOK, FreezesComeFromGrabs, NoGrab
  <2>2. SyncsOK' /\ todo' \in Seq(OtherCalls)
    BY <1>3, <2>1, EmptyStack, FreezingWithoutReplay DEF SyncsOK
  <2> QED BY <1>3, <2>2, UnchangedEvents, UnchangedWorld, StackStaysOK DEF StepOK
<1>4. ASSUME NEW d \in Devices, AllowAsync(c, d) PROVE StepOK
  <2>1. /\ UNCHANGED <<grab, fromPassiveGrab, saved, activatingKey, down, queue, world, sent, done>>
        /\ ComputeFreezes(<<>>, <<>>)
    BY <1>4 DEF AllowAsync
  <2>2. /\ state' \in [Devices -> States]
        /\ \A e \in Devices : state'[e] = state[e]
                            \/ (grab[e].client = c /\ state'[e] # "NOT_GRABBED")
    BY <1>4 DEF AllowAsync, ThisGrabbed, SyncsOK, States
  <2>3. /\ other' \in [Devices -> Devices \cup {None}]
        /\ \A e \in Devices : other'[e] \in {None, other[e]}
    BY <1>4 DEF AllowAsync, SyncsOK
  <2> QED BY <1>3, <2>1, <2>2, <2>3
<1>5. ASSUME NEW d \in Devices, AllowSync(c, d) PROVE StepOK
  <2>1. /\ UNCHANGED <<grab, fromPassiveGrab, saved, activatingKey, down, queue, world, sent, done>>
        /\ ComputeFreezes(<<>>, <<>>)
    BY <1>5 DEF AllowSync
  <2>2. /\ state' \in [Devices -> States]
        /\ \A e \in Devices : state'[e] = state[e]
                            \/ (grab[e].client = c /\ state'[e] # "NOT_GRABBED")
    BY <1>5 DEF AllowSync, ThisGrabbed, SyncsOK, States
  <2>3. /\ other' \in [Devices -> Devices \cup {None}]
        /\ \A e \in Devices : other'[e] \in {None, other[e]}
    BY <1>5 DEF AllowSync, SyncsOK
  <2> QED BY <1>3, <2>1, <2>2, <2>3
<1>6. ASSUME NEW new \in {"THAWED", "FREEZE_BOTH_NEXT_EVENT"}, AllowBoth(c, new) PROVE StepOK
  <2>1. /\ UNCHANGED <<grab, fromPassiveGrab, saved, activatingKey, down, queue, world, sent, done>>
        /\ ComputeFreezes(<<>>, <<>>)
    BY <1>6 DEF AllowBoth
  <2>2. /\ state' \in [Devices -> States]
        /\ \A e \in Devices : state'[e] = state[e]
                            \/ (grab[e].client = c /\ state'[e] # "NOT_GRABBED")
    BY <1>6 DEF AllowBoth, SyncsOK, States
  <2>3. /\ other' \in [Devices -> Devices \cup {None}]
        /\ \A e \in Devices : other'[e] \in {None, other[e]}
    BY <1>6 DEF AllowBoth, SyncsOK
  <2> QED BY <1>3, <2>1, <2>2, <2>3
<1>7. ASSUME NEW d \in Devices, AllowReplay(c, d) PROVE StepOK
  <2>1. GivesUp(d)
    BY <1>7, SyncGrabsAssumption DEF AllowReplay, GivesUp, SyncsOK
  <2>2. ComputeFreezes(<<Replay(d, grab[d].window)>>, <<>>)
        /\ UNCHANGED <<saved, activatingKey, down, queue, world, sent, done>>
    BY <1>7 DEF AllowReplay
  <2>3. SyncsOK'
    BY <2>1, <2>2, GivingUp, Freezing DEF SyncsOK, GivesUp
  <2>4. \A e \in Devices : grab[e] # NoGrab /\ grab'[e] # NoGrab =>
                             grab'[e].client = grab[e].client
    BY <2>1 DEF GivesUp, SyncsOK
  <2>5. StackOK'
    <3> DEFINE r == Replay(d, grab[d].window)
    <3>1. CASE todo' = <<>>
      BY <3>1 DEF StackOK
    <3>2. CASE todo' = <<r>> \o <<PlayReleased>> \o <<>>
      <4>1. r \in Calls /\ r.dev = d
        <5>1. grab[d].window \in Windows
          BY SyncGrabsAssumption DEF SyncsOK, Grabs, NoGrab, Windows, Root
        <5> QED BY <5>1, WindowCalls DEF Replay, Item
      <4>2. PlayReleased \in OtherCalls /\ PlayReleased \in Calls
        BY SimpleCallIsOK DEF OtherCalls
      <4> HIDE DEF r
      <4>3. todo' = <<r, PlayReleased>>
        <5>1. (<<r>> \o <<PlayReleased>>) \o <<>> = <<r>> \o <<PlayReleased>>
          BY <4>1, <4>2, ConcatEmptySeq, Concatenation
        <5> DEFINE s == <<r>> \o <<PlayReleased>>
                   t == <<r, PlayReleased>>
        <5>2. s \in Seq(Calls) /\ Len(s) = 2 /\ s[1] = r /\ s[2] = PlayReleased
          BY <4>1, <4>2, ConcatProperties
        <5>3. t \in Seq(Calls) /\ Len(t) = 2 /\ t[1] = r /\ t[2] = PlayReleased
          BY <4>1, <4>2
        <5>4. s = t
          <6> HIDE DEF s, t
          <6>1. \A j \in 1 .. Len(s) : s[j] = t[j]
            BY <5>2, <5>3
          <6> QED BY <5>2, <5>3, <6>1, SeqEqual
        <5> QED BY <3>2, <5>1, <5>4
      <4>4. todo' \in Seq(Calls) /\ Tail(todo') = <<PlayReleased>> /\ Head(todo') = r
        BY <4>1, <4>2, <4>3
      <4>5. Tail(todo') \in Seq(OtherCalls)
        <5>1. <<PlayReleased>> \in Seq(OtherCalls)
          BY <4>2
        <5> QED BY <4>4, <5>1
      <4>6. grab'[d] = NoGrab
        BY <2>1 DEF GivesUp, SyncsOK
      <4> QED BY <4>1, <4>4, <4>5, <4>6 DEF StackOK
    <3> QED BY <2>2, <3>1, <3>2, Freezing
  <2> QED BY <2>2, <2>3, <2>4, <2>5, UnchangedEvents, UnchangedWorld DEF StepOK
<1>8. ASSUME NEW p \in passive, UngrabPassive(p) PROVE StepOK
  <2>1. UNCHANGED <<syncs, playing, saved, activatingKey, down, queue, sent, done, todo, grab>>
    BY <1>8 DEF UngrabPassive, syncs
  <2>2. StackOK' /\ WorldOK'
    BY <1>8, <2>1 DEF UngrabPassive, StackOK, WorldOK
  <2> QED BY <2>1, <2>2, SyncsUnchanged, UnchangedEvents DEF StepOK
<1>9. ASSUME CloseDownClient(c) PROVE StepOK
  <2>1. ReleaseGrabs(c) \in OtherCalls /\ FreeResources(c) \in OtherCalls
    BY SimpleCallIsOK
  <2>2. todo' \in Seq(OtherCalls)
    BY <1>9, <2>1 DEF CloseDownClient
  <2> QED BY <1>9, <2>2, SyncsUnchanged, UnchangedEvents, UnchangedWorld, StackStaysOK
          DEF CloseDownClient, StepOK
<1> QED BY <1>1, <1>2, <1>4, <1>5, <1>6, <1>7, <1>8, <1>9 DEF Request

LEMMA WindowSteps ==
  ASSUME IInv, NEW w \in Windows, UnmapWindow(w) \/ MapWindow(w) \/ DestroyWindow(w)
  PROVE  StepOK
<1> USE DEF IInv
<1>1. todo' \in Seq(OtherCalls) /\ WorldOK'
  <2>1. CASE UnmapWindow(w)
    BY <2>1, UnmappingCalls DEF UnmapWindow, WorldOK, Windows
  <2>2. CASE MapWindow(w)
    <3>1. Restructure \in OtherCalls
      BY SimpleCallIsOK
    <3> QED BY <2>2, <3>1, SyncGrabsAssumption DEF MapWindow, WorldOK, Windows
  <2>3. CASE DestroyWindow(w)
    BY <2>3, UnmappingCalls, Concatenation DEF DestroyWindow, WorldOK, Windows
  <2> QED BY <2>1, <2>2, <2>3
<1>2. UNCHANGED <<syncs, playing, saved, activatingKey, down, queue, sent, done>>
  BY DEF UnmapWindow, MapWindow, DestroyWindow
<1> QED BY <1>1, <1>2, SyncsUnchanged, UnchangedEvents, StackStaysOK DEF StepOK

-----------------------------------------------------------------------------
(* The theorems.                                                           *)

LEMMA Initially == Init => IInv
<1> SUFFICES ASSUME Init PROVE IInv
  OBVIOUS
<1>1. SyncsOK
  BY DEF Init, SyncsOK, States, Frozen, FrozenForAReason, FreezesComeFromGrabs
<1>2. StackOK
  BY DEF Init, StackOK
<1>3. EventsOK
  <2>1. \A d \in Devices : [NoEvent EXCEPT !.dev = d] \in Events /\ [NoEvent EXCEPT !.dev = d].dev = d
    BY DEF NoEvent, Events, Devices, Motion
  <2> QED BY <2>1, EmptySeq DEF Init, EventsOK, SavedOK
<1>4. WorldOK
  BY SyncGrabsAssumption DEF Init, WorldOK, Windows
<1> QED BY <1>1, <1>2, <1>3, <1>4 DEF IInv

LEMMA Steps == IInv /\ [Next]_vars => IInv' /\ [StepOK]_vars
<1> SUFFICES ASSUME IInv, [Next]_vars PROVE IInv' /\ [StepOK]_vars
  OBVIOUS
<1>1. CASE Next
  BY <1>1, ServerSteps, Inputs, Requests, WindowSteps DEF Next, StepOK, IInv
<1>2. CASE UNCHANGED vars
  <2>1. UNCHANGED <<grab, todo>>
    BY <1>2 DEF vars, syncs
  <2>2. StackOK'
    BY <2>1 DEF IInv, StackOK
  <2> QED BY <1>2, <2>2, SyncsUnchanged, UnchangedEvents, UnchangedWorld DEF vars, IInv
<1> QED BY <1>1, <1>2

LEMMA Inductive == Spec => []IInv
  BY Initially, Steps, PTL DEF Spec

\* Every variable, the stack of nested calls included, keeps its type.
THEOREM TypeCorrect == Spec => []TypeOK
<1>1. IInv => TypeOK
  <2> SUFFICES ASSUME IInv PROVE TypeOK
    OBVIOUS
  <2>1. Calls \subseteq [op : Ops, dev : Devices, ev : Events, arg : (0 .. Depth) \cup Clients \cup {None}]
    BY DEF Calls, Arguments
  <2>2. todo \in Seq([op : Ops, dev : Devices, ev : Events, arg : (0 .. Depth) \cup Clients \cup {None}])
    BY <2>1, SeqMonotonic DEF IInv, StackOK
  <2> QED BY <2>2 DEF IInv, SyncsOK, EventsOK, SavedOK, WorldOK, TypeOK
<1> QED BY <1>1, Inductive, PTL

\* A device hands its events to EnqueueEvent exactly when its own sync state or
\* another device's grab freezes it: no path through ComputeFreezes,
\* DeliverGrabbedEvent or AllowSome forgets a device.
THEOREM FreezesCorrect == Spec => []FrozenForAReason
<1>1. IInv => FrozenForAReason
  BY DEF IInv, SyncsOK
<1> QED BY <1>1, Inductive, PTL

\* The pointer sync.other never outlives the grab it points into.
THEOREM OthersCorrect == Spec => []FreezesComeFromGrabs
<1>1. IInv => FreezesComeFromGrabs
  BY DEF IInv, SyncsOK
<1> QED BY <1>1, Inductive, PTL

\* Neither a request nor a replayed event replaces the active grab of one client
\* by another's.
THEOREM NothingStolen == Spec => GrabIsNeverStolen
<1>1. IInv /\ [Next]_vars =>
        [\A d \in Devices : grab[d] # NoGrab /\ grab'[d] # NoGrab =>
                               grab'[d].client = grab[d].client]_vars
  BY Steps DEF StepOK
<1> QED BY <1>1, Inductive, PTL DEF Spec, GrabIsNeverStolen

-----------------------------------------------------------------------------
(* No event is stranded.                                                   *)

\* A replay that is under way is still on the stack, and when none is, every
\* queued event waits for a device that is frozen.
HasPlay(s) == \E i \in 1 .. Len(s) : s[i].op = "play"
AllWait == \A i \in 1 .. Len(pending) : frozen[pending[i].dev]
PlayOK == (playing => HasPlay(todo)) /\ (~playing => AllWait)

LEMMA PlayBelow ==
  ASSUME NEW s \in Seq(Calls), NEW rest \in Seq(Calls), HasPlay(rest)
  PROVE  HasPlay(s \o rest)
  <1>1. PICK i \in 1 .. Len(rest) : rest[i].op = "play"
    BY DEF HasPlay
  <1>2. Len(s) \in Nat /\ Len(rest) \in Nat /\ Len(s \o rest) = Len(s) + Len(rest)
    BY ConcatProperties, LenProperties
  <1>3. Len(s) + i \in 1 .. Len(s \o rest) /\ (s \o rest)[Len(s) + i] = rest[i]
    BY <1>2, ConcatProperties
  <1> QED BY <1>1, <1>3 DEF HasPlay

LEMMA PlayPushed ==
  ASSUME NEW replay \in Seq(Calls), NEW rest \in Seq(Calls)
  PROVE  HasPlay(replay \o <<PlayReleased>> \o rest)
  <1>1. PlayReleased \in Calls /\ PlayReleased.op = "play"
    BY SimpleCallIsOK DEF OtherCalls, PlayReleased, Item
  <1> DEFINE p == <<PlayReleased>>
  <1>2. p \in Seq(Calls) /\ Len(p) = 1 /\ p[1].op = "play"
    BY <1>1
  <1> HIDE DEF p
  <1>3. HasPlay(p)
    BY <1>2 DEF HasPlay
  <1>4. replay \o p \in Seq(Calls) /\ HasPlay(replay \o p)
    BY <1>2, <1>3, PlayBelow, Concatenation
  <1> DEFINE s == replay \o p
  <1>5. s \in Seq(Calls) /\ HasPlay(s)
    BY <1>4
  <1> HIDE DEF s
  <1>6. PICK i \in 1 .. Len(s) : s[i].op = "play"
    BY <1>5 DEF HasPlay
  <1>7. Len(s) \in Nat /\ Len(rest) \in Nat /\ Len(s \o rest) = Len(s) + Len(rest)
    BY <1>5, ConcatProperties, LenProperties
  <1>8. i \in 1 .. Len(s \o rest) /\ (s \o rest)[i] = s[i]
    BY <1>5, <1>7, ConcatProperties
  <1>9. HasPlay(s \o rest)
    BY <1>6, <1>8 DEF HasPlay
  <1> QED BY <1>9 DEF s, p

LEMMA PlayUnderTop ==
  ASSUME NEW s \in Seq(Calls), s # <<>>, HasPlay(s), Head(s).op # "play"
  PROVE  HasPlay(Tail(s))
  <1>1. PICK i \in 1 .. Len(s) : s[i].op = "play"
    BY DEF HasPlay
  <1>2. Len(s) \in Nat /\ Len(Tail(s)) = Len(s) - 1 /\ Head(s) = s[1]
    BY HeadTailProperties, LenProperties
  <1>3. i - 1 \in 1 .. Len(Tail(s)) /\ Tail(s)[i - 1] = s[i]
    BY <1>1, <1>2, HeadTailProperties
  <1> QED BY <1>1, <1>3 DEF HasPlay

LEMMA FreezingPlays ==
  ASSUME PlayOK, NEW replay \in Seq(Calls), NEW rest \in Seq(Calls),
         ComputeFreezes(replay, rest), playing => HasPlay(rest), pending' = pending
  PROVE  PlayOK'
  <1>1. CASE playing \/ (replay = <<>> /\ pending = <<>>)
    <2>1. todo' = rest /\ playing' = playing
      BY <1>1 DEF ComputeFreezes
    <2>2. ~playing => pending' = <<>>
      BY <1>1
    <2> QED BY <2>1, <2>2 DEF PlayOK, HasPlay, AllWait
  <1>2. CASE ~(playing \/ (replay = <<>> /\ pending = <<>>))
    <2>1. todo' = replay \o <<PlayReleased>> \o rest /\ playing' = TRUE
      BY <1>2 DEF ComputeFreezes
    <2> QED BY <2>1, PlayPushed DEF PlayOK, HasPlay
  <1> QED BY <1>1, <1>2

\* A call returns, or pushes others, and leaves the queue and the freezes alone,
\* or freezes more devices.
LEMMA ReturningKeepsPlaying ==
  ASSUME PlayOK, StackOK, todo # <<>>, Top.op # "play", NEW s \in Seq(Calls),
         todo' \in {Rest, todo, s \o Rest, s \o todo},
         UNCHANGED <<playing, pending>>,
         \A d \in Devices : frozen[d] => frozen'[d],
         \A i \in 1 .. Len(pending) : pending[i].dev \in Devices
  PROVE  PlayOK'
  <1>1. Rest \in Seq(Calls) /\ todo \in Seq(Calls)
    BY StackTop, NoReplayIsOK DEF StackOK
  <1>2. playing => HasPlay(Rest) /\ HasPlay(todo)
    BY <1>1, PlayUnderTop DEF PlayOK, Rest, Top
  <1>3. playing => HasPlay(todo')
    BY <1>1, <1>2, PlayBelow
  <1>4. HasPlay(todo)' <=> HasPlay(todo')
    BY DEF HasPlay
  <1> QED BY <1>3, <1>4 DEF PlayOK, AllWait

LEMMA ServerStepsPlay ==
  ASSUME IInv, PlayOK, ServerStep
  PROVE  PlayOK'
<1> USE DEF IInv
<1>0. /\ todo # <<>>
      /\ Top \in Calls /\ Top.ev \in Events /\ Top.dev \in Devices /\ Top.ev.dev \in Devices
      /\ Rest \in Seq(Calls) /\ Rest \in Seq(OtherCalls) /\ todo \in Seq(Calls)
      /\ pending \in Seq(Events) /\ Len(pending) \in Nat
      /\ \A i \in 1 .. Len(pending) : pending[i] \in Events /\ pending[i].dev \in Devices
  <2>1. todo # <<>>
    BY DEF ServerStep, Running, EnqueueEvent, ProcessPress, ProcessRelease, ProcessMotion,
           SaveEvent, ReplaySavedEvent, PlayReleasedEvents, PlayingEnds, DropGrab,
           WindowsRestructured, FreeWindowResources, ReleaseActiveGrabs, FreeClientResources
  <2>2. \A i \in 1 .. Len(pending) : pending[i] \in Events
    BY ElementOfSeq DEF EventsOK
  <2> QED BY <2>1, <2>2, StackTop, NoReplayIsOK, LenProperties DEF Calls, Events, EventsOK, StackOK
<1>01. ASSUME Top.op # "play" PROVE playing => HasPlay(Rest)
  BY <1>0, <1>01, PlayUnderTop DEF PlayOK, Top, Rest
<1>02. <<>> \in Seq(Calls)
  OBVIOUS
<1>03. ASSUME Top.op # "play", NEW s \in Seq(Calls), todo' \in {Rest, todo, s \o Rest, s \o todo},
              UNCHANGED <<playing, pending>>, \A d \in Devices : frozen[d] => frozen'[d]
       PROVE  PlayOK'
  BY <1>0, <1>03, ReturningKeepsPlaying
<1>04. ASSUME NEW ev \in Events, ActivatePassiveGrab(ev, Top.arg, realized) \/ ActivatePassiveGrab(ev, 0, trace),
              Top.op # "play", pending' = pending
       PROVE  PlayOK'
  <2>1. PICK a \in Arguments, path \in {realized, trace} : ActivatePassiveGrab(ev, a, path)
    BY <1>0, <1>04, ZeroIsAnArgument DEF Calls
  <2>2. Save(ev, a) \in Calls
    BY SimpleCallIsOK DEF OtherCalls
  <2>3. <<Save(ev, a)>> \in Seq(Calls)
    BY <2>2
  <2>4. <<Save(ev, a)>> \o Rest \in Seq(Calls) /\ (playing => HasPlay(<<Save(ev, a)>> \o Rest))
    BY <1>0, <1>01, <1>04, <2>3, Concatenation, PlayBelow
  <2>5. ComputeFreezes(<<>>, <<Save(ev, a)>> \o Rest)
    BY <2>1 DEF ActivatePassiveGrab, ActivateGrab
  <2> QED BY <1>02, <1>04, <2>4, <2>5, FreezingPlays
<1>05. ASSUME NEW ev \in Events, Deliver(ev), Top.op # "play", pending' = pending
       PROVE  PlayOK'
  <2>1. todo' = Rest /\ playing' = playing
    BY <1>05 DEF Deliver, DeliverGrabbedEvent, DeliverUngrabbed
  <2>2. \A d \in Devices : frozen[d] => frozen'[d]
    BY <1>05 DEF Deliver, DeliverGrabbedEvent, DeliverUngrabbed, syncs, SyncsOK
  <2> QED BY <1>02, <1>03, <1>05, <2>1, <2>2
<1>06. ASSUME NEW d \in Devices, DeactivateGrab(d, <<>>, Rest) \/ DeactivateGrab(d, <<>>, todo),
              Top.op # "play", pending' = pending
       PROVE  PlayOK'
  BY <1>0, <1>01, <1>02, <1>06, FreezingPlays DEF DeactivateGrab, PlayOK
<1>1. CASE EnqueueEvent
  <2>1. playing' = playing /\ todo' = Rest /\ Top.op # "play" /\ frozen' = frozen
    BY <1>1 DEF EnqueueEvent, Running, syncs
  <2>2. ASSUME AllWait PROVE AllWait'
    <3>1. frozen[Top.ev.dev]
      BY <1>0, <1>1 DEF EnqueueEvent, Running, Calls
    <3>2. CASE Compresses
      <4>1. /\ Len(pending') = Len(pending)
            /\ \A i \in 1 .. Len(pending) : pending'[i].dev = pending[i].dev
        BY <1>0, <1>1, <3>2 DEF EnqueueEvent, Events
      <4> QED BY <2>1, <2>2, <4>1 DEF AllWait
    <3>3. CASE ~Compresses
      <4>1. pending' = Append(pending, Top.ev)
        BY <1>1, <3>3 DEF EnqueueEvent
      <4> QED BY <1>0, <2>1, <2>2, <3>1, <4>1 DEF AllWait
    <3> QED BY <3>2, <3>3
  <2> QED BY <1>01, <2>1, <2>2 DEF PlayOK, HasPlay
<1>2. CASE ProcessPress
  <2> DEFINE ev == Top.ev
  <2>1. Top.op # "play" /\ pending' = pending
    BY <1>2 DEF ProcessPress, Running, queue
  <2>2. CASE ev.dev = "keybd" /\ down["keybd"]
    <3>1. Input([ev EXCEPT !.type = Release]) \in Calls /\ Input([ev EXCEPT !.again = TRUE]) \in Calls
      BY <1>0 DEF Input, Item, Calls, Arguments, Ops, Events, Release
    <3> DEFINE s == <<Input([ev EXCEPT !.type = Release]), Input([ev EXCEPT !.again = TRUE])>>
    <3>2. s \in Seq(Calls)
      BY <3>1
    <3>3. todo' \in {Rest, s \o Rest} /\ UNCHANGED <<playing, frozen>>
      BY <1>2, <2>2 DEF ProcessPress, syncs
    <3> QED BY <1>03, <2>1, <3>2, <3>3
  <2>3. CASE ~(ev.dev = "keybd" /\ down["keybd"])
    <3>1. ActivatePassiveGrab(ev, 0, trace) \/ Deliver(ev)
      BY <1>2, <2>3 DEF ProcessPress
    <3> QED BY <1>0, <1>04, <1>05, <2>1, <3>1
  <2> QED BY <2>2, <2>3
<1>3. CASE ProcessRelease
  <2> DEFINE ev == Top.ev
  <2>1. Top.op # "play" /\ pending' = pending
    BY <1>3 DEF ProcessRelease, Running, queue
  <2>2. \/ todo' = Rest /\ UNCHANGED <<playing, frozen>>
        \/ DeactivateGrab(ev.dev, <<>>, Rest)
        \/ Deliver(ev)
    BY <1>3 DEF ProcessRelease, syncs
  <2> QED BY <1>0, <1>02, <1>03, <1>05, <1>06, <2>1, <2>2
<1>4. CASE ProcessMotion \/ SaveEvent \/ WindowsRestructured \/ FreeWindowResources
  <2>1. Top.op # "play" /\ todo' = Rest /\ UNCHANGED <<playing, frozen, pending>>
    BY <1>4 DEF ProcessMotion, SaveEvent, WindowsRestructured, FreeWindowResources, Running, syncs, queue
  <2> QED BY <1>02, <1>03, <2>1
<1>5. CASE ReplaySavedEvent
  <2>1. Top.op # "play" /\ pending' = pending
    BY <1>5 DEF ReplaySavedEvent, Running, queue
  <2>2. CASE ActivatePassiveGrab(saved[Top.dev], Top.arg, realized)
    BY <1>0, <1>04, <2>1, <2>2 DEF EventsOK, SavedOK
  <2>3. CASE DeliverUngrabbed
    BY <1>02, <1>03, <2>1, <2>3 DEF DeliverUngrabbed, syncs
  <2> QED BY <1>5, <2>2, <2>3 DEF ReplaySavedEvent
<1>6. CASE PlayReleasedEvents
  <2>1. PICK i \in 1 .. Len(pending) :
               FirstPlayable(i) /\ todo' = <<Input(pending[i])>> \o todo /\ playing' = playing
    BY <1>6 DEF PlayReleasedEvents
  <2>2. playing
    BY <2>1 DEF PlayOK, AllWait, FirstPlayable, Playable
  <2>3. Input(pending[i]) \in Calls
    BY <1>0, SimpleCallIsOK DEF OtherCalls
  <2>4. <<Input(pending[i])>> \in Seq(Calls)
    BY <2>3
  <2>5. HasPlay(<<Input(pending[i])>> \o todo)
    BY <1>0, <2>2, <2>4, PlayBelow DEF PlayOK
  <2> QED BY <2>1, <2>2, <2>5 DEF PlayOK, HasPlay
<1>7. CASE PlayingEnds
  BY <1>7 DEF PlayingEnds, PlayOK, AllWait, Playable, syncs, queue
<1>8. CASE DropGrab
  <2>1. Top.op # "play" /\ pending' = pending
    BY <1>8 DEF DropGrab, Running, queue
  <2>2. \/ DeactivateGrab(Top.dev, <<>>, Rest)
        \/ todo' = Rest /\ UNCHANGED <<playing, frozen>>
    BY <1>8 DEF DropGrab, syncs
  <2> QED BY <1>0, <1>02, <1>03, <1>06, <2>1, <2>2
<1>9. CASE ReleaseActiveGrabs
  <2>1. Top.op # "play" /\ pending' = pending
    BY <1>9 DEF ReleaseActiveGrabs, Running, queue
  <2>2. \/ \E d \in Devices : DeactivateGrab(d, <<>>, todo)
        \/ todo' = Rest /\ UNCHANGED <<playing, frozen>>
    BY <1>9 DEF ReleaseActiveGrabs, syncs
  <2> QED BY <1>0, <1>02, <1>03, <1>06, <2>1, <2>2
<1>10. CASE FreeClientResources
  <2>1. Top.op # "play" /\ UNCHANGED <<playing, pending, frozen>>
    BY <1>10 DEF FreeClientResources, Running, queue, syncs
  <2>2. CASE \E w \in 1 .. exists : Owner[w] = Top.arg /\ todo' = Unmapping(w) \o Freeing(w) \o todo
    <3>1. PICK w \in 1 .. exists : Owner[w] = Top.arg /\ todo' = Unmapping(w) \o Freeing(w) \o todo
      BY <2>2
    <3>2. w \in Windows /\ w >= 2
      <4>1. Top.arg # None
        BY <1>0, <1>10, SyncGrabsAssumption DEF FreeClientResources, Running, Calls
      <4>2. w # Root
        BY <3>1, <4>1, SyncGrabsAssumption
      <4> QED BY <3>1, <4>2, SyncGrabsAssumption DEF WorldOK, Windows, Root
    <3> DEFINE s == Unmapping(w) \o Freeing(w)
    <3>3. s \in Seq(Calls)
      BY <3>2, UnmappingCalls, Concatenation, NoReplayIsOK
    <3> QED BY <1>03, <2>1, <3>1, <3>3
  <2>3. CASE todo' \in {todo, Rest}
    BY <1>02, <1>03, <2>1, <2>3
  <2> QED BY <1>10, <2>2, <2>3 DEF FreeClientResources
<1> QED BY <1>1, <1>2, <1>3, <1>4, <1>5, <1>6, <1>7, <1>8, <1>9, <1>10 DEF ServerStep

\* Between calls nothing is on the stack, so nothing is being played.
LEMMA IdleStepsPlay ==
  ASSUME IInv, PlayOK, Next, ~ServerStep
  PROVE  PlayOK'
<1>1. ~playing /\ AllWait /\ todo = <<>>
  <2>1. todo = <<>>
    BY DEF Next, Request, DeviceInput, UngrabDevice, GrabDevice, AllowAsync, AllowSync, AllowReplay,
           AllowBoth, AllowsRequest, UngrabPassive, CloseDownClient, UnmapWindow, MapWindow,
           DestroyWindow, Idle
  <2> QED BY <2>1 DEF PlayOK, HasPlay
<1>2. pending' = pending
  BY DEF Next, Request, DeviceInput, UngrabDevice, GrabDevice, AllowAsync, AllowSync, AllowReplay,
         AllowBoth, UngrabPassive, CloseDownClient, UnmapWindow, MapWindow, DestroyWindow, queue
<1>3. <<>> \in Seq(Calls)
  OBVIOUS
<1>4. ASSUME NEW replay \in Seq(Calls), ComputeFreezes(replay, <<>>) PROVE PlayOK'
  BY <1>1, <1>2, <1>3, <1>4, FreezingPlays
<1>5. ASSUME UNCHANGED <<frozen, playing>> PROVE PlayOK'
  BY <1>1, <1>2, <1>5 DEF PlayOK, AllWait
<1>6. ASSUME NEW c \in Clients, Request(c) PROVE PlayOK'
  <2>1. ASSUME NEW d \in Devices, AllowReplay(c, d) PROVE PlayOK'
    <3>1. Replay(d, grab[d].window) \in Calls
      <4>1. grab[d].window \in Windows
        BY SyncGrabsAssumption DEF IInv, SyncsOK, Grabs, NoGrab, Windows, Root
      <4> QED BY <4>1, WindowCalls
    <3>2. <<Replay(d, grab[d].window)>> \in Seq(Calls)
      BY <3>1
    <3> QED BY <1>4, <2>1, <3>2 DEF AllowReplay
  <2>2. ASSUME ComputeFreezes(<<>>, <<>>) PROVE PlayOK'
    BY <1>3, <1>4, <2>2
  <2> QED BY <1>5, <1>6, <2>1, <2>2
          DEF Request, GrabDevice, ActivateGrab, UngrabDevice, DeactivateGrab, AllowAsync, AllowSync,
              AllowBoth, UngrabPassive, CloseDownClient, syncs
<1>7. ASSUME NEW d \in Devices, NEW type \in {Press, Release, Motion}, DeviceInput(d, type) PROVE PlayOK'
  BY <1>5, <1>7 DEF DeviceInput, syncs
<1>8. ASSUME NEW w \in Windows, UnmapWindow(w) \/ MapWindow(w) \/ DestroyWindow(w) PROVE PlayOK'
  BY <1>5, <1>8 DEF UnmapWindow, MapWindow, DestroyWindow, syncs
<1> QED BY <1>6, <1>7, <1>8 DEF Next

LEMMA Playing == Spec => []PlayOK
<1>1. Init => PlayOK
  BY DEF Init, PlayOK, AllWait
<1>2. IInv /\ PlayOK /\ [Next]_vars => PlayOK'
  <2>1. ASSUME PlayOK, UNCHANGED vars PROVE PlayOK'
    BY <2>1 DEF PlayOK, AllWait, HasPlay, vars, syncs, queue
  <2> QED BY <2>1, ServerStepsPlay, IdleStepsPlay
<1> QED BY <1>1, <1>2, Inductive, PTL DEF Spec

\* When the server waits for the next request or input, no event is left in the
\* queue for a device that is free to take it: every thaw replays.
THEOREM NothingStranded == Spec => []NoStrandedEvents
<1>1. PlayOK => NoStrandedEvents
  BY DEF PlayOK, AllWait, NoStrandedEvents, Idle, HasPlay
<1> QED BY <1>1, Playing, PTL

-----------------------------------------------------------------------------
(* Who thaws.                                                              *)

\* What may free a device that the grab of device e freezes, while e is grabbed.
Allows(e) ==
  \/ \E f \in Devices : AllowAsync(grab[e].client, f) \/ AllowSync(grab[e].client, f)
                        \/ AllowReplay(grab[e].client, f)
  \/ \E new \in States : AllowBoth(grab[e].client, new)
  \/ \E f \in Devices, g \in RequestedGrabs : GrabDevice(f, g) /\ g.client = grab[e].client
  \/ \E f \in Devices : grab[f] = NoGrab /\ grab'[f].client = grab[e].client

\* There are two devices: one that is freed by the activation of a grab was frozen
\* by the device that is grabbed, or by a grab of the same client.
LEMMA ActivatingThaws ==
  ASSUME SyncsOK, NEW f \in Devices, NEW g \in Grabs,
         NEW d \in Devices, NEW e \in Devices, other[d] = e, OtherAfter(f, g, d) # e
  PROVE  e = f \/ (f = d /\ g.client = grab[e].client)
  <1>1. e # d
    BY SyncGrabsAssumption DEF SyncsOK, FreezesComeFromGrabs
  <1>3. CASE d = f
    BY <1>1, <1>3, SyncGrabsAssumption DEF OtherAfter, OwnerOf
  <1>4. CASE d # f
    BY <1>1, <1>4 DEF Devices
  <1> QED BY <1>3, <1>4

LEMMA PassivelyThaws ==
  ASSUME SyncsOK, WorldOK, NEW ev \in Events, NEW above, NEW path,
         grab[ev.dev] = NoGrab, ActivatePassiveGrab(ev, above, path),
         NEW d \in Devices, NEW e \in Devices, other[d] = e, other'[d] # e
  PROVE  Allows(e)
  <1>1. PICK p \in Matching(ev.dev, above, path) :
               ActivateGrab(ev.dev, p.grab, TRUE, <<Save(ev, above)>> \o Rest)
    BY DEF ActivatePassiveGrab
  <1>2. p.grab \in Grabs /\ ev.dev \in Devices
    BY <1>1, GrabsAssumption DEF Matching, WorldOK, Passive, Events
  <1>3. grab[e] # NoGrab
    BY SyncGrabsAssumption DEF SyncsOK, FreezesComeFromGrabs
  <1>4. ev.dev = d /\ p.grab.client = grab[e].client
    <2>1. OtherAfter(ev.dev, p.grab, d) # e
      BY <1>1 DEF ActivateGrab
    <2> QED BY <1>2, <1>3, <2>1, ActivatingThaws
  <1>5. grab'[d].client = grab[e].client
    BY <1>1, <1>4 DEF ActivateGrab, SyncsOK
  <1> QED BY <1>4, <1>5 DEF Allows

LEMMA DeactivatingThaws ==
  ASSUME SyncsOK, NEW f \in Devices, NEW replay, NEW rest, DeactivateGrab(f, replay, rest),
         NEW d \in Devices, NEW e \in Devices, other[d] = e, other'[d] # e
  PROVE  grab'[e] = NoGrab
  BY DEF DeactivateGrab, SyncsOK

LEMMA DeliveringFreezes ==
  ASSUME SyncsOK, NEW ev \in Events, Deliver(ev),
         NEW d \in Devices, NEW e \in Devices, other[d] = e
  PROVE  other'[d] = e
  <1>1. CASE DeliverUngrabbed
    BY <1>1 DEF DeliverUngrabbed, syncs
  <1>2. CASE DeliverGrabbedEvent(ev)
    <2>1. e # d /\ ev.dev \in Devices
      BY SyncGrabsAssumption DEF SyncsOK, FreezesComeFromGrabs, Events
    <2>2. other'[d] = other[d] \/ (other'[d] = ev.dev /\ d # ev.dev)
      BY <1>2 DEF DeliverGrabbedEvent
    <2> QED BY <2>1, <2>2 DEF Devices
  <1> QED BY <1>1, <1>2 DEF Deliver

LEMMA ServerThaws ==
  ASSUME IInv, ServerStep, NEW d \in Devices, NEW e \in Devices,
         other[d] = e, other'[d] # e, grab'[e] # NoGrab
  PROVE  Allows(e)
<1> USE DEF IInv
<1>0. todo # <<>> /\ Top \in Calls
  <2>1. todo # <<>>
    BY DEF ServerStep, Running, EnqueueEvent, ProcessPress, ProcessRelease, ProcessMotion,
           SaveEvent, ReplaySavedEvent, PlayReleasedEvents, PlayingEnds, DropGrab,
           WindowsRestructured, FreeWindowResources, ReleaseActiveGrabs, FreeClientResources
  <2> QED BY <2>1, StackTop
<1>1. Top.ev \in Events /\ Top.dev \in Devices /\ Top.ev.dev \in Devices
  BY <1>0 DEF Calls, Events
<1>2. ~(UNCHANGED other)
  OBVIOUS
<1>3. CASE ProcessPress
  <2>1. ~(Top.ev.dev = "keybd" /\ down["keybd"])
    BY <1>2, <1>3 DEF ProcessPress, syncs
  <2>2. ~Deliver(Top.ev)
    BY <1>1, DeliveringFreezes
  <2>3. grab[Top.ev.dev] = NoGrab /\ ActivatePassiveGrab(Top.ev, 0, trace)
    BY <1>3, <2>1, <2>2 DEF ProcessPress
  <2> QED BY <1>1, <2>3, PassivelyThaws
<1>4. CASE ProcessRelease
  <2>1. ~Deliver(Top.ev) /\ ~DeactivateGrab(Top.ev.dev, <<>>, Rest)
    BY <1>1, DeliveringFreezes, DeactivatingThaws
  <2> QED BY <1>2, <1>4, <2>1 DEF ProcessRelease, syncs
<1>5. CASE ReplaySavedEvent
  <2> DEFINE ev == saved[Top.dev]
  <2>1. ActivatePassiveGrab(ev, Top.arg, realized)
    BY <1>2, <1>5 DEF ReplaySavedEvent, DeliverUngrabbed, syncs
  <2>2. ev \in Events /\ grab[ev.dev] = NoGrab
    BY <1>0, <1>1, <1>5 DEF ReplaySavedEvent, Running, StackOK, Top, EventsOK, SavedOK
  <2> QED BY <2>1, <2>2, PassivelyThaws
<1>6. CASE DropGrab
  BY <1>1, <1>2, <1>6, DeactivatingThaws DEF DropGrab, syncs
<1>7. CASE ReleaseActiveGrabs
  BY <1>2, <1>7, DeactivatingThaws DEF ReleaseActiveGrabs, syncs
<1>8. CASE \/ EnqueueEvent \/ ProcessMotion \/ SaveEvent \/ PlayReleasedEvents \/ PlayingEnds
           \/ WindowsRestructured \/ FreeWindowResources \/ FreeClientResources
  BY <1>2, <1>8 DEF EnqueueEvent, ProcessMotion, SaveEvent, PlayReleasedEvents, PlayingEnds,
                    WindowsRestructured, FreeWindowResources, FreeClientResources, syncs
<1> QED BY <1>3, <1>4, <1>5, <1>6, <1>7, <1>8 DEF ServerStep

LEMMA RequestThaws ==
  ASSUME IInv, NEW c \in Clients, Request(c), NEW d \in Devices, NEW e \in Devices,
         other[d] = e, other'[d] # e, grab'[e] # NoGrab
  PROVE  Allows(e)
<1> USE DEF IInv
<1>0. c # None /\ e # d /\ grab[e] # NoGrab
  BY SyncGrabsAssumption DEF SyncsOK, FreezesComeFromGrabs
<1>1. ASSUME NEW f \in Devices, NEW g \in RequestedGrabs, g.client = c, GrabDevice(f, g)
      PROVE  Allows(e)
  <2>1. ActivateGrab(f, g, FALSE, <<>>) /\ g \in Grabs /\ grab[f].client \in {None, c}
    BY <1>1, GrabsAssumption DEF GrabDevice, MayGrab
  <2>2. CASE e = f
    <3>1. grab[e].client # None
      BY <1>0, SyncGrabsAssumption DEF SyncsOK, Grabs
    <3> QED BY <1>1, <2>1, <2>2, <3>1 DEF Allows
  <2>3. CASE e # f
    <3>1. OtherAfter(f, g, d) # e
      BY <2>1 DEF ActivateGrab
    <3>2. g.client = grab[e].client
      BY <2>1, <2>3, <3>1, ActivatingThaws
    <3> QED BY <1>1, <3>2 DEF Allows
  <2> QED BY <2>2, <2>3
<1>2. ASSUME NEW f \in Devices, UngrabDevice(c, f) PROVE Allows(e)
  BY <1>2, DeactivatingThaws DEF UngrabDevice
<1>3. ASSUME NEW f \in Devices, AllowAsync(c, f) PROVE Allows(e)
  <2>1. ThisSynced(c, f) /\ f = d
    BY <1>3 DEF AllowAsync, SyncsOK
  <2>2. grab[e].client = c
    BY <2>1, <1>0 DEF ThisSynced
  <2> QED BY <1>3, <2>2 DEF Allows
<1>4. ASSUME NEW f \in Devices, AllowSync(c, f) PROVE Allows(e)
  <2>1. ThisSynced(c, f) /\ f = d
    BY <1>4 DEF AllowSync, SyncsOK
  <2>2. grab[e].client = c
    BY <2>1, <1>0 DEF ThisSynced
  <2> QED BY <1>4, <2>2 DEF Allows
<1>5. ASSUME NEW f \in Devices, AllowReplay(c, f) PROVE Allows(e)
  <2>1. e # f
    BY <1>5 DEF AllowReplay, SyncsOK
  <2>2. f = d /\ ThisSynced(c, f)
    BY <1>5, <2>1 DEF AllowReplay
  <2>3. grab[e].client = c
    BY <2>2, <1>0 DEF ThisSynced
  <2> QED BY <1>5, <2>3 DEF Allows
<1>6. ASSUME NEW new \in {"THAWED", "FREEZE_BOTH_NEXT_EVENT"}, AllowBoth(c, new) PROVE Allows(e)
  <2>1. grab[e].client = c
    BY <1>6, SyncGrabsAssumption DEF AllowBoth, OwnerOf
  <2> QED BY <1>6, <2>1 DEF Allows, States
<1>7. CASE CloseDownClient(c) \/ \E p \in passive : UngrabPassive(p)
  BY <1>7 DEF CloseDownClient, UngrabPassive, syncs
<1> QED BY <1>1, <1>2, <1>3, <1>4, <1>5, <1>6, <1>7 DEF Request

\* A device frozen by the grab of another is freed only when that grab is over, or
\* by its owner: by AllowEvents, or by a grab of its own that leaves the device
\* free.  (CheckGrabForSyncs, AllowSome, DeliverGrabbedEvent.)
THEOREM OnlyOwnersThaw == Spec => OnlyTheOwnerThaws
<1> DEFINE Freed(d, e) == other[d] = e /\ other'[d] # e /\ grab'[e] # NoGrab
<1>1. ASSUME IInv, Next PROVE \A d, e \in Devices : Freed(d, e) => Allows(e)
  <2>1. ASSUME ServerStep PROVE \A d, e \in Devices : Freed(d, e) => Allows(e)
    BY <1>1, <2>1, ServerThaws
  <2>2. ASSUME NEW c \in Clients, Request(c) PROVE \A d, e \in Devices : Freed(d, e) => Allows(e)
    BY <1>1, <2>2, RequestThaws
  <2>3. ASSUME UNCHANGED syncs PROVE \A d, e \in Devices : Freed(d, e) => Allows(e)
    BY <2>3 DEF syncs
  <2> QED BY <1>1, <2>1, <2>2, <2>3 DEF Next, DeviceInput, UnmapWindow, MapWindow, DestroyWindow
<1>2. IInv /\ [Next]_vars => [\A d, e \in Devices : Freed(d, e) => Allows(e)]_vars
  BY <1>1
<1>3. IInv /\ [Next]_vars =>
        [\A d, e \in Devices :
           other[d] = e /\ other'[d] # e /\ grab'[e] # NoGrab =>
             \/ \E f \in Devices : AllowAsync(grab[e].client, f) \/ AllowSync(grab[e].client, f)
                                   \/ AllowReplay(grab[e].client, f)
             \/ \E new \in States : AllowBoth(grab[e].client, new)
             \/ \E f \in Devices, g \in RequestedGrabs :
                  GrabDevice(f, g) /\ g.client = grab[e].client
             \/ \E f \in Devices : grab[f] = NoGrab /\ grab'[f].client = grab[e].client]_vars
  BY <1>2 DEF Allows
<1> QED BY <1>3, Inductive, PTL DEF Spec, OnlyTheOwnerThaws

-----------------------------------------------------------------------------
(* What AllowEvents replays.                                               *)

\* The event is the last that its device processed; if it is a press, its key or
\* button is still down.
Current(ev) == (~ev.again => ev.n = done[ev.dev]) /\ (ev.type = Press => down[ev.dev])

\* The saves on the stack that would save an event that is no longer current, and
\* those whose device waits for its next event.
Freezable == {"FREEZE_NEXT_EVENT", "FREEZE_BOTH_NEXT_EVENT"}
Stale == {x \in Calls : x.op = "save" /\ state[x.dev] = "FROZEN_NO_EVENT" /\ ~Current(x.ev)}
Early == {x \in Calls : x.op = "save" /\ state[x.dev] \in Freezable}

\* Another save of the same device comes first.
Answered(s, B) ==
  \A i \in 1 .. Len(s) : s[i] \in B => \E j \in 1 .. i - 1 : s[j].op = "save" /\ s[j].dev = s[i].dev
NoneOf(s, B) == \A i \in 1 .. Len(s) : s[i] \notin B
NoSaves(s) == \A i \in 1 .. Len(s) : s[i].op # "save"

SavesOK == Answered(todo, Stale) /\ NoneOf(todo, Early)
SavedIsLast == \A d \in Devices : state[d] = "FROZEN_WITH_EVENT" => Current(saved[d])
ReplayIsLast == todo # <<>> /\ Head(todo).op = "replay" => Current(saved[Head(todo).dev])
LastOK == SavedIsLast /\ PassiveGrabHoldsThePress /\ ReplayIsLast /\ SavesOK

LEMMA ConcatItems ==
  ASSUME NEW s \in Seq(Calls), NEW t \in Seq(Calls), NEW i \in 1 .. Len(s \o t)
  PROVE  \/ i \in 1 .. Len(s) /\ (s \o t)[i] = s[i]
         \/ i - Len(s) \in 1 .. Len(t) /\ (s \o t)[i] = t[i - Len(s)]
  <1>1. Len(s) \in Nat /\ Len(t) \in Nat /\ Len(s \o t) = Len(s) + Len(t)
    BY ConcatProperties, LenProperties
  <1>2. CASE i <= Len(s)
    BY <1>1, <1>2, ConcatProperties
  <1>3. CASE i > Len(s)
    BY <1>1, <1>3, ConcatProperties
  <1> QED BY <1>1, <1>2, <1>3

LEMMA NoneBelow ==
  ASSUME NEW s \in Seq(Calls), NEW t \in Seq(Calls), NEW B, NoneOf(s, B), NoneOf(t, B)
  PROVE  NoneOf(s \o t, B)
  BY ConcatItems DEF NoneOf

LEMMA NoneTail ==
  ASSUME NEW s \in Seq(Calls), s # <<>>, NEW B, NoneOf(s, B)
  PROVE  NoneOf(Tail(s), B) /\ Head(s) \notin B
  <1>1. Len(s) \in Nat /\ Len(s) >= 1 /\ Len(Tail(s)) = Len(s) - 1 /\ Head(s) = s[1]
    BY HeadTailProperties, LenProperties
  <1>2. ASSUME NEW i \in 1 .. Len(Tail(s)) PROVE Tail(s)[i] \notin B
    <2>1. Tail(s)[i] = s[i + 1] /\ i + 1 \in 1 .. Len(s)
      BY <1>1, HeadTailProperties
    <2> QED BY <2>1 DEF NoneOf
  <1> QED BY <1>1, <1>2 DEF NoneOf

LEMMA AnsweredBelow ==
  ASSUME NEW s \in Seq(Calls), NEW t \in Seq(Calls), NEW B, NoneOf(s, B), Answered(t, B)
  PROVE  Answered(s \o t, B)
  <1>0. Len(s) \in Nat /\ Len(t) \in Nat /\ Len(s \o t) = Len(s) + Len(t)
    BY ConcatProperties, LenProperties
  <1> SUFFICES ASSUME NEW i \in 1 .. Len(s \o t), (s \o t)[i] \in B
               PROVE  \E j \in 1 .. i - 1 : (s \o t)[j].op = "save" /\ (s \o t)[j].dev = (s \o t)[i].dev
    BY DEF Answered
  <1> DEFINE k == i - Len(s)
  <1>1. k \in 1 .. Len(t) /\ (s \o t)[i] = t[k]
    BY ConcatItems DEF NoneOf
  <1>2. PICK j \in 1 .. k - 1 : t[j].op = "save" /\ t[j].dev = t[k].dev
    BY <1>1 DEF Answered
  <1>3. Len(s) + j \in 1 .. i - 1 /\ (s \o t)[Len(s) + j] = t[j]
    BY <1>0, <1>1, <1>2, ConcatProperties
  <1> QED BY <1>1, <1>2, <1>3

LEMMA AnsweredTail ==
  ASSUME NEW s \in Seq(Calls), s # <<>>, NEW B, Answered(s, B),
         Head(s).op = "save" => \A x \in B : x.dev # Head(s).dev
  PROVE  Answered(Tail(s), B)
  <1>0. Len(s) \in Nat /\ Len(s) >= 1 /\ Len(Tail(s)) = Len(s) - 1 /\ Head(s) = s[1]
    BY HeadTailProperties, LenProperties
  <1>00. \A j \in 1 .. Len(Tail(s)) : Tail(s)[j] = s[j + 1]
    BY <1>0, HeadTailProperties
  <1> SUFFICES ASSUME NEW i \in 1 .. Len(Tail(s)), Tail(s)[i] \in B
               PROVE  \E j \in 1 .. i - 1 : Tail(s)[j].op = "save" /\ Tail(s)[j].dev = Tail(s)[i].dev
    BY DEF Answered
  <1>1. i + 1 \in 1 .. Len(s) /\ Tail(s)[i] = s[i + 1]
    BY <1>0, <1>00
  <1>2. PICK j \in 1 .. i : s[j].op = "save" /\ s[j].dev = s[i + 1].dev
    BY <1>1 DEF Answered
  <1>3. j # 1
    BY <1>0, <1>1, <1>2
  <1>4. j - 1 \in 1 .. i - 1 /\ Tail(s)[j - 1] = s[j]
    BY <1>0, <1>00, <1>2, <1>3
  <1> QED BY <1>1, <1>2, <1>4

LEMMA AnsweredFirst ==
  ASSUME NEW s \in Seq(Calls), s # <<>>, NEW B, Answered(s, B)
  PROVE  Head(s) \notin B
  <1>1. 1 \in 1 .. Len(s) /\ Head(s) = s[1]
    BY HeadTailProperties, LenProperties
  <1> QED BY <1>1 DEF Answered

LEMMA AnsweredBySave ==
  ASSUME NEW x \in Calls, x.op = "save", NEW t \in Seq(Calls), NEW B, x \notin B,
         Answered(t, {y \in B : y.dev # x.dev})
  PROVE  Answered(<<x>> \o t, B)
  <1> DEFINE s == <<x>>
  <1>0. s \in Seq(Calls) /\ Len(s) = 1 /\ s[1] = x
    OBVIOUS
  <1> HIDE DEF s
  <1>1. Len(t) \in Nat /\ Len(s \o t) = 1 + Len(t) /\ (s \o t)[1] = x
    <2>1. Len(t) \in Nat /\ Len(s \o t) = Len(s) + Len(t)
      BY <1>0, ConcatProperties, LenProperties
    <2>3. ASSUME NEW i \in 1 .. Len(s) PROVE (s \o t)[i] = s[i]
      BY <1>0, ConcatProperties, LenProperties
    <2>4. 1 \in 1 .. Len(s)
      BY <1>0
    <2>5. (s \o t)[1] = s[1]
      BY <2>3, <2>4
    <2> QED BY <1>0, <2>1, <2>5
  <1>2. Answered(s \o t, B)
    <2> SUFFICES ASSUME NEW i \in 1 .. Len(s \o t), (s \o t)[i] \in B
                 PROVE  \E j \in 1 .. i - 1 : (s \o t)[j].op = "save" /\ (s \o t)[j].dev = (s \o t)[i].dev
      BY DEF Answered
    <2>1. i - 1 \in 1 .. Len(t) /\ (s \o t)[i] = t[i - 1]
      <3>1. \/ i \in 1 .. Len(s) /\ (s \o t)[i] = s[i]
            \/ i - Len(s) \in 1 .. Len(t) /\ (s \o t)[i] = t[i - Len(s)]
        BY <1>0, ConcatItems
      <3>2. (s \o t)[i] # x
        OBVIOUS
      <3> QED BY <1>0, <3>1, <3>2
    <2>2. CASE t[i - 1].dev = x.dev
      BY <1>1, <2>1, <2>2
    <2>3. CASE t[i - 1].dev # x.dev
      <3>1. PICK j \in 1 .. i - 2 : t[j].op = "save" /\ t[j].dev = t[i - 1].dev
        BY <2>1, <2>3 DEF Answered
      <3>2. j + 1 \in 1 .. i - 1 /\ (s \o t)[j + 1] = t[j]
        BY <1>0, <1>1, <2>1, <3>1, ConcatProperties
      <3> QED BY <2>1, <3>1, <3>2
    <2> QED BY <2>2, <2>3
  <1> QED BY <1>2 DEF s

-----------------------------------------------------------------------------

\* A device that is frozen processes no event.
Undisturbed == \A d \in Devices : frozen[d] => done'[d] = done[d] /\ down'[d] = down[d]

\* A device gets no new reason to save, unless it waited for its next event.
LEMMA StaleSteps ==
  ASSUME SyncsOK, Undisturbed,
         \A d \in Devices : /\ state'[d] = "FROZEN_NO_EVENT" => state[d] \in Freezable \cup {"FROZEN_NO_EVENT"}
                            /\ state'[d] \in Freezable => state[d] \in Freezable
  PROVE  Stale' \subseteq Stale \cup Early /\ Early' \subseteq Early
  <1>1. ASSUME NEW x \in Stale' PROVE x \in Stale \cup Early
    <2>1. x \in Calls /\ x.op = "save" /\ x.dev \in Devices /\ x.ev.dev = x.dev
          /\ state'[x.dev] = "FROZEN_NO_EVENT" /\ ~Current(x.ev)'
      BY <1>1 DEF Stale, Calls
    <2>2. CASE state[x.dev] \in Freezable
      BY <2>1, <2>2 DEF Early
    <2>3. CASE state[x.dev] = "FROZEN_NO_EVENT"
      <3>1. frozen[x.dev]
        BY <2>1, <2>3 DEF SyncsOK, FrozenForAReason, Frozen
      <3>2. ~Current(x.ev)
        BY <2>1, <3>1 DEF Undisturbed, Current
      <3> QED BY <2>1, <2>3, <3>2 DEF Stale
    <2> QED BY <2>1, <2>2, <2>3
  <1>2. ASSUME NEW x \in Early' PROVE x \in Early
    <2>1. x \in Calls /\ x.op = "save" /\ x.dev \in Devices /\ state'[x.dev] \in Freezable
      BY <1>2 DEF Early, Calls
    <2> QED BY <2>1 DEF Early
  <1> QED BY <1>1, <1>2

LEMMA SavedStays ==
  ASSUME SyncsOK, SavedOK, SavedIsLast, Undisturbed, saved' = saved,
         \A d \in Devices : state'[d] = "FROZEN_WITH_EVENT" => state[d] = "FROZEN_WITH_EVENT"
  PROVE  SavedIsLast'
  <1>1. ASSUME NEW d \in Devices, state[d] = "FROZEN_WITH_EVENT" PROVE Current(saved[d])'
    <2>1. frozen[d] /\ saved[d].dev = d
      BY <1>1 DEF SyncsOK, FrozenForAReason, Frozen, SavedOK
    <2>2. Current(saved[d])
      BY <1>1 DEF SavedIsLast
    <2> QED BY <2>1, <2>2 DEF Undisturbed, Current
  <1> QED BY <1>1 DEF SavedIsLast

LEMMA NoReplayFirst ==
  ASSUME todo' \in Seq(OtherCalls)
  PROVE  ReplayIsLast'
  BY NoReplayIsOK DEF ReplayIsLast

\* Calls that save nothing are put on top of those below, or of all.
LEMMA StackAfter ==
  ASSUME StackOK, todo # <<>>, SavesOK, NEW s \in Seq(OtherCalls), NoSaves(s),
         Top.op # "save",
         todo' \in {Rest, s \o Rest} \/ (Top.op # "replay" /\ todo' \in {todo, s \o todo}),
         Stale' \subseteq Stale \cup Early, Early' \subseteq Early
  PROVE  SavesOK' /\ ReplayIsLast'
  <1>1. Rest \in Seq(OtherCalls) /\ Rest \in Seq(Calls) /\ todo \in Seq(Calls) /\ s \in Seq(Calls)
        /\ (Top.op # "replay" => todo \in Seq(OtherCalls))
    BY StackTop, NoReplayIsOK DEF StackOK
  <1>2. NoneOf(todo, Early) /\ NoneOf(Rest, Early)
    BY <1>1, NoneTail DEF SavesOK, Rest
  <1>3. Answered(todo, Stale) /\ Answered(Rest, Stale)
    BY <1>1, AnsweredTail DEF SavesOK, Rest, Top
  <1>4. NoneOf(todo, Early') /\ NoneOf(Rest, Early')
    BY <1>2 DEF NoneOf
  <1>5. Answered(todo, Stale') /\ Answered(Rest, Stale')
    BY <1>2, <1>3 DEF NoneOf, Answered
  <1>6. NoneOf(s, Early') /\ NoneOf(s, Stale')
    BY DEF NoneOf, NoSaves, Early, Stale
  <1>7. NoneOf(todo', Early') /\ Answered(todo', Stale')
    BY <1>1, <1>4, <1>5, <1>6, NoneBelow, AnsweredBelow
  <1>8. SavesOK'
    BY <1>7 DEF SavesOK, NoneOf, Answered
  <1>9. todo' \in Seq(OtherCalls)
    BY <1>1, Concatenation
  <1> QED BY <1>8, <1>9, NoReplayFirst

-----------------------------------------------------------------------------
(* The key that activates a grab is noted while it is down.  A grab that a *)
(* replay activates has a save of its own, but notes no key.               *)

\* The saves that will note a key, and the calls that process one.
KeySaves  == {x \in Calls : x.op = "save" /\ x.dev = "keybd" /\ x.arg = 0}
KeyInputs == {x \in Calls : x.op = "input" /\ x.dev = "keybd"}

\* No key is processed before a save that will note one, nor waits in the queue for
\* the replay that is under way above it.
Sheltered(s) == \A i, j \in 1 .. Len(s) : j < i /\ s[i] \in KeySaves => s[j] \notin KeyInputs
NoKeyWaits == \A i \in 1 .. Len(pending) : pending[i].dev # "keybd"
KeySavesOK ==
  /\ ~NoneOf(todo, KeySaves) => down["keybd"]
  /\ todo # <<>> /\ ~NoneOf(Rest, KeySaves) => NoKeyWaits
  /\ Sheltered(todo)

LEMMA ShelteredBelow ==
  ASSUME NEW s \in Seq(Calls), NEW t \in Seq(Calls), NoneOf(s, KeyInputs), Sheltered(t)
  PROVE  Sheltered(s \o t)
  <1>0. Len(s) \in Nat /\ Len(t) \in Nat /\ Len(s \o t) = Len(s) + Len(t)
    BY ConcatProperties, LenProperties
  <1> SUFFICES ASSUME NEW i \in 1 .. Len(s \o t), NEW j \in 1 .. Len(s \o t),
                      j < i, (s \o t)[i] \in KeySaves
               PROVE  (s \o t)[j] \notin KeyInputs
    BY DEF Sheltered
  <1>1. CASE j \in 1 .. Len(s) /\ (s \o t)[j] = s[j]
    BY <1>1 DEF NoneOf
  <1>2. CASE j - Len(s) \in 1 .. Len(t) /\ (s \o t)[j] = t[j - Len(s)]
    <2>1. i - Len(s) \in 1 .. Len(t) /\ (s \o t)[i] = t[i - Len(s)]
      <3>1. i \notin 1 .. Len(s)
        BY <1>0, <1>2
      <3> QED BY <3>1, ConcatItems
    <2> QED BY <1>0, <1>2, <2>1 DEF Sheltered
  <1> QED BY <1>1, <1>2, ConcatItems

LEMMA ShelteredTail ==
  ASSUME NEW s \in Seq(Calls), s # <<>>, Sheltered(s)
  PROVE  Sheltered(Tail(s)) /\ (Head(s) \in KeyInputs => NoneOf(Tail(s), KeySaves))
  <1>1. Len(s) \in Nat /\ Len(s) >= 1 /\ Len(Tail(s)) = Len(s) - 1 /\ Head(s) = s[1]
    BY HeadTailProperties, LenProperties
  <1>2. \A i \in 1 .. Len(Tail(s)) : Tail(s)[i] = s[i + 1] /\ i + 1 \in 1 .. Len(s)
    BY <1>1, HeadTailProperties
  <1>3. Sheltered(Tail(s))
    <2> SUFFICES ASSUME NEW i \in 1 .. Len(Tail(s)), NEW j \in 1 .. Len(Tail(s)),
                        j < i, Tail(s)[i] \in KeySaves
                 PROVE  Tail(s)[j] \notin KeyInputs
      BY DEF Sheltered
    <2>1. j + 1 < i + 1
      BY <1>1
    <2> QED BY <1>2, <2>1 DEF Sheltered
  <1>4. ASSUME Head(s) \in KeyInputs, NEW i \in 1 .. Len(Tail(s)) PROVE Tail(s)[i] \notin KeySaves
    <2>1. 1 \in 1 .. Len(s) /\ 1 < i + 1 /\ i + 1 \in 1 .. Len(s)
      BY <1>1, <1>2
    <2> QED BY <1>1, <1>2, <1>4, <2>1 DEF Sheltered
  <1> QED BY <1>3, <1>4 DEF NoneOf

\* No save on the stack will note a key.
LEMMA NoKeySaves ==
  ASSUME todo' \in Seq(Calls), NoneOf(todo', KeySaves)
  PROVE  KeySavesOK'
  <1>1. Sheltered(todo')
    BY DEF NoneOf, Sheltered
  <1>2. todo' # <<>> => NoneOf(Tail(todo'), KeySaves)
    BY NoneTail
  <1> QED BY <1>1, <1>2 DEF KeySavesOK, Rest, NoneOf, Sheltered

LEMMA NoSavesNoKeys ==
  ASSUME NEW s \in Seq(Calls), NoSaves(s)
  PROVE  NoneOf(s, KeySaves)
  BY DEF NoSaves, NoneOf, KeySaves

\* Calls that note and process no key are put on top of those below, or of all; a
\* save below them has the key still down, and no key waiting.
LEMMA KeysAfter ==
  ASSUME KeySavesOK, todo # <<>>, todo \in Seq(Calls), NEW s \in Seq(Calls),
         NoneOf(s, KeySaves), NoneOf(s, KeyInputs),
         todo' \in {Rest, s \o Rest} \/ (Top.op # "save" /\ todo' \in {todo, s \o todo}),
         ~NoneOf(Rest, KeySaves) => down'["keybd"] /\ NoKeyWaits'
  PROVE  KeySavesOK'
  <1>1. Rest \in Seq(Calls) /\ Top \in Calls /\ todo = <<Top>> \o Rest /\ <<Top>> \in Seq(Calls)
    BY HeadTailProperties DEF Rest, Top
  <1>2. todo' \in Seq(Calls)
    BY <1>1, Concatenation
  <1>3. CASE NoneOf(Rest, KeySaves)
    <2>1. Top.op # "save" => NoneOf(<<Top>>, KeySaves)
      BY <1>1 DEF NoneOf, KeySaves
    <2>2. Top.op # "save" => NoneOf(todo, KeySaves)
      BY <1>1, <1>3, <2>1, NoneBelow
    <2>3. NoneOf(todo', KeySaves)
      BY <1>1, <1>3, <2>2, NoneBelow
    <2> QED BY <1>2, <2>3, NoKeySaves
  <1>4. CASE ~NoneOf(Rest, KeySaves)
    <2>1. Sheltered(todo) /\ Sheltered(Rest)
      BY ShelteredTail DEF KeySavesOK, Rest
    <2>2. Sheltered(todo')
      BY <1>1, <2>1, ShelteredBelow
    <2> QED BY <1>4, <2>2 DEF KeySavesOK, NoKeyWaits, Sheltered
  <1> QED BY <1>3, <1>4

\* The same with two sequences of calls on top of those below.
LEMMA KeysAfterTwo ==
  ASSUME KeySavesOK, todo # <<>>, todo \in Seq(Calls), NEW s \in Seq(Calls), NEW q \in Seq(Calls),
         NoneOf(s, KeySaves), NoneOf(s, KeyInputs), NoneOf(q, KeySaves), NoneOf(q, KeyInputs),
         todo' \in {s \o Rest, q \o (s \o Rest)},
         ~NoneOf(Rest, KeySaves) => down'["keybd"] /\ NoKeyWaits'
  PROVE  KeySavesOK'
  <1>1. Rest \in Seq(Calls)
    BY HeadTailProperties DEF Rest
  <1> DEFINE t == s \o Rest
  <1>2. t \in Seq(Calls) /\ todo' \in {t, q \o t}
    BY <1>1, Concatenation
  <1>3. NoneOf(Rest, KeySaves) => NoneOf(t, KeySaves)
    BY <1>1, NoneBelow
  <1>4. Sheltered(t)
    <2>1. Sheltered(Rest)
      BY ShelteredTail DEF KeySavesOK, Rest
    <2> QED BY <1>1, <2>1, ShelteredBelow
  <1> HIDE DEF t
  <1>5. CASE NoneOf(Rest, KeySaves)
    <2>1. NoneOf(todo', KeySaves) /\ todo' \in Seq(Calls)
      BY <1>2, <1>3, <1>5, NoneBelow, Concatenation
    <2> QED BY <2>1, NoKeySaves
  <1>6. CASE ~NoneOf(Rest, KeySaves)
    <2>1. Sheltered(todo')
      BY <1>2, <1>4, ShelteredBelow
    <2> QED BY <1>6, <2>1 DEF KeySavesOK, NoKeyWaits, Sheltered
  <1> QED BY <1>5, <1>6

\* The press of a key activates a grab, and the save will note the key.
LEMMA KeyNoted ==
  ASSUME IInv, PlayOK, KeySavesOK, todo # <<>>, Top \in KeyInputs, ~frozen["keybd"], NEW x \in Calls,
         x.op = "save", ComputeFreezes(<<>>, <<x>> \o Rest), down'["keybd"], pending' = pending
  PROVE  KeySavesOK'
  <1>1. Rest \in Seq(Calls) /\ NoneOf(Rest, KeySaves) /\ Sheltered(Rest)
    BY StackTop, NoReplayIsOK, ShelteredTail DEF IInv, StackOK, KeySavesOK, Rest, Top
  <1> DEFINE t == <<x>> \o Rest
             q == <<>> \o <<PlayReleased>>
  <1>2. <<x>> \in Seq(Calls) /\ NoneOf(<<x>>, KeyInputs)
    BY DEF NoneOf, KeyInputs
  <1>3. t \in Seq(Calls) /\ Sheltered(t) /\ t # <<>> /\ Tail(t) = Rest
    <2>1. t \in Seq(Calls) /\ Sheltered(t)
      BY <1>1, <1>2, ShelteredBelow, Concatenation
    <2> QED BY <1>1, <2>1
  <1>4. q \in Seq(Calls) /\ NoneOf(q, KeyInputs)
    <2>1. PlayReleased \in Calls /\ PlayReleased.op = "play"
      BY SimpleCallIsOK DEF OtherCalls, PlayReleased, Item
    <2> DEFINE p == PlayReleased
    <2> HIDE DEF p
    <2>2. p \in Calls /\ p.op = "play"
      BY <2>1 DEF p
    <2>3. <<>> \o <<p>> \in Seq(Calls) /\ NoneOf(<<>> \o <<p>>, KeyInputs)
      BY <2>2 DEF NoneOf, KeyInputs
    <2> QED BY <2>3 DEF p
  <1> HIDE DEF t, q
  <1>5. CASE playing
    <2>1. todo' = t
      BY <1>5 DEF ComputeFreezes, t
    <2> QED BY <1>1, <1>3, <2>1 DEF KeySavesOK, Rest, Sheltered
  <1>6. CASE ~playing
    <2>1. NoKeyWaits
      BY <1>6 DEF PlayOK, AllWait, NoKeyWaits
    <2>2. todo' \in {t, q \o t}
      BY DEF ComputeFreezes, t, q
    <2>3. Sheltered(todo')
      BY <1>3, <1>4, <2>2, ShelteredBelow
    <2> QED BY <2>1, <2>3 DEF KeySavesOK, NoKeyWaits, Sheltered
  <1> QED BY <1>5, <1>6

LEMMA UnlinkedItems ==
  ASSUME pending \in Seq(Events), NEW i \in 1 .. Len(pending)
  PROVE  /\ Len(Unlinked(i)) = Len(pending) - 1
         /\ \A j \in 1 .. Len(pending) - 1 : Unlinked(i)[j] = pending[IF j < i THEN j ELSE j + 1]
  <1> DEFINE before == SubSeq(pending, 1, i - 1)
             after == SubSeq(pending, i + 1, Len(pending))
  <1>1. Len(pending) \in Nat /\ \A j \in 1 .. Len(pending) : pending[j] \in Events
    BY ElementOfSeq, LenProperties
  <1>2. /\ before \in Seq(Events) /\ Len(before) = i - 1
        /\ \A j \in 1 .. i - 1 : before[j] = pending[j]
    BY <1>1
  <1>3. /\ after \in Seq(Events) /\ Len(after) = Len(pending) - i
        /\ \A j \in 1 .. Len(pending) - i : after[j] = pending[j + i]
    BY <1>1
  <1> HIDE DEF before, after
  <1>4. /\ Len(before \o after) = Len(before) + Len(after)
        /\ \A j \in 1 .. Len(before) + Len(after) :
             (before \o after)[j] = IF j <= Len(before) THEN before[j] ELSE after[j - Len(before)]
    BY <1>2, <1>3, ConcatProperties
  <1>5. Len(before) + Len(after) = Len(pending) - 1
    BY <1>1, <1>2, <1>3
  <1>6. ASSUME NEW j \in 1 .. Len(pending) - 1
        PROVE  (before \o after)[j] = pending[IF j < i THEN j ELSE j + 1]
    <2>1. CASE j < i
      BY <1>1, <1>2, <1>4, <1>5, <2>1
    <2>2. CASE ~(j < i)
      <3>1. j - (i - 1) \in 1 .. Len(pending) - i /\ (j - (i - 1)) + i = j + 1
        BY <1>1, <2>2
      <3>2. (before \o after)[j] = after[j - (i - 1)]
        BY <1>1, <1>2, <1>4, <1>5, <2>2
      <3> QED BY <1>3, <2>2, <3>1, <3>2
    <2> QED BY <2>1, <2>2
  <1> QED BY <1>4, <1>5, <1>6 DEF Unlinked, before, after

-----------------------------------------------------------------------------
(* Steps that keep it.                                                     *)

\* The steps that change no device.
LEMMA QuietLast ==
  ASSUME IInv, LastOK, todo # <<>>, NEW s \in Seq(OtherCalls), NoSaves(s), Top.op # "save",
         todo' \in {Rest, s \o Rest} \/ (Top.op # "replay" /\ todo' \in {todo, s \o todo}),
         UNCHANGED <<state, fromPassiveGrab, saved, activatingKey, down>>, Undisturbed
  PROVE  LastOK'
  <1>1. Stale' \subseteq Stale \cup Early /\ Early' \subseteq Early
    BY StaleSteps DEF IInv
  <1>2. SavesOK' /\ ReplayIsLast'
    BY <1>1, StackAfter DEF IInv, LastOK
  <1>3. SavedIsLast'
    BY SavedStays DEF IInv, EventsOK, LastOK
  <1>4. PassiveGrabHoldsThePress'
    BY DEF LastOK, PassiveGrabHoldsThePress
  <1> QED BY <1>2, <1>3, <1>4 DEF LastOK

LEMMA PlayCall ==
  /\ <<PlayReleased>> \in Seq(OtherCalls) /\ <<>> \o <<PlayReleased>> \in Seq(OtherCalls)
  /\ NoSaves(<<PlayReleased>>) /\ NoSaves(<<>> \o <<PlayReleased>>)
  <1> DEFINE p == PlayReleased
  <1>1. p \in OtherCalls /\ p.op = "play"
    BY SimpleCallIsOK DEF PlayReleased, Item
  <1> HIDE DEF p
  <1>2. <<p>> \in Seq(OtherCalls) /\ <<>> \o <<p>> = <<p>> /\ NoSaves(<<p>>)
    BY <1>1 DEF NoSaves
  <1> QED BY <1>2 DEF p

\* A device gives its grab up, and what was queued may be played.  It may have
\* processed the release of its key or button.
LEMMA DeactivatingLast ==
  ASSUME IInv, LastOK, todo # <<>>, Top.op \notin {"save", "replay"}, NEW d \in Devices,
         NEW rest, rest \in {todo, Rest}, DeactivateGrab(d, <<>>, rest), UNCHANGED <<saved, activatingKey>>,
         Undisturbed,
         \A e \in Devices : e # d => down'[e] = down[e]
  PROVE  LastOK'
  <1>1. /\ state' = [state EXCEPT ![d] = "NOT_GRABBED"]
        /\ fromPassiveGrab' = [fromPassiveGrab EXCEPT ![d] = FALSE]
        /\ todo' \in {rest, <<>> \o <<PlayReleased>> \o rest}
    BY DEF DeactivateGrab, ComputeFreezes
  <1>2. Stale' \subseteq Stale \cup Early /\ Early' \subseteq Early
    <2>1. \A e \in Devices :
            /\ state'[e] = "FROZEN_NO_EVENT" => state[e] \in Freezable \cup {"FROZEN_NO_EVENT"}
            /\ state'[e] \in Freezable => state[e] \in Freezable
      BY <1>1 DEF IInv, SyncsOK, Freezable
    <2> QED BY <2>1, StaleSteps DEF IInv
  <1>3. SavesOK' /\ ReplayIsLast'
    <2> DEFINE p == <<>> \o <<PlayReleased>>
    <2>1. p \in Seq(OtherCalls) /\ NoSaves(p) /\ todo' \in {rest, p \o rest}
      BY <1>1, PlayCall
    <2> HIDE DEF p
    <2> QED BY <1>2, <2>1, StackAfter DEF IInv, LastOK
  <1>4. SavedIsLast'
    BY <1>1, SavedStays DEF IInv, EventsOK, LastOK, SyncsOK
  <1>5. PassiveGrabHoldsThePress'
    BY <1>1 DEF LastOK, PassiveGrabHoldsThePress, IInv, SyncsOK
  <1> QED BY <1>3, <1>4, <1>5 DEF LastOK

\* An event that is current reaches the client of a grab, or of none.
LEMMA DeliveringLast ==
  ASSUME IInv, LastOK, todo # <<>>, Top.op \notin {"save", "replay"}, NEW ev \in Events, Deliver(ev),
         Current(ev)', Undisturbed, ~frozen[ev.dev],
         \A e \in Devices : fromPassiveGrab[e] => down'[e] \/ (e = "keybd" /\ ~activatingKey')
  PROVE  LastOK'
  <1> DEFINE d == ev.dev
             both == state[d] = "FREEZE_BOTH_NEXT_EVENT"
  <1>1. d \in Devices
    BY DEF Events
  <1>2. CASE UNCHANGED <<state, saved>>
    <2>1. todo' = Rest /\ fromPassiveGrab' = fromPassiveGrab
      BY DEF Deliver, DeliverGrabbedEvent, DeliverUngrabbed, syncs
    <2>2. Stale' \subseteq Stale \cup Early /\ Early' \subseteq Early
      BY <1>2, StaleSteps DEF IInv
    <2>3. SavesOK' /\ ReplayIsLast'
      <3>1. <<>> \in Seq(OtherCalls) /\ NoSaves(<<>>)
        BY DEF NoSaves
      <3> QED BY <2>1, <2>2, <3>1, StackAfter DEF IInv, LastOK
    <2>4. SavedIsLast'
      BY <1>2, SavedStays DEF IInv, EventsOK, LastOK
    <2>5. PassiveGrabHoldsThePress'
      BY <2>1 DEF PassiveGrabHoldsThePress
    <2> QED BY <2>3, <2>4, <2>5 DEF LastOK
  <1>3. CASE ~(UNCHANGED <<state, saved>>)
    <2>0. DeliverGrabbedEvent(ev)
      BY <1>3 DEF Deliver, DeliverUngrabbed, syncs
    <2>1. /\ todo' = Rest /\ fromPassiveGrab' = fromPassiveGrab
          /\ state'[d] = "FROZEN_WITH_EVENT"
          /\ saved' = [saved EXCEPT ![d] = ev]
          /\ \A e \in Devices : e # d =>
               \/ state'[e] = state[e]
               \/ state'[e] = "FROZEN_NO_EVENT" /\ state[e] = "FREEZE_BOTH_NEXT_EVENT"
      BY <1>1, <1>3, <2>0 DEF DeliverGrabbedEvent
    <2>2. Stale' \subseteq Stale \cup Early /\ Early' \subseteq Early
      <3>1. \A e \in Devices :
              /\ state'[e] = "FROZEN_NO_EVENT" => state[e] \in Freezable \cup {"FROZEN_NO_EVENT"}
              /\ state'[e] \in Freezable => state[e] \in Freezable
        BY <1>1, <2>1 DEF Freezable
      <3> QED BY <3>1, StaleSteps DEF IInv
    <2>3. SavesOK' /\ ReplayIsLast'
      <3>1. <<>> \in Seq(OtherCalls) /\ NoSaves(<<>>)
        BY DEF NoSaves
      <3> QED BY <2>1, <2>2, <3>1, StackAfter DEF IInv, LastOK
    <2>4. SavedIsLast'
      <3> SUFFICES ASSUME NEW e \in Devices, state'[e] = "FROZEN_WITH_EVENT"
                   PROVE  Current(saved[e])'
        BY DEF SavedIsLast
      <3>1. CASE e = d
        BY <1>1, <2>1, <3>1 DEF IInv, EventsOK, SavedOK, Current
      <3>2. CASE e # d
        <4>1. saved'[e] = saved[e] /\ state[e] = "FROZEN_WITH_EVENT"
          BY <1>1, <2>1, <3>2 DEF IInv, EventsOK, SavedOK
        <4>2. frozen[e] /\ saved[e].dev = e /\ Current(saved[e])
          BY <4>1 DEF IInv, SyncsOK, FrozenForAReason, Frozen, EventsOK, SavedOK, LastOK, SavedIsLast
        <4> QED BY <4>1, <4>2 DEF Undisturbed, Current
      <3> QED BY <3>1, <3>2
    <2>5. PassiveGrabHoldsThePress'
      BY <2>1 DEF PassiveGrabHoldsThePress
    <2> QED BY <2>3, <2>4, <2>5 DEF LastOK
  <1> QED BY <1>2, <1>3

\* A passive grab is activated by a press that is current, and will save it.
LEMMA ActivatingLast ==
  ASSUME IInv, LastOK, todo # <<>>, Top.op # "save", NEW ev \in Events, NEW above \in Arguments, NEW path,
         ActivatePassiveGrab(ev, above, path), UNCHANGED <<saved, activatingKey>>,
         Current(ev)', ev.type = Press, Undisturbed, \A e \in Devices : down[e] => down'[e]
  PROVE  LastOK'
  <1> DEFINE d == ev.dev
             x == Save(ev, above)
  <1>1. PICK p \in Matching(ev.dev, above, path) :
               ActivateGrab(ev.dev, p.grab, TRUE, <<Save(ev, above)>> \o Rest)
    BY DEF ActivatePassiveGrab
  <1>2. /\ state'[d] \in {"FROZEN_NO_EVENT", "THAWED"}
        /\ \A e \in Devices : e # d => state'[e] = state[e] /\ fromPassiveGrab'[e] = fromPassiveGrab[e]
        /\ todo' \in {<<x>> \o Rest, <<>> \o <<PlayReleased>> \o (<<x>> \o Rest)}
        /\ d \in Devices
    BY <1>1 DEF ActivateGrab, ComputeFreezes, IInv, SyncsOK, Events
  <1>3. x \in OtherCalls /\ x \in Calls /\ x.op = "save" /\ x.dev = d /\ x.ev = ev
    BY SimpleCallIsOK DEF Save, Item, OtherCalls
  <1>4. Rest \in Seq(OtherCalls) /\ Rest \in Seq(Calls) /\ todo \in Seq(Calls)
    BY StackTop, NoReplayIsOK DEF IInv, StackOK
  <1>5. NoneOf(Rest, Early) /\ Answered(Rest, Stale)
    BY <1>4, NoneTail, AnsweredTail DEF LastOK, SavesOK, Rest, Top
  <1>6. ASSUME NEW y \in Stale', y.dev # d PROVE y \in Stale
    <2>1. y \in Calls /\ y.op = "save" /\ y.dev \in Devices /\ y.ev.dev = y.dev
          /\ state'[y.dev] = "FROZEN_NO_EVENT" /\ ~Current(y.ev)'
      BY <1>6 DEF Stale, Calls
    <2>2. state[y.dev] = "FROZEN_NO_EVENT" /\ frozen[y.dev]
      BY <1>2, <1>6, <2>1 DEF IInv, SyncsOK, FrozenForAReason, Frozen
    <2>3. ~Current(y.ev)
      BY <2>1, <2>2 DEF Undisturbed, Current
    <2> QED BY <2>1, <2>2, <2>3 DEF Stale
  <1>7. Early' \subseteq Early
    <2> SUFFICES ASSUME NEW y \in Early' PROVE y \in Early
      OBVIOUS
    <2>1. y \in Calls /\ y.op = "save" /\ y.dev \in Devices /\ state'[y.dev] \in Freezable
      BY DEF Early, Calls
    <2> QED BY <1>2, <2>1 DEF Early, Freezable
  <1>8. x \notin Stale'
    BY <1>3 DEF Stale
  <1>9. x \notin Early'
    BY <1>2, <1>3 DEF Early, Freezable
  <1> HIDE DEF x
  <1> DEFINE t == <<x>> \o Rest
             q == <<>> \o <<PlayReleased>>
  <1>10. t \in Seq(OtherCalls) /\ t \in Seq(Calls) /\ NoneOf(t, Early') /\ Answered(t, Stale')
    <2>1. t \in Seq(OtherCalls) /\ t \in Seq(Calls)
      BY <1>3, <1>4, Pushing, NoReplayIsOK
    <2>2. Answered(Rest, {y \in Stale' : y.dev # x.dev})
      BY <1>3, <1>5, <1>6 DEF Answered
    <2>3. Answered(t, Stale')
      BY <1>3, <1>4, <1>8, <2>2, AnsweredBySave
    <2>4. NoneOf(Rest, Early') /\ NoneOf(<<x>>, Early') /\ <<x>> \in Seq(Calls)
      BY <1>3, <1>5, <1>7, <1>9 DEF NoneOf
    <2>5. NoneOf(t, Early')
      BY <1>4, <2>4, NoneBelow
    <2> QED BY <2>1, <2>3, <2>5
  <1>11. q \in Seq(OtherCalls) /\ q \in Seq(Calls) /\ NoneOf(q, Early') /\ NoneOf(q, Stale')
    <2>1. q \in Seq(OtherCalls) /\ NoSaves(q)
      BY PlayCall
    <2> HIDE DEF q
    <2> QED BY <2>1, NoReplayIsOK DEF NoneOf, NoSaves, Early, Stale
  <1>12. todo' \in {t, q \o t}
    BY <1>2
  <1> HIDE DEF t, q
  <1>13. NoneOf(todo', Early') /\ Answered(todo', Stale') /\ todo' \in Seq(OtherCalls)
    BY <1>10, <1>11, <1>12, NoneBelow, AnsweredBelow, Concatenation
  <1>14. SavesOK' /\ ReplayIsLast'
    <2>1. SavesOK'
      BY <1>13 DEF SavesOK, NoneOf, Answered
    <2> QED BY <1>13, <2>1, NoReplayFirst
  <1>15. SavedIsLast'
    BY <1>2, SavedStays DEF IInv, EventsOK, LastOK
  <1>16. PassiveGrabHoldsThePress'
    <2>1. down'[d]
      BY DEF Current
    <2> QED BY <1>2, <2>1 DEF PassiveGrabHoldsThePress, LastOK
  <1> QED BY <1>14, <1>15, <1>16 DEF LastOK

LEMMA ProcessingIsCurrent ==
  ASSUME EventsOK, NEW ev \in Events, ~frozen[ev.dev], Processed(ev),
         \/ ev.type = Press /\ down' = [down EXCEPT ![ev.dev] = TRUE]
         \/ ev.type = Release /\ down' = [down EXCEPT ![ev.dev] = FALSE]
  PROVE  Current(ev)' /\ Undisturbed /\ \A e \in Devices : e # ev.dev => down'[e] = down[e]
  <1>1. ev.dev \in Devices
    BY DEF Events
  <1>2. Press # Release
    BY DEF Press, Release
  <1>3. (~ev.again => ev.n = done'[ev.dev]) /\ \A e \in Devices : e # ev.dev => done'[e] = done[e]
    BY <1>1 DEF Processed, EventsOK
  <1>4. (ev.type = Press => down'[ev.dev]) /\ \A e \in Devices : e # ev.dev => down'[e] = down[e]
    BY <1>1, <1>2 DEF EventsOK
  <1> QED BY <1>3, <1>4 DEF Current, Undisturbed

\* Unmapping and freeing windows saves no event.
LEMMA UnmappingSavesNothing ==
  ASSUME WorldOK, NEW w \in Windows, w >= 2
  PROVE  /\ Unmapping(w) \in Seq(OtherCalls) /\ NoSaves(Unmapping(w))
         /\ Unmapping(w) \o Freeing(w) \in Seq(OtherCalls) /\ NoSaves(Unmapping(w) \o Freeing(w))
  <1>1. Unmapping(w) \in Seq(UnmapCalls) /\ Unmapping(w) \o Freeing(w) \in Seq(UnmapCalls)
    BY UnmappingItems, Concatenation
  <1>2. UnmapCalls \subseteq OtherCalls /\ \A x \in UnmapCalls : x.op # "save"
    BY DEF UnmapCalls
  <1>3. ASSUME NEW s \in Seq(UnmapCalls) PROVE NoSaves(s)
    <2>1. \A i \in 1 .. Len(s) : s[i] \in UnmapCalls
      BY <1>3, ElementOfSeq
    <2>2. \A i \in 1 .. Len(s) : s[i].op # "save"
      BY <1>2, <2>1
    <2> QED BY <2>2 DEF NoSaves
  <1>4. NoSaves(Unmapping(w)) /\ NoSaves(Unmapping(w) \o Freeing(w))
    BY <1>1, <1>3
  <1>5. Unmapping(w) \in Seq(OtherCalls) /\ Unmapping(w) \o Freeing(w) \in Seq(OtherCalls)
    BY <1>1, <1>2
  <1> QED BY <1>4, <1>5

LEMMA ServerLast ==
  ASSUME IInv, LastOK, KeySavesOK, ServerStep
  PROVE  LastOK'
<1> USE DEF IInv
<1>0. /\ todo # <<>>
      /\ Top \in Calls /\ Top.ev \in Events /\ Top.dev \in Devices /\ Top.ev.dev \in Devices
      /\ (Top.op \in {"input", "save"} => Top.ev.dev = Top.dev)
      /\ \A i \in 1 .. Len(pending) : pending[i] \in Events
  <2>1. todo # <<>>
    BY DEF ServerStep, Running, EnqueueEvent, ProcessPress, ProcessRelease, ProcessMotion,
           SaveEvent, ReplaySavedEvent, PlayReleasedEvents, PlayingEnds, DropGrab,
           WindowsRestructured, FreeWindowResources, ReleaseActiveGrabs, FreeClientResources
  <2>2. \A i \in 1 .. Len(pending) : pending[i] \in Events
    BY ElementOfSeq DEF EventsOK
  <2> QED BY <2>1, <2>2, StackTop DEF Calls, Events
<1>01. <<>> \in Seq(OtherCalls) /\ NoSaves(<<>>)
  BY DEF NoSaves
<1>02. ASSUME UNCHANGED <<done, down>> PROVE Undisturbed
  BY <1>02 DEF Undisturbed
<1>1. CASE EnqueueEvent
  BY <1>0, <1>01, <1>02, <1>1, QuietLast DEF EnqueueEvent, Running, syncs
<1>2. CASE ProcessPress
  <2>0. PICK ev \in Events : ev = Top.ev
    BY <1>0
  <2> DEFINE s == <<Input([ev EXCEPT !.type = Release]), Input([ev EXCEPT !.again = TRUE])>>
  <2>1. Top.op = "input" /\ ~frozen[ev.dev] /\ ev.type = Press /\ activatingKey' = activatingKey
    BY <1>0, <1>2, <2>0 DEF ProcessPress, Running
  <2>2. CASE ev.dev = "keybd" /\ down["keybd"]
    <3>1. s \in Seq(OtherCalls) /\ NoSaves(s)
      <4>1. [ev EXCEPT !.type = Release] \in Events /\ [ev EXCEPT !.again = TRUE] \in Events
        BY <1>0, <2>0 DEF Events, Release
      <4> DEFINE x == Input([ev EXCEPT !.type = Release])
                 y == Input([ev EXCEPT !.again = TRUE])
      <4>2. x \in OtherCalls /\ y \in OtherCalls /\ x.op # "save" /\ y.op # "save"
        BY <4>1, SimpleCallIsOK DEF Input, Item
      <4> HIDE DEF x, y
      <4>3. <<x, y>> \in Seq(OtherCalls) /\ NoSaves(<<x, y>>)
        BY <4>2 DEF NoSaves
      <4> QED BY <4>3 DEF x, y
    <3>2. UNCHANGED <<syncs, saved, down, playing>> /\ todo' \in {Rest, s \o Rest}
      BY <1>2, <2>0, <2>2 DEF ProcessPress
    <3>3. Undisturbed
      BY <1>0, <1>2, <2>0, <2>1, <2>2 DEF ProcessPress, Processed, Undisturbed, EventsOK
    <3> HIDE DEF s
    <3> QED BY <1>0, <2>1, <3>1, <3>2, <3>3, QuietLast DEF syncs
  <2>3. CASE ~(ev.dev = "keybd" /\ down["keybd"])
    <3>1. /\ Processed(ev) /\ down' = [down EXCEPT ![ev.dev] = TRUE]
          /\ \/ ActivatePassiveGrab(ev, 0, trace) /\ saved' = saved
             \/ Deliver(ev)
      BY <1>2, <2>0, <2>3 DEF ProcessPress
    <3>2. Current(ev)' /\ Undisturbed
      BY <1>0, <2>1, <3>1, ProcessingIsCurrent
    <3>3. \A e \in Devices : down[e] => down'[e]
      BY <1>0, <2>0, <3>1 DEF EventsOK
    <3>4. CASE ActivatePassiveGrab(ev, 0, trace) /\ saved' = saved
      BY <1>0, <2>1, <3>2, <3>3, <3>4, ZeroIsAnArgument, ActivatingLast
    <3>5. CASE Deliver(ev)
      <4>1. \A e \in Devices :
              fromPassiveGrab[e] => down'[e] \/ (e = "keybd" /\ ~activatingKey')
        BY <2>1, <3>3 DEF LastOK, PassiveGrabHoldsThePress
      <4> QED BY <1>0, <2>1, <3>2, <3>5, <4>1, DeliveringLast
    <3> QED BY <3>1, <3>4, <3>5
  <2> QED BY <2>2, <2>3
<1>3. CASE ProcessRelease
  <2>0. PICK ev \in Events : ev = Top.ev
    BY <1>0
  <2>1. /\ Top.op = "input" /\ ~frozen[ev.dev] /\ ev.type = Release
        /\ Processed(ev) /\ down' = [down EXCEPT ![ev.dev] = FALSE] /\ activatingKey' = activatingKey
    BY <1>0, <1>3, <2>0 DEF ProcessRelease, Running
  <2>2. Current(ev)' /\ Undisturbed /\ \A e \in Devices : e # ev.dev => down'[e] = down[e]
    BY <1>0, <2>1, ProcessingIsCurrent
  <2>3. CASE ev.dev = "keybd" /\ ~down["keybd"]
    <3>1. todo' = Rest /\ UNCHANGED <<syncs, saved, down>>
      BY <1>3, <2>0, <2>1, <2>3 DEF ProcessRelease, EventsOK
    <3> QED BY <1>0, <1>01, <2>1, <2>2, <3>1, QuietLast DEF syncs
  <2>4. CASE DeactivateGrab(ev.dev, <<>>, Rest) /\ saved' = saved
    BY <1>0, <2>0, <2>1, <2>2, <2>4, DeactivatingLast
  <2>5. CASE ~EndsGrab(ev.dev) /\ Deliver(ev)
    <3>1. \A e \in Devices :
            fromPassiveGrab[e] => down'[e] \/ (e = "keybd" /\ ~activatingKey')
      BY <2>1, <2>2, <2>5 DEF LastOK, PassiveGrabHoldsThePress, EndsGrab
    <3> QED BY <1>0, <2>1, <2>2, <2>5, <3>1, DeliveringLast
  <2> QED BY <1>3, <2>0, <2>3, <2>4, <2>5 DEF ProcessRelease
<1>4. CASE ProcessMotion
  <2>1. Undisturbed
    BY <1>0, <1>4 DEF ProcessMotion, Processed, Undisturbed, EventsOK, Running
  <2> QED BY <1>0, <1>01, <1>4, <2>1, QuietLast DEF ProcessMotion, Running, syncs
<1>5. CASE SaveEvent
  <2> DEFINE d == Top.dev
  <2>1. /\ Top.op = "save" /\ todo' = Rest /\ UNCHANGED <<done, down, fromPassiveGrab>>
        /\ \/ state[d] = "FROZEN_NO_EVENT" /\ saved' = [saved EXCEPT ![d] = Top.ev]
                                          /\ state' = [state EXCEPT ![d] = "FROZEN_WITH_EVENT"]
           \/ state[d] # "FROZEN_NO_EVENT" /\ UNCHANGED <<saved, state>>
    BY <1>5 DEF SaveEvent, Running
  <2>2. todo \in Seq(Calls) /\ Rest \in Seq(OtherCalls) /\ Rest \in Seq(Calls)
    BY <1>0, StackTop, NoReplayIsOK DEF StackOK
  <2>3. Stale' \subseteq Stale /\ Early' \subseteq Early /\ \A x \in Stale' : x.dev # d
    <3>1. \A e \in Devices : /\ state'[e] = "FROZEN_NO_EVENT" => state[e] = "FROZEN_NO_EVENT" /\ e # d
                             /\ state'[e] \in Freezable => state[e] \in Freezable
      BY <1>0, <2>1 DEF SyncsOK, Freezable
    <3>2. ASSUME NEW x \in Stale' PROVE x \in Stale /\ x.dev # d
      <4>1. x \in Calls /\ x.op = "save" /\ x.dev \in Devices /\ state'[x.dev] = "FROZEN_NO_EVENT"
            /\ ~Current(x.ev)'
        BY <3>2 DEF Stale, Calls
      <4> QED BY <2>1, <3>1, <4>1 DEF Stale, Current
    <3>3. ASSUME NEW x \in Early' PROVE x \in Early
      <4>1. x \in Calls /\ x.op = "save" /\ x.dev \in Devices /\ state'[x.dev] \in Freezable
        BY <3>3 DEF Early, Calls
      <4> QED BY <3>1, <4>1 DEF Early
    <3> QED BY <3>2, <3>3
  <2>4. SavesOK'
    <3>1. Answered(todo, Stale') /\ NoneOf(todo, Early')
      BY <2>3 DEF LastOK, SavesOK, Answered, NoneOf
    <3>2. Answered(Rest, Stale') /\ NoneOf(Rest, Early')
      BY <1>0, <2>2, <2>3, <3>1, AnsweredTail, NoneTail DEF Rest, Top
    <3> QED BY <2>1, <3>2 DEF SavesOK, Answered, NoneOf
  <2>5. ReplayIsLast'
    BY <2>1, <2>2, NoReplayFirst
  <2>6. SavedIsLast'
    <3> SUFFICES ASSUME NEW e \in Devices, state'[e] = "FROZEN_WITH_EVENT" PROVE Current(saved[e])'
      BY DEF SavedIsLast
    <3>1. CASE saved'[e] = saved[e] /\ state[e] = "FROZEN_WITH_EVENT"
      BY <2>1, <3>1 DEF LastOK, SavedIsLast, Current
    <3>2. CASE e = d /\ state[d] = "FROZEN_NO_EVENT" /\ saved'[d] = Top.ev
      <4>1. Top \notin Stale
        BY <1>0, <2>2, AnsweredFirst DEF LastOK, SavesOK, Top
      <4>2. Current(Top.ev)
        BY <1>0, <2>1, <3>2, <4>1 DEF Stale
      <4> QED BY <2>1, <3>2, <4>2 DEF Current
    <3> QED BY <1>0, <2>1, <3>1, <3>2 DEF SyncsOK, EventsOK, SavedOK
  <2>7. PassiveGrabHoldsThePress'
    <3>1. activatingKey' => activatingKey \/ Top \in KeySaves
      BY <1>0, <1>5, <2>1 DEF SaveEvent, NotesActivatingKey, KeySaves
    <3>2. Top \in KeySaves => down["keybd"]
      BY <1>0, <2>2, NoneTail DEF KeySavesOK, Top
    <3> QED BY <2>1, <3>1, <3>2 DEF LastOK, PassiveGrabHoldsThePress
  <2> QED BY <2>4, <2>5, <2>6, <2>7 DEF LastOK
<1>6. CASE ReplaySavedEvent
  <2>0. PICK ev \in Events : ev = saved[Top.dev]
    BY <1>0 DEF EventsOK, SavedOK
  <2>1. Top.op = "replay" /\ UNCHANGED <<down, done, saved, activatingKey>>
    BY <1>6 DEF ReplaySavedEvent, Running, DeliverUngrabbed
  <2>2. Current(ev)
    BY <1>0, <2>0, <2>1 DEF LastOK, ReplayIsLast, Top, EventsOK, SavedOK
  <2>3. Current(ev)' /\ Undisturbed
    BY <2>1, <2>2 DEF Current, Undisturbed
  <2>4. CASE ActivatePassiveGrab(ev, Top.arg, realized) /\ ev.type = Press
    <3>1. \A e \in Devices : down[e] => down'[e]
      BY <2>1
    <3>2. Top.op # "save" /\ Top.arg \in Arguments
      BY <1>0, <2>1 DEF Calls
    <3> QED BY <1>0, <2>1, <2>2, <2>3, <2>4, <3>1, <3>2, ActivatingLast
  <2>5. CASE DeliverUngrabbed
    BY <1>0, <1>01, <2>1, <2>3, <2>5, QuietLast DEF DeliverUngrabbed, syncs
  <2> QED BY <1>6, <2>0, <2>4, <2>5 DEF ReplaySavedEvent, ActivatesPassively
<1>7. CASE PlayReleasedEvents
  <2>1. PICK i \in 1 .. Len(pending) : todo' = <<Input(pending[i])>> \o todo
    BY <1>7 DEF PlayReleasedEvents
  <2> DEFINE x == Input(pending[i])
  <2>2. x \in OtherCalls /\ x.op # "save"
    BY <1>0, SimpleCallIsOK DEF Input, Item
  <2> HIDE DEF x
  <2>3. <<x>> \in Seq(OtherCalls) /\ NoSaves(<<x>>)
    BY <2>2 DEF NoSaves
  <2>4. todo' = <<x>> \o todo
    BY <2>1 DEF x
  <2> QED BY <1>0, <1>02, <1>7, <2>3, <2>4, QuietLast DEF PlayReleasedEvents, Running, syncs
<1>8. CASE PlayingEnds \/ WindowsRestructured \/ FreeWindowResources
  <2>1. Top.op \notin {"save", "replay"} /\ todo' = Rest
        /\ UNCHANGED <<state, fromPassiveGrab, saved, activatingKey, down, done>>
    BY <1>8 DEF PlayingEnds, WindowsRestructured, FreeWindowResources, Running, syncs
  <2> QED BY <1>0, <1>01, <1>02, <2>1, QuietLast
<1>9. CASE DropGrab
  <2>1. Top.op = "drop" /\ UNCHANGED <<saved, activatingKey, down, done>>
    BY <1>9 DEF DropGrab, Running
  <2>2. CASE DeactivateGrab(Top.dev, <<>>, Rest)
    BY <1>0, <1>02, <2>1, <2>2, DeactivatingLast
  <2>3. CASE todo' = Rest /\ UNCHANGED <<syncs, playing>>
    BY <1>0, <1>01, <1>02, <2>1, <2>3, QuietLast DEF syncs
  <2> QED BY <1>9, <2>2, <2>3 DEF DropGrab
<1>10. CASE ReleaseActiveGrabs
  <2>1. Top.op = "release" /\ UNCHANGED <<saved, activatingKey, down, done>>
    BY <1>10 DEF ReleaseActiveGrabs, Running
  <2>2. ASSUME NEW d \in Devices, DeactivateGrab(d, <<>>, todo) PROVE LastOK'
    BY <1>0, <1>02, <2>1, <2>2, DeactivatingLast
  <2>3. CASE todo' = Rest /\ UNCHANGED <<syncs, playing>>
    BY <1>0, <1>01, <1>02, <2>1, <2>3, QuietLast DEF syncs
  <2> QED BY <1>10, <2>2, <2>3 DEF ReleaseActiveGrabs
<1>11. CASE FreeClientResources
  <2>1. Top.op = "free" /\ UNCHANGED <<state, fromPassiveGrab, saved, activatingKey, down, done>>
    BY <1>11 DEF FreeClientResources, Running, syncs
  <2>2. CASE todo' \in {todo, Rest}
    BY <1>0, <1>01, <1>02, <2>1, <2>2, QuietLast
  <2>3. ASSUME NEW w \in 1 .. exists, Owner[w] = Top.arg, todo' = Unmapping(w) \o Freeing(w) \o todo
        PROVE  LastOK'
    <3>1. w \in Windows /\ w >= 2
      <4>1. Top.arg # None
        BY <1>0, <2>1, SyncGrabsAssumption DEF Calls
      <4>2. w # Root
        BY <2>3, <4>1, SyncGrabsAssumption
      <4> QED BY <4>2, SyncGrabsAssumption DEF WorldOK, Windows, Root
    <3> DEFINE s == Unmapping(w) \o Freeing(w)
    <3>2. s \in Seq(OtherCalls) /\ NoSaves(s)
      BY <3>1, UnmappingSavesNothing
    <3>3. todo' = s \o todo
      BY <2>3
    <3> HIDE DEF s
    <3> QED BY <1>0, <1>02, <2>1, <3>2, <3>3, QuietLast
  <2> QED BY <1>11, <2>2, <2>3 DEF FreeClientResources
<1> QED BY <1>1, <1>2, <1>3, <1>4, <1>5, <1>6, <1>7, <1>8, <1>9, <1>10, <1>11 DEF ServerStep

\* No step of the server processes a key below whose call a save would note it.
LEMMA ServerKeys ==
  ASSUME IInv, PlayOK, KeySavesOK, ServerStep
  PROVE  KeySavesOK'
<1> USE DEF IInv
<1>0. /\ todo # <<>> /\ todo \in Seq(Calls)
      /\ Top \in Calls /\ Top.ev \in Events /\ Top.dev \in Devices /\ Top.ev.dev \in Devices
      /\ (Top.op \in {"input", "save"} => Top.ev.dev = Top.dev)
      /\ Rest \in Seq(Calls) /\ todo = <<Top>> \o Rest
      /\ \A i \in 1 .. Len(pending) : pending[i] \in Events
  <2>1. todo # <<>>
    BY DEF ServerStep, Running, EnqueueEvent, ProcessPress, ProcessRelease, ProcessMotion,
           SaveEvent, ReplaySavedEvent, PlayReleasedEvents, PlayingEnds, DropGrab,
           WindowsRestructured, FreeWindowResources, ReleaseActiveGrabs, FreeClientResources
  <2>2. \A i \in 1 .. Len(pending) : pending[i] \in Events
    BY ElementOfSeq DEF EventsOK
  <2>3. todo \in Seq(Calls) /\ todo = <<Top>> \o Rest /\ Rest \in Seq(Calls) /\ Top \in Calls
    BY <2>1, HeadTailProperties DEF StackOK, Top, Rest
  <2> QED BY <2>1, <2>2, <2>3 DEF Calls, Events
<1>01. /\ <<>> \in Seq(Calls) /\ NoneOf(<<>>, KeySaves) /\ NoneOf(<<>>, KeyInputs)
       /\ <<>> \o <<PlayReleased>> \in Seq(Calls)
       /\ NoneOf(<<>> \o <<PlayReleased>>, KeySaves) /\ NoneOf(<<>> \o <<PlayReleased>>, KeyInputs)
  <2> DEFINE p == PlayReleased
  <2>1. p \in Calls /\ p.op = "play"
    BY SimpleCallIsOK DEF OtherCalls, PlayReleased, Item
  <2> HIDE DEF p
  <2>2. <<>> \o <<p>> \in Seq(Calls) /\ NoneOf(<<>> \o <<p>>, KeySaves) /\ NoneOf(<<>> \o <<p>>, KeyInputs)
    BY <2>1 DEF NoneOf, KeySaves, KeyInputs
  <2> QED BY <2>2 DEF NoneOf, p
<1>02. ~NoneOf(Rest, KeySaves) => down["keybd"] /\ NoKeyWaits /\ Top \notin KeyInputs
  <2>1. NoneOf(todo, KeySaves) => NoneOf(Rest, KeySaves)
    BY <1>0, NoneTail DEF Rest
  <2>2. Top \in KeyInputs => NoneOf(Rest, KeySaves)
    BY <1>0, ShelteredTail DEF KeySavesOK, Rest, Top
  <2> QED BY <1>0, <2>1, <2>2 DEF KeySavesOK
<1>03. ASSUME UNCHANGED <<down, pending>>, NEW s \in Seq(Calls), NoneOf(s, KeySaves), NoneOf(s, KeyInputs),
              todo' \in {Rest, s \o Rest} \/ (Top.op # "save" /\ todo' \in {todo, s \o todo})
       PROVE  KeySavesOK'
  BY <1>0, <1>02, <1>03, KeysAfter DEF NoKeyWaits
<1>04. ASSUME UNCHANGED <<down, pending>>, NEW rest, rest = Rest \/ (Top.op # "save" /\ rest = todo),
              NEW d \in Devices, DeactivateGrab(d, <<>>, rest)
       PROVE  KeySavesOK'
  <2> DEFINE q == <<>> \o <<PlayReleased>>
  <2>1. todo' \in {rest, q \o rest}
    BY <1>04 DEF DeactivateGrab, ComputeFreezes
  <2>2. q \in Seq(Calls) /\ NoneOf(q, KeySaves) /\ NoneOf(q, KeyInputs)
    BY <1>01
  <2> HIDE DEF q
  <2> QED BY <1>03, <1>04, <2>1, <2>2
<1>1. CASE EnqueueEvent
  <2>1. todo' = Rest /\ down' = down /\ Top.op = "input"
    BY <1>1 DEF EnqueueEvent, Running
  <2>2. ASSUME ~NoneOf(Rest, KeySaves) PROVE down'["keybd"] /\ NoKeyWaits'
    <3>1. Top.ev.dev # "keybd"
      BY <1>0, <1>02, <2>1, <2>2 DEF KeyInputs
    <3>2. pending \in Seq(Events) /\ Len(pending) \in Nat
      BY LenProperties DEF EventsOK
    <3>3. CASE Compresses
      <4>1. pending' = [pending EXCEPT ![Len(pending)].n = Top.ev.n]
        BY <1>1, <3>3 DEF EnqueueEvent
      <4>2. Len(pending') = Len(pending)
        BY <3>2, <4>1
      <4>3. ASSUME NEW i \in 1 .. Len(pending) PROVE pending'[i].dev = pending[i].dev
        BY <1>0, <3>2, <4>1 DEF Events
      <4> QED BY <1>02, <2>1, <2>2, <4>2, <4>3 DEF NoKeyWaits
    <3>4. CASE ~Compresses
      <4>1. pending' = Append(pending, Top.ev)
        BY <1>1, <3>4 DEF EnqueueEvent
      <4>2. /\ Len(pending') = Len(pending) + 1 /\ pending'[Len(pending) + 1] = Top.ev
            /\ \A i \in 1 .. Len(pending) : pending'[i] = pending[i]
        BY <1>0, <3>2, <4>1, AppendProperties
      <4> QED BY <1>02, <2>1, <2>2, <3>1, <3>2, <4>2 DEF NoKeyWaits
    <3> QED BY <3>3, <3>4
  <2> QED BY <1>0, <1>01, <2>1, <2>2, KeysAfter
<1>2. CASE ProcessPress
  <2>0. PICK ev \in Events : ev = Top.ev
    BY <1>0
  <2>1. Top.op = "input" /\ ~frozen[ev.dev] /\ ev.dev = Top.dev /\ pending' = pending
    BY <1>0, <1>2, <2>0 DEF ProcessPress, Running, queue
  <2>2. CASE ev.dev = "keybd" /\ down["keybd"]
    <3> DEFINE x == Input([ev EXCEPT !.type = Release])
               y == Input([ev EXCEPT !.again = TRUE])
    <3>1. x \in Calls /\ y \in Calls /\ x.op # "save" /\ y.op # "save"
      <4>1. [ev EXCEPT !.type = Release] \in Events /\ [ev EXCEPT !.again = TRUE] \in Events
        BY <1>0, <2>0 DEF Events, Release
      <4> QED BY <4>1, SimpleCallIsOK DEF Input, Item, OtherCalls
    <3>2. todo' \in {Rest, <<x, y>> \o Rest}
      BY <1>2, <2>0, <2>2 DEF ProcessPress
    <3> HIDE DEF x, y
    <3>3. NoneOf(Rest, KeySaves)
      BY <1>0, <1>02, <2>1, <2>2 DEF KeyInputs
    <3>4. <<x, y>> \in Seq(Calls) /\ NoneOf(<<x, y>>, KeySaves)
      BY <3>1 DEF NoneOf, KeySaves
    <3>5. NoneOf(todo', KeySaves) /\ todo' \in Seq(Calls)
      BY <1>0, <3>2, <3>3, <3>4, NoneBelow, Concatenation
    <3> QED BY <3>5, NoKeySaves
  <2>3. CASE ~(ev.dev = "keybd" /\ down["keybd"])
    <3>1. /\ down' = [down EXCEPT ![ev.dev] = TRUE]
          /\ ActivatePassiveGrab(ev, 0, trace) \/ Deliver(ev)
      BY <1>2, <2>0, <2>3 DEF ProcessPress
    <3>2. ~NoneOf(Rest, KeySaves) => down'["keybd"] /\ NoKeyWaits'
      BY <1>0, <1>02, <2>1, <3>1 DEF NoKeyWaits, EventsOK
    <3>3. CASE Deliver(ev)
      <4>1. todo' = Rest
        BY <3>3 DEF Deliver, DeliverGrabbedEvent, DeliverUngrabbed
      <4> QED BY <1>0, <1>01, <3>2, <4>1, KeysAfter
    <3>4. CASE ActivatePassiveGrab(ev, 0, trace)
      <4> DEFINE x == Save(ev, 0)
                 q == <<>> \o <<PlayReleased>>
      <4>1. ComputeFreezes(<<>>, <<x>> \o Rest)
        BY <3>4 DEF ActivatePassiveGrab, ActivateGrab
      <4>2. x \in Calls /\ x.op = "save" /\ x.dev = ev.dev
        BY ZeroIsAnArgument, SimpleCallIsOK DEF Save, Item, OtherCalls
      <4>3. q \in Seq(Calls) /\ NoneOf(q, KeySaves) /\ NoneOf(q, KeyInputs)
        BY <1>01
      <4>4. todo' \in {<<x>> \o Rest, q \o (<<x>> \o Rest)}
        BY <4>1 DEF ComputeFreezes
      <4> HIDE DEF x, q
      <4>5. CASE ev.dev = "keybd"
        <5>1. Top \in KeyInputs /\ down'["keybd"]
          BY <1>0, <2>1, <3>1, <4>5 DEF KeyInputs, EventsOK
        <5> QED BY <1>0, <2>1, <4>1, <4>2, <4>5, <5>1, KeyNoted
      <4>6. CASE ev.dev # "keybd"
        <5>1. <<x>> \in Seq(Calls) /\ NoneOf(<<x>>, KeySaves) /\ NoneOf(<<x>>, KeyInputs)
          BY <4>2, <4>6 DEF NoneOf, KeySaves, KeyInputs
        <5> QED BY <1>0, <2>1, <3>2, <4>3, <4>4, <5>1, KeysAfterTwo
      <4> QED BY <4>5, <4>6
    <3> QED BY <3>1, <3>3, <3>4
  <2> QED BY <2>2, <2>3
<1>3. CASE ProcessRelease
  <2>0. PICK ev \in Events : ev = Top.ev
    BY <1>0
  <2>1. /\ Top.op = "input" /\ ev.dev = Top.dev /\ pending' = pending
        /\ down' = [down EXCEPT ![ev.dev] = FALSE]
    BY <1>0, <1>3, <2>0 DEF ProcessRelease, Running, queue
  <2>2. ~NoneOf(Rest, KeySaves) => down'["keybd"] /\ NoKeyWaits'
    BY <1>0, <1>02, <2>1 DEF NoKeyWaits, EventsOK, KeyInputs
  <2> DEFINE q == <<>> \o <<PlayReleased>>
  <2>3. todo' \in {Rest, q \o Rest}
    BY <1>3 DEF ProcessRelease, Deliver, DeliverGrabbedEvent, DeliverUngrabbed, DeactivateGrab, ComputeFreezes
  <2>4. q \in Seq(Calls) /\ NoneOf(q, KeySaves) /\ NoneOf(q, KeyInputs)
    BY <1>01
  <2> HIDE DEF q
  <2> QED BY <1>0, <2>2, <2>3, <2>4, KeysAfter
<1>4. CASE ProcessMotion \/ SaveEvent \/ PlayingEnds \/ WindowsRestructured \/ FreeWindowResources
  <2>1. todo' = Rest /\ UNCHANGED <<down, pending>>
    BY <1>4 DEF ProcessMotion, SaveEvent, PlayingEnds, WindowsRestructured, FreeWindowResources, queue
  <2> QED BY <1>01, <1>03, <2>1
<1>5. CASE ReplaySavedEvent
  <2>0. PICK ev \in Events : ev = saved[Top.dev]
    BY <1>0 DEF EventsOK, SavedOK
  <2>1. Top.op = "replay" /\ UNCHANGED <<down, pending>>
    BY <1>5 DEF ReplaySavedEvent, Running, queue
  <2>2. CASE DeliverUngrabbed
    <3>1. todo' = Rest
      BY <2>2 DEF DeliverUngrabbed
    <3> QED BY <1>01, <1>03, <2>1, <3>1
  <2>3. CASE ActivatePassiveGrab(ev, Top.arg, realized)
    <3> DEFINE x == Save(ev, Top.arg)
               q == <<>> \o <<PlayReleased>>
    <3>1. Top.arg \in Windows /\ Top.arg \in Arguments
      BY <1>0, <2>1 DEF Calls
    <3>2. Top.arg # 0
      BY <3>1, SyncGrabsAssumption DEF Windows
    <3>3. x \in Calls /\ x.op = "save" /\ x.arg # 0
      BY <3>1, <3>2, SimpleCallIsOK DEF Save, Item, OtherCalls
    <3>4. todo' \in {<<x>> \o Rest, q \o (<<x>> \o Rest)}
      BY <2>3 DEF ActivatePassiveGrab, ActivateGrab, ComputeFreezes
    <3>5. q \in Seq(Calls) /\ NoneOf(q, KeySaves) /\ NoneOf(q, KeyInputs)
      BY <1>01
    <3> HIDE DEF x, q
    <3>6. <<x>> \in Seq(Calls) /\ NoneOf(<<x>>, KeySaves) /\ NoneOf(<<x>>, KeyInputs)
      BY <3>3 DEF NoneOf, KeySaves, KeyInputs
    <3>7. ~NoneOf(Rest, KeySaves) => down'["keybd"] /\ NoKeyWaits'
      BY <1>02, <2>1 DEF NoKeyWaits
    <3> QED BY <1>0, <3>4, <3>5, <3>6, <3>7, KeysAfterTwo
  <2> QED BY <1>5, <2>0, <2>2, <2>3 DEF ReplaySavedEvent
<1>6. CASE PlayReleasedEvents
  <2>1. PICK i \in 1 .. Len(pending) :
               todo' = <<Input(pending[i])>> \o todo /\ pending' = Unlinked(i)
    BY <1>6 DEF PlayReleasedEvents
  <2>2. Top.op = "play" /\ down' = down
    BY <1>6 DEF PlayReleasedEvents, Running
  <2> DEFINE x == Input(pending[i])
  <2>3. x \in Calls /\ x.op = "input" /\ x.dev = pending[i].dev
    BY <1>0, SimpleCallIsOK DEF Input, Item, OtherCalls
  <2> HIDE DEF x
  <2>4. todo' = <<x>> \o todo
    BY <2>1 DEF x
  <2>5. <<x>> \in Seq(Calls) /\ NoneOf(<<x>>, KeySaves)
    BY <2>3 DEF NoneOf, KeySaves
  <2>6. CASE NoneOf(Rest, KeySaves)
    <3>1. <<Top>> \in Seq(Calls) /\ NoneOf(<<Top>>, KeySaves)
      BY <1>0, <2>2 DEF NoneOf, KeySaves
    <3>2. NoneOf(todo, KeySaves)
      BY <1>0, <2>6, <3>1, NoneBelow
    <3>3. NoneOf(todo', KeySaves) /\ todo' \in Seq(Calls)
      BY <1>0, <2>4, <2>5, <3>2, NoneBelow, Concatenation
    <3> QED BY <3>3, NoKeySaves
  <2>7. CASE ~NoneOf(Rest, KeySaves)
    <3>1. NoneOf(<<x>>, KeyInputs)
      BY <1>02, <2>3, <2>7 DEF NoneOf, KeyInputs, NoKeyWaits
    <3>2. NoKeyWaits'
      <4>1. pending \in Seq(Events) /\ Len(pending) \in Nat
        BY LenProperties DEF EventsOK
      <4>2. /\ Len(pending') = Len(pending) - 1
            /\ \A j \in 1 .. Len(pending) - 1 : pending'[j] = pending[IF j < i THEN j ELSE j + 1]
        BY <2>1, <4>1, UnlinkedItems
      <4> QED BY <1>02, <2>7, <4>1, <4>2 DEF NoKeyWaits
    <3> QED BY <1>0, <1>02, <2>2, <2>4, <2>5, <2>7, <3>1, <3>2, KeysAfter
  <2> QED BY <2>6, <2>7
<1>7. CASE DropGrab
  <2>1. UNCHANGED <<down, pending>>
    BY <1>7 DEF DropGrab, queue
  <2>2. CASE DeactivateGrab(Top.dev, <<>>, Rest)
    BY <1>0, <1>04, <2>1, <2>2
  <2>3. CASE todo' = Rest
    BY <1>01, <1>03, <2>1, <2>3
  <2> QED BY <1>7, <2>2, <2>3 DEF DropGrab
<1>8. CASE ReleaseActiveGrabs
  <2>1. Top.op # "save" /\ UNCHANGED <<down, pending>>
    BY <1>8 DEF ReleaseActiveGrabs, Running, queue
  <2>2. ASSUME NEW d \in Devices, DeactivateGrab(d, <<>>, todo) PROVE KeySavesOK'
    BY <1>04, <2>1, <2>2
  <2>3. CASE todo' = Rest
    BY <1>01, <1>03, <2>1, <2>3
  <2> QED BY <1>8, <2>2, <2>3 DEF ReleaseActiveGrabs
<1>9. CASE FreeClientResources
  <2>1. Top.op = "free" /\ UNCHANGED <<down, pending>>
    BY <1>9 DEF FreeClientResources, Running, queue
  <2>2. CASE todo' \in {todo, Rest}
    BY <1>01, <1>03, <2>1, <2>2
  <2>3. ASSUME NEW w \in 1 .. exists, Owner[w] = Top.arg, todo' = Unmapping(w) \o Freeing(w) \o todo
        PROVE  KeySavesOK'
    <3>1. w \in Windows /\ w >= 2
      <4>1. Top.arg # None
        BY <1>0, <2>1, SyncGrabsAssumption DEF Calls
      <4>2. w # Root
        BY <2>3, <4>1, SyncGrabsAssumption
      <4> QED BY <4>2, SyncGrabsAssumption DEF WorldOK, Windows, Root
    <3> DEFINE s == Unmapping(w) \o Freeing(w)
    <3>2. s \in Seq(UnmapCalls)
      BY <3>1, UnmappingItems, Concatenation
    <3>3. todo' = s \o todo
      BY <2>3
    <3> HIDE DEF s
    <3>4. s \in Seq(Calls) /\ NoneOf(s, KeySaves) /\ NoneOf(s, KeyInputs)
      <4>1. UnmapCalls \subseteq Calls /\ \A x \in UnmapCalls : x \notin KeySaves /\ x \notin KeyInputs
        BY DEF UnmapCalls, OtherCalls, KeySaves, KeyInputs
      <4>2. \A i \in 1 .. Len(s) : s[i] \in UnmapCalls
        BY <3>2, ElementOfSeq
      <4>3. s \in Seq(Calls)
        BY <3>2, <4>1
      <4> QED BY <4>1, <4>2, <4>3 DEF NoneOf
    <3> QED BY <1>03, <2>1, <3>3, <3>4
  <2> QED BY <1>9, <2>2, <2>3 DEF FreeClientResources
<1> QED BY <1>1, <1>2, <1>3, <1>4, <1>5, <1>6, <1>7, <1>8, <1>9 DEF ServerStep

-----------------------------------------------------------------------------
(* Between calls.                                                          *)

LEMMA PairOfCalls ==
  ASSUME NEW r \in Calls, NEW p \in Calls
  PROVE  <<r>> \o <<p>> \o <<>> = <<r, p>>
  <1>1. (<<r>> \o <<p>>) \o <<>> = <<r>> \o <<p>>
    BY ConcatEmptySeq, Concatenation
  <1> DEFINE s == <<r>> \o <<p>>
             t == <<r, p>>
  <1>2. s \in Seq(Calls) /\ Len(s) = 2 /\ s[1] = r /\ s[2] = p
    BY ConcatProperties
  <1>3. t \in Seq(Calls) /\ Len(t) = 2 /\ t[1] = r /\ t[2] = p
    OBVIOUS
  <1>4. s = t
    <2> HIDE DEF s, t
    <2>1. \A j \in 1 .. Len(s) : s[j] = t[j]
      BY <1>2, <1>3
    <2> QED BY <1>2, <1>3, <2>1, SeqEqual
  <1> QED BY <1>1, <1>4

LEMMA IdleStaleSteps ==
  ASSUME NoSaves(todo')
  PROVE  SavesOK'
  BY DEF NoSaves, SavesOK, Answered, NoneOf, Stale, Early

LEMMA IdleLast ==
  ASSUME IInv, LastOK, Next, ~ServerStep
  PROVE  LastOK' /\ KeySavesOK'
<1> USE DEF IInv
<1>1. UNCHANGED <<saved, activatingKey, down, done>> /\ Undisturbed
  BY DEF Next, Request, DeviceInput, UngrabDevice, GrabDevice, AllowAsync, AllowSync, AllowReplay,
         AllowBoth, AllowsRequest, UngrabPassive, CloseDownClient, UnmapWindow, MapWindow,
         DestroyWindow, Undisturbed
<1>2. ASSUME todo' \in Seq(Calls), NoSaves(todo'), ReplayIsLast',
             \A d \in Devices : state'[d] = "FROZEN_WITH_EVENT" => state[d] = "FROZEN_WITH_EVENT",
             \A d \in Devices : fromPassiveGrab'[d] => fromPassiveGrab[d]
      PROVE  LastOK' /\ KeySavesOK'
  <2>1. SavedIsLast'
    BY <1>1, <1>2, SavedStays DEF EventsOK, LastOK
  <2>2. PassiveGrabHoldsThePress'
    BY <1>1, <1>2 DEF LastOK, PassiveGrabHoldsThePress
  <2>3. KeySavesOK'
    BY <1>2, NoSavesNoKeys, NoKeySaves
  <2> QED BY <1>2, <2>1, <2>2, <2>3, IdleStaleSteps DEF LastOK
<1>3. ASSUME todo' \in Seq(OtherCalls), NoSaves(todo'),
             \A d \in Devices : state'[d] = "FROZEN_WITH_EVENT" => state[d] = "FROZEN_WITH_EVENT",
             \A d \in Devices : fromPassiveGrab'[d] => fromPassiveGrab[d]
      PROVE  LastOK' /\ KeySavesOK'
  BY <1>2, <1>3, NoReplayFirst, NoReplayIsOK
<1>4. ASSUME ComputeFreezes(<<>>, <<>>) PROVE todo' \in Seq(OtherCalls) /\ NoSaves(todo')
  <2> DEFINE p == PlayReleased
  <2>1. p \in OtherCalls /\ p.op # "save"
    BY SimpleCallIsOK DEF PlayReleased, Item
  <2>2. todo' \in {<<>>, <<>> \o <<p>> \o <<>>}
    BY <1>4 DEF ComputeFreezes
  <2> HIDE DEF p
  <2>3. <<>> \o <<p>> \o <<>> = <<p>> /\ <<p>> \in Seq(OtherCalls) /\ NoSaves(<<p>>)
    BY <2>1 DEF NoSaves
  <2>4. <<>> \in Seq(OtherCalls) /\ NoSaves(<<>>)
    BY DEF NoSaves
  <2> QED BY <2>2, <2>3, <2>4
<1>5. ASSUME NEW c \in Clients, Request(c) PROVE LastOK' /\ KeySavesOK'
  <2>1. ASSUME NEW d \in Devices, NEW g \in RequestedGrabs, GrabDevice(d, g) PROVE LastOK' /\ KeySavesOK'
    BY <1>3, <1>4, <2>1 DEF GrabDevice, ActivateGrab, SyncsOK
  <2>2. ASSUME NEW d \in Devices, UngrabDevice(c, d) PROVE LastOK' /\ KeySavesOK'
    BY <1>3, <1>4, <2>2 DEF UngrabDevice, DeactivateGrab, SyncsOK
  <2>3. ASSUME NEW d \in Devices, AllowAsync(c, d) \/ AllowSync(c, d) PROVE LastOK' /\ KeySavesOK'
    BY <1>3, <1>4, <2>3 DEF AllowAsync, AllowSync, SyncsOK
  <2>4. ASSUME NEW new \in {"THAWED", "FREEZE_BOTH_NEXT_EVENT"}, AllowBoth(c, new) PROVE LastOK' /\ KeySavesOK'
    BY <1>3, <1>4, <2>4 DEF AllowBoth, SyncsOK
  <2>5. ASSUME NEW d \in Devices, AllowReplay(c, d) PROVE LastOK' /\ KeySavesOK'
    <3>1. /\ state[d] = "FROZEN_WITH_EVENT" /\ state' = [state EXCEPT ![d] = "NOT_GRABBED"]
          /\ fromPassiveGrab' = [fromPassiveGrab EXCEPT ![d] = FALSE]
          /\ ComputeFreezes(<<Replay(d, grab[d].window)>>, <<>>)
      BY <2>5 DEF AllowReplay
    <3> DEFINE r == Replay(d, grab[d].window)
               p == PlayReleased
    <3>2. r \in Calls /\ r.op = "replay" /\ r.dev = d
      <4>1. grab[d].window \in Windows
        BY SyncGrabsAssumption DEF SyncsOK, Grabs, NoGrab, Windows, Root
      <4> QED BY <4>1, WindowCalls DEF Replay, Item
    <3>3. p \in Calls /\ p.op = "play"
      BY SimpleCallIsOK DEF OtherCalls, PlayReleased, Item
    <3>4. todo' \in {<<>>, <<r>> \o <<p>> \o <<>>}
      BY <3>1 DEF ComputeFreezes
    <3> HIDE DEF r, p
    <3>5. todo' \in {<<>>, <<r, p>>}
      BY <3>2, <3>3, <3>4, PairOfCalls
    <3>6. NoSaves(todo') /\ todo' \in Seq(Calls)
      <4>1. <<>> \in Seq(Calls) /\ NoSaves(<<>>)
        BY DEF NoSaves
      <4>2. <<r, p>> \in Seq(Calls) /\ NoSaves(<<r, p>>)
        BY <3>2, <3>3 DEF NoSaves
      <4> QED BY <3>5, <4>1, <4>2
    <3>7. ReplayIsLast'
      <4>1. Current(saved[d])
        BY <3>1 DEF LastOK, SavedIsLast
      <4>2. todo' # <<>> => Head(todo').dev = d
        BY <3>2, <3>5
      <4> QED BY <1>1, <4>1, <4>2 DEF ReplayIsLast, Current
    <3> QED BY <1>2, <3>1, <3>6, <3>7 DEF SyncsOK
  <2>6. ASSUME CloseDownClient(c) PROVE LastOK' /\ KeySavesOK'
    <3> DEFINE x == ReleaseGrabs(c)
               y == FreeResources(c)
    <3>1. x \in OtherCalls /\ y \in OtherCalls /\ x.op # "save" /\ y.op # "save"
      BY SimpleCallIsOK DEF ReleaseGrabs, FreeResources, Item
    <3>2. todo' = <<x, y>>
      BY <2>6 DEF CloseDownClient
    <3> HIDE DEF x, y
    <3>3. todo' \in Seq(OtherCalls) /\ NoSaves(todo')
      BY <3>1, <3>2 DEF NoSaves
    <3> QED BY <1>3, <2>6, <3>3 DEF CloseDownClient, syncs
  <2>7. ASSUME NEW p \in passive, UngrabPassive(p) PROVE LastOK' /\ KeySavesOK'
    <3>1. todo' = <<>> /\ UNCHANGED syncs
      BY <2>7 DEF UngrabPassive, Idle
    <3>2. <<>> \in Seq(OtherCalls) /\ NoSaves(<<>>)
      BY DEF NoSaves
    <3> QED BY <1>3, <3>1, <3>2 DEF syncs
  <2> QED BY <1>5, <2>1, <2>2, <2>3, <2>4, <2>5, <2>6, <2>7 DEF Request
<1>6. ASSUME NEW d \in Devices, NEW type \in {Press, Release, Motion}, DeviceInput(d, type) PROVE LastOK' /\ KeySavesOK'
  <2> DEFINE n == 1 + (IF sent["mouse"] > sent["keybd"] THEN sent["mouse"] ELSE sent["keybd"])
  <2>1. n \in Nat
    BY DEF EventsOK, Devices
  <2> HIDE DEF n
  <2> DEFINE ev == [dev |-> d, type |-> type, n |-> n, again |-> FALSE]
             x == Input(ev)
  <2>2. x \in OtherCalls /\ x.op # "save"
    <3>1. ev \in Events
      BY <2>1 DEF Events
    <3> QED BY <3>1, SimpleCallIsOK DEF Input, Item
  <2>3. todo' = <<x>>
    BY <1>6 DEF DeviceInput, n
  <2> HIDE DEF x
  <2>4. todo' \in Seq(OtherCalls) /\ NoSaves(todo')
    BY <2>2, <2>3 DEF NoSaves
  <2> QED BY <1>3, <1>6, <2>4 DEF DeviceInput, syncs
<1>7. ASSUME NEW w \in Windows, UnmapWindow(w) \/ MapWindow(w) \/ DestroyWindow(w) PROVE LastOK' /\ KeySavesOK'
  <2>1. UNCHANGED syncs
    BY <1>7 DEF UnmapWindow, MapWindow, DestroyWindow
  <2>2. todo' \in Seq(OtherCalls) /\ NoSaves(todo')
    <3>1. CASE UnmapWindow(w) \/ DestroyWindow(w)
      <4>1. w >= 2 /\ todo' \in {Unmapping(w), Unmapping(w) \o Freeing(w)}
        BY <3>1 DEF UnmapWindow, DestroyWindow, WorldOK, Windows
      <4> QED BY <4>1, UnmappingSavesNothing
    <3>2. CASE MapWindow(w)
      <4> DEFINE x == Restructure
      <4>1. x \in OtherCalls /\ x.op # "save" /\ todo' = <<x>>
        BY <3>2, SimpleCallIsOK DEF MapWindow, Restructure, Item
      <4> HIDE DEF x
      <4> QED BY <4>1 DEF NoSaves
    <3> QED BY <1>7, <3>1, <3>2
  <2> QED BY <1>3, <2>1, <2>2 DEF syncs
<1> QED BY <1>5, <1>6, <1>7 DEF Next

\* What AllowEvents would replay is the last event of its device, a press whose
\* key or button is still down, whatever was played, saved and given up before; and
\* a grab that a press activated does not outlive it, unless it is a key grab that a
\* replay activated while the key had not been noted as the activatingKey.
THEOREM ReplaysAreCurrent == Spec => []ReplayIsOfTheLast
<1>1. Init => LastOK /\ KeySavesOK
  BY DEF Init, LastOK, SavedIsLast, PassiveGrabHoldsThePress, ReplayIsLast, SavesOK, Answered, NoneOf,
         KeySavesOK, Sheltered
<1>2. IInv /\ PlayOK /\ LastOK /\ KeySavesOK /\ [Next]_vars => LastOK' /\ KeySavesOK'
  <2>1. ASSUME LastOK, KeySavesOK, UNCHANGED vars PROVE LastOK' /\ KeySavesOK'
    <3>1. Stale' = Stale /\ Early' = Early
      BY <2>1 DEF vars, syncs, Stale, Early, Current
    <3>2. LastOK'
      BY <2>1, <3>1 DEF LastOK, SavedIsLast, PassiveGrabHoldsThePress, ReplayIsLast, SavesOK, Answered,
                        NoneOf, vars, syncs, Current
    <3>3. KeySavesOK'
      BY <2>1 DEF KeySavesOK, NoneOf, Sheltered, NoKeyWaits, Rest, vars, queue
    <3> QED BY <3>2, <3>3
  <2> QED BY <2>1, ServerLast, ServerKeys, IdleLast
<1>3. IInv /\ LastOK => ReplayIsOfTheLast
  BY DEF IInv, EventsOK, SavedOK, LastOK, SavedIsLast, Current, ReplayIsOfTheLast, SavedEventIsTheLast
<1> QED BY <1>1, <1>2, <1>3, Inductive, Playing, PTL DEF Spec

-----------------------------------------------------------------------------
(* The order of the events.                                                *)

Fresh(ev) == ~ev.again
Plain(ev) == ev.type = Motion => ev.dev = "mouse" /\ ~ev.again

\* The queued events of a device are numbered after those that are done, in order.
QueueOK ==
  \A i \in 1 .. Len(pending) :
    /\ Plain(pending[i])
    /\ Fresh(pending[i]) =>
         /\ done[pending[i].dev] < pending[i].n /\ pending[i].n <= sent[pending[i].dev]
         /\ \A j \in 1 .. i - 1 :
              Fresh(pending[j]) /\ pending[j].dev = pending[i].dev => pending[j].n < pending[i].n

\* The event that is on its way to its device comes from the device, which is
\* frozen, after everything queued; or from the queue, before everything queued.
NextOK(ev) ==
  /\ Plain(ev)
  /\ Fresh(ev) =>
       /\ done[ev.dev] < ev.n /\ ev.n <= sent[ev.dev]
       /\ frozen[ev.dev] => ev.n = sent[ev.dev]
       /\ \A i \in 1 .. Len(pending) : Fresh(pending[i]) /\ pending[i].dev = ev.dev =>
            /\ frozen[ev.dev] => pending[i].n < ev.n
            /\ ~frozen[ev.dev] => ev.n < pending[i].n

\* Below the top of the stack only second halves of repeated presses are waiting.
LaterCalls == {x \in Calls : x.op = "input" => x.ev.again /\ x.ev.type # Motion}
TopOK == todo # <<>> => /\ Tail(todo) \in Seq(LaterCalls)
                        /\ Head(todo).op = "input" => NextOK(Head(todo).ev)

\* The last event of a device is done, or queued, or on its way.
InQueue(d) == \E i \in 1 .. Len(pending) :
                Fresh(pending[i]) /\ pending[i].dev = d /\ pending[i].n = sent[d]
OnTop(d) == /\ todo # <<>> /\ Head(todo).op = "input" /\ Fresh(Head(todo).ev)
            /\ Head(todo).ev.dev = d /\ Head(todo).ev.n = sent[d]
LastKept == \A d \in Devices : done[d] <= sent[d] /\ (done[d] = sent[d] \/ InQueue(d) \/ OnTop(d))

KeptOK == QueueOK /\ TopOK /\ LastKept

LEMMA PushedTop ==
  ASSUME NEW S, NEW x \in S, NEW t \in Seq(S)
  PROVE  /\ <<x>> \o t \in Seq(S) /\ <<x>> \o t # <<>>
         /\ Head(<<x>> \o t) = x /\ Tail(<<x>> \o t) = t
  <1> DEFINE p == <<x>>
             s == p \o t
  <1>1. p \in Seq(S) /\ Len(p) = 1 /\ p[1] = x
    OBVIOUS
  <1> HIDE DEF p
  <1>2. s \in Seq(S) /\ Len(s) = 1 + Len(t) /\ Len(t) \in Nat
    BY <1>1, ConcatProperties, LenProperties
  <1>3. \A i \in 1 .. 1 + Len(t) : s[i] = IF i <= 1 THEN x ELSE t[i - 1]
    <2>1. \A i \in 1 .. Len(p) + Len(t) : (p \o t)[i] = IF i <= Len(p) THEN p[i] ELSE t[i - Len(p)]
      BY <1>1, ConcatProperties
    <2> QED BY <1>1, <1>2, <2>1
  <1> HIDE DEF s
  <1>4. s # <<>> /\ Head(s) = s[1]
    BY <1>2
  <1>5. s[1] = x
    BY <1>2, <1>3
  <1>6. Tail(s) \in Seq(S) /\ Len(Tail(s)) = Len(t) /\ \A i \in 1 .. Len(t) : Tail(s)[i] = s[i + 1]
    BY <1>2, <1>4, HeadTailProperties
  <1>7. \A i \in 1 .. Len(t) : Tail(s)[i] = t[i]
    BY <1>2, <1>3, <1>6
  <1>8. Tail(s) = t
    BY <1>6, <1>7, SeqEqual
  <1> QED BY <1>2, <1>4, <1>5, <1>8 DEF s, p

\* The call is on the top of the stack, above calls that are no new events.
FirstOf(s, x) == s # <<>> /\ Head(s) = x /\ Tail(s) \in Seq(LaterCalls)

LEMMA PushedTwo ==
  ASSUME NEW x \in Calls, NEW y \in LaterCalls, NEW t \in Seq(LaterCalls)
  PROVE  FirstOf(<<x, y>> \o t, x)
  <1> DEFINE p == <<x, y>>
             s == p \o t
             u == Tail(s)
  <1>1. p \in Seq(Calls) /\ Len(p) = 2 /\ p[1] = x /\ p[2] = y /\ t \in Seq(Calls)
    BY DEF LaterCalls
  <1> HIDE DEF p
  <1>2. s \in Seq(Calls) /\ Len(s) = 2 + Len(t) /\ Len(t) \in Nat
    <2>1. s \in Seq(Calls) /\ Len(s) = Len(p) + Len(t) /\ Len(t) \in Nat
      BY <1>1, ConcatProperties, LenProperties
    <2> QED BY <1>1, <2>1
  <1>3. \A i \in 1 .. 2 + Len(t) : s[i] = IF i <= 2 THEN p[i] ELSE t[i - 2]
    <2>1. \A i \in 1 .. Len(p) + Len(t) : (p \o t)[i] = IF i <= Len(p) THEN p[i] ELSE t[i - Len(p)]
      BY <1>1, ConcatProperties
    <2> QED BY <1>1, <1>2, <2>1
  <1> HIDE DEF s
  <1>4. s # <<>> /\ Head(s) = s[1] /\ s[1] = x
    BY <1>1, <1>2, <1>3
  <1>5. u \in Seq(Calls) /\ Len(u) = 1 + Len(t) /\ \A i \in 1 .. 1 + Len(t) : u[i] = s[i + 1]
    BY <1>2, <1>4, HeadTailProperties
  <1>6. ASSUME NEW i \in 1 .. 1 + Len(t) PROVE u[i] \in LaterCalls
    <2>1. CASE i = 1
      BY <1>1, <1>2, <1>3, <1>5, <2>1
    <2>2. CASE i # 1
      <3>1. u[i] = t[i - 1] /\ i - 1 \in 1 .. Len(t)
        BY <1>2, <1>3, <1>5, <2>2
      <3> QED BY <3>1, ElementOfSeq
    <2> QED BY <2>1, <2>2
  <1>7. u \in Seq(LaterCalls)
    <2> HIDE DEF u
    <2>1. u = [i \in 1 .. Len(u) |-> u[i]]
      BY <1>5, LenProperties
    <2>2. [i \in 1 .. Len(u) |-> u[i]] \in Seq(LaterCalls)
      BY <1>2, <1>5, <1>6
    <2> QED BY <2>1, <2>2
  <1> QED BY <1>4, <1>7 DEF s, p, FirstOf

LEMMA LaterIsOK ==
  ASSUME todo' \in Seq(LaterCalls)
  PROVE  TopOK'
  <1>1. todo' # <<>> => Head(todo') \in LaterCalls /\ Tail(todo') \in Seq(LaterCalls)
    BY HeadTailProperties
  <1> QED BY <1>1 DEF TopOK, NextOK, Plain, Fresh, LaterCalls

\* No event moves.
LEMMA QuietKept ==
  ASSUME KeptOK, UNCHANGED <<pending, sent, done>>, todo' \in Seq(LaterCalls),
         todo # <<>> => Top.op # "input" \/ ~Fresh(Top.ev)
  PROVE  KeptOK'
  <1>1. QueueOK'
    BY DEF KeptOK, QueueOK
  <1>2. \A d \in Devices : ~OnTop(d)
    BY DEF OnTop, Top
  <1>3. LastKept'
    BY <1>2 DEF KeptOK, LastKept, InQueue
  <1> QED BY <1>1, <1>3, LaterIsOK DEF KeptOK

\* The event on the top reaches its device.
LEMMA ProcessKept ==
  ASSUME KeptOK, EventsOK, todo # <<>>, Top.op = "input", NEW ev \in Events, ev = Top.ev,
         ~frozen[ev.dev], Processed(ev), UNCHANGED <<pending, sent>>, todo' \in Seq(LaterCalls)
  PROVE  KeptOK'
  <1>1. CASE ev.again
    BY <1>1, QuietKept DEF Processed, Fresh
  <1>2. CASE ~ev.again
    <2>1. ev.dev \in Devices /\ done' = [done EXCEPT ![ev.dev] = ev.n] /\ ev.n \in Nat
      BY <1>2 DEF Events, Processed
    <2>2. /\ done[ev.dev] < ev.n /\ ev.n <= sent[ev.dev]
          /\ \A i \in 1 .. Len(pending) : Fresh(pending[i]) /\ pending[i].dev = ev.dev => ev.n < pending[i].n
      BY <1>2 DEF KeptOK, TopOK, NextOK, Fresh, Top
    <2>3. /\ done \in [Devices -> Nat] /\ sent \in [Devices -> Nat]
          /\ \A i \in 1 .. Len(pending) : pending[i] \in Events
      BY ElementOfSeq DEF EventsOK
    <2>4. QueueOK'
      <3> SUFFICES ASSUME NEW i \in 1 .. Len(pending), Fresh(pending[i])
                   PROVE  done'[pending[i].dev] < pending[i].n
        BY DEF KeptOK, QueueOK
      <3>1. pending[i].dev \in Devices /\ done[pending[i].dev] < pending[i].n
        BY <2>3 DEF KeptOK, QueueOK, Events
      <3> QED BY <2>1, <2>2, <2>3, <3>1
    <2>5. LastKept'
      <3> SUFFICES ASSUME NEW d \in Devices
                   PROVE  done'[d] <= sent[d] /\ (done'[d] = sent[d] \/ InQueue(d)')
        BY DEF LastKept
      <3>1. done[d] <= sent[d] /\ (done[d] = sent[d] \/ InQueue(d) \/ OnTop(d))
        BY DEF KeptOK, LastKept
      <3>2. InQueue(d) => InQueue(d)'
        BY DEF InQueue
      <3>3. CASE d = ev.dev
        <4>1. done'[d] = ev.n /\ done[d] # sent[d]
          BY <2>1, <2>2, <2>3, <3>3
        <4>2. OnTop(d) => ev.n = sent[d]
          BY DEF OnTop, Top
        <4> QED BY <2>2, <3>1, <3>2, <3>3, <4>1, <4>2
      <3>4. CASE d # ev.dev
        <4>1. done'[d] = done[d] /\ ~OnTop(d)
          BY <2>1, <2>3, <3>4 DEF OnTop, Top
        <4> QED BY <3>1, <3>2, <4>1
      <3> QED BY <3>3, <3>4
    <2> QED BY <2>4, <2>5, LaterIsOK DEF KeptOK
  <1> QED BY <1>1, <1>2

\* A repeated press is split: its first half stands for it.
LEMMA SplitKept ==
  ASSUME KeptOK, todo # <<>>, Top.op = "input", NEW ev \in Events, ev = Top.ev, ev.type = Press,
         UNCHANGED <<pending, sent, done, frozen>>,
         todo' = <<Input([ev EXCEPT !.type = Release]), Input([ev EXCEPT !.again = TRUE])>> \o Rest
  PROVE  KeptOK'
  <1> DEFINE r == [ev EXCEPT !.type = Release]
             a == [ev EXCEPT !.again = TRUE]
             x == Input(r)
             y == Input(a)
  <1>1. /\ r \in Events /\ a \in Events /\ a.again /\ a.type # Motion
        /\ r.type # Motion /\ r.dev = ev.dev /\ r.n = ev.n /\ r.again = ev.again
    BY DEF Events, Press, Release, Motion
  <1>2. /\ x \in Calls /\ x.op = "input" /\ x.ev = r
        /\ y \in Calls /\ y.op = "input" /\ y.ev = a
    BY <1>1, SimpleCallIsOK DEF OtherCalls, Input, Item
  <1>3. y \in LaterCalls
    BY <1>1, <1>2 DEF LaterCalls
  <1> HIDE DEF r, a, x, y
  <1>4. todo' = <<x, y>> \o Rest /\ Rest \in Seq(LaterCalls)
    BY DEF x, y, r, a, KeptOK, TopOK, Rest
  <1>8. todo' # <<>> /\ Head(todo') = x /\ Tail(todo') \in Seq(LaterCalls)
    <2>1. FirstOf(<<x, y>> \o Rest, x)
      BY <1>2, <1>3, <1>4, PushedTwo
    <2> QED BY <1>4, <2>1 DEF FirstOf
  <1>9. QueueOK'
    BY DEF KeptOK, QueueOK
  <1>10. NextOK(ev)
    BY DEF KeptOK, TopOK, Top
  <1>11. NextOK(r)'
    BY <1>1, <1>10 DEF NextOK, Plain, Fresh
  <1>12. TopOK'
    <2>1. Head(todo').ev = r
      BY <1>2, <1>8
    <2> QED BY <1>8, <1>11, <2>1 DEF TopOK, NextOK
  <1>13. LastKept'
    <2> SUFFICES ASSUME NEW d \in Devices
                 PROVE  done[d] <= sent[d] /\ (done[d] = sent[d] \/ InQueue(d)' \/ OnTop(d)')
      BY DEF LastKept
    <2>1. done[d] <= sent[d] /\ (done[d] = sent[d] \/ InQueue(d) \/ OnTop(d))
      BY DEF KeptOK, LastKept
    <2>2. InQueue(d) => InQueue(d)'
      BY DEF InQueue
    <2>3. OnTop(d) => OnTop(d)'
      BY <1>1, <1>2, <1>8 DEF OnTop, Top, Fresh
    <2> QED BY <2>1, <2>2, <2>3
  <1> QED BY <1>9, <1>12, <1>13 DEF KeptOK

\* A frozen device: the event is queued, or replaces the newest, a motion.
LEMMA EnqueueKept ==
  ASSUME KeptOK, EventsOK, todo # <<>>, NEW ev \in Events, ev = Top.ev, Top.dev = ev.dev, EnqueueEvent
  PROVE  KeptOK'
  <1>1. /\ Top.op = "input" /\ frozen[ev.dev] /\ todo' = Rest /\ UNCHANGED <<sent, done>>
        /\ pending \in Seq(Events) /\ Len(pending) \in Nat
        /\ sent \in [Devices -> Nat] /\ done \in [Devices -> Nat]
        /\ ev.n \in Nat /\ ev.dev \in Devices /\ ev.again \in BOOLEAN
    BY LenProperties DEF EnqueueEvent, Running, EventsOK, Events
  <1>2. TopOK'
    BY <1>1, LaterIsOK DEF KeptOK, TopOK, Rest
  <1>3. NextOK(ev) /\ QueueOK /\ LastKept
    BY <1>1 DEF KeptOK, TopOK, Top
  <1>4. \A i \in 1 .. Len(pending) : pending[i] \in Events
    BY <1>1, ElementOfSeq
  <1>5. \A d \in Devices : OnTop(d) => Fresh(ev) /\ ev.dev = d /\ ev.n = sent[d]
    BY DEF OnTop, Top
  <1>6. CASE Compresses
    <2> DEFINE l == Len(pending)
               old == pending[l]
    <2>1. ev.type = Motion /\ old.type = Motion /\ l \in 1 .. Len(pending)
      BY <1>1, <1>6 DEF Compresses, EventsOK
    <2>2. /\ Fresh(ev) /\ ev.dev = "mouse"
          /\ old \in Events /\ old.dev = "mouse" /\ Fresh(old)
      BY <1>3, <1>4, <2>1 DEF NextOK, QueueOK, Plain, Fresh
    <2>3. pending' = [pending EXCEPT ![l].n = ev.n]
      BY <1>6, <2>1 DEF EnqueueEvent
    <2>4. /\ Len(pending') = Len(pending)
          /\ \A i \in 1 .. Len(pending) : i # l => pending'[i] = pending[i]
          /\ pending'[l].dev = "mouse" /\ Fresh(pending'[l]) /\ pending'[l].n = ev.n
      BY <1>1, <1>4, <2>1, <2>2, <2>3 DEF Fresh, Events
    <2>5. /\ done["mouse"] < ev.n /\ ev.n = sent["mouse"]
          /\ \A i \in 1 .. Len(pending) : Fresh(pending[i]) /\ pending[i].dev = "mouse" => pending[i].n < ev.n
      BY <1>1, <1>3, <2>2 DEF NextOK
    <2> HIDE DEF l, old
    <2>6. QueueOK'
      <3> SUFFICES ASSUME NEW i \in 1 .. Len(pending)
                   PROVE  /\ Plain(pending'[i])
                          /\ Fresh(pending'[i]) =>
                               /\ done[pending'[i].dev] < pending'[i].n /\ pending'[i].n <= sent[pending'[i].dev]
                               /\ \A j \in 1 .. i - 1 : Fresh(pending'[j]) /\ pending'[j].dev = pending'[i].dev
                                                          => pending'[j].n < pending'[i].n
        BY <1>1, <2>4 DEF QueueOK
      <3>1. CASE i # l
        <4>1. pending'[i] = pending[i] /\ \A j \in 1 .. i - 1 : j \in 1 .. Len(pending) /\ j # l
          BY <1>1, <2>1, <2>4, <3>1 DEF l
        <4>2. \A j \in 1 .. i - 1 : pending'[j] = pending[j]
          BY <2>4, <4>1
        <4> QED BY <1>3, <4>1, <4>2 DEF QueueOK
      <3>2. CASE i = l
        <4>1. Plain(pending'[i])
          BY <2>4, <3>2 DEF Plain, Fresh
        <4>2. done["mouse"] < pending'[i].n /\ pending'[i].n <= sent["mouse"] /\ pending'[i].dev = "mouse"
          BY <1>1, <2>4, <2>5, <3>2
        <4>3. ASSUME NEW j \in 1 .. i - 1, Fresh(pending'[j]), pending'[j].dev = "mouse"
              PROVE  pending'[j].n < pending'[i].n
          <5>1. j \in 1 .. Len(pending) /\ pending'[j] = pending[j]
            BY <1>1, <2>4, <3>2
          <5> QED BY <2>4, <2>5, <3>2, <4>3, <5>1
        <4> QED BY <4>1, <4>2, <4>3
      <3> QED BY <3>1, <3>2
    <2>7. LastKept'
      <3> SUFFICES ASSUME NEW d \in Devices
                   PROVE  done[d] <= sent[d] /\ (done[d] = sent[d] \/ InQueue(d)')
        BY <1>1 DEF LastKept
      <3>1. done[d] <= sent[d] /\ (done[d] = sent[d] \/ InQueue(d) \/ OnTop(d))
        BY <1>3 DEF LastKept
      <3>2. CASE d = "mouse"
        BY <1>1, <2>1, <2>4, <2>5, <3>1, <3>2 DEF InQueue
      <3>3. CASE d # "mouse"
        <4>1. ~OnTop(d)
          BY <1>5, <2>2, <3>3
        <4>2. ASSUME InQueue(d) PROVE InQueue(d)'
          <5>1. PICK i \in 1 .. Len(pending) : Fresh(pending[i]) /\ pending[i].dev = d /\ pending[i].n = sent[d]
            BY <4>2 DEF InQueue
          <5>2. i # l
            BY <2>2, <3>3, <5>1 DEF old, l
          <5> QED BY <1>1, <2>4, <5>1, <5>2 DEF InQueue
        <4> QED BY <3>1, <4>1, <4>2
      <3> QED BY <3>2, <3>3
    <2> QED BY <1>2, <2>6, <2>7 DEF KeptOK
  <1>7. CASE ~Compresses
    <2>1. pending' = Append(pending, ev)
      BY <1>7 DEF EnqueueEvent
    <2>2. /\ Len(pending') = Len(pending) + 1
          /\ \A i \in 1 .. Len(pending) : pending'[i] = pending[i]
          /\ pending'[Len(pending) + 1] = ev
      BY <1>1, <2>1
    <2>3. QueueOK'
      <3> SUFFICES ASSUME NEW i \in 1 .. Len(pending) + 1
                   PROVE  /\ Plain(pending'[i])
                          /\ Fresh(pending'[i]) =>
                               /\ done[pending'[i].dev] < pending'[i].n /\ pending'[i].n <= sent[pending'[i].dev]
                               /\ \A j \in 1 .. i - 1 : Fresh(pending'[j]) /\ pending'[j].dev = pending'[i].dev
                                                          => pending'[j].n < pending'[i].n
        BY <1>1, <2>2 DEF QueueOK
      <3>1. \A j \in 1 .. i - 1 : j \in 1 .. Len(pending) /\ pending'[j] = pending[j]
        BY <1>1, <2>2
      <3>2. CASE i \in 1 .. Len(pending)
        BY <1>3, <2>2, <3>1, <3>2 DEF QueueOK
      <3>3. CASE i = Len(pending) + 1
        BY <1>1, <1>3, <2>2, <3>1, <3>3 DEF NextOK
      <3> QED BY <1>1, <3>2, <3>3
    <2>4. LastKept'
      <3> SUFFICES ASSUME NEW d \in Devices
                   PROVE  done[d] <= sent[d] /\ (done[d] = sent[d] \/ InQueue(d)')
        BY <1>1 DEF LastKept
      <3>1. done[d] <= sent[d] /\ (done[d] = sent[d] \/ InQueue(d) \/ OnTop(d))
        BY <1>3 DEF LastKept
      <3>2. ASSUME InQueue(d) PROVE InQueue(d)'
        <4>1. PICK i \in 1 .. Len(pending) : Fresh(pending[i]) /\ pending[i].dev = d /\ pending[i].n = sent[d]
          BY <3>2 DEF InQueue
        <4>2. i \in 1 .. Len(pending')
          BY <1>1, <2>2
        <4> QED BY <1>1, <2>2, <4>1, <4>2 DEF InQueue
      <3>3. ASSUME OnTop(d) PROVE InQueue(d)'
        <4>1. Len(pending) + 1 \in 1 .. Len(pending')
          BY <1>1, <2>2
        <4> QED BY <1>1, <1>5, <2>2, <3>3, <4>1 DEF InQueue
      <3> QED BY <3>1, <3>2, <3>3
    <2> QED BY <1>2, <2>3, <2>4 DEF KeptOK
  <1> QED BY <1>6, <1>7

\* The first queued event whose device is free is on its way to it.
LEMMA PlayKept ==
  ASSUME KeptOK, EventsOK, StackOK, todo # <<>>, PlayReleasedEvents
  PROVE  KeptOK'
  <1>1. PICK i \in 1 .. Len(pending) :
               FirstPlayable(i) /\ todo' = <<Input(pending[i])>> \o todo /\ pending' = Unlinked(i)
    BY DEF PlayReleasedEvents
  <1>2. Top.op = "play" /\ UNCHANGED <<sent, done, frozen>>
    BY DEF PlayReleasedEvents, Running, syncs
  <1>3. pending \in Seq(Events) /\ Len(pending) \in Nat /\ \A j \in 1 .. Len(pending) : pending[j] \in Events
    BY ElementOfSeq, LenProperties DEF EventsOK
  <1>30. PICK ev \in Events : ev = pending[i]
    BY <1>3
  <1> DEFINE m(j) == IF j < i THEN j ELSE j + 1
             x == Input(ev)
  <1>4. Len(pending') = Len(pending) - 1 /\ \A j \in 1 .. Len(pending) - 1 : pending'[j] = pending[m(j)]
    BY <1>1, <1>3, UnlinkedItems
  <1>5. \A j \in 1 .. Len(pending) - 1 : m(j) \in 1 .. Len(pending) /\ m(j) # i
    BY <1>3
  <1>6. ASSUME NEW j \in 1 .. Len(pending) - 1, NEW k \in 1 .. j - 1
        PROVE  k \in 1 .. Len(pending) - 1 /\ m(k) \in 1 .. m(j) - 1
    BY <1>3
  <1>7. \A k \in 1 .. Len(pending) : k # i => \E j \in 1 .. Len(pending) - 1 : m(j) = k
    <2> SUFFICES ASSUME NEW k \in 1 .. Len(pending), k # i
                 PROVE  \E j \in 1 .. Len(pending) - 1 : m(j) = k
      OBVIOUS
    <2>1. CASE k < i
      <3>1. k \in 1 .. Len(pending) - 1 /\ m(k) = k
        BY <1>3, <2>1
      <3> QED BY <3>1
    <2>2. CASE k > i
      <3>1. k - 1 \in 1 .. Len(pending) - 1 /\ m(k - 1) = k
        BY <1>3, <2>2
      <3> QED BY <3>1
    <2> QED BY <1>3, <2>1, <2>2
  <1>8. x.op = "input" /\ x.ev = ev /\ x \in Calls /\ todo' = <<x>> \o todo
    BY <1>1, <1>30, SimpleCallIsOK DEF Input, Item, OtherCalls
  <1>9. QueueOK /\ LastKept /\ ~frozen[ev.dev]
    BY <1>1, <1>30 DEF KeptOK, FirstPlayable, Playable
  <1> HIDE DEF m, x
  <1>10. QueueOK'
    <2> SUFFICES ASSUME NEW j \in 1 .. Len(pending) - 1
                 PROVE  /\ Plain(pending'[j])
                        /\ Fresh(pending'[j]) =>
                             /\ done[pending'[j].dev] < pending'[j].n /\ pending'[j].n <= sent[pending'[j].dev]
                             /\ \A k \in 1 .. j - 1 : Fresh(pending'[k]) /\ pending'[k].dev = pending'[j].dev
                                                        => pending'[k].n < pending'[j].n
      BY <1>2, <1>4 DEF QueueOK
    <2>1. pending'[j] = pending[m(j)] /\ m(j) \in 1 .. Len(pending)
      BY <1>4, <1>5
    <2>2. \A k \in 1 .. j - 1 : pending'[k] = pending[m(k)] /\ m(k) \in 1 .. m(j) - 1
      BY <1>4, <1>6
    <2> QED BY <1>9, <2>1, <2>2 DEF QueueOK
  <1>11. NextOK(ev)'
    <2>1. Plain(ev) /\ (Fresh(ev) => done[ev.dev] < ev.n /\ ev.n <= sent[ev.dev])
      BY <1>9, <1>30 DEF QueueOK
    <2>2. ASSUME Fresh(ev), NEW j \in 1 .. Len(pending) - 1, Fresh(pending'[j]), pending'[j].dev = ev.dev
          PROVE  ev.n < pending'[j].n
      <3>1. pending'[j] = pending[m(j)] /\ m(j) \in 1 .. Len(pending) /\ m(j) # i
        BY <1>4, <1>5
      <3>2. m(j) \in Playable
        BY <1>9, <2>2, <3>1 DEF Playable
      <3>3. i < m(j)
        BY <1>1, <1>3, <3>1, <3>2 DEF FirstPlayable
      <3>4. i \in 1 .. m(j) - 1
        BY <1>3, <3>1, <3>3
      <3> QED BY <1>9, <1>30, <2>2, <3>1, <3>4 DEF QueueOK
    <2> QED BY <1>2, <1>4, <1>9, <2>1, <2>2 DEF NextOK
  <1>12. todo' # <<>> /\ Head(todo') = x /\ Tail(todo') \in Seq(LaterCalls)
    <2>1. Top \in LaterCalls /\ Top \in Calls
      BY <1>2, StackTop DEF LaterCalls
    <2>2. Rest \in Seq(LaterCalls)
      BY DEF KeptOK, TopOK, Rest
    <2>3. todo = <<Top>> \o Rest
      BY HeadTailProperties DEF StackOK, Top, Rest
    <2>4. todo \in Seq(LaterCalls)
      BY <2>1, <2>2, <2>3, PushedTop
    <2>5. todo \in Seq(Calls)
      BY DEF StackOK
    <2>6. Head(<<x>> \o todo) = x /\ Tail(<<x>> \o todo) = todo /\ <<x>> \o todo # <<>>
      BY <1>8, <2>5, PushedTop
    <2> QED BY <1>8, <2>4, <2>6
  <1>13. TopOK'
    BY <1>8, <1>11, <1>12 DEF TopOK, NextOK
  <1>14. LastKept'
    <2> SUFFICES ASSUME NEW d \in Devices
                 PROVE  done[d] <= sent[d] /\ (done[d] = sent[d] \/ InQueue(d)' \/ OnTop(d)')
      BY <1>2 DEF LastKept
    <2>1. done[d] <= sent[d] /\ (done[d] = sent[d] \/ InQueue(d))
      BY <1>2, <1>9 DEF LastKept, OnTop, Top
    <2>2. ASSUME InQueue(d) PROVE InQueue(d)' \/ OnTop(d)'
      <3>1. PICK k \in 1 .. Len(pending) : Fresh(pending[k]) /\ pending[k].dev = d /\ pending[k].n = sent[d]
        BY <2>2 DEF InQueue
      <3>2. CASE k = i
        BY <1>2, <1>8, <1>12, <1>30, <3>1, <3>2 DEF OnTop
      <3>3. CASE k # i
        <4>1. PICK j \in 1 .. Len(pending) - 1 : m(j) = k
          BY <1>7, <3>3
        <4>2. pending'[j] = pending[k] /\ j \in 1 .. Len(pending')
          BY <1>4, <4>1
        <4> QED BY <1>2, <3>1, <4>2 DEF InQueue
      <3> QED BY <3>2, <3>3
    <2> QED BY <2>1, <2>2
  <1> QED BY <1>10, <1>13, <1>14 DEF KeptOK

\* A device produces its next event.
LEMMA InputKept ==
  ASSUME IInv, KeptOK, NoStrandedEvents, NEW d \in Devices, NEW type \in {Press, Release, Motion},
         DeviceInput(d, type)
  PROVE  KeptOK'
<1> DEFINE n == 1 + (IF sent["mouse"] > sent["keybd"] THEN sent["mouse"] ELSE sent["keybd"])
           ev == [dev |-> d, type |-> type, n |-> n, again |-> FALSE]
           x == Input(ev)
<1>1. /\ sent \in [Devices -> Nat] /\ done \in [Devices -> Nat]
      /\ \A i \in 1 .. Len(pending) : pending[i] \in Events /\ pending[i].dev \in Devices
  <2>1. \A i \in 1 .. Len(pending) : pending[i] \in Events
    BY ElementOfSeq DEF IInv, EventsOK
  <2> QED BY <2>1 DEF IInv, EventsOK, Events
<1>2. n \in Nat /\ \A e \in Devices : sent[e] < n
  BY <1>1 DEF Devices
<1>3. ev \in Events
  BY <1>2 DEF Events
<1>4. x \in Calls /\ x.op = "input" /\ x.ev = ev
  BY <1>3, SimpleCallIsOK DEF Input, Item, OtherCalls
<1>5. /\ ev.dev = d /\ ev.n = n /\ ~ev.again /\ ev.type = type /\ (type = Motion => d = "mouse")
      /\ sent' = [sent EXCEPT ![d] = n] /\ todo' = <<x>> /\ todo = <<>>
      /\ UNCHANGED <<pending, done, frozen>>
  BY DEF DeviceInput, Idle, queue, syncs
<1> HIDE DEF n, ev, x
<1>6. Head(todo') = x /\ Tail(todo') \in Seq(LaterCalls) /\ todo' # <<>>
  <2>1. Tail(<<x>>) = <<>> /\ Head(<<x>>) = x /\ <<x>> # <<>>
    BY <1>4
  <2> QED BY <1>5, <2>1
<1>7. \A i \in 1 .. Len(pending) : frozen[pending[i].dev]
  BY <1>5 DEF NoStrandedEvents, Idle
<1>8. QueueOK'
  <2>1. ASSUME NEW i \in 1 .. Len(pending), pending[i].n <= sent[pending[i].dev]
        PROVE  pending[i].n <= sent'[pending[i].dev]
    <3>1. pending[i].n \in Nat /\ pending[i].dev \in Devices
      BY <1>1 DEF Events
    <3>2. sent[pending[i].dev] <= sent'[pending[i].dev] /\ sent[pending[i].dev] \in Nat
          /\ sent'[pending[i].dev] \in Nat
      BY <1>1, <1>2, <1>5, <3>1
    <3> QED BY <2>1, <3>1, <3>2
  <2> QED BY <1>5, <2>1 DEF KeptOK, QueueOK
<1>9. TopOK'
  <2>1. done[d] < n /\ n <= sent'[d] /\ sent'[d] = n
    <3>1. done[d] <= sent[d]
      BY DEF KeptOK, LastKept
    <3> QED BY <1>1, <1>2, <1>5, <3>1
  <2>2. ASSUME NEW i \in 1 .. Len(pending), Fresh(pending[i]), pending[i].dev = d
        PROVE  frozen[d] /\ pending[i].n < n
    <3>1. pending[i].n <= sent[d] /\ pending[i].n \in Nat
      BY <1>1, <2>2 DEF KeptOK, QueueOK, Events
    <3> QED BY <1>1, <1>2, <1>7, <2>2, <3>1
  <2> QED BY <1>4, <1>5, <1>6, <2>1, <2>2 DEF TopOK, NextOK, Plain, Fresh
<1>10. LastKept'
  <2> SUFFICES ASSUME NEW e \in Devices
               PROVE  done[e] <= sent'[e] /\ (done[e] = sent'[e] \/ InQueue(e)' \/ OnTop(e)')
    BY <1>5 DEF LastKept
  <2>1. done[e] <= sent[e] /\ (done[e] = sent[e] \/ InQueue(e))
    BY <1>5 DEF KeptOK, LastKept, OnTop
  <2>2. CASE e = d
    <3>1. done[e] <= sent'[e]
      BY <1>1, <1>2, <1>5, <2>1, <2>2
    <3>2. OnTop(e)'
      BY <1>1, <1>4, <1>5, <1>6, <2>2 DEF OnTop, Fresh
    <3> QED BY <3>1, <3>2
  <2>3. CASE e # d
    <3>1. sent'[e] = sent[e]
      BY <1>1, <1>5, <2>3
    <3>2. InQueue(e) => InQueue(e)'
      BY <1>5, <3>1 DEF InQueue
    <3> QED BY <2>1, <3>1, <3>2
  <2> QED BY <2>2, <2>3
<1> QED BY <1>8, <1>9, <1>10 DEF KeptOK

LEMMA LaterSimpleCalls ==
  /\ \A ev \in Events, a \in Arguments : Save(ev, a) \in LaterCalls
  /\ PlayReleased \in LaterCalls /\ Restructure \in LaterCalls
  /\ \A c \in Clients : ReleaseGrabs(c) \in LaterCalls /\ FreeResources(c) \in LaterCalls
  /\ UnmapCalls \subseteq LaterCalls
  /\ \A x \in Calls : x.op # "input" => x \in LaterCalls
  BY SimpleCallIsOK DEF LaterCalls, OtherCalls, UnmapCalls, Save, PlayReleased, Restructure, ReleaseGrabs,
                        FreeResources, Item

\* ComputeFreezes puts no new event on the stack.
LEMMA FreezingLater ==
  ASSUME NEW rest \in Seq(LaterCalls), ComputeFreezes(<<>>, rest)
  PROVE  todo' \in Seq(LaterCalls)
  <1> DEFINE p == PlayReleased
  <1>1. p \in LaterCalls /\ todo' \in {rest, <<>> \o <<p>> \o rest}
    BY LaterSimpleCalls DEF ComputeFreezes
  <1> HIDE DEF p
  <1>2. <<>> \o <<p>> = <<p>> /\ <<p>> \in Seq(LaterCalls)
    BY <1>1
  <1> QED BY <1>1, <1>2, Concatenation

LEMMA ServerKept ==
  ASSUME IInv, KeptOK, ServerStep
  PROVE  KeptOK'
<1> USE DEF IInv
<1>0. /\ todo # <<>>
      /\ Top \in Calls /\ Top.ev \in Events /\ Top.dev \in Devices /\ Top.ev.dev \in Devices
      /\ (Top.op \in {"input", "save"} => Top.ev.dev = Top.dev)
      /\ Rest \in Seq(LaterCalls)
      /\ (Top.op # "input" => todo \in Seq(LaterCalls))
  <2>1. todo # <<>>
    BY DEF ServerStep, Running, EnqueueEvent, ProcessPress, ProcessRelease, ProcessMotion,
           SaveEvent, ReplaySavedEvent, PlayReleasedEvents, PlayingEnds, DropGrab,
           WindowsRestructured, FreeWindowResources, ReleaseActiveGrabs, FreeClientResources
  <2>2. Rest \in Seq(LaterCalls)
    BY <2>1 DEF KeptOK, TopOK, Rest
  <2>3. Top \in Calls /\ todo = <<Top>> \o Rest
    BY <2>1, HeadTailProperties DEF StackOK, Top, Rest
  <2>4. ASSUME Top.op # "input" PROVE todo \in Seq(LaterCalls)
    <3>1. Top \in LaterCalls
      BY <2>3, <2>4, LaterSimpleCalls
    <3> QED BY <2>2, <2>3, <3>1, PushedTop
  <2> QED BY <2>1, <2>2, <2>3, <2>4 DEF Calls, Events
<1>01. PICK ev \in Events : ev = Top.ev
  BY <1>0
<1>02. ASSUME NEW e \in Events, NEW above \in Arguments, NEW path, ActivatePassiveGrab(e, above, path)
       PROVE  todo' \in Seq(LaterCalls)
  <2>1. ComputeFreezes(<<>>, <<Save(e, above)>> \o Rest)
    BY <1>02 DEF ActivatePassiveGrab, ActivateGrab
  <2>2. Save(e, above) \in LaterCalls
    BY LaterSimpleCalls
  <2>3. <<Save(e, above)>> \o Rest \in Seq(LaterCalls)
    BY <1>0, <2>2, PushedTop
  <2> QED BY <2>1, <2>3, FreezingLater
<1>03. ASSUME Top.op # "input", UNCHANGED <<pending, sent, done>>, todo' \in Seq(LaterCalls)
       PROVE  KeptOK'
  BY <1>03, QuietKept
<1>1. CASE EnqueueEvent
  BY <1>0, <1>01, <1>1, EnqueueKept DEF EnqueueEvent, Running
<1>2. CASE ProcessPress
  <2>1. Top.op = "input" /\ ~frozen[ev.dev] /\ ev.type = Press /\ UNCHANGED <<pending, sent>>
    BY <1>0, <1>01, <1>2 DEF ProcessPress, Running, queue
  <2>2. CASE ev.dev = "keybd" /\ down["keybd"] /\ ~KeyIsModifier
    <3>1. /\ UNCHANGED <<done, frozen>>
          /\ todo' = <<Input([ev EXCEPT !.type = Release]), Input([ev EXCEPT !.again = TRUE])>> \o Rest
      BY <1>01, <1>2, <2>2 DEF ProcessPress, syncs
    <3> QED BY <1>0, <1>01, <2>1, <3>1, SplitKept
  <2>3. CASE ev.dev = "keybd" /\ down["keybd"] /\ KeyIsModifier
    <3>1. Processed(ev) /\ todo' = Rest
      BY <1>01, <1>2, <2>3 DEF ProcessPress
    <3> QED BY <1>0, <1>01, <2>1, <3>1, ProcessKept
  <2>4. CASE ~(ev.dev = "keybd" /\ down["keybd"])
    <3>1. Processed(ev) /\ (ActivatePassiveGrab(ev, 0, trace) \/ Deliver(ev))
      BY <1>01, <1>2, <2>4 DEF ProcessPress
    <3>2. Deliver(ev) => todo' = Rest
      BY DEF Deliver, DeliverGrabbedEvent, DeliverUngrabbed
    <3>3. todo' \in Seq(LaterCalls)
      BY <1>0, <1>02, <3>1, <3>2, ZeroIsAnArgument
    <3> QED BY <1>0, <1>01, <2>1, <3>1, <3>3, ProcessKept
  <2> QED BY <2>2, <2>3, <2>4
<1>3. CASE ProcessRelease
  <2>1. Top.op = "input" /\ ~frozen[ev.dev] /\ UNCHANGED <<pending, sent>> /\ Processed(ev)
    BY <1>0, <1>01, <1>3 DEF ProcessRelease, Running, queue
  <2>2. todo' = Rest \/ DeactivateGrab(ev.dev, <<>>, Rest)
    BY <1>01, <1>3 DEF ProcessRelease, Deliver, DeliverGrabbedEvent, DeliverUngrabbed
  <2>3. todo' \in Seq(LaterCalls)
    BY <1>0, <2>2, FreezingLater DEF DeactivateGrab
  <2> QED BY <1>0, <1>01, <2>1, <2>3, ProcessKept
<1>4. CASE ProcessMotion
  <2>1. Top.op = "input" /\ ~frozen[ev.dev] /\ UNCHANGED <<pending, sent>> /\ Processed(ev) /\ todo' = Rest
    BY <1>0, <1>01, <1>4 DEF ProcessMotion, Running, queue
  <2> QED BY <1>0, <1>01, <2>1, ProcessKept
<1>5. CASE SaveEvent \/ PlayingEnds \/ WindowsRestructured \/ FreeWindowResources
  <2>1. Top.op # "input" /\ UNCHANGED <<pending, sent, done>> /\ todo' = Rest
    BY <1>5 DEF SaveEvent, PlayingEnds, WindowsRestructured, FreeWindowResources, Running, queue
  <2> QED BY <1>0, <1>03, <2>1
<1>6. CASE ReplaySavedEvent
  <2>1. /\ Top.op # "input" /\ UNCHANGED <<pending, sent, done>>
        /\ saved[Top.dev] \in Events /\ Top.arg \in Arguments
    BY <1>0, <1>6 DEF ReplaySavedEvent, Running, queue, EventsOK, SavedOK, Calls
  <2>2. ActivatePassiveGrab(saved[Top.dev], Top.arg, realized) \/ todo' = Rest
    BY <1>6 DEF ReplaySavedEvent, DeliverUngrabbed
  <2>3. todo' \in Seq(LaterCalls)
    BY <1>0, <1>02, <2>1, <2>2
  <2> QED BY <1>03, <2>1, <2>3
<1>7. CASE PlayReleasedEvents
  BY <1>0, <1>7, PlayKept
<1>8. CASE DropGrab
  <2>1. Top.op # "input" /\ UNCHANGED <<pending, sent, done>>
    BY <1>8 DEF DropGrab, Running, queue
  <2>2. todo' = Rest \/ DeactivateGrab(Top.dev, <<>>, Rest)
    BY <1>8 DEF DropGrab
  <2>3. todo' \in Seq(LaterCalls)
    BY <1>0, <2>2, FreezingLater DEF DeactivateGrab
  <2> QED BY <1>03, <2>1, <2>3
<1>9. CASE ReleaseActiveGrabs
  <2>1. Top.op # "input" /\ UNCHANGED <<pending, sent, done>>
    BY <1>9 DEF ReleaseActiveGrabs, Running, queue
  <2>2. todo' = Rest \/ \E d \in Devices : DeactivateGrab(d, <<>>, todo)
    BY <1>9 DEF ReleaseActiveGrabs
  <2>3. todo' \in Seq(LaterCalls)
    BY <1>0, <2>1, <2>2, FreezingLater DEF DeactivateGrab
  <2> QED BY <1>03, <2>1, <2>3
<1>10. CASE FreeClientResources
  <2>1. Top.op = "free" /\ UNCHANGED <<pending, sent, done>>
    BY <1>10 DEF FreeClientResources, Running, queue
  <2>2. CASE todo' \in {todo, Rest}
    BY <1>0, <1>03, <2>1, <2>2
  <2>3. ASSUME NEW w \in 1 .. exists, Owner[w] = Top.arg, todo' = Unmapping(w) \o Freeing(w) \o todo
        PROVE  KeptOK'
    <3>1. w \in Windows /\ w >= 2
      <4>1. Top.arg # None
        BY <1>0, <2>1, SyncGrabsAssumption DEF Calls
      <4>2. w # Root
        BY <2>3, <4>1, SyncGrabsAssumption
      <4> QED BY <4>2, SyncGrabsAssumption DEF WorldOK, Windows, Root
    <3>2. Unmapping(w) \o Freeing(w) \in Seq(UnmapCalls)
      BY <3>1, UnmappingItems, Concatenation
    <3>3. Unmapping(w) \o Freeing(w) \in Seq(LaterCalls)
      BY <3>2, LaterSimpleCalls
    <3>4. todo' \in Seq(LaterCalls)
      BY <1>0, <2>1, <2>3, <3>3, Concatenation
    <3> QED BY <1>03, <2>1, <3>4
  <2> QED BY <1>10, <2>2, <2>3 DEF FreeClientResources
<1> QED BY <1>1, <1>2, <1>3, <1>4, <1>5, <1>6, <1>7, <1>8, <1>9, <1>10 DEF ServerStep

\* A request moves no event.
LEMMA IdleKept ==
  ASSUME IInv, KeptOK, NoStrandedEvents, Next, ~ServerStep
  PROVE  KeptOK'
<1> USE DEF IInv
<1>0. todo = <<>>
  BY DEF Next, Request, DeviceInput, UngrabDevice, GrabDevice, AllowAsync, AllowSync, AllowReplay,
         AllowBoth, AllowsRequest, UngrabPassive, CloseDownClient, UnmapWindow, MapWindow,
         DestroyWindow, Idle
<1>1. ASSUME UNCHANGED <<pending, sent, done>>, todo' \in Seq(LaterCalls) PROVE KeptOK'
  BY <1>0, <1>1, QuietKept
<1>2. <<>> \in Seq(LaterCalls)
  OBVIOUS
<1>3. ASSUME NEW c \in Clients, Request(c) PROVE KeptOK'
  <2>1. UNCHANGED <<pending, sent, done>>
    BY <1>3 DEF Request, UngrabDevice, GrabDevice, AllowAsync, AllowSync, AllowReplay, AllowBoth,
                UngrabPassive, CloseDownClient, queue
  <2>2. ASSUME ComputeFreezes(<<>>, <<>>) PROVE KeptOK'
    BY <1>1, <1>2, <2>1, <2>2, FreezingLater
  <2>3. ASSUME NEW d \in Devices, AllowReplay(c, d) PROVE KeptOK'
    <3> DEFINE r == Replay(d, grab[d].window)
               p == PlayReleased
    <3>1. r \in LaterCalls
      <4>1. grab[d].window \in Windows
        BY SyncGrabsAssumption DEF SyncsOK, Grabs, NoGrab, Windows, Root
      <4>2. r \in Calls /\ r.op = "replay"
        BY <4>1, WindowCalls DEF Replay, Item
      <4> HIDE DEF r
      <4> QED BY <4>2, LaterSimpleCalls
    <3>2. p \in LaterCalls
      BY LaterSimpleCalls
    <3>3. todo' \in {<<>>, <<r>> \o <<p>> \o <<>>}
      BY <2>3 DEF AllowReplay, ComputeFreezes
    <3> HIDE DEF r, p
    <3>4. <<r>> \in Seq(LaterCalls) /\ <<p>> \in Seq(LaterCalls)
      BY <3>1, <3>2
    <3>5. todo' \in Seq(LaterCalls)
      BY <1>2, <3>3, <3>4, Concatenation
    <3> QED BY <1>1, <2>1, <3>5
  <2>4. ASSUME CloseDownClient(c) PROVE KeptOK'
    <3>1. ReleaseGrabs(c) \in LaterCalls /\ FreeResources(c) \in LaterCalls
      BY LaterSimpleCalls
    <3>2. todo' \in Seq(LaterCalls)
      BY <2>4, <3>1 DEF CloseDownClient
    <3> QED BY <1>1, <2>1, <3>2
  <2>5. ASSUME NEW p \in passive, UngrabPassive(p) PROVE KeptOK'
    BY <1>0, <1>1, <1>2, <2>1, <2>5 DEF UngrabPassive
  <2> QED BY <1>3, <2>2, <2>3, <2>4, <2>5
          DEF Request, GrabDevice, ActivateGrab, UngrabDevice, DeactivateGrab, AllowAsync, AllowSync, AllowBoth
<1>4. ASSUME NEW w \in Windows, UnmapWindow(w) \/ MapWindow(w) \/ DestroyWindow(w) PROVE KeptOK'
  <2>1. UNCHANGED <<pending, sent, done>>
    BY <1>4 DEF UnmapWindow, MapWindow, DestroyWindow, queue
  <2>2. todo' \in Seq(LaterCalls)
    <3>1. CASE UnmapWindow(w) \/ DestroyWindow(w)
      <4>1. w >= 2 /\ todo' \in {Unmapping(w), Unmapping(w) \o Freeing(w)}
        BY <3>1 DEF UnmapWindow, DestroyWindow, WorldOK, Windows
      <4>2. todo' \in Seq(UnmapCalls)
        BY <4>1, UnmappingItems, Concatenation
      <4> QED BY <4>2, LaterSimpleCalls
    <3>2. CASE MapWindow(w)
      BY <3>2, LaterSimpleCalls DEF MapWindow
    <3> QED BY <1>4, <3>1, <3>2
  <2> QED BY <1>1, <2>1, <2>2
<1> QED BY <1>3, <1>4, InputKept DEF Next

\* The events of a device reach it in the order in which it produced them, each
\* once, through freezes, replays that run inside each other and presses that are
\* split in two; only a motion may be replaced, by a later one, and when the
\* server waits its last event is done or queued.
THEOREM EventsStay == Spec => []EventsAreKept
<1>1. Init => KeptOK
  BY DEF Init, KeptOK, QueueOK, TopOK, LastKept
<1>2. IInv /\ KeptOK /\ NoStrandedEvents /\ [Next]_vars => KeptOK'
  <2>1. ASSUME KeptOK, UNCHANGED vars PROVE KeptOK'
    BY <2>1 DEF KeptOK, QueueOK, TopOK, NextOK, LastKept, InQueue, OnTop, vars, syncs, queue
  <2> QED BY <2>1, ServerKept, IdleKept
<1>3. KeptOK => EventsAreKept
  <2>1. KeptOK => InOrder
    BY DEF KeptOK, QueueOK, Fresh, InOrder
  <2>2. KeptOK => NothingLost
    BY DEF KeptOK, LastKept, InQueue, OnTop, Idle, NothingLost
  <2> QED BY <2>1, <2>2 DEF EventsAreKept
<1> QED BY <1>1, <1>2, <1>3, Inductive, NothingStranded, PTL DEF Spec
=============================================================================
