----------------------------- MODULE ServerGrab -----------------------------
(***************************************************************************)
(* Which clients the server listens to: the dispatch loop, GrabServer and  *)
(* UngrabServer (dix/dispatch.c), the descriptor masks behind them         *)
(* (os/connection.c), the scheduling of input buffers (os/io.c,            *)
(* os/WaitFor.c) and the sleep and work queues (dix/dixutils.c).           *)
(*                                                                         *)
(* A client, its index in clients[] and its file descriptor are one thing  *)
(* here.  What a client asks for is chosen when the server reads it: a     *)
(* buffer is the number of whole requests in it, and a partial request is  *)
(* one that has not arrived.  Not modelled: server resets, the timeout of  *)
(* clients that never finish their setup, and output.                      *)
(***************************************************************************)
EXTENDS Integers, Sequences, FiniteSets

CONSTANTS
    MaxClients,     \* clients are 1 .. MaxClients (clients[0] is the server)
    WordSize,       \* clients per word of grabWaiters (32 in the code)
    MaxRequests,    \* bound on the requests in a buffer and in a socket
    MaxPending,     \* bound on the requests in all of them
    Requests,       \* the kinds of request clients make in this instance
    Dumb,           \* SmartScheduleDisable
    Breaks,         \* whether connections break
    Retains         \* whether clients ask for RetainPermanent or -Temporary

Clients == 1 .. MaxClients
NoClient == 0

AllRequests == {"Other", "GrabServer", "UngrabServer", "KillClient",
                "Sleep", "Impervious", "Pervious"}

ASSUME ServerGrabAssumption ==
    /\ MaxClients \in Nat \ {0}
    /\ WordSize \in Nat \ {0}
    /\ MaxRequests \in Nat \ {0}
    /\ MaxPending \in Nat
    /\ Requests \subseteq AllRequests
    /\ Dumb \in BOOLEAN
    /\ Breaks \in BOOLEAN
    /\ Retains \in BOOLEAN

VARIABLES
    masks,          \* the masks of os/connection.c, see Masks
    grabState,      \* "None", "Kickout" or "Active"
    grabClient,
    grabWaiters,    \* clients whose GrabServer waits for the grab to end
    connected,      \* clients with a connection (osPrivate)
    retained,       \* clients that are gone (clientGone) but keep their slot
    sleepQueue,     \* clients in the middle of a request that was suspended
    signalled,      \* workQueue: sleepers whose request goes on, and then
    accepting,      \* whether there are connections to accept
    ready,          \* clientReady: the rest of the round
    current,        \* the client whose slice it is
    closing,        \* the calls of CloseDownClient that are under way
    buffer,         \* whole requests in each client's input buffer
    socket,         \* requests sent and not yet read
    retry,          \* clients whose next request is a GrabServer that was reset
    hungUp,         \* clients that closed their end
    failed          \* clients with noClientException set

vars == <<masks, grabState, grabClient, grabWaiters, connected, retained,
          sleepQueue, signalled, accepting, ready, current, closing, buffer, socket,
          retry, hungUp, failed>>

grabVars   == <<grabState, grabClient, grabWaiters>>
clientVars == <<connected, retained, hungUp, failed>>
inputVars  == <<buffer, socket, retry>>
queueVars  == <<sleepQueue, signalled, accepting>>

-----------------------------------------------------------------------------
(* The masks of os/connection.c.  AllSockets follows AllClients on the      *)
(* descriptors of clients and is left out.  The saved masks mean something  *)
(* only while a grab is in progress; they are empty otherwise.              *)

Masks == [all : SUBSET Clients,             \* AllClients
          input : SUBSET Clients,           \* ClientsWithInput
          saved : SUBSET Clients,           \* SavedAllClients
          savedInput : SUBSET Clients,      \* SavedClientsWithInput
          ignoredInput : SUBSET Clients,    \* IgnoredClientsWithInput
          impervious : SUBSET Clients,      \* GrabImperviousClients
          grab : Clients \cup {NoClient}]   \* GrabInProgress

\* Mutant: the pending input of the others is forgotten.
OnlyListenForgetsInput(m, c) ==
    IF m.grab # NoClient THEN m
    ELSE [m EXCEPT !.input = @ \cap (m.impervious \cup {c}), !.saved = m.all,
                   !.all = (@ \cap m.impervious) \cup {c}, !.grab = c]

OnlyListenToOneClient(m, c) ==
    IF m.grab # NoClient THEN m
    ELSE [m EXCEPT
            !.savedInput = m.input \ (m.impervious \cup {c}),
            !.input      = m.input \cap (m.impervious \cup {c}),
            !.saved      = m.all,
            !.all        = (m.all \cap m.impervious) \cup {c},
            !.grab       = c]

\* Mutant: GrabInProgress is not reset.
ListenToAllButGrabbed(m) ==
    [m EXCEPT !.all = @ \cup m.saved, !.input = @ \cup m.savedInput]

ListenToAllClients(m) ==
    [m EXCEPT
        !.all = @ \cup m.saved, !.input = @ \cup m.savedInput,
        !.saved = {}, !.savedInput = {}, !.grab = NoClient]

\* IgnoredClientsWithInput remembers whether c had a request left.
RememberInput(m, c, had) ==
    IF had THEN m.ignoredInput \cup {c} ELSE m.ignoredInput \ {c}

\* Mutant: only the pending input goes, select still reports the client.
IgnoreInputOnly(m, c) ==
    [m EXCEPT !.ignoredInput = RememberInput(m, c, c \in m.input),
              !.input = @ \ {c}]

IgnoreClient(m, c) ==
    IF m.grab = NoClient \/ c \in m.all
    THEN [m EXCEPT !.ignoredInput = RememberInput(m, c, c \in m.input),
                   !.input = @ \ {c}, !.all = @ \ {c}]
    ELSE [m EXCEPT !.ignoredInput = RememberInput(m, c, c \in m.savedInput),
                   !.savedInput = @ \ {c}, !.saved = @ \ {c}]

AttendClient(m, c) ==
    LET had == {c} \cap m.ignoredInput
    IN  IF m.grab \in {NoClient, c} \/ c \in m.impervious
        THEN [m EXCEPT !.all = @ \cup {c}, !.input = @ \cup had]
        ELSE [m EXCEPT !.saved = @ \cup {c}, !.savedInput = @ \cup had]

MakeClientGrabImpervious(m, c) == [m EXCEPT !.impervious = @ \cup {c}]

MakeClientGrabPervious(m, c) ==
    IF m.grab \in {NoClient, c}
    THEN [m EXCEPT !.impervious = @ \ {c}]
    ELSE [m EXCEPT !.impervious = @ \ {c},
                   !.savedInput = @ \cup ({c} \cap m.input),
                   !.input = @ \ {c}, !.all = @ \ {c}]

\* Mutant: a connection made during a grab is lost when the grab ends.
AllocNothingInGrab(m, c) ==
    IF m.grab = NoClient THEN [m EXCEPT !.all = @ \cup {c}] ELSE m

AllocNewConnection(m, c) ==
    IF m.grab = NoClient
    THEN [m EXCEPT !.all = @ \cup {c}]
    ELSE [m EXCEPT !.saved = @ \cup {c}]

\* Mutant: the saved masks keep the descriptor.
CloseDownUnsaved(m, c) ==
    [m EXCEPT !.all = @ \ {c}, !.input = @ \ {c}, !.impervious = @ \ {c}]

\* IgnoredClientsWithInput is not cleared.
CloseDownFileDescriptor(m, c) ==
    [m EXCEPT !.all = @ \ {c}, !.input = @ \ {c}, !.impervious = @ \ {c},
              !.saved = @ \ {c}, !.savedInput = @ \ {c}]

\* The mask part of ResetCurrentRequest: c has the request before it again.
ResetCurrentRequest(m, c) ==
    IF c \in m.all THEN [m EXCEPT !.input = @ \cup {c}]
                   ELSE [m EXCEPT !.ignoredInput = @ \cup {c}]

-----------------------------------------------------------------------------
(* The grab of the server, dix/dispatch.c.                                  *)

Word(c) == c \div WordSize

\* The scan of grabWaiters: the last word with a bit, its first bit.
NextWaiter(c) ==
    /\ c \in grabWaiters
    /\ \A d \in grabWaiters :
          Word(d) < Word(c) \/ (Word(d) = Word(c) /\ c <= d)

\* One waiter is attended; m is what the masks are when it is called.
UngrabServer(m) ==
    /\ grabState' = "None"
    /\ grabClient' = NoClient
    /\ \/ /\ grabWaiters = {}
          /\ masks' = ListenToAllClients(m)
          /\ UNCHANGED grabWaiters
       \/ \E w \in Clients :
             /\ NextWaiter(w)
             /\ masks' = AttendClient(ListenToAllClients(m), w)
             /\ grabWaiters' = grabWaiters \ {w}

-----------------------------------------------------------------------------
(* What clients do by themselves.                                           *)

\* The bound on the requests that are under way.
HasRoom ==
    Cardinality({p \in Clients \X (1 .. 2 * MaxRequests) :
                    p[2] <= buffer[p[1]] + socket[p[1]]}) < MaxPending

ClientSends(c) ==
    /\ c \in connected \ hungUp
    /\ socket[c] < MaxRequests
    /\ HasRoom
    /\ socket' = [socket EXCEPT ![c] = @ + 1]
    /\ UNCHANGED <<masks, grabVars, clientVars, queueVars, ready, current,
                   closing, buffer, retry>>

\* The peer of c closes its end; a write to it may fail and mark it.
ClientBreaks(c) ==
    /\ Breaks
    /\ c \in connected
    /\ \/ /\ c \notin hungUp
          /\ hungUp' = hungUp \cup {c}
          /\ UNCHANGED failed
       \/ /\ c \in hungUp \ failed
          /\ failed' = failed \cup {c}
          /\ UNCHANGED hungUp
    /\ UNCHANGED <<masks, grabVars, connected, retained, queueVars, ready,
                   current, closing, inputVars>>

-----------------------------------------------------------------------------
(* WaitForSomething.                                                        *)

Idle == ready = {} /\ current = NoClient /\ closing = <<>>

\* ProcessWorkQueue: the request that c slept in goes on.  It is completed,
\* or it is suspended again and c sleeps on.
CompleteSleeper(c) ==
    /\ Idle
    /\ c \in signalled
    /\ signalled' = signalled \ {c}
    /\ \/ /\ c \in sleepQueue
          /\ sleepQueue' = sleepQueue \ {c}
          /\ masks' = AttendClient(masks, c)
       \/ UNCHANGED <<sleepQueue, masks>>
    /\ UNCHANGED <<grabVars, clientVars, accepting, ready, current, closing,
                   inputVars>>

Accepts == Idle /\ signalled = {} /\ accepting

\* EstablishNewConnections closes what failed before it accepts.
KillStraggler(c) ==
    /\ Accepts
    /\ c \in failed
    /\ \A d \in failed : c <= d
    /\ closing' = <<c>>
    /\ UNCHANGED <<masks, grabVars, clientVars, queueVars, ready, current,
                   inputVars>>

FreeSlots == Clients \ (connected \cup retained)

\* NextAvailableClient takes the first free slot.
EstablishNewConnection ==
    /\ Accepts
    /\ failed = {}
    /\ accepting' = FALSE
    /\ \/ /\ FreeSlots = {}             \* ErrorConnMax
          /\ UNCHANGED <<masks, connected>>
       \/ \E c \in FreeSlots :
             /\ \A d \in FreeSlots : c <= d
             /\ connected' = connected \cup {c}
             /\ masks' = AllocNewConnection(masks, c)
    /\ UNCHANGED <<grabVars, retained, hungUp, failed, sleepQueue, signalled,
                   ready, current, closing, inputVars>>

\* The clients whose descriptor select reports.
Polled == {c \in masks.all : socket[c] > 0 \/ c \in hungUp}

\* When select reports something, a device or a connection if no client, the
\* clients with a request in their buffer must be listened to as well.
Readable ==
    IF Polled = {} THEN {masks.input, masks.input \cap masks.all}
                   ELSE {Polled \cup (masks.input \cap masks.all)}

\* The wakeup handlers may signal sleepers, connections may have come in.
Wakeup ==
    /\ signalled' \in SUBSET sleepQueue
    /\ accepting' \in BOOLEAN

\* Without the smart scheduler buffers are drained before select is called;
\* with it one client of those that are ready is taken.
WaitForSomething ==
    /\ Idle
    /\ signalled = {} /\ ~accepting
    /\ IF Dumb /\ masks.input # {}
       THEN /\ ready' = masks.input
            /\ UNCHANGED <<signalled, accepting>>
       ELSE /\ Wakeup
            /\ \E readable \in Readable :
                  \/ (Dumb \/ readable = {}) /\ ready' = readable
                  \/ ~Dumb /\ \E c \in readable : ready' = {c}
    /\ UNCHANGED <<masks, grabVars, clientVars, sleepQueue, current, closing,
                   inputVars>>

-----------------------------------------------------------------------------
(* A round of Dispatch.  The clients of a round are taken in the order of   *)
(* their descriptors, which here may be any order.                          *)

InRound == current = NoClient /\ closing = <<>>

\* A client of the round was killed in it and its slot is empty.
SkipKilled(c) ==
    /\ InRound
    /\ c \in ready \ (connected \cup retained)
    /\ ready' = ready \ {c}
    /\ UNCHANGED <<masks, grabVars, clientVars, queueVars, current, closing,
                   inputVars>>

\* Mutants: the round goes on; every round is dropped.
KickoutOfNobody ==
    /\ InRound
    /\ ready \cap (connected \cup retained) # {}
    /\ grabState = "Kickout"
    /\ grabState' = "Active"
    /\ UNCHANGED <<masks, grabClient, grabWaiters, clientVars, queueVars,
                   ready, current, closing, inputVars>>

KickoutForever ==
    /\ InRound
    /\ ready \cap (connected \cup retained) # {}
    /\ grabState = "Kickout"
    /\ ready' = {}
    /\ UNCHANGED <<masks, grabVars, clientVars, queueVars, current, closing,
                   inputVars>>

\* GrabServer was executed in this round: the rest of the round is dropped.
Kickout ==
    /\ InRound
    /\ ready \cap (connected \cup retained) # {}
    /\ grabState = "Kickout"
    /\ grabState' = "Active"
    /\ ready' = {}
    /\ UNCHANGED <<masks, grabClient, grabWaiters, clientVars, queueVars,
                   current, closing, inputVars>>

BeginSlice(c) ==
    /\ InRound
    /\ c \in ready \cap (connected \cup retained)
    /\ grabState # "Kickout"
    /\ current' = c
    /\ ready' = ready \ {c}
    /\ UNCHANGED <<masks, grabVars, clientVars, queueVars, closing, inputVars>>

InSlice(c) == current = c /\ c \in connected /\ closing = <<>>

\* The smart scheduler's slice is used up.
EndSlice(c) ==
    /\ InSlice(c)
    /\ ~Dumb
    /\ current' = NoClient
    /\ UNCHANGED <<masks, grabVars, clientVars, queueVars, ready, closing,
                   inputVars>>

\* ReadRequestFromClient finds no request and nothing to read.
ReadNothing(c) ==
    /\ InSlice(c)
    /\ buffer[c] = 0 /\ socket[c] = 0
    /\ \/ /\ c \in hungUp
          /\ closing' = <<c>>
          /\ UNCHANGED <<masks, current>>
       \/ /\ c \notin hungUp
          /\ masks' = [masks EXCEPT !.input = @ \ {c}]
          /\ current' = NoClient
          /\ UNCHANGED closing
    /\ UNCHANGED <<grabVars, clientVars, queueVars, ready, inputVars>>

\* The whole requests at hand: the buffer is filled when it is empty.
Whole(c) == IF buffer[c] > 0 THEN buffer[c] ELSE socket[c]

\* ReadRequestFromClient returns a request of kind r; a client that was
\* made to wait has its GrabServer before it again.
ReadsRequest(c, r) ==
    /\ InSlice(c)
    /\ Whole(c) > 0
    /\ r \in Requests
    /\ c \in retry => r = "GrabServer"
    /\ socket' = [socket EXCEPT ![c] = IF buffer[c] > 0 THEN @ ELSE 0]

\* Mutant: the request that follows is skipped with it.
ConsumesTwo(c) ==
    /\ buffer' = [buffer EXCEPT ![c] = Whole(c) - 2]
    /\ retry' = retry \ {c}

Consumes(c) ==
    /\ buffer' = [buffer EXCEPT ![c] = Whole(c) - 1]
    /\ retry' = retry \ {c}

\* The masks after the read: is there another whole request?
MasksRead(c) ==
    [masks EXCEPT !.input = IF Whole(c) > 1 THEN @ \cup {c} ELSE @ \ {c}]

\* YieldControlNoInput, or the count of requests reaches MAX_TIMES_PER.
ReadMustYield(c) == Dumb /\ Whole(c) = 1
ReadMayYield(c)  == Dumb

\* The handler returns noClientException; Dispatch goes on in the slice,
\* ends it, or closes the client.
Returns(c) ==
    IF c \in failed
    THEN /\ closing' = <<c>>
         /\ UNCHANGED current
    ELSE /\ UNCHANGED closing
         /\ \/ /\ ~ReadMustYield(c)
               /\ UNCHANGED current
            \/ /\ ReadMayYield(c)
               /\ current' = NoClient

\* The same for a handler that set isItTimeToYield.
ReturnsAndYields(c) ==
    IF c \in failed
    THEN closing' = <<c>> /\ UNCHANGED current
    ELSE current' = NoClient /\ UNCHANGED closing

OtherRequest(c) ==
    /\ ReadsRequest(c, "Other")
    /\ Consumes(c)
    /\ masks' = MasksRead(c)
    /\ Returns(c) \/ (ReturnsAndYields(c) /\ c \notin failed)   \* an error
    /\ UNCHANGED <<grabVars, clientVars, queueVars, ready>>

\* Mutant: an impervious client takes the grab of another.
GrabsAnyway(c) ==
    /\ ReadsRequest(c, "GrabServer")
    /\ Consumes(c)
    /\ masks' = OnlyListenToOneClient(MasksRead(c), c)
    /\ grabState' = "Kickout"
    /\ grabClient' = c
    /\ Returns(c)
    /\ UNCHANGED <<grabWaiters, clientVars, queueVars, ready>>

GrabServer(c) ==
    /\ ReadsRequest(c, "GrabServer")
    /\ grabState = "None" \/ c = grabClient
    /\ Consumes(c)
    /\ masks' = OnlyListenToOneClient(MasksRead(c), c)
    /\ grabState' = "Kickout"
    /\ grabClient' = c
    /\ Returns(c)
    /\ UNCHANGED <<grabWaiters, clientVars, queueVars, ready>>

\* Another client has the grab: the request is kept and c is ignored.
WaitForGrab(c) ==
    /\ ReadsRequest(c, "GrabServer")
    /\ grabState # "None" /\ c # grabClient
    /\ buffer' = [buffer EXCEPT ![c] = Whole(c)]
    /\ retry' = retry \cup {c}
    /\ masks' = IgnoreClient(ResetCurrentRequest(MasksRead(c), c), c)
    /\ grabWaiters' = grabWaiters \cup {c}
    /\ ReturnsAndYields(c)
    /\ UNCHANGED <<grabState, grabClient, clientVars, queueVars, ready>>

\* ProcUngrabServer does not ask whose grab it is.
UngrabRequest(c) ==
    /\ ReadsRequest(c, "UngrabServer")
    /\ Consumes(c)
    /\ UngrabServer(MasksRead(c))
    /\ Returns(c)
    /\ UNCHANGED <<clientVars, queueVars, ready>>

\* A client that kills itself, or has yielded, is not touched again.
KillClient(c, v) ==
    /\ ReadsRequest(c, "KillClient")
    /\ v \in connected \cup retained
    /\ Consumes(c)
    /\ masks' = MasksRead(c)
    /\ \/ /\ v = c
          /\ closing' = <<v>>
          /\ UNCHANGED current
       \/ /\ v # c
          /\ ReadMayYield(c)
          /\ closing' = <<v>>
          /\ current' = NoClient
       \/ /\ v # c
          /\ ~ReadMustYield(c)
          /\ closing' = IF c \in failed THEN <<v, c>> ELSE <<v>>
          /\ UNCHANGED current
    /\ UNCHANGED <<grabVars, clientVars, queueVars, ready>>

\* A request that is suspended until a font server answers.
ClientSleep(c) ==
    /\ ReadsRequest(c, "Sleep")
    /\ Consumes(c)
    /\ masks' = IgnoreClient(MasksRead(c), c)
    /\ sleepQueue' = sleepQueue \cup {c}
    /\ ReturnsAndYields(c)
    /\ UNCHANGED <<grabVars, clientVars, signalled, accepting, ready>>

\* Requests of an extension that call the two functions of connection.c.
ImperviousRequest(c) ==
    /\ ReadsRequest(c, "Impervious")
    /\ Consumes(c)
    /\ masks' = MakeClientGrabImpervious(MasksRead(c), c)
    /\ Returns(c)
    /\ UNCHANGED <<grabVars, clientVars, queueVars, ready>>

PerviousRequest(c) ==
    /\ ReadsRequest(c, "Pervious")
    /\ Consumes(c)
    /\ masks' = MakeClientGrabPervious(MasksRead(c), c)
    /\ IF masks.grab \in {NoClient, c} THEN Returns(c)
                                       ELSE ReturnsAndYields(c)
    /\ UNCHANGED <<grabVars, clientVars, queueVars, ready>>

-----------------------------------------------------------------------------
(* CloseDownClient.                                                         *)

Closes(c) == closing # <<>> /\ Head(closing) = c

HoldsGrab(c) == grabState # "None" /\ grabClient = c

\* Its first step if the client has the grab.
ReleaseGrab(c) ==
    /\ Closes(c)
    /\ c \in connected
    /\ HoldsGrab(c)
    /\ UngrabServer(masks)
    /\ UNCHANGED <<clientVars, queueVars, ready, current, closing, inputVars>>

\* A sleeper is signalled and completed by ProcessWorkQueueZombies, which
\* does not attend a client that is gone.  If resources are retained the
\* slot is kept.
CloseDownConnection(c) ==
    /\ Closes(c)
    /\ c \in connected
    /\ ~HoldsGrab(c)
    /\ grabWaiters' = grabWaiters \ {c}
    /\ sleepQueue' = sleepQueue \ {c}
    /\ signalled' = signalled \ {c}
    /\ masks' = CloseDownFileDescriptor(masks, c)
    /\ connected' = connected \ {c}
    /\ \/ UNCHANGED retained
       \/ Retains /\ retained' = retained \cup {c}
    /\ hungUp' = hungUp \ {c}
    /\ failed' = failed \ {c}
    /\ buffer' = [buffer EXCEPT ![c] = 0]
    /\ socket' = [socket EXCEPT ![c] = 0]
    /\ retry' = retry \ {c}
    /\ current' = IF current = c THEN NoClient ELSE current
    /\ closing' = Tail(closing)
    /\ UNCHANGED <<grabState, grabClient, accepting, ready>>

\* A client that is gone is closed again: its slot is freed.
FreeRetained(c) ==
    /\ Closes(c)
    /\ c \in retained
    /\ retained' = retained \ {c}
    /\ closing' = Tail(closing)
    /\ UNCHANGED <<masks, grabVars, connected, hungUp, failed, queueVars,
                   ready, current, inputVars>>

-----------------------------------------------------------------------------
Init ==
    /\ masks = [all |-> {}, input |-> {}, saved |-> {}, savedInput |-> {},
                ignoredInput |-> {}, impervious |-> {}, grab |-> NoClient]
    /\ grabState = "None" /\ grabClient = NoClient /\ grabWaiters = {}
    /\ connected = {} /\ retained = {} /\ hungUp = {} /\ failed = {}
    /\ sleepQueue = {} /\ signalled = {} /\ accepting = FALSE
    /\ ready = {} /\ current = NoClient /\ closing = <<>>
    /\ buffer = [c \in Clients |-> 0]
    /\ socket = [c \in Clients |-> 0]
    /\ retry = {}

WorldStep(c) == ClientSends(c) \/ ClientBreaks(c)

WorkStep == (\E c \in Clients : CompleteSleeper(c) \/ KillStraggler(c))
            \/ EstablishNewConnection

RoundStep(c) == SkipKilled(c) \/ BeginSlice(c)

SliceStep(c) ==
    \/ EndSlice(c) \/ ReadNothing(c)
    \/ OtherRequest(c) \/ GrabServer(c) \/ WaitForGrab(c) \/ UngrabRequest(c)
    \/ ClientSleep(c) \/ ImperviousRequest(c) \/ PerviousRequest(c)
    \/ \E v \in Clients : KillClient(c, v)

CloseStep(c) == ReleaseGrab(c) \/ CloseDownConnection(c) \/ FreeRetained(c)

ServerStep ==
    \/ WorkStep
    \/ WaitForSomething
    \/ Kickout
    \/ \E c \in Clients : RoundStep(c) \/ SliceStep(c) \/ CloseStep(c)

Next == ServerStep \/ \E c \in Clients : WorldStep(c)

Spec == Init /\ [][Next]_vars

\* Dispatch loops and its calls run on: every step of the server happens
\* that stays possible.
FairSpec ==
    /\ Spec
    /\ WF_vars(WorkStep) /\ WF_vars(WaitForSomething) /\ WF_vars(Kickout)
    /\ \A c \in Clients :
          /\ WF_vars(RoundStep(c))
          /\ WF_vars(SliceStep(c))
          /\ WF_vars(CloseStep(c))

-----------------------------------------------------------------------------
(* Properties.                                                              *)

\* The types of the variables.
TypeOK ==
    /\ masks \in Masks
    /\ grabState \in {"None", "Kickout", "Active"}
    /\ grabClient \in Clients \cup {NoClient}
    /\ grabWaiters \subseteq Clients
    /\ connected \subseteq Clients /\ retained \subseteq Clients
    /\ sleepQueue \subseteq Clients
    /\ signalled \subseteq Clients /\ accepting \in BOOLEAN
    /\ ready \subseteq Clients
    /\ current \in Clients \cup {NoClient}
    /\ closing \in Seq(Clients)
    /\ buffer \in [Clients -> 0 .. MaxRequests]
    /\ socket \in [Clients -> 0 .. MaxRequests]
    /\ retry \subseteq Clients
    /\ hungUp \subseteq Clients /\ failed \subseteq Clients

\* While a client has the server grabbed no other executes requests, those
\* made impervious excepted: neither the rest of the round in which the grab
\* began nor a client that is attended or connects during the grab.
GrabExcludesOthers ==
    \A c \in Clients :
        grabState # "None" /\ InSlice(c)
            => c \in {grabClient} \cup masks.impervious

\* dix (grabState, grabClient) and os (GrabInProgress) agree about who has
\* the server.
GrabsAgree ==
    masks.grab = IF grabState = "None" THEN NoClient ELSE grabClient

\* A grab ends before the next one begins.
GrabIsNeverStolen ==
    [][grabState # "None" /\ grabState' # "None"
          => grabClient' = grabClient]_vars

\* The server listens for, schedules, attends and lets wait only clients
\* that have a connection: the others have no osPrivate.
MasksHoldConnections ==
    /\ masks.all \cup masks.saved \subseteq connected
    /\ masks.input \cup masks.savedInput \subseteq connected
    /\ masks.impervious \subseteq connected
    /\ grabWaiters \cup sleepQueue \subseteq connected
    /\ grabState # "None" => grabClient \in connected

\* The client whose slice it is has a connection.
SlicesHaveConnections == current # NoClient => current \in connected

\* A client that sleeps in a request, for a font server, is not listened to,
\* nor will it be when the grab ends (while it sleeps a client may have the
\* grab itself, which then ends only when the client is closed).  It is a
\* promise of a server without impervious clients only: an impervious client
\* that sleeps, or waits for the grab, while the server is grabbed leaves the
\* mask in use but not SavedAllClients, and the end of the grab brings it back.
SleepersAreIgnored ==
    \A c \in sleepQueue :
        \/ c \notin masks.all /\ (c \in masks.saved => HoldsGrab(c))
        \/ Closes(c)

\* Every other client is listened to, now or when the grab ends...
NobodyIsForgotten ==
    connected \subseteq grabWaiters \cup sleepQueue \cup masks.all \cup masks.saved

\* ... and outside of a slice a whole request in a buffer is in a mask.
NoRequestIsOverlooked ==
    \A c \in connected \ {current} :
        buffer[c] > 0 =>
            \/ c \in masks.input \cup masks.savedInput
            \/ c \in (grabWaiters \cup sleepQueue) \cap masks.ignoredInput

\* Through grabs, waits and sleep no client and no request in a buffer is left
\* where nothing will look at it.
EveryRequestIsRemembered == NobodyIsForgotten /\ NoRequestIsOverlooked

\* When nobody has the server, some client whose GrabServer was put off, if
\* there is one, is about to be read: its grab ends with the wake-up of the
\* next one.
PutOffGrabsGoOn ==
    grabState = "None" /\ current = NoClient /\ closing = <<>> /\ retry # {}
        => retry \cap masks.input # {}

\* A client that has requests, is listened to and stays connected has one
\* executed (or is ignored, or loses its connection).
RequestsAreServed ==
    \A c \in Clients :
        c \in masks.all /\ buffer[c] + socket[c] > 0
            ~> current = c \/ c \notin masks.all
=============================================================================
