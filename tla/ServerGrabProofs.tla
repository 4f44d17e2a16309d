-------------------------- MODULE ServerGrabProofs --------------------------
(***************************************************************************)
(* Proofs about ServerGrab for any number of clients, whatever they ask     *)
(* for and however their connections break.                                *)
(***************************************************************************)
EXTENDS ServerGrab, SequenceTheorems, TLAPS

-----------------------------------------------------------------------------
(* What is inductive.                                                       *)

\* The masks on the connected clients conn: during a grab only its client
\* and impervious ones are listened to.
MaskOK(m, conn) ==
    /\ m \in Masks
    /\ m.all \cup m.saved \cup m.input \cup m.savedInput \cup m.impervious
          \subseteq conn
    /\ m.grab # NoClient => m.all \cup m.input \subseteq {m.grab} \cup m.impervious

ClientsOK ==
    /\ connected \cap retained = {}
    /\ grabWaiters \cup sleepQueue \subseteq connected
    /\ grabState # "None" => grabClient \in connected

\* What is left of a round once its grab has been noticed.
RoundOK ==
    /\ current \notin ready
    /\ grabState = "Active" =>
          ready \cap connected \subseteq {grabClient} \cup masks.impervious

ToBeClosed(c) == \E i \in 1 .. Len(closing) : closing[i] = c

\* The slice, with the calls of CloseDownClient that interrupt it.
SliceOK ==
    grabState # "None" /\ current \in connected /\ ~ToBeClosed(current)
        => current \in {grabClient} \cup masks.impervious

IInv ==
    /\ TypeOK
    /\ MaskOK(masks, connected)
    /\ GrabsAgree
    /\ ClientsOK
    /\ RoundOK
    /\ SliceOK

-----------------------------------------------------------------------------
(* The operations on the masks.                                             *)

\* The two that change most return masks.
LEMMA MaskTypes ==
    ASSUME NEW m \in Masks, NEW c \in Clients
    PROVE  /\ OnlyListenToOneClient(m, c) \in Masks
           /\ AttendClient(m, c) \in Masks
BY DEF OnlyListenToOneClient, AttendClient, Masks

\* Who has the grab and who is impervious, after each of them.
LEMMA GrabFields ==
    ASSUME NEW m \in Masks, NEW c \in Clients
    PROVE  /\ OnlyListenToOneClient(m, c).grab
                = IF m.grab = NoClient THEN c ELSE m.grab
           /\ ListenToAllClients(m).grab = NoClient
           /\ IgnoreClient(m, c).grab = m.grab
           /\ AttendClient(m, c).grab = m.grab
           /\ MakeClientGrabImpervious(m, c).grab = m.grab
           /\ MakeClientGrabPervious(m, c).grab = m.grab
           /\ ResetCurrentRequest(m, c).grab = m.grab
           /\ CloseDownFileDescriptor(m, c).grab = m.grab
           /\ AllocNewConnection(m, c).grab = m.grab
BY DEF Masks, OnlyListenToOneClient, ListenToAllClients, IgnoreClient,
       AttendClient, MakeClientGrabImpervious, MakeClientGrabPervious,
       ResetCurrentRequest, CloseDownFileDescriptor, AllocNewConnection

LEMMA ImperviousFields ==
    ASSUME NEW m \in Masks, NEW c \in Clients
    PROVE  /\ OnlyListenToOneClient(m, c).impervious = m.impervious
           /\ ListenToAllClients(m).impervious = m.impervious
           /\ IgnoreClient(m, c).impervious = m.impervious
           /\ AttendClient(m, c).impervious = m.impervious
           /\ MakeClientGrabImpervious(m, c).impervious = m.impervious \cup {c}
           /\ MakeClientGrabPervious(m, c).impervious = m.impervious \ {c}
           /\ ResetCurrentRequest(m, c).impervious = m.impervious
           /\ CloseDownFileDescriptor(m, c).impervious = m.impervious \ {c}
           /\ AllocNewConnection(m, c).impervious = m.impervious
BY DEF Masks, OnlyListenToOneClient, ListenToAllClients, IgnoreClient,
       AttendClient, MakeClientGrabImpervious, MakeClientGrabPervious,
       ResetCurrentRequest, CloseDownFileDescriptor, AllocNewConnection

LEMMA MasksInOrder ==
    ASSUME NEW m, NEW conn, MaskOK(m, conn) PROVE m \in Masks
BY DEF MaskOK

\* Each keeps the masks in order, if its client is connected or, when its
\* descriptor is closed, does not have the grab.
LEMMA MasksKept ==
    ASSUME NEW m, NEW conn \in SUBSET Clients, MaskOK(m, conn), NEW c \in conn
    PROVE  /\ MaskOK(OnlyListenToOneClient(m, c), conn)
           /\ MaskOK(ListenToAllClients(m), conn)
           /\ MaskOK(IgnoreClient(m, c), conn)
           /\ MaskOK(AttendClient(m, c), conn)
           /\ MaskOK(MakeClientGrabImpervious(m, c), conn)
           /\ MaskOK(MakeClientGrabPervious(m, c), conn)
           /\ MaskOK(ResetCurrentRequest(m, c), conn)
           /\ c # m.grab => MaskOK(CloseDownFileDescriptor(m, c), conn \ {c})
<1> USE DEF MaskOK, Masks
<1>0. c \in Clients /\ NoClient \notin Clients
  BY DEF Clients, NoClient
<1>1. MaskOK(OnlyListenToOneClient(m, c), conn)
  <2>1. CASE m.grab # NoClient
    BY <2>1 DEF OnlyListenToOneClient
  <2>2. CASE m.grab = NoClient
    <3> DEFINE n == OnlyListenToOneClient(m, c)
    <3>1. /\ n.savedInput = m.input \ (m.impervious \cup {c})
          /\ n.input = m.input \cap (m.impervious \cup {c})
          /\ n.saved = m.all
          /\ n.all = (m.all \cap m.impervious) \cup {c}
          /\ n.grab = c
          /\ n.ignoredInput = m.ignoredInput
          /\ n.impervious = m.impervious
      BY <2>2 DEF OnlyListenToOneClient
    <3>2. n \in Masks
      BY <1>0, MaskTypes
    <3> QED
      BY <3>1, <3>2, <1>0
  <2> QED
    BY <2>1, <2>2
<1>2. MaskOK(ListenToAllClients(m), conn)
  BY <1>0 DEF ListenToAllClients
<1>3. MaskOK(IgnoreClient(m, c), conn)
  BY <1>0 DEF IgnoreClient, RememberInput
<1>4. MaskOK(AttendClient(m, c), conn)
  <2> DEFINE n == AttendClient(m, c)
  <2>0. n \in Masks /\ n.grab = m.grab /\ n.impervious = m.impervious
    BY <1>0, MaskTypes, GrabFields, ImperviousFields
  <2>1. CASE m.grab \in {NoClient, c} \/ c \in m.impervious
    <3>1. /\ n.all = m.all \cup {c} /\ n.saved = m.saved
          /\ n.input = m.input \cup ({c} \cap m.ignoredInput)
          /\ n.savedInput = m.savedInput
      BY <2>1 DEF AttendClient
    <3> QED
      BY <3>1, <2>0, <2>1, <1>0
  <2>2. CASE ~(m.grab \in {NoClient, c} \/ c \in m.impervious)
    <3>1. /\ n.all = m.all /\ n.saved = m.saved \cup {c}
          /\ n.savedInput = m.savedInput \cup ({c} \cap m.ignoredInput)
          /\ n.input = m.input
      BY <2>2 DEF AttendClient
    <3> QED
      BY <3>1, <2>0, <1>0
  <2> QED
    BY <2>1, <2>2
<1>5. MaskOK(MakeClientGrabImpervious(m, c), conn)
  BY <1>0 DEF MakeClientGrabImpervious
<1>6. MaskOK(MakeClientGrabPervious(m, c), conn)
  BY <1>0 DEF MakeClientGrabPervious
<1>7. MaskOK(ResetCurrentRequest(m, c), conn)
  BY <1>0 DEF ResetCurrentRequest
<1>8. c # m.grab => MaskOK(CloseDownFileDescriptor(m, c), conn \ {c})
  BY <1>0 DEF CloseDownFileDescriptor
<1> QED
  BY <1>1, <1>2, <1>3, <1>4, <1>5, <1>6, <1>7, <1>8

LEMMA MasksOfNew ==
    ASSUME NEW m, NEW conn \in SUBSET Clients, MaskOK(m, conn), NEW c \in Clients
    PROVE  MaskOK(AllocNewConnection(m, c), conn \cup {c})
BY DEF MaskOK, Masks, AllocNewConnection, Clients, NoClient

-----------------------------------------------------------------------------
(* The steps, in the groups of Next.                                        *)

LEMMA InitStep == Init => IInv
<1> SUFFICES ASSUME Init PROVE IInv
  OBVIOUS
<1> USE ServerGrabAssumption DEF Init
<1>1. TypeOK
  <2>1. masks \in Masks
    BY DEF Masks
  <2>2. 0 \in 0 .. MaxRequests
    OBVIOUS
  <2>3. buffer \in [Clients -> 0 .. MaxRequests] /\ socket \in [Clients -> 0 .. MaxRequests]
    BY <2>2
  <2>4. closing \in Seq(Clients)
    BY EmptySeq
  <2> QED
    BY <2>1, <2>3, <2>4 DEF TypeOK, NoClient
<1>2. MaskOK(masks, connected)
  BY DEF MaskOK, Masks, Clients, NoClient
<1>3. GrabsAgree /\ ClientsOK /\ RoundOK /\ SliceOK
  BY DEF GrabsAgree, ClientsOK, RoundOK, SliceOK
<1> QED
  BY <1>1, <1>2, <1>3 DEF IInv

\* What a client does by itself changes nothing but types.
LEMMA WorldSteps ==
    ASSUME IInv, NEW c \in Clients, WorldStep(c)
    PROVE  IInv'
<1> USE ServerGrabAssumption DEF WorldStep, ClientSends, ClientBreaks,
        grabVars, clientVars, queueVars, inputVars
<1>1. socket' \in [Clients -> 0 .. MaxRequests]
  <2>1. socket \in [Clients -> 0 .. MaxRequests]
    BY DEF IInv, TypeOK
  <2>2. CASE ClientSends(c)
    <3>1. socket[c] + 1 \in 0 .. MaxRequests
      BY <2>1, <2>2
    <3> QED
      BY <2>1, <2>2, <3>1
  <2>3. CASE ClientBreaks(c)
    BY <2>1, <2>3
  <2> QED
    BY <2>2, <2>3
<1>2. TypeOK'
  BY <1>1 DEF IInv, TypeOK
<1>3. /\ MaskOK(masks, connected)' /\ GrabsAgree' /\ ClientsOK'
      /\ RoundOK' /\ SliceOK'
  BY DEF IInv, MaskOK, GrabsAgree, ClientsOK, RoundOK, SliceOK, ToBeClosed
<1> QED
  BY <1>2, <1>3 DEF IInv

\* Between rounds: sleepers go on, stragglers are closed, clients connect.
LEMMA WorkSteps ==
    ASSUME IInv, WorkStep
    PROVE  IInv'
<1> USE ServerGrabAssumption DEF Idle, Accepts, grabVars, clientVars,
        queueVars, inputVars
<1>1. ASSUME NEW c \in Clients, CompleteSleeper(c)
      PROVE  IInv'
  <2> USE <1>1 DEF CompleteSleeper
  <2>1. masks \in Masks /\ connected \in SUBSET Clients /\ MaskOK(masks, connected)
    BY DEF IInv, TypeOK
  <2>2. c \in sleepQueue => c \in connected
    BY DEF IInv, ClientsOK
  <2>3. MaskOK(masks', connected)
    <3>1. CASE c \in sleepQueue /\ masks' = AttendClient(masks, c)
      BY <3>1, <2>1, <2>2, MasksKept
    <3>2. CASE UNCHANGED masks
      BY <3>2, <2>1
    <3> QED
      BY <3>1, <3>2
  <2>4. masks'.grab = masks.grab /\ masks'.impervious = masks.impervious
    BY <2>1, GrabFields, ImperviousFields
  <2>5. TypeOK'
    BY <2>3 DEF IInv, TypeOK, MaskOK
  <2>6. GrabsAgree' /\ ClientsOK' /\ RoundOK' /\ SliceOK'
    BY <2>4 DEF IInv, GrabsAgree, ClientsOK, RoundOK, SliceOK, ToBeClosed
  <2> QED
    BY <2>3, <2>5, <2>6 DEF IInv
<1>2. ASSUME NEW c \in Clients, KillStraggler(c)
      PROVE  IInv'
  <2> USE <1>2 DEF KillStraggler
  <2>1. TypeOK'
    BY DEF IInv, TypeOK
  <2>2. MaskOK(masks, connected)' /\ GrabsAgree' /\ ClientsOK' /\ RoundOK'
    BY DEF IInv, MaskOK, GrabsAgree, ClientsOK, RoundOK
  <2>3. SliceOK'
    BY DEF IInv, SliceOK, MaskOK, Masks, Clients, NoClient, TypeOK
  <2> QED
    BY <2>1, <2>2, <2>3 DEF IInv
<1>3. ASSUME EstablishNewConnection
      PROVE  IInv'
  <2> USE <1>3 DEF EstablishNewConnection
  <2>1. masks \in Masks /\ connected \in SUBSET Clients /\ MaskOK(masks, connected)
    BY DEF IInv, TypeOK
  <2>2. MaskOK(masks', connected') /\ connected' \in SUBSET Clients
    BY <2>1, MasksOfNew DEF FreeSlots
  <2>3. masks'.grab = masks.grab /\ masks'.impervious = masks.impervious
    BY <2>1, GrabFields, ImperviousFields DEF FreeSlots
  <2>4. TypeOK'
    BY <2>2 DEF IInv, TypeOK, MaskOK
  <2>5. connected \subseteq connected' /\ current' \notin connected'
    BY <2>2 DEF Clients, NoClient
  <2>7. connected' \cap retained' = {}
    BY DEF IInv, ClientsOK, FreeSlots
  <2>8. ClientsOK'
    BY <2>5, <2>7 DEF IInv, ClientsOK
  <2>6. GrabsAgree' /\ RoundOK' /\ SliceOK'
    BY <2>3, <2>5 DEF IInv, GrabsAgree, RoundOK, SliceOK
  <2> QED
    BY <2>2, <2>4, <2>6, <2>8 DEF IInv
<1> QED
  BY <1>1, <1>2, <1>3 DEF WorkStep

LEMMA WaitStep ==
    ASSUME IInv, WaitForSomething
    PROVE  IInv'
<1> USE ServerGrabAssumption DEF WaitForSomething, Idle, grabVars,
        clientVars, inputVars
<1>1. masks \in Masks /\ MaskOK(masks, connected)
  BY DEF IInv, TypeOK
<1>2. ready' \subseteq masks.all \cup masks.input
  BY DEF Readable, Polled
<1>3. TypeOK'
  <2>1. ready' \subseteq Clients
    BY <1>1, <1>2 DEF Masks
  <2> QED
    BY <2>1 DEF IInv, TypeOK, Wakeup
<1>4. RoundOK'
  <2>1. current' \notin ready'
    BY <1>1, <1>2 DEF Masks, Clients, NoClient
  <2>2. ASSUME grabState = "Active"
        PROVE  masks.grab # NoClient /\ masks.grab = grabClient
    BY <2>2 DEF IInv, GrabsAgree, ClientsOK, TypeOK, Clients, NoClient
  <2> QED
    BY <1>1, <1>2, <2>1, <2>2 DEF RoundOK, MaskOK
<1>5. MaskOK(masks, connected)' /\ GrabsAgree' /\ ClientsOK' /\ SliceOK'
  BY DEF IInv, MaskOK, GrabsAgree, ClientsOK, SliceOK, ToBeClosed
<1> QED
  BY <1>3, <1>4, <1>5 DEF IInv

LEMMA RoundSteps ==
    ASSUME IInv, Kickout \/ \E c \in Clients : RoundStep(c)
    PROVE  IInv'
<1> USE ServerGrabAssumption DEF InRound, grabVars, clientVars, queueVars,
        inputVars
<1>1. CASE Kickout
  <2> USE <1>1 DEF Kickout
  <2>1. TypeOK'
    BY DEF IInv, TypeOK
  <2>2. MaskOK(masks, connected)' /\ GrabsAgree' /\ ClientsOK' /\ RoundOK'
    BY DEF IInv, MaskOK, GrabsAgree, ClientsOK, RoundOK
  <2>3. SliceOK'
    BY DEF IInv, SliceOK, MaskOK, Masks, Clients, NoClient, TypeOK
  <2> QED
    BY <2>1, <2>2, <2>3 DEF IInv
<1>2. ASSUME NEW c \in Clients, SkipKilled(c)
      PROVE  IInv'
  <2> USE <1>2 DEF SkipKilled
  <2>1. TypeOK'
    BY DEF IInv, TypeOK
  <2>2. /\ MaskOK(masks, connected)' /\ GrabsAgree' /\ ClientsOK'
        /\ RoundOK' /\ SliceOK'
    BY DEF IInv, MaskOK, GrabsAgree, ClientsOK, RoundOK, SliceOK, ToBeClosed
  <2> QED
    BY <2>1, <2>2 DEF IInv
<1>3. ASSUME NEW c \in Clients, BeginSlice(c)
      PROVE  IInv'
  <2> USE <1>3 DEF BeginSlice
  <2>1. TypeOK'
    BY DEF IInv, TypeOK
  <2>2. MaskOK(masks, connected)' /\ GrabsAgree' /\ ClientsOK' /\ RoundOK'
    BY DEF IInv, MaskOK, GrabsAgree, ClientsOK, RoundOK
  <2>3. SliceOK'
    <3>1. grabState # "None" => grabState = "Active"
      BY DEF IInv, TypeOK
    <3> QED
      BY <3>1 DEF IInv, SliceOK, RoundOK
  <2> QED
    BY <2>1, <2>2, <2>3 DEF IInv
<1> QED
  BY <1>1, <1>2, <1>3 DEF RoundStep

-----------------------------------------------------------------------------
(* The requests.                                                            *)

\* What holds of the client whose slice it is, and of the masks after a read.
LEMMA SliceFacts ==
    ASSUME IInv, NEW c \in Clients, InSlice(c)
    PROVE  /\ c \in connected /\ connected \in SUBSET Clients /\ c \notin ready
           /\ masks \in Masks /\ MaskOK(masks, connected)
           /\ grabState # "None" => c \in {grabClient} \cup masks.impervious
           /\ MasksRead(c) \in Masks /\ MaskOK(MasksRead(c), connected)
           /\ MasksRead(c).grab = masks.grab
           /\ MasksRead(c).impervious = masks.impervious
           /\ Whole(c) \in 0 .. MaxRequests
<1> USE ServerGrabAssumption
<1>1. c \in connected /\ connected \in SUBSET Clients /\ c \notin ready /\ current = c
  BY DEF IInv, TypeOK, RoundOK, InSlice
<1>2. masks \in Masks /\ MaskOK(masks, connected)
  BY DEF IInv, TypeOK
<1>3. grabState # "None" => c \in {grabClient} \cup masks.impervious
  BY <1>1 DEF IInv, SliceOK, ToBeClosed, InSlice
<1>4. masks.grab # NoClient => masks.grab = grabClient /\ grabState # "None"
  BY DEF IInv, GrabsAgree
<1> DEFINE n == MasksRead(c)
<1>5. /\ n \in Masks /\ n.grab = masks.grab /\ n.impervious = masks.impervious
      /\ n.all = masks.all /\ n.saved = masks.saved
      /\ n.savedInput = masks.savedInput
      /\ n.input \subseteq masks.input \cup {c}
  BY <1>1, <1>2 DEF MasksRead, Masks
<1>6. MaskOK(n, connected)
  BY <1>1, <1>2, <1>3, <1>4, <1>5 DEF MaskOK
<1>7. Whole(c) \in 0 .. MaxRequests
  BY DEF IInv, TypeOK, Whole
<1> QED
  BY <1>1, <1>2, <1>3, <1>5, <1>6, <1>7

\* The buffers after a read.
LEMMA ReadTypes ==
    ASSUME IInv, NEW c \in Clients, NEW r, ReadsRequest(c, r)
    PROVE  /\ InSlice(c)
           /\ socket' \in [Clients -> 0 .. MaxRequests]
           /\ Consumes(c) => /\ buffer' \in [Clients -> 0 .. MaxRequests]
                             /\ retry' \subseteq Clients
<1> USE ServerGrabAssumption
<1>1. InSlice(c) /\ Whole(c) \in 1 .. MaxRequests
  BY SliceFacts DEF ReadsRequest
<1>2. socket' \in [Clients -> 0 .. MaxRequests]
  BY DEF IInv, TypeOK, ReadsRequest
<1>3. Whole(c) - 1 \in 0 .. MaxRequests
  BY <1>1
<1>4. Consumes(c) => /\ buffer' \in [Clients -> 0 .. MaxRequests]
                     /\ retry' \subseteq Clients
  BY <1>3 DEF Consumes, IInv, TypeOK
<1> QED
  BY <1>1, <1>2, <1>4

\* What Dispatch does with the result of a handler.
LEMMA ReturnFacts ==
    ASSUME IInv, NEW c \in Clients, InSlice(c), Returns(c) \/ ReturnsAndYields(c)
    PROVE  /\ closing' \in Seq(Clients)
           /\ current' \in {c, NoClient}
           /\ current' = c => ToBeClosed(c)' \/ Returns(c)
<1>1. closing = <<>> /\ closing \in Seq(Clients) /\ current = c
  BY DEF IInv, TypeOK, InSlice
<1>2. CASE closing' = <<c>> /\ UNCHANGED current
  <2>1. closing' \in Seq(Clients) /\ Len(closing') = 1 /\ closing'[1] = c
    BY <1>2
  <2>2. ToBeClosed(c)'
    BY <2>1 DEF ToBeClosed
  <2> QED
    BY <1>1, <1>2, <2>1, <2>2
<1>3. CASE UNCHANGED closing /\ current' = NoClient
  BY <1>1, <1>3 DEF Clients, NoClient
<1>4. CASE UNCHANGED <<closing, current>> /\ Returns(c)
  BY <1>1, <1>4
<1> QED
  BY <1>1, <1>2, <1>3, <1>4 DEF Returns, ReturnsAndYields

\* What a request has to show: the masks, the grab and the waiters are in
\* order, and a client that goes on in its slice may.
LEMMA AfterRequest ==
    ASSUME IInv, NEW c \in Clients, NEW r, ReadsRequest(c, r),
           Returns(c) \/ ReturnsAndYields(c),
           MaskOK(masks', connected), GrabsAgree', ClientsOK',
           grabState' \in {"None", "Kickout", "Active"},
           grabClient' \in Clients \cup {NoClient},
           buffer' \in [Clients -> 0 .. MaxRequests], retry' \subseteq Clients,
           UNCHANGED <<clientVars, signalled, accepting, ready>>,
           grabState' = "Active" =>
              /\ grabState = "Active" /\ grabClient' = grabClient
              /\ masks.impervious \subseteq masks'.impervious \cup {c},
           grabState' # "None" /\ Returns(c)
              => c \in {grabClient'} \cup masks'.impervious
    PROVE  IInv'
<1> USE DEF clientVars
<1>1. InSlice(c) /\ socket' \in [Clients -> 0 .. MaxRequests]
  BY ReadTypes
<1>2. c \notin ready /\ c \in connected /\ connected \in SUBSET Clients
  BY <1>1, SliceFacts
<1>3. /\ closing' \in Seq(Clients) /\ current' \in {c, NoClient}
      /\ current' = c => ToBeClosed(c)' \/ Returns(c)
  BY <1>1, ReturnFacts
<1>4. TypeOK'
  BY <1>1, <1>2, <1>3 DEF IInv, TypeOK, MaskOK, ClientsOK
<1>5. RoundOK'
  BY <1>2, <1>3 DEF IInv, TypeOK, RoundOK, Clients, NoClient
<1>6. SliceOK'
  <2>1. CASE current' = c
    BY <2>1, <1>3 DEF SliceOK, ToBeClosed
  <2>2. CASE current' = NoClient
    BY <2>2, <1>2 DEF SliceOK, Clients, NoClient
  <2> QED
    BY <2>1, <2>2, <1>3
<1> QED
  BY <1>4, <1>5, <1>6 DEF IInv

LEMMA Requests1 ==
    ASSUME IInv, NEW c \in Clients,
           \/ OtherRequest(c) \/ GrabServer(c) \/ WaitForGrab(c)
           \/ UngrabRequest(c)
    PROVE  IInv'
<1> USE ServerGrabAssumption DEF grabVars, queueVars, clientVars
<1>0. /\ grabState \in {"None", "Kickout", "Active"}
      /\ grabClient \in Clients \cup {NoClient}
      /\ ClientsOK /\ GrabsAgree
      /\ NoClient \notin Clients
  BY DEF IInv, TypeOK, Clients, NoClient
<1>1. CASE OtherRequest(c)
  <2> USE <1>1 DEF OtherRequest
  <2>1. ReadsRequest(c, "Other") /\ InSlice(c)
    BY ReadTypes
  <2>2. MaskOK(masks', connected)
    BY <2>1, SliceFacts
  <2>3. masks'.grab = masks.grab /\ masks'.impervious = masks.impervious
    BY <2>1, SliceFacts
  <2>4. grabState # "None" => c \in {grabClient} \cup masks.impervious
    BY <2>1, SliceFacts
  <2>5. GrabsAgree' /\ ClientsOK'
    BY <1>0, <2>3 DEF GrabsAgree, ClientsOK
  <2> QED
    BY <1>0, <2>1, <2>2, <2>3, <2>4, <2>5, ReadTypes, AfterRequest
<1>2. CASE GrabServer(c)
  <2> USE <1>2 DEF GrabServer
  <2>1. ReadsRequest(c, "GrabServer") /\ InSlice(c) /\ c \in connected
    BY ReadTypes, SliceFacts
  <2>2. MaskOK(masks', connected)
    BY <2>1, SliceFacts, MasksKept
  <2>3. masks'.grab = c
    BY <1>0, <2>1, SliceFacts, GrabFields DEF GrabsAgree
  <2>4. GrabsAgree' /\ ClientsOK'
    BY <1>0, <2>1, <2>3 DEF GrabsAgree, ClientsOK
  <2> QED
    BY <2>1, <2>2, <2>4, ReadTypes, AfterRequest
<1>3. CASE WaitForGrab(c)
  <2> USE <1>3 DEF WaitForGrab
  <2>1. /\ ReadsRequest(c, "GrabServer") /\ InSlice(c) /\ c \in connected
        /\ Whole(c) \in 0 .. MaxRequests
    BY ReadTypes, SliceFacts
  <2> DEFINE n == ResetCurrentRequest(MasksRead(c), c)
  <2>2. MaskOK(n, connected) /\ n \in Masks
    BY <2>1, SliceFacts, MasksKept, MasksInOrder
  <2>3. n.grab = masks.grab /\ n.impervious = masks.impervious
    BY <2>1, SliceFacts, GrabFields, ImperviousFields
  <2>4. MaskOK(masks', connected)
    BY <2>1, <2>2, SliceFacts, MasksKept
  <2>5. masks'.grab = masks.grab /\ masks'.impervious = masks.impervious
    BY <2>2, <2>3, GrabFields, ImperviousFields
  <2>6. GrabsAgree' /\ ClientsOK'
    BY <1>0, <2>1, <2>5 DEF GrabsAgree, ClientsOK
  <2>7. buffer' \in [Clients -> 0 .. MaxRequests] /\ retry' \subseteq Clients
    BY <2>1 DEF IInv, TypeOK
  <2>8. grabState # "None" => c \in {grabClient} \cup masks.impervious
    BY <2>1, SliceFacts
  <2> QED
    BY <1>0, <2>1, <2>4, <2>5, <2>6, <2>7, <2>8, AfterRequest
<1>4. CASE UngrabRequest(c)
  <2> USE <1>4 DEF UngrabRequest, UngrabServer
  <2>1. ReadsRequest(c, "UngrabServer") /\ InSlice(c)
    BY ReadTypes
  <2> DEFINE n == ListenToAllClients(MasksRead(c))
  <2>2. MaskOK(n, connected) /\ n \in Masks /\ n.grab = NoClient
    BY <2>1, SliceFacts, MasksKept, GrabFields, MasksInOrder
  <2>3. MaskOK(masks', connected) /\ masks'.grab = NoClient
    <3>1. CASE masks' = n
      BY <3>1, <2>2
    <3>2. ASSUME NEW w \in Clients, NextWaiter(w), masks' = AttendClient(n, w)
          PROVE  MaskOK(masks', connected) /\ masks'.grab = NoClient
      <4>1. w \in connected /\ connected \in SUBSET Clients
        BY <3>2, <1>0, <2>1, SliceFacts DEF NextWaiter, ClientsOK
      <4> QED
        BY <3>2, <4>1, <2>2, MasksKept, GrabFields
    <3> QED
      BY <3>1, <3>2
  <2>4. GrabsAgree' /\ ClientsOK'
    BY <1>0, <2>3 DEF GrabsAgree, ClientsOK
  <2> QED
    BY <2>1, <2>3, <2>4, ReadTypes, AfterRequest
<1> QED
  BY <1>1, <1>2, <1>3, <1>4

LEMMA Requests2 ==
    ASSUME IInv, NEW c \in Clients,
           ClientSleep(c) \/ ImperviousRequest(c) \/ PerviousRequest(c)
    PROVE  IInv'
<1> USE ServerGrabAssumption DEF grabVars, queueVars, clientVars
<1>0. /\ grabState \in {"None", "Kickout", "Active"}
      /\ grabClient \in Clients \cup {NoClient}
      /\ ClientsOK /\ GrabsAgree
      /\ NoClient \notin Clients
  BY DEF IInv, TypeOK, Clients, NoClient
<1>1. CASE ClientSleep(c)
  <2> USE <1>1 DEF ClientSleep
  <2>1. ReadsRequest(c, "Sleep") /\ InSlice(c) /\ c \in connected
    BY ReadTypes, SliceFacts
  <2>2. MaskOK(masks', connected)
    BY <2>1, SliceFacts, MasksKept
  <2>3. masks'.grab = masks.grab /\ masks'.impervious = masks.impervious
    BY <2>1, SliceFacts, GrabFields, ImperviousFields
  <2>4. GrabsAgree' /\ ClientsOK'
    BY <1>0, <2>1, <2>3 DEF GrabsAgree, ClientsOK
  <2>5. grabState # "None" => c \in {grabClient} \cup masks.impervious
    BY <2>1, SliceFacts
  <2> QED
    BY <1>0, <2>1, <2>2, <2>3, <2>4, <2>5, ReadTypes, AfterRequest
<1>2. CASE ImperviousRequest(c)
  <2> USE <1>2 DEF ImperviousRequest
  <2>1. ReadsRequest(c, "Impervious") /\ InSlice(c) /\ c \in connected
    BY ReadTypes, SliceFacts
  <2>2. MaskOK(masks', connected)
    BY <2>1, SliceFacts, MasksKept
  <2>3. /\ masks'.grab = masks.grab
        /\ masks'.impervious = masks.impervious \cup {c}
    BY <2>1, SliceFacts, GrabFields, ImperviousFields
  <2>4. GrabsAgree' /\ ClientsOK'
    BY <1>0, <2>1, <2>3 DEF GrabsAgree, ClientsOK
  <2> QED
    BY <1>0, <2>1, <2>2, <2>3, <2>4, ReadTypes, AfterRequest
<1>3. CASE PerviousRequest(c)
  <2> USE <1>3 DEF PerviousRequest
  <2>1. ReadsRequest(c, "Pervious") /\ InSlice(c) /\ c \in connected
    BY ReadTypes, SliceFacts
  <2>2. MaskOK(masks', connected)
    BY <2>1, SliceFacts, MasksKept
  <2>3. /\ masks'.grab = masks.grab
        /\ masks'.impervious = masks.impervious \ {c}
    BY <2>1, SliceFacts, GrabFields, ImperviousFields
  <2>4. GrabsAgree' /\ ClientsOK'
    BY <1>0, <2>1, <2>3 DEF GrabsAgree, ClientsOK
  <2>5. grabState # "None" /\ masks.grab \in {NoClient, c} => c = grabClient
    BY <1>0 DEF GrabsAgree, ClientsOK, IInv, TypeOK
  <2>6. masks.impervious \subseteq masks'.impervious \cup {c}
    BY <2>3
  <2>7. Returns(c) \/ ReturnsAndYields(c)
    OBVIOUS
  <2>8. CASE masks.grab \in {NoClient, c}
    <3>1. grabState' # "None" => c \in {grabClient'} \cup masks'.impervious
      BY <2>5, <2>8
    <3> QED
      BY <1>0, <2>1, <2>2, <2>4, <2>6, <2>7, <3>1, ReadTypes, AfterRequest
  <2>9. CASE masks.grab \notin {NoClient, c}
    <3>1. ReturnsAndYields(c)
      BY <2>9
    <3>2. InSlice(c) /\ connected \in SUBSET Clients
      BY <2>1, SliceFacts
    <3>3. current' \in {c, NoClient} /\ (current' = c => ToBeClosed(c)')
      <4>1. closing = <<>> /\ current = c
        BY <3>2 DEF InSlice
      <4>2. CASE closing' = <<c>>
        <5>1. Len(closing') = 1 /\ closing'[1] = c
          BY <4>2
        <5> QED
          BY <5>1, <4>1, <3>1 DEF ToBeClosed, ReturnsAndYields
      <4>3. CASE current' = NoClient
        BY <4>3, <1>0
      <4> QED
        BY <4>2, <4>3, <3>1 DEF ReturnsAndYields
    <3>4. SliceOK'
      BY <3>2, <3>3, <1>0 DEF SliceOK, ToBeClosed
    <3>5. c \notin ready
      BY <2>1, SliceFacts
    <3>6. RoundOK'
      BY <2>3, <3>3, <3>5 DEF IInv, TypeOK, RoundOK, Clients, NoClient
    <3>7. closing' \in Seq(Clients)
      BY <2>1, <2>7, ReturnFacts
    <3>8. socket' \in [Clients -> 0 .. MaxRequests]
          /\ buffer' \in [Clients -> 0 .. MaxRequests] /\ retry' \subseteq Clients
      BY <2>1, ReadTypes
    <3>9. TypeOK'
      BY <2>2, <3>2, <3>3, <3>7, <3>8, MasksInOrder DEF IInv, TypeOK
    <3> QED
      BY <2>2, <2>4, <3>4, <3>6, <3>9 DEF IInv
  <2> QED
    BY <2>8, <2>9
<1> QED
  BY <1>1, <1>2, <1>3

\* The three steps of a slice that call no handler of their own.
LEMMA SliceSteps ==
    ASSUME IInv, NEW c \in Clients,
           \/ EndSlice(c) \/ ReadNothing(c)
           \/ \E v \in Clients : KillClient(c, v)
    PROVE  IInv'
<1> USE ServerGrabAssumption DEF grabVars, queueVars, clientVars, inputVars
<1>0. /\ NoClient \notin Clients /\ closing \in Seq(Clients)
      /\ connected \in SUBSET Clients
  BY DEF IInv, TypeOK, Clients, NoClient
<1>1. CASE EndSlice(c)
  <2> USE <1>1 DEF EndSlice
  <2>1. TypeOK'
    BY DEF IInv, TypeOK
  <2>2. MaskOK(masks, connected)' /\ GrabsAgree' /\ ClientsOK'
    BY DEF IInv, MaskOK, GrabsAgree, ClientsOK
  <2>3. RoundOK' /\ SliceOK'
    BY <1>0 DEF IInv, TypeOK, RoundOK, SliceOK
  <2> QED
    BY <2>1, <2>2, <2>3 DEF IInv
<1>2. CASE ReadNothing(c)
  <2> USE <1>2 DEF ReadNothing
  <2>1. InSlice(c) /\ c \notin ready /\ current = c /\ MaskOK(masks, connected)
    BY SliceFacts DEF InSlice
  <2>2. /\ MaskOK(masks', connected) /\ masks'.grab = masks.grab
        /\ masks'.impervious = masks.impervious
    BY <2>1 DEF MaskOK, Masks
  <2>3. GrabsAgree' /\ ClientsOK'
    BY <2>2 DEF IInv, GrabsAgree, ClientsOK
  <2>4. closing' \in Seq(Clients) /\ current' \in {c, NoClient}
        /\ (current' = c => ToBeClosed(c)')
    <3>1. CASE closing' = <<c>>
      <4>1. Len(closing') = 1 /\ closing'[1] = c /\ closing' \in Seq(Clients)
        BY <3>1
      <4> QED
        BY <4>1, <2>1 DEF ToBeClosed
    <3>2. CASE current' = NoClient /\ UNCHANGED closing
      BY <3>2, <1>0
    <3> QED
      BY <3>1, <3>2
  <2>5. TypeOK'
    BY <2>2, <2>4, MasksInOrder DEF IInv, TypeOK
  <2>6. RoundOK' /\ SliceOK'
    BY <1>0, <2>1, <2>2, <2>4 DEF IInv, TypeOK, RoundOK, SliceOK, ToBeClosed
  <2> QED
    BY <2>2, <2>3, <2>5, <2>6 DEF IInv
<1>3. ASSUME NEW v \in Clients, KillClient(c, v)
      PROVE  IInv'
  <2> USE <1>3 DEF KillClient
  <2>1. ReadsRequest(c, "KillClient") /\ InSlice(c) /\ c \notin ready /\ current = c
        /\ c \in connected
    BY ReadTypes, SliceFacts DEF InSlice
  <2>2. /\ MaskOK(masks', connected) /\ masks'.grab = masks.grab
        /\ masks'.impervious = masks.impervious
    BY <2>1, SliceFacts
  <2>3. GrabsAgree' /\ ClientsOK'
    BY <2>2 DEF IInv, GrabsAgree, ClientsOK
  <2>4. closing' \in Seq(Clients) /\ current' \in {c, NoClient}
    <3>1. <<v>> \in Seq(Clients) /\ <<v, c>> \in Seq(Clients)
      OBVIOUS
    <3>2. closing' \in {<<v>>, <<v, c>>} /\ current' \in {c, NoClient}
      BY <2>1
    <3> QED
      BY <3>1, <3>2
  <2>5. TypeOK'
    <3>1. socket' \in [Clients -> 0 .. MaxRequests]
          /\ buffer' \in [Clients -> 0 .. MaxRequests] /\ retry' \subseteq Clients
      BY <2>1, ReadTypes
    <3> QED
      BY <3>1, <2>2, <2>4, MasksInOrder DEF IInv, TypeOK
  <2>6. grabState # "None" => c \in {grabClient} \cup masks.impervious
    BY <2>1, SliceFacts
  <2>7. RoundOK' /\ SliceOK'
    BY <1>0, <2>1, <2>2, <2>4, <2>6 DEF IInv, TypeOK, RoundOK, SliceOK, ToBeClosed
  <2> QED
    BY <2>2, <2>3, <2>5, <2>7 DEF IInv
<1> QED
  BY <1>1, <1>2, <1>3

-----------------------------------------------------------------------------
(* CloseDownClient.                                                         *)

\* A call of CloseDownClient returns to the one that waits for it.
LEMMA Popped ==
    ASSUME closing \in Seq(Clients), NEW c \in Clients, Closes(c),
           closing' = Tail(closing)
    PROVE  /\ closing' \in Seq(Clients)
           /\ \A d \in Clients : ToBeClosed(d) => d = c \/ ToBeClosed(d)'
<1>1. closing # <<>> /\ c = closing[1]
  BY DEF Closes
<1>2. /\ closing' \in Seq(Clients) /\ Len(closing') = Len(closing) - 1
      /\ \A i \in 1 .. Len(closing') : closing'[i] = closing[i + 1]
      /\ Len(closing) \in Nat \ {0} /\ Len(closing') \in Nat
  BY <1>1
<1>3. ASSUME NEW d \in Clients, NEW i \in 1 .. Len(closing), closing[i] = d, d # c
      PROVE  ToBeClosed(d)'
  <2>1. i - 1 \in 1 .. Len(closing') /\ closing'[i - 1] = d
    BY <1>1, <1>2, <1>3
  <2> QED
    BY <2>1 DEF ToBeClosed
<1> QED
  BY <1>2, <1>3 DEF ToBeClosed

LEMMA CloseSteps ==
    ASSUME IInv, NEW c \in Clients, CloseStep(c)
    PROVE  IInv'
<1> USE ServerGrabAssumption DEF grabVars, queueVars, clientVars, inputVars
<1>0. /\ NoClient \notin Clients /\ closing \in Seq(Clients)
      /\ connected \in SUBSET Clients /\ masks \in Masks
      /\ MaskOK(masks, connected) /\ ClientsOK
  BY DEF IInv, TypeOK, Clients, NoClient
<1>1. CASE ReleaseGrab(c)
  <2> USE <1>1 DEF ReleaseGrab, UngrabServer
  <2> DEFINE n == ListenToAllClients(masks)
  <2>1. c \in connected
    OBVIOUS
  <2>2. MaskOK(n, connected) /\ n \in Masks /\ n.grab = NoClient
    BY <1>0, <2>1, MasksKept, GrabFields, MasksInOrder
  <2>3. MaskOK(masks', connected) /\ masks'.grab = NoClient
    <3>1. CASE masks' = n
      BY <3>1, <2>2
    <3>2. ASSUME NEW w \in Clients, NextWaiter(w), masks' = AttendClient(n, w)
          PROVE  MaskOK(masks', connected) /\ masks'.grab = NoClient
      <4>1. w \in connected
        BY <3>2, <1>0 DEF NextWaiter, ClientsOK
      <4> QED
        BY <3>2, <4>1, <1>0, <2>2, MasksKept, GrabFields
    <3> QED
      BY <3>1, <3>2
  <2>4. TypeOK'
    BY <2>3, MasksInOrder DEF IInv, TypeOK
  <2>5. GrabsAgree' /\ ClientsOK' /\ RoundOK' /\ SliceOK'
    BY <1>0, <2>3 DEF IInv, GrabsAgree, ClientsOK, RoundOK, SliceOK
  <2> QED
    BY <2>3, <2>4, <2>5 DEF IInv
<1>2. CASE CloseDownConnection(c)
  <2> USE <1>2 DEF CloseDownConnection
  <2>1. c # masks.grab
    BY <1>0 DEF IInv, GrabsAgree, HoldsGrab
  <2>2. MaskOK(masks', connected') /\ masks'.grab = masks.grab
        /\ masks'.impervious = masks.impervious \ {c}
    BY <1>0, <2>1, MasksKept, GrabFields, ImperviousFields
  <2>3. closing' \in Seq(Clients)
        /\ \A d \in Clients : ToBeClosed(d) => d = c \/ ToBeClosed(d)'
    BY <1>0, Popped
  <2>4. TypeOK'
    <3>1. masks' \in Masks
      BY <2>2, MasksInOrder
    <3>2. 0 \in 0 .. MaxRequests
      OBVIOUS
    <3> QED
      BY <3>1, <3>2, <2>3 DEF IInv, TypeOK
  <2>5. GrabsAgree' /\ ClientsOK'
    BY <1>0, <2>2 DEF IInv, GrabsAgree, ClientsOK, HoldsGrab
  <2>6. RoundOK'
    BY <1>0, <2>2 DEF IInv, TypeOK, RoundOK
  <2>7. SliceOK'
    <3>1. CASE current = c
      BY <3>1, <1>0 DEF SliceOK
    <3>2. CASE current # c
      <4>1. current' = current /\ (current \in Clients => (ToBeClosed(current) => ToBeClosed(current)'))
        BY <3>2, <2>3 DEF ToBeClosed
      <4> QED
        BY <4>1, <3>2, <2>2, <1>0 DEF IInv, SliceOK, ToBeClosed
    <3> QED
      BY <3>1, <3>2
  <2> QED
    BY <2>2, <2>4, <2>5, <2>6, <2>7 DEF IInv
<1>3. CASE FreeRetained(c)
  <2> USE <1>3 DEF FreeRetained
  <2>1. /\ closing' \in Seq(Clients)
        /\ \A d \in Clients : ToBeClosed(d) => d = c \/ ToBeClosed(d)'
    BY <1>0, Popped
  <2>2. TypeOK'
    BY <2>1 DEF IInv, TypeOK
  <2>3. MaskOK(masks, connected)' /\ GrabsAgree' /\ ClientsOK' /\ RoundOK'
    BY <1>0 DEF IInv, MaskOK, GrabsAgree, ClientsOK, RoundOK
  <2>4. SliceOK'
    <3>1. c \notin connected
      BY <1>0 DEF ClientsOK
    <3>2. current' = current /\ (current \in connected /\ ToBeClosed(current) => ToBeClosed(current)')
      BY <2>1, <3>1, <1>0 DEF ToBeClosed
    <3> QED
      BY <3>2 DEF IInv, SliceOK, ToBeClosed
  <2> QED
    BY <2>2, <2>3, <2>4 DEF IInv
<1> QED
  BY <1>1, <1>2, <1>3 DEF CloseStep

-----------------------------------------------------------------------------
(* The theorems.                                                            *)

LEMMA NextStep == IInv /\ [Next]_vars => IInv'
<1> SUFFICES ASSUME IInv, [Next]_vars PROVE IInv'
  OBVIOUS
<1>1. CASE WorkStep
  BY <1>1, WorkSteps
<1>2. CASE WaitForSomething
  BY <1>2, WaitStep
<1>3. CASE Kickout
  BY <1>3, RoundSteps
<1>4. ASSUME NEW c \in Clients, RoundStep(c)
      PROVE  IInv'
  BY <1>4, RoundSteps
<1>5. ASSUME NEW c \in Clients, SliceStep(c)
      PROVE  IInv'
  BY <1>5, SliceSteps, Requests1, Requests2 DEF SliceStep
<1>6. ASSUME NEW c \in Clients, CloseStep(c)
      PROVE  IInv'
  BY <1>6, CloseSteps
<1>7. ASSUME NEW c \in Clients, WorldStep(c)
      PROVE  IInv'
  BY <1>7, WorldSteps
<1>8. CASE UNCHANGED vars
  BY <1>8 DEF vars, IInv, TypeOK, MaskOK, GrabsAgree, ClientsOK, RoundOK,
              SliceOK, ToBeClosed
<1> QED
  BY <1>1, <1>2, <1>3, <1>4, <1>5, <1>6, <1>7, <1>8 DEF Next, ServerStep

THEOREM Invariance == Spec => []IInv
<1> QED
  BY InitStep, NextStep, PTL DEF Spec

\* Every variable of the scheduler keeps its type.
THEOREM TypeCorrect == Spec => []TypeOK
<1>1. IInv => TypeOK
  BY DEF IInv
<1> QED
  BY Invariance, <1>1, PTL

\* While the server is grabbed nobody else executes a request, impervious
\* clients excepted.
THEOREM ExclusionCorrect == Spec => []GrabExcludesOthers
<1>1. IInv => GrabExcludesOthers
  <2> SUFFICES ASSUME IInv, NEW c \in Clients, grabState # "None", InSlice(c)
               PROVE  c \in {grabClient} \cup masks.impervious
    BY DEF GrabExcludesOthers
  <2> QED
    BY SliceFacts
<1> QED
  BY Invariance, <1>1, PTL

\* dix and os agree about who has the server.
THEOREM AgreementCorrect == Spec => []GrabsAgree
<1>1. IInv => GrabsAgree
  BY DEF IInv
<1> QED
  BY Invariance, <1>1, PTL

\* Only clients with a connection are listened to, attended or made to wait.
THEOREM MasksCorrect == Spec => []MasksHoldConnections
<1>1. IInv => MasksHoldConnections
  BY DEF IInv, MaskOK, ClientsOK, MasksHoldConnections
<1> QED
  BY Invariance, <1>1, PTL

\* A grab ends before the next one begins.
THEOREM GrabsAreExclusive == Spec => GrabIsNeverStolen
<1>1. ASSUME [Next]_vars, grabState # "None", grabState' # "None"
      PROVE  grabClient' = grabClient
  BY <1>1 DEF Next, ServerStep, WorldStep, WorkStep, RoundStep, SliceStep,
       CloseStep, ClientSends, ClientBreaks, CompleteSleeper, KillStraggler,
       EstablishNewConnection, WaitForSomething, SkipKilled, Kickout,
       BeginSlice, EndSlice, ReadNothing, OtherRequest, GrabServer,
       WaitForGrab, UngrabRequest, UngrabServer, KillClient, ClientSleep,
       ImperviousRequest, PerviousRequest, ReleaseGrab, CloseDownConnection,
       FreeRetained, vars, grabVars
<1>2. [Next]_vars => [grabState # "None" /\ grabState' # "None"
                          => grabClient' = grabClient]_vars
  BY <1>1
<1> QED
  BY <1>2, PTL DEF Spec, GrabIsNeverStolen

-----------------------------------------------------------------------------
(* Nobody is forgotten.  The masks are looked at together with W, the       *)
(* clients that wait or sleep.                                              *)

\* A saved mask is used during a grab only, and who has input is listened to.
Joined(m) ==
    /\ m.grab = NoClient => m.saved = {} /\ m.savedInput = {}
    /\ m.input \subseteq m.all
    /\ m.savedInput \subseteq m.saved

\* Who is listened to during the grab of another will be after it.
Recallable(m) == m.grab # NoClient => m.all \ {m.grab} \subseteq m.saved

Known(m, W, c) == c \in W \cup m.all \cup m.saved

Looked(m, W, c) == c \in m.input \cup m.savedInput \cup (W \cap m.ignoredInput)

\* n, with the waiters V, forgets nothing that m, with W, knows.
Remembers(m, W, n, V) ==
    \A c \in Clients : /\ Known(m, W, c) => Known(n, V, c)
                       /\ Looked(m, W, c) => Looked(n, V, c)

LEMMA RememberingComposes ==
    ASSUME NEW m, NEW W, NEW n, NEW V, NEW k, NEW U,
           Remembers(m, W, n, V), Remembers(n, V, k, U)
    PROVE  Remembers(m, W, k, U)
BY DEF Remembers

LEMMA GrabRemembers ==
    ASSUME NEW m \in Masks, NEW c \in Clients, Joined(m), NEW W
    PROVE  /\ Joined(OnlyListenToOneClient(m, c))
           /\ Recallable(m) => Recallable(OnlyListenToOneClient(m, c))
           /\ Remembers(m, W, OnlyListenToOneClient(m, c), W)
           /\ m.all \cup m.saved
                 \subseteq OnlyListenToOneClient(m, c).all \cup OnlyListenToOneClient(m, c).saved
           /\ m.grab = NoClient \/ c \in m.all => c \in OnlyListenToOneClient(m, c).all
<1> DEFINE n == OnlyListenToOneClient(m, c)
<1>1. CASE m.grab # NoClient
  BY <1>1 DEF OnlyListenToOneClient, Remembers
<1>2. CASE m.grab = NoClient
  <2>1. /\ n.savedInput = m.input \ (m.impervious \cup {c})
        /\ n.input = m.input \cap (m.impervious \cup {c})
        /\ n.saved = m.all
        /\ n.all = (m.all \cap m.impervious) \cup {c}
        /\ n.grab = c
        /\ n.ignoredInput = m.ignoredInput
    BY <1>2 DEF OnlyListenToOneClient, Masks
  <2>2. m.saved = {} /\ m.savedInput = {} /\ m.input \subseteq m.all
    BY <1>2 DEF Joined
  <2>3. c # NoClient
    BY DEF Clients, NoClient
  <2> HIDE DEF n
  <2>4. Joined(n) /\ Recallable(n)
    BY <2>1, <2>2, <2>3 DEF Joined, Recallable
  <2>5. Remembers(m, W, n, W)
    BY <2>1, <2>2 DEF Remembers, Known, Looked
  <2>6. m.all \cup m.saved \subseteq n.all \cup n.saved /\ c \in n.all
    BY <2>1, <2>2
  <2> QED
    BY <2>4, <2>5, <2>6 DEF n
<1> QED
  BY <1>1, <1>2

LEMMA UngrabRemembers ==
    ASSUME NEW m \in Masks, Joined(m), NEW W
    PROVE  /\ ListenToAllClients(m) \in Masks
           /\ Joined(ListenToAllClients(m)) /\ Recallable(ListenToAllClients(m))
           /\ ListenToAllClients(m).grab = NoClient
           /\ Remembers(m, W, ListenToAllClients(m), W)
           /\ ListenToAllClients(m).all = m.all \cup m.saved
           /\ ListenToAllClients(m).saved = {}
<1> DEFINE n == ListenToAllClients(m)
<1>1. /\ n \in Masks
      /\ n.all = m.all \cup m.saved /\ n.input = m.input \cup m.savedInput
      /\ n.saved = {} /\ n.savedInput = {} /\ n.grab = NoClient
      /\ n.ignoredInput = m.ignoredInput
  BY DEF ListenToAllClients, Masks
<1> HIDE DEF n
<1>2. Joined(n) /\ Recallable(n)
  BY <1>1 DEF Joined, Recallable
<1>3. Remembers(m, W, n, W)
  BY <1>1 DEF Remembers, Known, Looked
<1> QED
  BY <1>1, <1>2, <1>3 DEF n

\* A client is ignored while it is listened to, with its input remembered.
LEMMA IgnoreRemembers ==
    ASSUME NEW m \in Masks, NEW c \in Clients, Joined(m), c \in m.all, NEW W,
           NEW n, n = IgnoreClient(m, c)
    PROVE  /\ Joined(n) /\ n.grab = m.grab
           /\ Recallable(m) => Recallable(n)
           /\ n.all = m.all \ {c} /\ n.saved = m.saved
           /\ \A d \in Clients : Known(m, W, d) => Known(n, W \cup {c}, d)
           /\ \A d \in Clients : d # c /\ Looked(m, W, d) => Looked(n, W \cup {c}, d)
           /\ c \in m.input => Looked(n, W \cup {c}, c)
<1>1. /\ n.all = m.all \ {c} /\ n.input = m.input \ {c}
      /\ n.saved = m.saved /\ n.savedInput = m.savedInput /\ n.grab = m.grab
      /\ n.ignoredInput = RememberInput(m, c, c \in m.input)
  BY DEF IgnoreClient, Masks
<1>2. /\ c \in m.input => n.ignoredInput = m.ignoredInput \cup {c}
      /\ m.ignoredInput \ {c} \subseteq n.ignoredInput
  BY <1>1 DEF RememberInput
<1>3. Joined(n) /\ (Recallable(m) => Recallable(n))
  BY <1>1 DEF Joined, Recallable
<1>4. \A d \in Clients : Known(m, W, d) => Known(n, W \cup {c}, d)
  BY <1>1 DEF Known
<1>5. \A d \in Clients : d # c /\ Looked(m, W, d) => Looked(n, W \cup {c}, d)
  BY <1>1, <1>2 DEF Looked
<1>6. c \in m.input => Looked(n, W \cup {c}, c)
  BY <1>2 DEF Looked
<1> QED
  BY <1>1, <1>3, <1>4, <1>5, <1>6

\* A client is attended, and does not wait (or sleep) any more.
LEMMA AttendRemembers ==
    ASSUME NEW m \in Masks, NEW c \in Clients, Joined(m), NEW W, NEW V, W \ {c} \subseteq V,
           NEW n, n = AttendClient(m, c)
    PROVE  /\ Joined(n) /\ n.grab = m.grab
           /\ m.grab = NoClient => Recallable(n) /\ n.all = m.all \cup {c} /\ n.saved = {}
           /\ m.all \subseteq n.all /\ m.saved \subseteq n.saved
           /\ n.all \cup n.saved \subseteq m.all \cup m.saved \cup {c}
           /\ n.all \subseteq m.all \cup {c} /\ n.saved \subseteq m.saved \cup {c}
           /\ Remembers(m, W, n, V)
<1>1. n \in Masks /\ n.grab = m.grab /\ n.ignoredInput = m.ignoredInput
  BY MaskTypes, GrabFields DEF AttendClient, Masks
<1>2. CASE m.grab \in {NoClient, c} \/ c \in m.impervious
  <2>1. /\ n.all = m.all \cup {c} /\ n.saved = m.saved
        /\ n.input = m.input \cup ({c} \cap m.ignoredInput)
        /\ n.savedInput = m.savedInput
    BY <1>2 DEF AttendClient, Masks
  <2>2. Joined(n) /\ (m.grab = NoClient => Recallable(n) /\ n.saved = {})
    BY <1>1, <2>1 DEF Joined, Recallable
  <2>3. Remembers(m, W, n, V)
    BY <1>1, <2>1 DEF Remembers, Known, Looked
  <2> QED
    BY <1>1, <2>1, <2>2, <2>3
<1>3. CASE ~(m.grab \in {NoClient, c} \/ c \in m.impervious)
  <2>1. /\ n.all = m.all /\ n.saved = m.saved \cup {c}
        /\ n.input = m.input
        /\ n.savedInput = m.savedInput \cup ({c} \cap m.ignoredInput)
    BY <1>3 DEF AttendClient, Masks
  <2>2. Joined(n)
    BY <1>1, <1>3, <2>1 DEF Joined
  <2>3. Remembers(m, W, n, V)
    BY <1>1, <2>1 DEF Remembers, Known, Looked
  <2> QED
    BY <1>1, <1>3, <2>1, <2>2, <2>3
<1> QED
  BY <1>2, <1>3

\* A client makes itself pervious; during the grab of another it is known
\* only if it is in the saved mask.
LEMMA PerviousRemembers ==
    ASSUME NEW m \in Masks, NEW c \in Clients, Joined(m), NEW W,
           m.grab \notin {NoClient, c} => c \in m.saved,
           NEW n, n = MakeClientGrabPervious(m, c)
    PROVE  /\ Joined(n) /\ n.grab = m.grab
           /\ Recallable(m) => Recallable(n)
           /\ Remembers(m, W, n, W)
           /\ n.saved = m.saved
           /\ n.all = IF m.grab \in {NoClient, c} THEN m.all ELSE m.all \ {c}
<1>1. CASE m.grab \in {NoClient, c}
  <2>1. /\ n.all = m.all /\ n.saved = m.saved /\ n.input = m.input
        /\ n.savedInput = m.savedInput /\ n.ignoredInput = m.ignoredInput /\ n.grab = m.grab
    BY <1>1 DEF MakeClientGrabPervious, Masks
  <2> QED
    BY <1>1, <2>1 DEF Joined, Recallable, Remembers, Known, Looked
<1>2. CASE m.grab \notin {NoClient, c}
  <2>1. /\ n.all = m.all \ {c} /\ n.saved = m.saved /\ n.input = m.input \ {c}
        /\ n.savedInput = m.savedInput \cup ({c} \cap m.input)
        /\ n.ignoredInput = m.ignoredInput /\ n.grab = m.grab
    BY <1>2 DEF MakeClientGrabPervious, Masks
  <2> QED
    BY <1>2, <2>1 DEF Joined, Recallable, Remembers, Known, Looked
<1> QED
  BY <1>1, <1>2

LEMMA OthersRemember ==
    ASSUME NEW m \in Masks, NEW c \in Clients, Joined(m), NEW W
    PROVE  /\ c \in m.all =>
                 /\ Joined(ResetCurrentRequest(m, c)) /\ c \in ResetCurrentRequest(m, c).input
                 /\ Recallable(m) => Recallable(ResetCurrentRequest(m, c))
                 /\ Remembers(m, W, ResetCurrentRequest(m, c), W)
                 /\ ResetCurrentRequest(m, c) \in Masks
                 /\ ResetCurrentRequest(m, c).all = m.all
                 /\ ResetCurrentRequest(m, c).saved = m.saved
           /\ Joined(MakeClientGrabImpervious(m, c))
           /\ Recallable(m) => Recallable(MakeClientGrabImpervious(m, c))
           /\ Remembers(m, W, MakeClientGrabImpervious(m, c), W)
           /\ MakeClientGrabImpervious(m, c).all = m.all
           /\ MakeClientGrabImpervious(m, c).saved = m.saved
<1>1. ASSUME c \in m.all, NEW n, n = ResetCurrentRequest(m, c)
      PROVE  /\ Joined(n) /\ c \in n.input /\ (Recallable(m) => Recallable(n))
             /\ Remembers(m, W, n, W) /\ n \in Masks /\ n.all = m.all /\ n.saved = m.saved
  <2>1. /\ n \in Masks /\ n.all = m.all /\ n.saved = m.saved /\ n.input = m.input \cup {c}
        /\ n.savedInput = m.savedInput /\ n.ignoredInput = m.ignoredInput /\ n.grab = m.grab
    BY <1>1 DEF ResetCurrentRequest, Masks
  <2> QED
    BY <1>1, <2>1 DEF Joined, Recallable, Remembers, Known, Looked
<1>2. ASSUME NEW n, n = MakeClientGrabImpervious(m, c)
      PROVE  /\ Joined(n) /\ (Recallable(m) => Recallable(n))
             /\ Remembers(m, W, n, W) /\ n.all = m.all /\ n.saved = m.saved
  <2>1. /\ n.all = m.all /\ n.saved = m.saved /\ n.input = m.input
        /\ n.savedInput = m.savedInput /\ n.ignoredInput = m.ignoredInput /\ n.grab = m.grab
    BY <1>2 DEF MakeClientGrabImpervious, Masks
  <2> QED
    BY <2>1 DEF Joined, Recallable, Remembers, Known, Looked
<1> QED
  BY <1>1, <1>2

\* A connection comes.
LEMMA NewRemembers ==
    ASSUME NEW m \in Masks, NEW c \in Clients, Joined(m), NEW W,
           NEW n, n = AllocNewConnection(m, c)
    PROVE  /\ Joined(n) /\ n.grab = m.grab
           /\ Recallable(m) => Recallable(n)
           /\ Remembers(m, W, n, W) /\ Known(n, W, c)
           /\ n.all \subseteq m.all \cup {c} /\ n.saved \subseteq m.saved \cup {c}
<1>1. CASE m.grab = NoClient
  <2>1. /\ n.all = m.all \cup {c} /\ n.saved = m.saved /\ n.input = m.input
        /\ n.savedInput = m.savedInput /\ n.ignoredInput = m.ignoredInput /\ n.grab = m.grab
    BY <1>1 DEF AllocNewConnection, Masks
  <2> QED
    BY <1>1, <2>1 DEF Joined, Recallable, Remembers, Known, Looked
<1>2. CASE m.grab # NoClient
  <2>1. /\ n.all = m.all /\ n.saved = m.saved \cup {c} /\ n.input = m.input
        /\ n.savedInput = m.savedInput /\ n.ignoredInput = m.ignoredInput /\ n.grab = m.grab
    BY <1>2 DEF AllocNewConnection, Masks
  <2> QED
    BY <1>2, <2>1 DEF Joined, Recallable, Remembers, Known, Looked
<1> QED
  BY <1>1, <1>2

\* A connection goes: the others stay as they are.
LEMMA CloseRemembers ==
    ASSUME NEW m \in Masks, NEW c \in Clients, Joined(m), NEW W,
           NEW n, n = CloseDownFileDescriptor(m, c)
    PROVE  /\ Joined(n) /\ n.grab = m.grab
           /\ Recallable(m) => Recallable(n)
           /\ \A d \in Clients \ {c} : /\ Known(m, W, d) => Known(n, W \ {c}, d)
                                       /\ Looked(m, W, d) => Looked(n, W \ {c}, d)
           /\ n.all = m.all \ {c} /\ n.saved = m.saved \ {c}
<1>1. /\ n.all = m.all \ {c} /\ n.saved = m.saved \ {c} /\ n.input = m.input \ {c}
      /\ n.savedInput = m.savedInput \ {c} /\ n.ignoredInput = m.ignoredInput /\ n.grab = m.grab
  BY DEF CloseDownFileDescriptor, Masks
<1> QED
  BY <1>1 DEF Joined, Recallable, Known, Looked

\* What a read leaves of the masks.
LEMMA ReadRemembers ==
    ASSUME NEW c \in Clients, masks \in Masks, Joined(masks), c \in masks.all, NEW W
    PROVE  /\ MasksRead(c) \in Masks /\ Joined(MasksRead(c)) /\ MasksRead(c).grab = masks.grab
           /\ Recallable(masks) => Recallable(MasksRead(c))
           /\ \A d \in Clients : Known(masks, W, d) => Known(MasksRead(c), W, d)
           /\ \A d \in Clients : d # c /\ Looked(masks, W, d) => Looked(MasksRead(c), W, d)
           /\ c \in MasksRead(c).input <=> Whole(c) > 1
           /\ MasksRead(c).all = masks.all /\ MasksRead(c).saved = masks.saved
<1> DEFINE n == MasksRead(c)
<1>1. /\ n \in Masks /\ n.all = masks.all /\ n.saved = masks.saved /\ n.grab = masks.grab
      /\ n.savedInput = masks.savedInput /\ n.ignoredInput = masks.ignoredInput
      /\ n.input = IF Whole(c) > 1 THEN masks.input \cup {c} ELSE masks.input \ {c}
  BY DEF MasksRead, Masks
<1> HIDE DEF n
<1>2. Joined(n) /\ (Recallable(masks) => Recallable(n))
  BY <1>1 DEF Joined, Recallable
<1>3. \A d \in Clients : Known(masks, W, d) => Known(n, W, d)
  BY <1>1 DEF Known
<1>4. \A d \in Clients : d # c /\ Looked(masks, W, d) => Looked(n, W, d)
  BY <1>1 DEF Looked
<1>5. c \in n.input <=> Whole(c) > 1
  BY <1>1
<1> QED
  BY <1>1, <1>2, <1>3, <1>4, <1>5 DEF n

-----------------------------------------------------------------------------
(* What is inductive besides.  Clients are forgotten when some sleep while   *)
(* they are impervious and others take that back (connection.c:1236): the    *)
(* results below are for clients that do not make requests of all three      *)
(* kinds.                                                                   *)

Mixed == {"Sleep", "Impervious", "Pervious"} \subseteq Requests

Waits == grabWaiters \cup sleepQueue

RequestsOK ==
    /\ "Sleep" \notin Requests => sleepQueue = {} /\ Recallable(masks)
    /\ "Impervious" \notin Requests => masks.impervious = {}

\* Who is left of the round is listened to, or will be when a grab that ended
\* the round is over; so is the client whose slice it is.
ListenedOK ==
    /\ ready \cap connected \subseteq masks.all \cup masks.saved
    /\ grabState # "Kickout" => ready \cap connected \subseteq masks.all
    /\ current \in connected /\ ~ToBeClosed(current) => current \in masks.all

BuffersOK ==
    /\ \A c \in connected : /\ Known(masks, Waits, c)
                            /\ buffer[c] > 0 => Looked(masks, Waits, c)
    /\ \A c \in Clients \ connected : buffer[c] = 0

RInv == Joined(masks) /\ RequestsOK /\ ListenedOK /\ BuffersOK

LEMMA InitRemembers == Init => RInv
<1> SUFFICES ASSUME Init PROVE RInv
  OBVIOUS
<1> USE DEF Init
<1>1. Joined(masks) /\ RequestsOK
  BY DEF Joined, RequestsOK, Recallable
<1>2. ListenedOK /\ BuffersOK
  BY DEF ListenedOK, BuffersOK
<1> QED
  BY <1>1, <1>2 DEF RInv

\* Steps that leave the masks, those who wait, connections and buffers alone.
LEMMA SameMasks ==
    ASSUME RInv, UNCHANGED <<masks, grabWaiters, sleepQueue, connected, buffer>>, ListenedOK'
    PROVE  RInv'
BY DEF RInv, RequestsOK, BuffersOK, Waits, Recallable, Joined, Known, Looked

LEMMA QuietSteps ==
    ASSUME IInv, RInv,
           \/ WaitForSomething \/ Kickout
           \/ \E c \in Clients : \/ WorldStep(c) \/ KillStraggler(c) \/ RoundStep(c)
                                 \/ EndSlice(c) \/ FreeRetained(c)
    PROVE  RInv'
<1> USE DEF grabVars, clientVars, queueVars, inputVars
<1>0. /\ ListenedOK /\ NoClient \notin Clients /\ connected \in SUBSET Clients
      /\ masks.input \subseteq masks.all
  BY DEF RInv, Joined, IInv, TypeOK, Clients, NoClient
<1>1. CASE WaitForSomething
  <2>1. /\ UNCHANGED <<masks, grabWaiters, sleepQueue, connected, buffer>>
        /\ current' = NoClient
    BY <1>1 DEF WaitForSomething, Idle
  <2>2. ready' \subseteq masks.all
    BY <1>0, <1>1 DEF WaitForSomething, Readable, Polled
  <2>3. ListenedOK'
    BY <1>0, <2>1, <2>2 DEF ListenedOK
  <2> QED
    BY <2>1, <2>3, SameMasks
<1>2. CASE Kickout
  <2>1. UNCHANGED <<masks, grabWaiters, sleepQueue, connected, buffer>>
    BY <1>2 DEF Kickout
  <2>2. ListenedOK'
    BY <1>0, <1>2, <2>1 DEF Kickout, ListenedOK, InRound
  <2> QED
    BY <2>1, <2>2, SameMasks
<1>3. ASSUME NEW c \in Clients, WorldStep(c) PROVE RInv'
  <2>1. UNCHANGED <<masks, grabWaiters, sleepQueue, connected, buffer, ready, current,
                    grabState, closing>>
    BY <1>3 DEF WorldStep, ClientSends, ClientBreaks
  <2>2. ListenedOK'
    BY <1>0, <2>1 DEF ListenedOK, ToBeClosed
  <2> QED
    BY <2>1, <2>2, SameMasks
<1>4. ASSUME NEW c \in Clients, KillStraggler(c) PROVE RInv'
  <2>1. /\ UNCHANGED <<masks, grabWaiters, sleepQueue, connected, buffer, ready, current, grabState>>
        /\ current = NoClient
    BY <1>4 DEF KillStraggler, Accepts, Idle
  <2>2. ListenedOK'
    BY <1>0, <2>1 DEF ListenedOK
  <2> QED
    BY <2>1, <2>2, SameMasks
<1>5. ASSUME NEW c \in Clients, RoundStep(c) PROVE RInv'
  <2>1. /\ UNCHANGED <<masks, grabWaiters, sleepQueue, connected, buffer, grabState>>
        /\ ready' = ready \ {c}
    BY <1>5 DEF RoundStep, SkipKilled, BeginSlice
  <2>2. \/ current' = NoClient
        \/ current' = c /\ c \in ready /\ grabState # "Kickout"
    BY <1>5 DEF RoundStep, SkipKilled, BeginSlice, InRound
  <2>3. ListenedOK'
    BY <1>0, <2>1, <2>2 DEF ListenedOK
  <2> QED
    BY <2>1, <2>3, SameMasks
<1>6. ASSUME NEW c \in Clients, EndSlice(c) PROVE RInv'
  <2>1. /\ UNCHANGED <<masks, grabWaiters, sleepQueue, connected, buffer, ready, grabState>>
        /\ current' = NoClient
    BY <1>6 DEF EndSlice
  <2>2. ListenedOK'
    BY <1>0, <2>1 DEF ListenedOK
  <2> QED
    BY <2>1, <2>2, SameMasks
<1>7. ASSUME NEW c \in Clients, FreeRetained(c) PROVE RInv'
  <2>1. /\ UNCHANGED <<masks, grabWaiters, sleepQueue, connected, buffer, ready, grabState, current>>
        /\ c \in retained /\ Closes(c) /\ closing' = Tail(closing)
    BY <1>7 DEF FreeRetained
  <2>2. c \notin connected /\ closing \in Seq(Clients)
    BY <2>1 DEF IInv, ClientsOK, TypeOK
  <2>3. current \in connected /\ ToBeClosed(current) => ToBeClosed(current)'
    <3>1. \A d \in Clients : ToBeClosed(d) => d = c \/ ToBeClosed(d)'
      BY <2>1, <2>2, Popped
    <3> QED
      BY <1>0, <2>1, <2>2, <3>1 DEF ToBeClosed
  <2>4. ListenedOK'
    BY <1>0, <2>1, <2>3 DEF ListenedOK, ToBeClosed
  <2> QED
    BY <2>1, <2>4, SameMasks
<1> QED
  BY <1>1, <1>2, <1>3, <1>4, <1>5, <1>6, <1>7

\* A sleeper goes on, a client connects.
LEMMA WorkRemembers ==
    ASSUME IInv, RInv,
           EstablishNewConnection \/ \E c \in Clients : CompleteSleeper(c)
    PROVE  RInv'
<1> USE DEF grabVars, clientVars, queueVars, inputVars
<1>0. /\ ListenedOK /\ RequestsOK /\ BuffersOK /\ Joined(masks) /\ masks \in Masks
      /\ NoClient \notin Clients /\ connected \in SUBSET Clients
      /\ Waits \subseteq connected
  BY DEF RInv, IInv, TypeOK, ClientsOK, Clients, NoClient, Waits
<1>1. ASSUME NEW c \in Clients, CompleteSleeper(c) PROVE RInv'
  <2>1. /\ current = NoClient /\ ready = {}
        /\ UNCHANGED <<grabWaiters, connected, buffer, ready, current, grabState>>
    BY <1>1 DEF CompleteSleeper, Idle
  <2>2. CASE UNCHANGED <<sleepQueue, masks>>
    <3>1. ListenedOK'
      BY <1>0, <2>1 DEF ListenedOK
    <3> QED
      BY <2>1, <2>2, <3>1, SameMasks
  <2>3. CASE /\ c \in sleepQueue /\ sleepQueue' = sleepQueue \ {c}
             /\ masks' = AttendClient(masks, c)
    <3>1. Waits \ {c} \subseteq Waits'
      BY <2>1, <2>3 DEF Waits
    <3>2. Joined(masks') /\ Remembers(masks, Waits, masks', Waits')
      BY <1>0, <2>3, <3>1, AttendRemembers
    <3>3. masks'.impervious = masks.impervious
      BY <1>0, <2>3, ImperviousFields
    <3>4. RequestsOK'
      BY <1>0, <2>3, <3>3 DEF RequestsOK
    <3>5. ListenedOK'
      BY <1>0, <2>1 DEF ListenedOK
    <3>6. BuffersOK'
      BY <1>0, <2>1, <3>2 DEF BuffersOK, Remembers
    <3> QED
      BY <3>2, <3>4, <3>5, <3>6 DEF RInv
  <2> QED
    BY <1>1, <2>2, <2>3 DEF CompleteSleeper
<1>2. ASSUME EstablishNewConnection PROVE RInv'
  <2>1. /\ current = NoClient /\ ready = {}
        /\ UNCHANGED <<grabWaiters, sleepQueue, buffer, ready, current, grabState>>
    BY <1>2 DEF EstablishNewConnection, Accepts, Idle
  <2>2. CASE UNCHANGED <<masks, connected>>
    <3>1. ListenedOK'
      BY <1>0, <2>1, <2>2 DEF ListenedOK
    <3> QED
      BY <2>1, <2>2, <3>1, SameMasks
  <2>3. ASSUME NEW c \in FreeSlots, connected' = connected \cup {c},
               masks' = AllocNewConnection(masks, c)
        PROVE  RInv'
    <3>1. c \in Clients \ connected /\ Waits' = Waits
      BY <2>1 DEF FreeSlots, Waits
    <3>2. /\ Joined(masks') /\ (Recallable(masks) => Recallable(masks'))
          /\ Remembers(masks, Waits, masks', Waits) /\ Known(masks', Waits, c)
      BY <1>0, <2>3, <3>1, NewRemembers
    <3>3. masks'.impervious = masks.impervious
      BY <1>0, <2>3, <3>1, ImperviousFields
    <3>4. RequestsOK'
      BY <1>0, <2>1, <3>2, <3>3 DEF RequestsOK
    <3>5. ListenedOK'
      BY <1>0, <2>1, <2>3, <3>1 DEF ListenedOK
    <3>6. buffer[c] = 0
      BY <1>0, <3>1 DEF BuffersOK
    <3>7. BuffersOK'
      BY <1>0, <2>1, <2>3, <3>1, <3>2, <3>6 DEF BuffersOK, Remembers
    <3> QED
      BY <3>2, <3>4, <3>5, <3>7 DEF RInv
  <2> QED
    BY <1>2, <2>2, <2>3 DEF EstablishNewConnection
<1> QED
  BY <1>1, <1>2

-----------------------------------------------------------------------------
(* The requests again.                                                      *)

LEMMA SliceListens ==
    ASSUME IInv, RInv, NEW c \in Clients, InSlice(c)
    PROVE  /\ c \in masks.all /\ c \notin ready /\ c \in connected /\ closing = <<>>
           /\ connected \in SUBSET Clients /\ masks \in Masks /\ Joined(masks)
           /\ NoClient \notin Clients /\ buffer \in [Clients -> 0 .. MaxRequests]
           /\ Whole(c) \in 0 .. MaxRequests
           /\ grabState # "None" => c \in {grabClient} \cup masks.impervious
           /\ masks.grab = IF grabState = "None" THEN NoClient ELSE grabClient
BY SliceFacts DEF RInv, ListenedOK, InSlice, ToBeClosed, IInv, GrabsAgree, TypeOK,
                  Clients, NoClient

\* What a step in the slice of c has to show.
LEMMA AfterSlice ==
    ASSUME IInv, RInv, NEW c \in Clients, InSlice(c),
           Joined(masks'), RequestsOK', UNCHANGED <<connected, ready>>,
           \/ masks.all \cup masks.saved \subseteq masks'.all \cup {c}
           \/ /\ masks.all \cup masks.saved \subseteq masks'.all \cup masks'.saved \cup {c}
              /\ grabState' = "Kickout"
           \/ /\ masks.all \cup masks.saved \subseteq masks'.all \cup masks'.saved \cup {c}
              /\ masks.all \subseteq masks'.all \cup {c} /\ UNCHANGED grabState,
           current' \in {c, NoClient},
           current' = c /\ ~ToBeClosed(c)' => c \in masks'.all,
           \A d \in Clients \ {c} :
              /\ buffer'[d] = buffer[d]
              /\ Known(masks, Waits, d) => Known(masks', Waits', d)
              /\ Looked(masks, Waits, d) => Looked(masks', Waits', d),
           Known(masks', Waits', c),
           buffer'[c] > 0 => Looked(masks', Waits', c)
    PROVE  RInv'
<1>1. /\ c \in masks.all /\ c \notin ready /\ c \in connected
      /\ connected \in SUBSET Clients /\ NoClient \notin Clients
  BY SliceListens
<1>2. ListenedOK /\ BuffersOK
  BY DEF RInv
<1>3. ready' \cap connected' \subseteq masks'.all \cup masks'.saved
  BY <1>1, <1>2 DEF ListenedOK
<1>4. grabState' # "Kickout" => ready' \cap connected' \subseteq masks'.all
  BY <1>1, <1>2 DEF ListenedOK
<1>5. current' \in connected' /\ ~ToBeClosed(current)' => current' \in masks'.all
  <2>1. CASE current' = NoClient
    BY <1>1, <2>1
  <2>2. CASE current' = c
    BY <2>2 DEF ToBeClosed
  <2> QED
    BY <2>1, <2>2
<1>6. ListenedOK'
  BY <1>3, <1>4, <1>5 DEF ListenedOK, ToBeClosed
<1>7. BuffersOK'
  BY <1>1, <1>2 DEF BuffersOK
<1> QED
  BY <1>6, <1>7 DEF RInv

\* How a slice goes on after a handler.
LEMMA GoesOn ==
    ASSUME IInv, NEW c \in Clients, InSlice(c), Returns(c) \/ ReturnsAndYields(c)
    PROVE  /\ current' \in {c, NoClient}
           /\ ReturnsAndYields(c) => (current' = c => ToBeClosed(c)')
<1>1. closing = <<>> /\ current = c /\ NoClient \notin Clients
  BY DEF InSlice, Clients, NoClient
<1>2. current' \in {c, NoClient}
  BY <1>1 DEF Returns, ReturnsAndYields
<1>3. ASSUME ReturnsAndYields(c), current' = c PROVE ToBeClosed(c)'
  <2>1. closing' = <<c>>
    BY <1>1, <1>3 DEF ReturnsAndYields
  <2>2. Len(closing') = 1 /\ closing'[1] = c
    BY <2>1
  <2> QED
    BY <2>2 DEF ToBeClosed
<1> QED
  BY <1>2, <1>3

LEMMA BufferConsumed ==
    ASSUME IInv, NEW c \in Clients, Consumes(c)
    PROVE  /\ buffer'[c] = Whole(c) - 1
           /\ \A d \in Clients \ {c} : buffer'[d] = buffer[d]
BY DEF Consumes, IInv, TypeOK

\* Requests that change neither who waits nor, the read excepted, the masks.
LEMMA PlainRequests ==
    ASSUME IInv, RInv, NEW c \in Clients,
           OtherRequest(c) \/ \E v \in Clients : KillClient(c, v)
    PROVE  RInv'
<1> USE DEF grabVars, clientVars, queueVars
<1>1. /\ InSlice(c) /\ Consumes(c) /\ masks' = MasksRead(c)
      /\ UNCHANGED <<grabWaiters, sleepQueue, connected, ready, grabState>>
  BY DEF OtherRequest, KillClient, ReadsRequest
<1>2. Waits' = Waits /\ c \in connected /\ c \in masks.all /\ NoClient \notin Clients
  BY <1>1, SliceListens DEF Waits
<1>3. current' \in {c, NoClient}
  <2>1. CASE OtherRequest(c)
    BY <1>1, <2>1, GoesOn DEF OtherRequest
  <2>2. CASE \E v \in Clients : KillClient(c, v)
    BY <1>1, <2>2 DEF KillClient, InSlice
  <2> QED
    BY <2>1, <2>2
<1>4. /\ Joined(masks') /\ (Recallable(masks) => Recallable(masks'))
      /\ \A d \in Clients : Known(masks, Waits, d) => Known(masks', Waits, d)
      /\ \A d \in Clients : d # c /\ Looked(masks, Waits, d) => Looked(masks', Waits, d)
      /\ c \in masks'.input <=> Whole(c) > 1
      /\ masks'.all = masks.all /\ masks'.saved = masks.saved
  BY <1>1, ReadRemembers, SliceListens
<1>5. masks'.impervious = masks.impervious
  BY <1>1, SliceFacts
<1>6. RequestsOK'
  BY <1>1, <1>4, <1>5 DEF RInv, RequestsOK
<1>7. Known(masks', Waits', c)
  BY <1>2, <1>4 DEF RInv, BuffersOK
<1>8. buffer'[c] > 0 => Looked(masks', Waits', c)
  <2>1. Whole(c) \in 0 .. MaxRequests /\ MaxRequests \in Nat
    BY <1>1, SliceListens, ServerGrabAssumption
  <2>2. buffer'[c] > 0 => c \in masks'.input
    BY <1>1, <1>4, <2>1, BufferConsumed
  <2> QED
    BY <2>2 DEF Looked
<1> QED
  BY <1>1, <1>2, <1>3, <1>4, <1>6, <1>7, <1>8, BufferConsumed, AfterSlice

\* Requests that make a client wait, for the grab or for a font server.
LEMMA WaitingRequests ==
    ASSUME IInv, RInv, NEW c \in Clients, WaitForGrab(c) \/ ClientSleep(c)
    PROVE  RInv'
<1> USE DEF grabVars, clientVars, queueVars
<1>1. /\ InSlice(c) /\ ReturnsAndYields(c) /\ Whole(c) > 0
      /\ UNCHANGED <<connected, ready, grabState>>
      /\ Waits' = Waits \cup {c}
      /\ sleepQueue' = IF WaitForGrab(c) THEN sleepQueue ELSE sleepQueue \cup {c}
      /\ sleepQueue' # sleepQueue => "Sleep" \in Requests
  BY DEF WaitForGrab, ClientSleep, ReadsRequest, Waits
<1>2. /\ c \in masks.all /\ masks \in Masks /\ Joined(masks)
      /\ Whole(c) \in 0 .. MaxRequests /\ MaxRequests \in Nat
      /\ buffer \in [Clients -> 0 .. MaxRequests]
  BY <1>1, SliceListens, ServerGrabAssumption
<1>3. current' \in {c, NoClient} /\ (current' = c => ToBeClosed(c)')
  BY <1>1, GoesOn
<1>4. \A d \in Clients \ {c} : buffer'[d] = buffer[d]
  BY <1>2, BufferConsumed DEF WaitForGrab, ClientSleep
<1> DEFINE n == MasksRead(c)
<1>5. /\ n \in Masks /\ Joined(n) /\ n.grab = masks.grab
      /\ Recallable(masks) => Recallable(n)
      /\ \A d \in Clients : Known(masks, Waits, d) => Known(n, Waits, d)
      /\ \A d \in Clients : d # c /\ Looked(masks, Waits, d) => Looked(n, Waits, d)
      /\ c \in n.input <=> Whole(c) > 1
      /\ n.all = masks.all /\ n.saved = masks.saved
      /\ n.impervious = masks.impervious
  BY <1>1, <1>2, ReadRemembers, SliceFacts
<1>6. PICK m \in Masks :
         /\ Joined(m) /\ (Recallable(masks) => Recallable(m))
         /\ Remembers(n, Waits, m, Waits)
         /\ m.all = masks.all /\ m.saved = masks.saved
         /\ m.impervious = masks.impervious
         /\ masks' = IgnoreClient(m, c)
         /\ buffer'[c] > 0 => c \in m.input
  <2>1. CASE WaitForGrab(c)
    <3> DEFINE m == ResetCurrentRequest(n, c)
    <3>1. /\ m \in Masks /\ Joined(m) /\ (Recallable(n) => Recallable(m))
          /\ Remembers(n, Waits, m, Waits) /\ c \in m.input
          /\ m.all = n.all /\ m.saved = n.saved
      BY <1>2, <1>5, OthersRemember
    <3>2. m.impervious = masks.impervious
      BY <1>5, ImperviousFields
    <3>3. masks' = IgnoreClient(m, c)
      BY <2>1 DEF WaitForGrab
    <3> QED
      BY <1>5, <3>1, <3>2, <3>3
  <2>2. CASE ClientSleep(c)
    <3>1. buffer'[c] = Whole(c) - 1
      BY <2>2, BufferConsumed DEF ClientSleep
    <3>2. buffer'[c] > 0 => c \in n.input
      BY <1>2, <1>5, <3>1
    <3>3. masks' = IgnoreClient(n, c) /\ Remembers(n, Waits, n, Waits)
      BY <2>2 DEF ClientSleep, Remembers
    <3> HIDE DEF n
    <3> QED
      BY <1>5, <3>2, <3>3
  <2> QED
    BY <2>1, <2>2
<1> HIDE DEF n
<1>7. /\ Joined(masks') /\ (Recallable(m) => Recallable(masks'))
      /\ masks'.all = m.all \ {c} /\ masks'.saved = m.saved
      /\ \A d \in Clients : Known(m, Waits, d) => Known(masks', Waits', d)
      /\ \A d \in Clients : d # c /\ Looked(m, Waits, d) => Looked(masks', Waits', d)
      /\ c \in m.input => Looked(masks', Waits', c)
      /\ masks'.impervious = m.impervious
  <2>1. c \in m.all /\ masks' = IgnoreClient(m, c)
    BY <1>2, <1>6
  <2>2. /\ Joined(masks') /\ (Recallable(m) => Recallable(masks'))
        /\ masks'.all = m.all \ {c} /\ masks'.saved = m.saved
        /\ \A d \in Clients : Known(m, Waits, d) => Known(masks', Waits \cup {c}, d)
        /\ \A d \in Clients : d # c /\ Looked(m, Waits, d) => Looked(masks', Waits \cup {c}, d)
        /\ c \in m.input => Looked(masks', Waits \cup {c}, c)
    BY <1>6, <2>1, IgnoreRemembers
  <2>3. masks'.impervious = m.impervious
    BY <2>1, ImperviousFields
  <2> QED
    BY <1>1, <2>2, <2>3
<1>8. RequestsOK'
  BY <1>1, <1>6, <1>7 DEF RInv, RequestsOK
<1>9. \A d \in Clients \ {c} :
         /\ Known(masks, Waits, d) => Known(masks', Waits', d)
         /\ Looked(masks, Waits, d) => Looked(masks', Waits', d)
  BY <1>5, <1>6, <1>7 DEF Remembers
<1>10. Known(masks', Waits', c)
  BY <1>1 DEF Known
<1>11. buffer'[c] > 0 => Looked(masks', Waits', c)
  BY <1>6, <1>7
<1>12. /\ masks.all \cup masks.saved \subseteq masks'.all \cup masks'.saved \cup {c}
       /\ masks.all \subseteq masks'.all \cup {c}
  BY <1>6, <1>7
<1> QED
  BY <1>1, <1>3, <1>4, <1>7, <1>8, <1>9, <1>10, <1>11, <1>12, AfterSlice

LEMMA GrabRequest ==
    ASSUME IInv, RInv, NEW c \in Clients, GrabServer(c)
    PROVE  RInv'
<1> USE DEF grabVars, clientVars, queueVars
<1>1. /\ InSlice(c) /\ Consumes(c) /\ Returns(c) /\ grabState' = "Kickout"
      /\ masks' = OnlyListenToOneClient(MasksRead(c), c)
      /\ UNCHANGED <<grabWaiters, sleepQueue, connected, ready>> /\ Waits' = Waits
  BY DEF GrabServer, ReadsRequest, Waits
<1>2. /\ c \in masks.all /\ masks \in Masks /\ Joined(masks) /\ c \in connected
      /\ Whole(c) \in 0 .. MaxRequests /\ MaxRequests \in Nat
  BY <1>1, SliceListens, ServerGrabAssumption
<1> DEFINE n == MasksRead(c)
<1>3. /\ n \in Masks /\ Joined(n)
      /\ Recallable(masks) => Recallable(n)
      /\ \A d \in Clients : Known(masks, Waits, d) => Known(n, Waits, d)
      /\ \A d \in Clients : d # c /\ Looked(masks, Waits, d) => Looked(n, Waits, d)
      /\ c \in n.input <=> Whole(c) > 1
      /\ n.all = masks.all /\ n.saved = masks.saved
      /\ n.impervious = masks.impervious
  BY <1>1, <1>2, ReadRemembers, SliceFacts
<1> HIDE DEF n
<1>4. masks' = OnlyListenToOneClient(n, c)
  BY <1>1 DEF n
<1>5. /\ Joined(masks') /\ (Recallable(n) => Recallable(masks'))
      /\ Remembers(n, Waits, masks', Waits)
      /\ n.all \cup n.saved \subseteq masks'.all \cup masks'.saved
      /\ c \in masks'.all /\ masks'.impervious = n.impervious
  BY <1>2, <1>3, <1>4, GrabRemembers, ImperviousFields
<1>6. RequestsOK'
  BY <1>1, <1>3, <1>5 DEF RInv, RequestsOK
<1>7. \A d \in Clients \ {c} :
         /\ buffer'[d] = buffer[d]
         /\ Known(masks, Waits, d) => Known(masks', Waits', d)
         /\ Looked(masks, Waits, d) => Looked(masks', Waits', d)
  BY <1>1, <1>3, <1>5, BufferConsumed DEF Remembers
<1>8. Known(masks', Waits', c)
  BY <1>5 DEF Known
<1>9. buffer'[c] > 0 => Looked(masks', Waits', c)
  <2>1. buffer'[c] > 0 => c \in n.input
    BY <1>1, <1>2, <1>3, BufferConsumed
  <2>2. buffer'[c] > 0 => Looked(n, Waits, c)
    BY <2>1 DEF Looked
  <2> QED
    BY <1>1, <1>5, <2>2 DEF Remembers
<1>10. /\ current' \in {c, NoClient}
       /\ masks.all \cup masks.saved \subseteq masks'.all \cup masks'.saved \cup {c}
  BY <1>1, <1>3, <1>5, GoesOn
<1> QED
  BY <1>1, <1>5, <1>6, <1>7, <1>8, <1>9, <1>10, AfterSlice

\* At the end of a grab everyone is listened to.
LEMMA EndOfGrab ==
    ASSUME NEW m \in Masks, Joined(m), UngrabServer(m), UNCHANGED sleepQueue
    PROVE  /\ Joined(masks') /\ Recallable(masks')
           /\ Remembers(m, Waits, masks', Waits')
           /\ m.all \cup m.saved \subseteq masks'.all
           /\ masks'.impervious = m.impervious
<1> DEFINE n == ListenToAllClients(m)
<1>1. /\ n \in Masks /\ Joined(n) /\ Recallable(n) /\ n.grab = NoClient
      /\ Remembers(m, Waits, n, Waits) /\ n.all = m.all \cup m.saved
  BY UngrabRemembers
<1>2. n.impervious = m.impervious
  BY DEF ListenToAllClients, Masks
<1>3. CASE masks' = n /\ UNCHANGED grabWaiters
  BY <1>1, <1>2, <1>3 DEF Waits
<1>4. ASSUME NEW w \in Clients, masks' = AttendClient(n, w),
             grabWaiters' = grabWaiters \ {w}
      PROVE  /\ Joined(masks') /\ Recallable(masks')
             /\ Remembers(m, Waits, masks', Waits')
             /\ m.all \cup m.saved \subseteq masks'.all
             /\ masks'.impervious = m.impervious
  <2> HIDE DEF n
  <2>1. Waits \ {w} \subseteq Waits'
    BY <1>4 DEF Waits
  <2>2. /\ Joined(masks') /\ Recallable(masks')
        /\ Remembers(n, Waits, masks', Waits') /\ n.all \subseteq masks'.all
    BY <1>1, <1>4, <2>1, AttendRemembers
  <2>3. masks'.impervious = n.impervious
    BY <1>1, <1>4, ImperviousFields
  <2>4. Remembers(m, Waits, masks', Waits')
    BY <1>1, <2>2, RememberingComposes
  <2> QED
    BY <1>1, <1>2, <2>2, <2>3, <2>4
<1> QED
  BY <1>3, <1>4 DEF UngrabServer

LEMMA Ungrabs ==
    ASSUME IInv, RInv, NEW c \in Clients, UngrabRequest(c) \/ ReleaseGrab(c)
    PROVE  RInv'
<1> USE DEF grabVars, clientVars, queueVars, inputVars
<1>1. CASE UngrabRequest(c)
  <2>1. /\ InSlice(c) /\ Consumes(c) /\ Returns(c) /\ UngrabServer(MasksRead(c))
        /\ UNCHANGED <<sleepQueue, connected, ready>>
    BY <1>1 DEF UngrabRequest, ReadsRequest
  <2>2. /\ c \in masks.all /\ masks \in Masks /\ Joined(masks) /\ c \in connected
        /\ Whole(c) \in 0 .. MaxRequests /\ MaxRequests \in Nat
    BY <2>1, SliceListens, ServerGrabAssumption
  <2> DEFINE n == MasksRead(c)
  <2>3. /\ n \in Masks /\ Joined(n)
        /\ \A d \in Clients : Known(masks, Waits, d) => Known(n, Waits, d)
        /\ \A d \in Clients : d # c /\ Looked(masks, Waits, d) => Looked(n, Waits, d)
        /\ c \in n.input <=> Whole(c) > 1
        /\ n.all = masks.all /\ n.saved = masks.saved
        /\ n.impervious = masks.impervious
    BY <2>1, <2>2, ReadRemembers, SliceFacts
  <2>4. UngrabServer(n)
    BY <2>1
  <2> HIDE DEF n
  <2>5. /\ Joined(masks') /\ Recallable(masks')
        /\ Remembers(n, Waits, masks', Waits')
        /\ n.all \cup n.saved \subseteq masks'.all
        /\ masks'.impervious = n.impervious
    BY <2>1, <2>3, <2>4, EndOfGrab
  <2>6. RequestsOK'
    BY <2>1, <2>3, <2>5 DEF RInv, RequestsOK
  <2>7. \A d \in Clients \ {c} :
           /\ buffer'[d] = buffer[d]
           /\ Known(masks, Waits, d) => Known(masks', Waits', d)
           /\ Looked(masks, Waits, d) => Looked(masks', Waits', d)
    BY <2>1, <2>3, <2>5, BufferConsumed DEF Remembers
  <2>8. c \in masks'.all /\ Known(masks', Waits', c)
    BY <2>2, <2>3, <2>5 DEF Known
  <2>9. buffer'[c] > 0 => Looked(masks', Waits', c)
    <3>1. buffer'[c] > 0 => c \in n.input
      BY <2>1, <2>2, <2>3, BufferConsumed
    <3>2. buffer'[c] > 0 => Looked(n, Waits, c)
      BY <3>1 DEF Looked
    <3> QED
      BY <2>5, <3>2 DEF Remembers
  <2>10. /\ current' \in {c, NoClient}
         /\ masks.all \cup masks.saved \subseteq masks'.all \cup {c}
    BY <2>1, <2>3, <2>5, GoesOn
  <2> QED
    BY <2>1, <2>5, <2>6, <2>7, <2>8, <2>9, <2>10, AfterSlice
<1>2. CASE ReleaseGrab(c)
  <2>1. /\ UngrabServer(masks)
        /\ UNCHANGED <<sleepQueue, connected, ready, current, closing, buffer>>
    BY <1>2 DEF ReleaseGrab
  <2>2. masks \in Masks /\ Joined(masks) /\ connected \in SUBSET Clients
    BY DEF RInv, IInv, TypeOK
  <2>3. /\ Joined(masks') /\ Recallable(masks')
        /\ Remembers(masks, Waits, masks', Waits')
        /\ masks.all \cup masks.saved \subseteq masks'.all
        /\ masks'.impervious = masks.impervious
    BY <2>1, <2>2, EndOfGrab
  <2>4. RequestsOK'
    BY <2>1, <2>3 DEF RInv, RequestsOK
  <2>5. ListenedOK'
    BY <2>1, <2>3 DEF RInv, ListenedOK, ToBeClosed
  <2>6. BuffersOK'
    BY <2>1, <2>2, <2>3 DEF RInv, BuffersOK, Remembers
  <2> QED
    BY <2>3, <2>4, <2>5, <2>6 DEF RInv
<1> QED
  BY <1>1, <1>2

\* The extension's requests.  A client that is not the grab's and takes its
\* imperviousness back has been saved, if no client ever sleeps.
LEMMA ExtensionRequests ==
    ASSUME ~Mixed, IInv, RInv, NEW c \in Clients,
           ImperviousRequest(c) \/ PerviousRequest(c)
    PROVE  RInv'
<1> USE DEF grabVars, clientVars, queueVars
<1>1. /\ InSlice(c) /\ Consumes(c) /\ (Returns(c) \/ ReturnsAndYields(c))
      /\ UNCHANGED <<grabWaiters, sleepQueue, connected, ready, grabState>> /\ Waits' = Waits
  BY DEF ImperviousRequest, PerviousRequest, ReadsRequest, Waits
<1>2. /\ c \in masks.all /\ masks \in Masks /\ Joined(masks) /\ c \in connected
      /\ Whole(c) \in 0 .. MaxRequests /\ MaxRequests \in Nat
      /\ grabState # "None" => c \in {grabClient} \cup masks.impervious
      /\ masks.grab = IF grabState = "None" THEN NoClient ELSE grabClient
  BY <1>1, SliceListens, ServerGrabAssumption
<1> DEFINE n == MasksRead(c)
<1>3. /\ n \in Masks /\ Joined(n) /\ n.grab = masks.grab
      /\ Recallable(masks) => Recallable(n)
      /\ \A d \in Clients : Known(masks, Waits, d) => Known(n, Waits, d)
      /\ \A d \in Clients : d # c /\ Looked(masks, Waits, d) => Looked(n, Waits, d)
      /\ c \in n.input <=> Whole(c) > 1
      /\ n.all = masks.all /\ n.saved = masks.saved
      /\ n.impervious = masks.impervious
  BY <1>1, <1>2, ReadRemembers, SliceFacts
<1>4. /\ Joined(masks') /\ (Recallable(n) => Recallable(masks'))
      /\ Remembers(n, Waits, masks', Waits)
      /\ masks'.saved = n.saved /\ n.all \subseteq masks'.all \cup {c}
      /\ masks'.impervious \subseteq n.impervious \/ "Impervious" \in Requests
      /\ current' = c /\ ~ToBeClosed(c)' => c \in masks'.all
  <2>1. CASE ImperviousRequest(c)
    <3>1. masks' = MakeClientGrabImpervious(n, c) /\ "Impervious" \in Requests
      BY <2>1 DEF ImperviousRequest, ReadsRequest
    <3> HIDE DEF n
    <3> QED
      BY <1>2, <1>3, <3>1, OthersRemember
  <2>2. CASE PerviousRequest(c)
    <3>1. masks' = MakeClientGrabPervious(n, c) /\ "Pervious" \in Requests
      BY <2>2 DEF PerviousRequest, ReadsRequest
    <3>2. masks.grab \notin {NoClient, c} => ReturnsAndYields(c)
      BY <2>2 DEF PerviousRequest
    <3> HIDE DEF n
    <3>3. n.grab \notin {NoClient, c} => c \in n.saved
      <4>1. SUFFICES ASSUME masks.grab \notin {NoClient, c} PROVE c \in masks.saved
        BY <1>3
      <4>2. c \in masks.impervious
        BY <1>2, <4>1
      <4>3. "Sleep" \notin Requests
        BY <3>1, <4>2 DEF RInv, RequestsOK, Mixed
      <4> QED
        BY <1>2, <4>1, <4>3 DEF RInv, RequestsOK, Recallable
    <3>4. /\ Joined(masks') /\ (Recallable(n) => Recallable(masks'))
          /\ Remembers(n, Waits, masks', Waits) /\ masks'.saved = n.saved
          /\ masks'.all = IF n.grab \in {NoClient, c} THEN n.all ELSE n.all \ {c}
      <4>1. n \in Masks /\ Joined(n) /\ masks' = MakeClientGrabPervious(n, c)
        BY <1>3, <3>1
      <4> QED
        BY <3>3, <4>1, PerviousRemembers
    <3>5. masks'.impervious \subseteq n.impervious
      BY <1>3, <3>1, ImperviousFields
    <3>6. current' = c /\ ~ToBeClosed(c)' => c \in masks'.all
      BY <1>1, <1>2, <1>3, <3>2, <3>4, GoesOn
    <3> QED
      BY <3>4, <3>5, <3>6
  <2> QED
    BY <2>1, <2>2
<1> HIDE DEF n
<1>5. RequestsOK'
  BY <1>1, <1>3, <1>4 DEF RInv, RequestsOK
<1>6. \A d \in Clients \ {c} :
         /\ buffer'[d] = buffer[d]
         /\ Known(masks, Waits, d) => Known(masks', Waits', d)
         /\ Looked(masks, Waits, d) => Looked(masks', Waits', d)
  BY <1>1, <1>3, <1>4, BufferConsumed DEF Remembers
<1>7. Known(masks', Waits', c)
  BY <1>1, <1>2, <1>3, <1>4 DEF RInv, BuffersOK, Remembers
<1>8. buffer'[c] > 0 => Looked(masks', Waits', c)
  <2>1. buffer'[c] > 0 => c \in n.input
    BY <1>1, <1>2, <1>3, BufferConsumed
  <2>2. buffer'[c] > 0 => Looked(n, Waits, c)
    BY <2>1 DEF Looked
  <2> QED
    BY <1>1, <1>4, <2>2 DEF Remembers
<1>9. /\ current' \in {c, NoClient}
      /\ masks.all \cup masks.saved \subseteq masks'.all \cup masks'.saved \cup {c}
      /\ masks.all \subseteq masks'.all \cup {c}
  BY <1>1, <1>3, <1>4, GoesOn
<1> QED
  BY <1>1, <1>4, <1>5, <1>6, <1>7, <1>8, <1>9, AfterSlice

LEMMA NothingRead ==
    ASSUME IInv, RInv, NEW c \in Clients, ReadNothing(c)
    PROVE  RInv'
<1> USE DEF grabVars, clientVars, queueVars, inputVars
<1>1. /\ InSlice(c) /\ buffer[c] = 0 /\ current = c
      /\ UNCHANGED <<grabState, grabWaiters, sleepQueue, connected, ready, buffer>>
      /\ Waits' = Waits
  BY DEF ReadNothing, InSlice, Waits
<1>2. /\ c \in masks.all /\ masks \in Masks /\ Joined(masks) /\ c \in connected
      /\ NoClient \notin Clients
  BY <1>1, SliceListens
<1>3. CASE UNCHANGED <<masks, current>>
  <2>1. ListenedOK'
    BY <1>1, <1>2, <1>3 DEF RInv, ListenedOK
  <2> QED
    BY <1>1, <1>3, <2>1, SameMasks
<1>4. CASE masks' = [masks EXCEPT !.input = @ \ {c}] /\ current' = NoClient
  <2>1. /\ masks'.all = masks.all /\ masks'.saved = masks.saved
        /\ masks'.input = masks.input \ {c} /\ masks'.savedInput = masks.savedInput
        /\ masks'.ignoredInput = masks.ignoredInput
        /\ masks'.impervious = masks.impervious /\ masks'.grab = masks.grab
    BY <1>2, <1>4 DEF Masks
  <2>2. Joined(masks') /\ (Recallable(masks) => Recallable(masks'))
    BY <1>2, <2>1 DEF Joined, Recallable
  <2>3. RequestsOK'
    BY <1>1, <2>1, <2>2 DEF RInv, RequestsOK
  <2>4. \A d \in Clients \ {c} :
           /\ Known(masks, Waits, d) => Known(masks', Waits', d)
           /\ Looked(masks, Waits, d) => Looked(masks', Waits', d)
    BY <1>1, <2>1 DEF Known, Looked
  <2>5. Known(masks', Waits', c)
    BY <1>2, <2>1 DEF Known
  <2>6. ~(buffer'[c] > 0)
    BY <1>1
  <2> QED
    BY <1>1, <1>2, <1>4, <2>1, <2>2, <2>3, <2>4, <2>5, <2>6, AfterSlice
<1> QED
  BY <1>3, <1>4 DEF ReadNothing

LEMMA ConnectionCloses ==
    ASSUME IInv, RInv, NEW c \in Clients, CloseDownConnection(c)
    PROVE  RInv'
<1>1. /\ Closes(c) /\ c \in connected /\ closing' = Tail(closing)
      /\ UNCHANGED <<grabState, ready>>
      /\ connected' = connected \ {c} /\ Waits' = Waits \ {c}
      /\ sleepQueue' = sleepQueue \ {c}
      /\ masks' = CloseDownFileDescriptor(masks, c)
      /\ buffer' = [buffer EXCEPT ![c] = 0]
      /\ current' = IF current = c THEN NoClient ELSE current
  BY DEF CloseDownConnection, Waits
<1>2. /\ masks \in Masks /\ Joined(masks) /\ connected \in SUBSET Clients
      /\ NoClient \notin Clients /\ closing \in Seq(Clients)
      /\ buffer \in [Clients -> 0 .. MaxRequests]
      /\ RequestsOK /\ ListenedOK /\ BuffersOK
  BY DEF RInv, IInv, TypeOK, Clients, NoClient
<1>3. /\ Joined(masks') /\ (Recallable(masks) => Recallable(masks'))
      /\ \A d \in Clients \ {c} :
            /\ Known(masks, Waits, d) => Known(masks', Waits', d)
            /\ Looked(masks, Waits, d) => Looked(masks', Waits', d)
      /\ masks'.all = masks.all \ {c} /\ masks'.saved = masks.saved \ {c}
  BY <1>1, <1>2, CloseRemembers
<1>4. masks'.impervious = masks.impervious \ {c}
  BY <1>1, <1>2, ImperviousFields
<1>5. RequestsOK'
  BY <1>1, <1>2, <1>3, <1>4 DEF RequestsOK
<1>6. \A d \in Clients : ToBeClosed(d) => d = c \/ ToBeClosed(d)'
  BY <1>1, <1>2, Popped
<1>7. current \in connected' /\ ToBeClosed(current) => ToBeClosed(current)'
  BY <1>1, <1>2, <1>6 DEF ToBeClosed
<1>8. ListenedOK'
  BY <1>1, <1>2, <1>3, <1>7 DEF ListenedOK, ToBeClosed
<1>9. BuffersOK'
  BY <1>1, <1>2, <1>3 DEF BuffersOK
<1> QED
  BY <1>3, <1>5, <1>8, <1>9 DEF RInv

LEMMA RemembersStep ==
    ASSUME ~Mixed PROVE IInv /\ RInv /\ [Next]_vars => RInv'
<1> SUFFICES ASSUME IInv, RInv, [Next]_vars PROVE RInv'
  OBVIOUS
<1>1. CASE WorkStep
  BY <1>1, WorkRemembers, QuietSteps DEF WorkStep
<1>2. CASE WaitForSomething \/ Kickout
  BY <1>2, QuietSteps
<1>3. ASSUME NEW c \in Clients, RoundStep(c) \/ WorldStep(c)
      PROVE  RInv'
  BY <1>3, QuietSteps
<1>4. ASSUME NEW c \in Clients, SliceStep(c)
      PROVE  RInv'
  <2>1. CASE EndSlice(c)
    BY <2>1, QuietSteps
  <2>2. CASE ReadNothing(c)
    BY <2>2, NothingRead
  <2>3. CASE OtherRequest(c) \/ \E v \in Clients : KillClient(c, v)
    BY <2>3, PlainRequests
  <2>4. CASE GrabServer(c)
    BY <2>4, GrabRequest
  <2>5. CASE WaitForGrab(c) \/ ClientSleep(c)
    BY <2>5, WaitingRequests
  <2>6. CASE UngrabRequest(c)
    BY <2>6, Ungrabs
  <2>7. CASE ImperviousRequest(c) \/ PerviousRequest(c)
    BY <2>7, ExtensionRequests
  <2> QED
    BY <1>4, <2>1, <2>2, <2>3, <2>4, <2>5, <2>6, <2>7 DEF SliceStep
<1>5. ASSUME NEW c \in Clients, CloseStep(c)
      PROVE  RInv'
  BY <1>5, Ungrabs, ConnectionCloses, QuietSteps DEF CloseStep
<1>6. CASE UNCHANGED vars
  <2>1. UNCHANGED <<masks, grabWaiters, sleepQueue, connected, buffer, ready,
                    current, closing, grabState>>
    BY <1>6 DEF vars
  <2>2. ListenedOK'
    BY <2>1 DEF RInv, ListenedOK, ToBeClosed
  <2> QED
    BY <2>1, <2>2, SameMasks
<1> QED
  BY <1>1, <1>2, <1>3, <1>4, <1>5, <1>6 DEF Next, ServerStep

\* Unless clients make requests of all three kinds, through grabs, waits and
\* sleep no client and no request in a buffer is left where nothing will look
\* at it: OnlyListenToOneClient, IgnoreClient, AttendClient, the closing of a
\* descriptor and the reads of a slice keep every one of them in some mask.
THEOREM NothingIsForgotten ==
    ASSUME ~Mixed PROVE Spec => []EveryRequestIsRemembered
<1>1. Spec => []RInv
  BY InitRemembers, RemembersStep, Invariance, PTL DEF Spec
<1>2. RInv => EveryRequestIsRemembered
  BY DEF RInv, BuffersOK, EveryRequestIsRemembered, NobodyIsForgotten,
         NoRequestIsOverlooked, Known, Looked, Waits
<1> QED
  BY <1>1, <1>2, PTL

-----------------------------------------------------------------------------
(* Who sleeps is not listened to.  An impervious client can be attended in   *)
(* the middle of its sleep when its own grab ends (connection.c:1149); the    *)
(* result below is for servers without such clients.  There only the client  *)
(* that has the grab executes requests, so that nobody waits for its end.    *)

Deaf(c) == c \notin masks.all /\ (c \in masks.saved => HoldsGrab(c))

DeafInv == grabWaiters = {} /\ \A c \in sleepQueue : Deaf(c) \/ Closes(c)

LEMMA InitDeaf == Init => DeafInv
BY DEF Init, DeafInv

\* The grab is the slice's client, if there is one.
LEMMA SliceIsGrabs ==
    ASSUME "Impervious" \notin Requests, IInv, RInv, NEW c \in Clients, InSlice(c)
    PROVE  /\ c \in masks.all /\ masks \in Masks /\ Joined(masks)
           /\ closing = <<>> /\ masks.impervious = {}
           /\ grabState = "None" => masks.grab = NoClient /\ masks.saved = {}
           /\ grabState # "None" => grabClient = c /\ masks.grab = c /\ c # NoClient
           /\ MasksRead(c) \in Masks /\ MasksRead(c).grab = masks.grab
           /\ MasksRead(c).impervious = {}
           /\ MasksRead(c).all = masks.all /\ MasksRead(c).saved = masks.saved
<1>1. masks.impervious = {}
  BY DEF RInv, RequestsOK
<1>2. /\ c \in masks.all /\ masks \in Masks /\ Joined(masks) /\ closing = <<>>
      /\ NoClient \notin Clients
      /\ grabState # "None" => c \in {grabClient} \cup masks.impervious
      /\ masks.grab = IF grabState = "None" THEN NoClient ELSE grabClient
  BY SliceListens
<1>3. grabState = "None" => masks.saved = {}
  BY <1>2 DEF Joined
<1>4. MasksRead(c) \in Masks /\ MasksRead(c).grab = masks.grab
      /\ MasksRead(c).all = masks.all /\ MasksRead(c).saved = masks.saved
      /\ MasksRead(c).impervious = masks.impervious
  BY <1>2, SliceFacts DEF MasksRead, Masks
<1> QED
  BY <1>1, <1>2, <1>3, <1>4

\* Steps that leave the masks, who waits and whose the grab is alone.
LEMMA StillDeaf ==
    ASSUME DeafInv, UNCHANGED <<grabWaiters, sleepQueue, grabClient>>,
           masks'.all \subseteq masks.all, masks'.saved = masks.saved,
           grabState = "None" <=> grabState' = "None",
           \A c \in sleepQueue : Closes(c) => Closes(c)'
    PROVE  DeafInv'
BY DEF DeafInv, Deaf, HoldsGrab

LEMMA DeafOutside ==
    ASSUME "Impervious" \notin Requests, IInv, RInv, DeafInv,
           \/ WorkStep \/ WaitForSomething \/ Kickout
           \/ \E c \in Clients : RoundStep(c) \/ WorldStep(c)
    PROVE  DeafInv'
<1> USE DEF grabVars, clientVars, queueVars, inputVars
<1>0. masks \in Masks /\ sleepQueue \subseteq connected /\ connected \in SUBSET Clients
  BY DEF IInv, TypeOK, ClientsOK
<1>1. ASSUME NEW c \in Clients, CompleteSleeper(c) PROVE DeafInv'
  <2>1. /\ UNCHANGED <<grabState, grabClient, grabWaiters, closing>> /\ closing = <<>>
    BY <1>1 DEF CompleteSleeper, Idle
  <2>2. CASE UNCHANGED <<sleepQueue, masks>>
    BY <2>1, <2>2, StillDeaf DEF Closes
  <2>3. CASE sleepQueue' = sleepQueue \ {c} /\ masks' = AttendClient(masks, c)
    <3>1. masks'.all \subseteq masks.all \cup {c} /\ masks'.saved \subseteq masks.saved \cup {c}
      BY <1>0, <2>3, AttendRemembers DEF RInv
    <3> QED
      BY <2>1, <2>3, <3>1 DEF DeafInv, Deaf, HoldsGrab, Closes
  <2> QED
    BY <1>1, <2>2, <2>3 DEF CompleteSleeper
<1>2. ASSUME NEW c \in Clients, KillStraggler(c) PROVE DeafInv'
  <2>1. /\ UNCHANGED <<masks, grabState, grabClient, grabWaiters, sleepQueue>>
        /\ closing = <<>>
    BY <1>2 DEF KillStraggler, Accepts, Idle
  <2> QED
    BY <2>1, StillDeaf DEF Closes
<1>3. CASE EstablishNewConnection
  <2>1. /\ UNCHANGED <<grabState, grabClient, grabWaiters, sleepQueue, closing>>
        /\ closing = <<>>
    BY <1>3 DEF EstablishNewConnection, Accepts, Idle
  <2>2. CASE UNCHANGED masks
    BY <2>1, <2>2, StillDeaf DEF Closes
  <2>3. ASSUME NEW c \in FreeSlots, masks' = AllocNewConnection(masks, c)
        PROVE  DeafInv'
    <3>1. c \in Clients /\ c \notin sleepQueue
      BY <1>0 DEF FreeSlots
    <3>2. masks'.all \subseteq masks.all \cup {c} /\ masks'.saved \subseteq masks.saved \cup {c}
      BY <1>0, <2>3, <3>1, NewRemembers DEF RInv
    <3> QED
      BY <2>1, <3>1, <3>2 DEF DeafInv, Deaf, HoldsGrab, Closes
  <2> QED
    BY <1>3, <2>2, <2>3 DEF EstablishNewConnection
<1>4. CASE WaitForSomething
  BY <1>4, StillDeaf DEF WaitForSomething, Closes
<1>5. CASE Kickout
  BY <1>5, StillDeaf DEF Kickout, Closes
<1>6. ASSUME NEW c \in Clients, RoundStep(c) \/ WorldStep(c) PROVE DeafInv'
  BY <1>6, StillDeaf DEF RoundStep, SkipKilled, BeginSlice, WorldStep, ClientSends,
                         ClientBreaks, Closes
<1> QED
  BY <1>1, <1>2, <1>3, <1>4, <1>5, <1>6 DEF WorkStep

LEMMA DeafInSlice ==
    ASSUME "Impervious" \notin Requests, IInv, RInv, DeafInv,
           NEW c \in Clients, SliceStep(c)
    PROVE  DeafInv'
<1> USE DEF grabVars, clientVars, queueVars, inputVars
<1>0. InSlice(c)
  BY DEF SliceStep, EndSlice, ReadNothing, OtherRequest, GrabServer, WaitForGrab,
         UngrabRequest, ClientSleep, ImperviousRequest, PerviousRequest, KillClient,
         ReadsRequest
<1> DEFINE n == MasksRead(c)
<1>1. /\ c \in masks.all /\ masks \in Masks /\ Joined(masks)
      /\ closing = <<>> /\ masks.impervious = {}
      /\ grabState = "None" => masks.grab = NoClient /\ masks.saved = {}
      /\ grabState # "None" => grabClient = c /\ masks.grab = c /\ c # NoClient
      /\ n \in Masks /\ n.grab = masks.grab /\ n.impervious = {}
      /\ n.all = masks.all /\ n.saved = masks.saved
  BY <1>0, SliceIsGrabs
<1>2. \A d \in Clients : ~Closes(d)
  BY <1>1 DEF Closes
<1>3. \A d \in sleepQueue : d # c /\ d \notin masks.all /\ d \notin masks.saved
  BY <1>1, <1>2 DEF DeafInv, Deaf, HoldsGrab, IInv, TypeOK
<1>4. sleepQueue \subseteq Clients
  BY DEF IInv, TypeOK
<1> HIDE DEF n
<1>5. CASE EndSlice(c) \/ ReadNothing(c)
  <2>1. /\ UNCHANGED <<grabWaiters, sleepQueue, grabClient, grabState>>
        /\ masks'.all = masks.all /\ masks'.saved = masks.saved
    BY <1>1, <1>5 DEF EndSlice, ReadNothing, Masks
  <2> QED
    BY <1>2, <1>4, <2>1, StillDeaf
<1>6. CASE OtherRequest(c) \/ \E v \in Clients : KillClient(c, v)
  <2>1. UNCHANGED <<grabWaiters, sleepQueue, grabClient, grabState>> /\ masks' = n
    BY <1>6 DEF OtherRequest, KillClient, n
  <2> QED
    BY <1>1, <1>2, <1>4, <2>1, StillDeaf
<1>7. CASE GrabServer(c)
  <2>1. UNCHANGED <<grabWaiters, sleepQueue>> /\ masks' = OnlyListenToOneClient(n, c)
    BY <1>7 DEF GrabServer, n
  <2>2. masks'.all \subseteq masks.all \cup {c} /\ masks'.saved \subseteq masks.saved \cup masks.all
    BY <1>1, <2>1 DEF OnlyListenToOneClient, Masks
  <2> QED
    BY <1>3, <2>1, <2>2 DEF DeafInv, Deaf
<1>8. ~WaitForGrab(c)
  BY <1>1 DEF WaitForGrab
<1>9. CASE UngrabRequest(c)
  <2>1. UNCHANGED sleepQueue /\ UngrabServer(n) /\ grabWaiters = {}
    BY <1>9 DEF UngrabRequest, n, DeafInv
  <2>2. grabWaiters' = {} /\ masks' = ListenToAllClients(n)
    BY <2>1 DEF UngrabServer, NextWaiter
  <2>3. masks'.all = masks.all \cup masks.saved /\ masks'.saved = {}
    BY <1>1, <2>2 DEF ListenToAllClients, Masks
  <2> QED
    BY <1>3, <2>1, <2>2, <2>3 DEF DeafInv, Deaf
<1>10. CASE ClientSleep(c)
  <2>1. /\ UNCHANGED <<grabWaiters, grabClient, grabState>>
        /\ sleepQueue' = sleepQueue \cup {c} /\ masks' = IgnoreClient(n, c)
    BY <1>10 DEF ClientSleep, n
  <2>2. masks'.all = masks.all \ {c} /\ masks'.saved = masks.saved
    BY <1>1, <2>1 DEF IgnoreClient, Masks
  <2>3. c \in masks'.saved => HoldsGrab(c)'
    BY <1>1, <2>1, <2>2 DEF HoldsGrab
  <2> QED
    BY <1>3, <2>1, <2>2, <2>3 DEF DeafInv, Deaf
<1>11. ~ImperviousRequest(c)
  BY DEF ImperviousRequest, ReadsRequest
<1>12. CASE PerviousRequest(c)
  <2>1. /\ UNCHANGED <<grabWaiters, sleepQueue, grabClient, grabState>>
        /\ masks' = MakeClientGrabPervious(n, c)
    BY <1>12 DEF PerviousRequest, n
  <2>2. masks'.all \subseteq masks.all /\ masks'.saved = masks.saved
    BY <1>1, <2>1 DEF MakeClientGrabPervious, Masks
  <2> QED
    BY <1>2, <1>4, <2>1, <2>2, StillDeaf
<1> QED
  BY <1>5, <1>6, <1>7, <1>8, <1>9, <1>10, <1>11, <1>12 DEF SliceStep

LEMMA DeafInClosing ==
    ASSUME IInv, RInv, DeafInv, NEW c \in Clients, CloseStep(c)
    PROVE  DeafInv'
<1> USE DEF grabVars, clientVars, queueVars, inputVars
<1>0. /\ masks \in Masks /\ sleepQueue \subseteq connected /\ Closes(c)
      /\ connected \cap retained = {}
      /\ \A d \in sleepQueue \ {c} : Deaf(d)
  BY DEF IInv, TypeOK, ClientsOK, CloseStep, ReleaseGrab, CloseDownConnection,
         FreeRetained, Closes, DeafInv
<1>1. CASE ReleaseGrab(c)
  <2>1. /\ UNCHANGED <<sleepQueue, closing>> /\ UngrabServer(masks)
        /\ grabWaiters = {} /\ HoldsGrab(c)
    BY <1>1 DEF ReleaseGrab, DeafInv
  <2>2. grabWaiters' = {} /\ masks' = ListenToAllClients(masks)
    BY <2>1 DEF UngrabServer, NextWaiter
  <2>3. masks'.all = masks.all \cup masks.saved /\ masks'.saved = {}
    BY <1>0, <2>2 DEF ListenToAllClients, Masks
  <2>4. \A d \in sleepQueue \ {c} : d \notin masks.all \cup masks.saved
    BY <1>0, <2>1 DEF Deaf, HoldsGrab
  <2>5. Closes(c)'
    BY <1>0, <2>1 DEF Closes
  <2> QED
    BY <2>1, <2>2, <2>3, <2>4, <2>5 DEF DeafInv, Deaf
<1>2. CASE CloseDownConnection(c)
  <2>1. /\ grabWaiters' = {} /\ sleepQueue' = sleepQueue \ {c}
        /\ masks' = CloseDownFileDescriptor(masks, c)
        /\ UNCHANGED <<grabState, grabClient>>
    BY <1>2 DEF CloseDownConnection, DeafInv
  <2>2. masks'.all \subseteq masks.all /\ masks'.saved \subseteq masks.saved
    BY <1>0, <2>1 DEF CloseDownFileDescriptor, Masks
  <2> QED
    BY <1>0, <2>1, <2>2 DEF DeafInv, Deaf, HoldsGrab
<1>3. CASE FreeRetained(c)
  <2>1. UNCHANGED <<masks, grabState, grabClient, grabWaiters, sleepQueue>>
    BY <1>3 DEF FreeRetained
  <2>2. c \notin sleepQueue
    BY <1>0, <1>3 DEF FreeRetained
  <2> QED
    BY <1>0, <2>1, <2>2 DEF DeafInv, Deaf, HoldsGrab
<1> QED
  BY <1>1, <1>2, <1>3 DEF CloseStep

\* Without impervious clients, one that sleeps in a request is not listened
\* to until it is attended: IgnoreClient removed it from whichever mask is in
\* use, and neither the beginning nor the end of a grab brings it back.
THEOREM SleepersCorrect ==
    ASSUME "Impervious" \notin Requests PROVE Spec => []SleepersAreIgnored
<1>1. ~Mixed
  BY DEF Mixed
<1>2. ASSUME IInv, RInv, DeafInv, [Next]_vars PROVE DeafInv'
  <2>1. CASE UNCHANGED vars
    BY <1>2, <2>1 DEF vars, DeafInv, Deaf, HoldsGrab, Closes
  <2>2. CASE \E c \in Clients : SliceStep(c)
    BY <1>2, <2>2, DeafInSlice
  <2>3. CASE \E c \in Clients : CloseStep(c)
    BY <1>2, <2>3, DeafInClosing
  <2>4. CASE \/ WorkStep \/ WaitForSomething \/ Kickout
             \/ \E c \in Clients : RoundStep(c) \/ WorldStep(c)
    BY <1>2, <2>4, DeafOutside
  <2> QED
    BY <1>2, <2>1, <2>2, <2>3, <2>4 DEF Next, ServerStep
<1>3. Spec => []DeafInv
  <2>1. IInv /\ RInv /\ [Next]_vars => RInv'
    BY <1>1, RemembersStep
  <2>2. IInv /\ RInv /\ DeafInv /\ [Next]_vars => DeafInv'
    BY <1>2
  <2> QED
    BY InitRemembers, InitDeaf, <2>1, <2>2, Invariance, PTL DEF Spec
<1>4. DeafInv => SleepersAreIgnored
  BY DEF DeafInv, Deaf, SleepersAreIgnored
<1> QED
  BY <1>3, <1>4, PTL
=============================================================================
