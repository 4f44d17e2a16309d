------------------------------- MODULE Output -------------------------------
(***************************************************************************)
(* What the server sends to its clients, os/io.c: a buffer per client, the *)
(* masks that say whose buffer is to be flushed and who cannot take more,  *)
(* partial writes, broken connections, and when the dispatch loop and      *)
(* WaitForSomething flush.                                                 *)
(*                                                                         *)
(* Bytes are numbered in the order in which they are written to a client,  *)
(* padding is 0.  A transport has room for some bytes; the client makes     *)
(* room by reading.  FlushClient's loop over writev(), with its halving     *)
(* after EMSGSIZE, is its outcome: what fits is taken, and then either all  *)
(* is written or the transport would block.  A buffer that is not needed    *)
(* goes to a pool, which is left out: a client's next one is new.           *)
(***************************************************************************)
EXTENDS Integers, Sequences, FiniteSets

CONSTANTS
    OClients,      \* the clients, numbers
    Align,         \* messages are padded to a multiple of this, 4 in the source
    Sizes,         \* lengths of messages
    BufSize,       \* BUFSIZE
    Room,          \* how many bytes a transport takes
    MaxRequests    \* bound: requests and input events

ASSUME OutputAssumption ==
    /\ OClients \subseteq Nat /\ IsFiniteSet(OClients)
    /\ Align \in Nat \ {0} /\ BufSize \in Nat
    /\ Room \in Nat \ {0} /\ MaxRequests \in Nat /\ Sizes \subseteq Nat \ {0}

VARIABLES
    out,           \* of each client: the bytes in its buffer (oc->output)
    size,          \* of each client: the size of its buffer, 0 if it has none
    open,          \* clients with an open transport (oc->trans_conn)
    outPending,    \* OutputPending
    newOutput,     \* NewOutputPending
    writeBlocked,  \* ClientsWriteBlocked
    anyBlocked,    \* AnyClientsWriteBlocked
    withInput,     \* ClientsWithInput
    present,       \* clients that are not closed down
    opc,           \* "dispatch", "flush", "select"
    back,          \* where FlushAllOutput returns to
    flushing,      \* clients FlushAllOutput has still to look at
    room,          \* of each client: what its transport takes before it blocks
    broken,        \* clients that have gone away
    received,      \* of each client: the bytes it has got
    requests       \* number of requests and input events so far

bufferVars == <<out, size, open, received, room>>
flagVars == <<outPending, newOutput, writeBlocked, anyBlocked>>
loopVars == <<opc, back, flushing>>
outputVars == <<bufferVars, flagVars, loopVars, withInput, present, broken, requests>>

----------------------------------------------------------------------------
(* FlushClient and WriteToClient of client c.                              *)

Pads(n) == (Align - (n % Align)) % Align

\* A message of n bytes, with its pads, after the bytes written before.
Message(c, n) == [i \in 1..n + Pads(n) |-> IF i <= n THEN Len(received[c]) + Len(out[c]) + i ELSE 0]

\* Everything went out: the buffer is given back, the client is not blocked.
Flushed(c) ==
    /\ size' = [size EXCEPT ![c] = 0]
    /\ out' = [out EXCEPT ![c] = <<>>]
    /\ writeBlocked' = IF anyBlocked THEN writeBlocked \ {c} ELSE writeBlocked
    /\ anyBlocked' = (anyBlocked /\ writeBlocked' # {})
    /\ UNCHANGED open

\* Mutant: the mark is only set when nothing could be written.
BlockedIfNothingWent(c, s, msg, w) ==
    LET all == SubSeq(out[c] \o msg, w + 1, Len(out[c]) + Len(msg))
    IN  /\ writeBlocked' = IF w = 0 THEN writeBlocked \cup {c} ELSE writeBlocked
        /\ anyBlocked' = (writeBlocked' # {})
        /\ out' = [out EXCEPT ![c] = all]
        /\ size' = [size EXCEPT ![c] = IF Len(all) > s THEN Len(all) + BufSize ELSE s]
        /\ UNCHANGED open

\* Mutant: what went out of the message is not counted.
BlockedRepeats(c, s, msg, w) ==
    LET inBuffer == Len(out[c])
        all == IF w < inBuffer THEN SubSeq(out[c], w + 1, inBuffer) \o msg ELSE msg
    IN  /\ writeBlocked' = writeBlocked \cup {c}
        /\ anyBlocked' = TRUE
        /\ out' = [out EXCEPT ![c] = all]
        /\ size' = [size EXCEPT ![c] = IF Len(all) > s THEN Len(all) + BufSize ELSE s]
        /\ UNCHANGED open

(***************************************************************************)
(* The transport took w bytes and would block: what is left of the buffer   *)
(* moves to its front, what is left of the message follows, and the buffer, *)
(* of size s, grows when that does not fit.                                 *)
(***************************************************************************)
Blocked(c, s, msg, w) ==
    LET inBuffer == Len(out[c])
        all == IF w < inBuffer THEN SubSeq(out[c], w + 1, inBuffer) \o msg
               ELSE SubSeq(msg, w - inBuffer + 1, Len(msg))
    IN  /\ writeBlocked' = writeBlocked \cup {c}
        /\ anyBlocked' = TRUE
        /\ out' = [out EXCEPT ![c] = all]
        /\ size' = [size EXCEPT ![c] = IF Len(all) > s THEN Len(all) + BufSize ELSE s]
        /\ UNCHANGED open

\* The connection failed, or there is no memory: it is closed, the output dropped.
Aborted(c, s) ==
    /\ open' = open \ {c}
    /\ out' = [out EXCEPT ![c] = <<>>]
    /\ size' = [size EXCEPT ![c] = s]

(***************************************************************************)
(* FlushClient of the buffer, of size s, and a message msg after it.        *)
(* enough: there is memory should the buffer have to grow.                  *)
(***************************************************************************)
FlushClient(c, s, msg, enough) ==
    LET n == Len(out[c]) + Len(msg)
        w == IF n <= room[c] THEN n ELSE room[c]
    IN  \/ /\ s = 0
           /\ UNCHANGED <<bufferVars, writeBlocked, anyBlocked>>
        \/ /\ s > 0 /\ n > 0 /\ (c \notin open \/ c \in broken)
           /\ Aborted(c, s)
           /\ UNCHANGED <<received, room, writeBlocked, anyBlocked>>
        \/ /\ s > 0 /\ (n = 0 \/ c \in open \ broken)
           /\ room' = [room EXCEPT ![c] = @ - w]
           /\ received' = [received EXCEPT ![c] = @ \o SubSeq(out[c] \o msg, 1, w)]
           /\ \/ w = n /\ Flushed(c)
              \/ /\ w < n /\ (n - w <= s \/ enough)
                 /\ Blocked(c, s, msg, w)
              \/ /\ w < n /\ n - w > s /\ ~enough
                 /\ Aborted(c, s)
                 /\ writeBlocked' = writeBlocked \cup {c}
                 /\ anyBlocked' = TRUE

\* The message is copied to the buffer, of size s.
Buffered(c, s, msg) ==
    /\ out' = [out EXCEPT ![c] = @ \o msg]
    /\ size' = [size EXCEPT ![c] = s]
    /\ outPending' = outPending \cup {c}
    /\ newOutput' = TRUE
    /\ UNCHANGED <<open, received, room, writeBlocked, anyBlocked>>

\* WriteToClient.  enough: there is memory.
WriteToClient(c, n, enough) ==
    LET msg == Message(c, n)
        s == IF size[c] = 0 THEN BufSize ELSE size[c]
    IN  \/ /\ size[c] = 0 /\ ~enough
           /\ Aborted(c, 0)
           /\ UNCHANGED <<received, room, outPending, newOutput, writeBlocked, anyBlocked>>
        \/ /\ size[c] > 0 \/ enough
           /\ IF Len(out[c]) + Len(msg) > s
              THEN /\ outPending' = outPending \ {c}
                   /\ newOutput' = (newOutput /\ outPending' # {})
                   /\ FlushClient(c, s, msg, enough)
              ELSE Buffered(c, s, msg)

----------------------------------------------------------------------------
(* The dispatch loop.                                                      *)

\* A request has arrived in the buffer of c, or more of them.
Arrives(c) == /\ c \in present \ withInput /\ requests < MaxRequests
              /\ requests' = requests + 1
              /\ withInput' = withInput \cup {c}
              /\ UNCHANGED <<bufferVars, flagVars, loopVars, present, broken>>

\* c has no more requests in its buffer, or another one.
LeavesOrStays(c) == \/ withInput' = withInput \ {c} /\ UNCHANGED requests
                    \/ /\ requests < MaxRequests
                       /\ requests' = requests + 1 /\ UNCHANGED withInput

\* A request of c is executed and something is written to client d.
Serve(c, d, n, enough) ==
    /\ opc = "dispatch" /\ c \in withInput /\ d \in present
    /\ WriteToClient(d, n, enough)
    /\ LeavesOrStays(c)
    /\ UNCHANGED <<loopVars, present, broken>>

\* A request that writes nothing.
ServeSilently(c) ==
    /\ opc = "dispatch" /\ c \in withInput
    /\ LeavesOrStays(c)
    /\ UNCHANGED <<bufferVars, flagVars, loopVars, present, broken>>

\* Device input is processed and an event is written to d.
QueueDeviceEvent(d, n, enough) ==
    /\ opc = "dispatch" /\ d \in present /\ requests < MaxRequests
    /\ WriteToClient(d, n, enough)
    /\ requests' = requests + 1
    /\ UNCHANGED <<loopVars, withInput, present, broken>>

(***************************************************************************)
(* FlushAllOutput, which takes the clients one by one from a copy of        *)
(* OutputPending.  The dispatch loop calls it at the end of a slice, and    *)
(* after requests and input when CriticalOutputPending is set: at any time, *)
(* so that this flag is left out.                                          *)
(***************************************************************************)
FlushAllOutput(return) ==
    IF newOutput
    THEN /\ newOutput' = FALSE
         /\ flushing' = outPending /\ outPending' = {}
         /\ opc' = "flush" /\ back' = return
         /\ UNCHANGED <<writeBlocked, anyBlocked>>
    ELSE opc' = return /\ UNCHANGED <<flagVars, flushing, back>>

EndOfSlice == /\ opc = "dispatch"
              /\ newOutput
              /\ FlushAllOutput("dispatch")
              /\ UNCHANGED <<bufferVars, withInput, present, broken, requests>>

FlushNext(enough) ==
    /\ opc = "flush" /\ flushing # {}
    /\ LET c == CHOOSE d \in flushing : \A e \in flushing : d <= e
       IN  /\ flushing' = flushing \ {c}
           /\ IF c \in withInput
              THEN /\ outPending' = outPending \cup {c}
                   /\ newOutput' = TRUE
                   /\ UNCHANGED <<bufferVars, writeBlocked, anyBlocked>>
              ELSE /\ FlushClient(c, size[c], <<>>, enough)
                   /\ UNCHANGED <<outPending, newOutput>>
    /\ UNCHANGED <<opc, back, withInput, present, broken, requests>>

FlushEnds == /\ opc = "flush" /\ flushing = {}
             /\ opc' = back /\ back' = "dispatch"
             /\ UNCHANGED <<bufferVars, flagVars, flushing, withInput, present, broken, requests>>

\* WaitForSomething, up to select().
WaitForOutput == /\ opc = "dispatch"
                 /\ FlushAllOutput("select")
                 /\ UNCHANGED <<bufferVars, withInput, present, broken, requests>>

(***************************************************************************)
(* select() returns: with descriptors that are ready, if ready, or else at  *)
(* the time-out.  A broken transport counts as writable.  It does not       *)
(* accept closed descriptors: CheckConnections closes those clients first.  *)
(***************************************************************************)
Writable == {c \in writeBlocked : room[c] > 0 \/ c \in broken}

SelectReports(ready) ==
    /\ opc = "select" /\ present \subseteq open
    /\ opc' = "dispatch"
    /\ IF ready /\ anyBlocked /\ Writable # {}
       THEN /\ newOutput' = TRUE
            /\ outPending' = outPending \cup Writable
            /\ writeBlocked' = writeBlocked \ Writable
            /\ anyBlocked' = (writeBlocked' # {})
       ELSE UNCHANGED <<newOutput, outPending, writeBlocked, anyBlocked>>
    /\ UNCHANGED <<bufferVars, back, flushing, withInput, present, broken, requests>>

\* CloseDownConnection: a last attempt to flush, and every mark of c is removed.
CloseDownConnection(c) ==
    /\ c \in present
    /\ opc = "dispatch" \/ (opc = "select" /\ c \notin open)
    /\ LET n == Len(out[c])
           w == IF c \notin open \ broken THEN 0 ELSE IF n <= room[c] THEN n ELSE room[c]
       IN  /\ received' = [received EXCEPT ![c] = @ \o SubSeq(out[c], 1, w)]
           /\ room' = [room EXCEPT ![c] = @ - w]
    /\ out' = [out EXCEPT ![c] = <<>>]
    /\ size' = [size EXCEPT ![c] = 0]
    /\ open' = open \ {c}
    /\ present' = present \ {c}
    /\ withInput' = withInput \ {c}
    /\ outPending' = outPending \ {c}
    /\ writeBlocked' = writeBlocked \ {c}
    /\ anyBlocked' = (writeBlocked' # {})
    /\ UNCHANGED <<newOutput, loopVars, broken, requests>>

----------------------------------------------------------------------------
(* The clients at the other end.                                           *)

Reads(c) == /\ c \in open /\ room[c] < Room
            /\ room' = [room EXCEPT ![c] = Room]
            /\ UNCHANGED <<out, size, open, received, flagVars, loopVars, withInput, present, broken, requests>>

Breaks(c) == /\ c \in open \ broken
             /\ broken' = broken \cup {c}
             /\ UNCHANGED <<bufferVars, flagVars, loopVars, withInput, present, requests>>

OutputInit ==
    /\ out = [c \in OClients |-> <<>>] /\ received = [c \in OClients |-> <<>>]
    /\ size = [c \in OClients |-> 0] /\ room = [c \in OClients |-> Room]
    /\ open = OClients /\ present = OClients /\ broken = {}
    /\ outPending = {} /\ newOutput = FALSE
    /\ writeBlocked = {} /\ anyBlocked = FALSE
    /\ withInput = {} /\ requests = 0
    /\ opc = "dispatch" /\ back = "dispatch" /\ flushing = {}

OutputNext ==
    \/ \E c \in OClients : Arrives(c)
    \/ \E c, d \in OClients, n \in Sizes, enough \in BOOLEAN : Serve(c, d, n, enough)
    \/ \E c \in OClients : ServeSilently(c)
    \/ \E d \in OClients, n \in Sizes, enough \in BOOLEAN : QueueDeviceEvent(d, n, enough)
    \/ EndOfSlice
    \/ \E enough \in BOOLEAN : FlushNext(enough)
    \/ FlushEnds
    \/ WaitForOutput
    \/ \E ready \in BOOLEAN : SelectReports(ready)
    \/ \E c \in OClients : CloseDownConnection(c)
    \/ \E c \in OClients : Reads(c)
    \/ \E c \in OClients : Breaks(c)

Served(c) == \/ \E d \in OClients, n \in Sizes, enough \in BOOLEAN : Serve(c, d, n, enough)
             \/ ServeSilently(c)

LoopStep == (\E enough \in BOOLEAN : FlushNext(enough)) \/ FlushEnds \/ WaitForOutput

(***************************************************************************)
(* FlushAllOutput and select() come to an end, the dispatch loop serves     *)
(* whoever has requests and goes back to WaitForSomething, which reports    *)
(* what is ready.  Clients read as long as they are there.                  *)
(***************************************************************************)
OutputFairness ==
    /\ WF_outputVars(LoopStep)
    /\ SF_outputVars(SelectReports(TRUE))
    /\ SF_outputVars(\E c \in OClients : Served(c))
    /\ WF_outputVars(\E c \in OClients : opc = "select" /\ CloseDownConnection(c))
    /\ WF_outputVars(\E c \in OClients \ broken : Reads(c))

OutputSpec == OutputInit /\ [][OutputNext]_outputVars /\ OutputFairness

----------------------------------------------------------------------------
(* Properties.                                                             *)

\* Types of the variables.
OutputTypeOK ==
    /\ out \in [OClients -> Seq(Nat)] /\ received \in [OClients -> Seq(Nat)]
    /\ size \in [OClients -> Nat] /\ room \in [OClients -> 0..Room]
    /\ open \subseteq OClients /\ present \subseteq OClients /\ broken \subseteq OClients
    /\ outPending \subseteq present /\ writeBlocked \subseteq present
    /\ flushing \subseteq OClients /\ withInput \subseteq present
    /\ newOutput \in BOOLEAN /\ anyBlocked \in BOOLEAN
    /\ opc \in {"dispatch", "flush", "select"} /\ back \in {"dispatch", "select"}
    /\ requests \in 0..MaxRequests
    /\ \A c \in OClients : Len(out[c]) <= size[c]

(***************************************************************************)
(* Bytes in a buffer are never forgotten: whoever has some is to be flushed *)
(* or waits until it can take more, and the flags without which nobody      *)
(* looks at the two masks are set.                                          *)
(***************************************************************************)
NoOutputIsStuck ==
    /\ \A c \in present \cap open : out[c] # <<>> => c \in outPending \cup writeBlocked \cup flushing
    /\ outPending # {} => newOutput
    /\ anyBlocked <=> writeBlocked # {}

(***************************************************************************)
(* The output of the server to a client is the queue of bytes OutputStream  *)
(* describes: in order, nothing lost or sent twice when writes are partial, *)
(* whatever is flushed, aborted or closed in between; and all of it is      *)
(* delivered in the end.                                                    *)
(***************************************************************************)
Stream == INSTANCE OutputStream WITH
    Clients <- OClients,
    Messages <- {[i \in 1..n + Pads(n) |-> IF i <= n THEN 1 ELSE 0] : n \in Sizes},
    queue <- [c \in OClients |-> IF c \in open \ broken THEN out[c] ELSE <<>>],
    got <- received,
    up <- open \ broken

OutputIsAStream == Stream!StreamSpec
=============================================================================
