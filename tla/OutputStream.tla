---------------------------- MODULE OutputStream ----------------------------
(***************************************************************************)
(* What os/io.c promises to whoever calls WriteToClient: each connection is *)
(* a queue of bytes.  What is written goes in at one end; what the client   *)
(* gets is taken from the other, all of it in the end, unless the           *)
(* connection is lost, and then nothing more arrives.                       *)
(***************************************************************************)
EXTENDS Integers, Sequences

CONSTANTS
    Clients,   \* the clients
    Messages   \* the sequences of bytes that may be written at a time

VARIABLES
    queue,     \* of each client: bytes written that it has not got
    got,       \* of each client: bytes it has got
    up         \* the clients whose connection is not lost

streamVars == <<queue, got, up>>

StreamInit == /\ queue = [c \in Clients |-> <<>>]
              /\ got = [c \in Clients |-> <<>>]
              /\ up = Clients

(***************************************************************************)
(* A write and a delivery may coincide: a write that does not fit into the  *)
(* buffer sends what it can.  So a step appends a message, which may be     *)
(* empty, moves the first n bytes, and may lose the connection after that.  *)
(***************************************************************************)
Step(c, msg, n, keeps) ==
    LET all == queue[c] \o msg
    IN  /\ c \in up
        /\ queue' = [queue EXCEPT ![c] = IF keeps THEN SubSeq(all, n + 1, Len(all)) ELSE <<>>]
        /\ got' = [got EXCEPT ![c] = @ \o SubSeq(all, 1, n)]
        /\ up' = IF keeps THEN up ELSE up \ {c}

\* The bytes of a stream are numbered; pads are 0.
Numbered(c, msg) == [i \in DOMAIN msg |-> IF msg[i] = 0 THEN 0 ELSE Len(queue[c]) + Len(got[c]) + i]

Write(c) == \E msg \in Messages, keeps \in BOOLEAN : \E n \in 0..Len(queue[c]) + Len(msg) :
                Step(c, Numbered(c, msg), n, keeps)

Deliver(c) == \E n \in 1..Len(queue[c]) : Step(c, <<>>, n, TRUE)

Lose(c) == \E n \in 0..Len(queue[c]) : Step(c, <<>>, n, FALSE)

\* Something happens to the stream of c.
Happens(c) == <<queue[c], got[c], c \in up>>' # <<queue[c], got[c], c \in up>>

StreamNext == \E c \in Clients : Happens(c) /\ (Write(c) \/ Deliver(c) \/ Lose(c))

(***************************************************************************)
(* Weak fairness of Deliver(c): it is enabled while the queue of c holds    *)
(* bytes, and nothing else moves the bytes of c to got.                     *)
(***************************************************************************)
Delivers(c) == \/ []<>(queue[c] = <<>>)
               \/ []<><<got'[c] # got[c]>>_got

StreamSpec == /\ StreamInit /\ [][StreamNext]_streamVars
              /\ \A c \in Clients : Delivers(c)
=============================================================================
