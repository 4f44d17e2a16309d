--------------------------------- MODULE Xdmcp ---------------------------------
(***************************************************************************)
(* The display's side of XDMCP, os/xdmcp.c: find a manager, request a       *)
(* session, let it be managed, keep it alive.  Datagrams are lost,          *)
(* duplicated and late; time-outs send again and give up in the end.  What  *)
(* time it takes is left out: a time-out may come at any moment.            *)
(*                                                                         *)
(* The manager is not in the repository.  It is modelled from the answers   *)
(* the code waits for.  Authentication and the choice among several         *)
(* managers are left out; the query of the initial state stands for         *)
(* broadcast, indirect and multicast queries too.                          *)
(***************************************************************************)
EXTENDS Integers, FiniteSets

CONSTANTS
    RtxLimit,     \* XDM_RTX_LIMIT
    KaLimit,      \* XDM_KA_RTX_LIMIT
    Sockets,      \* the descriptors of clients' connections
    MaxSessions,  \* bound: the IDs of sessions the manager gives are up to this
    MaxToManager, \* bound: datagrams on their way to the manager
    MaxToDisplay  \* bound: datagrams on their way to the display

ASSUME XdmcpAssumption ==
    /\ KaLimit \in Nat \ {0} /\ RtxLimit \in Nat /\ KaLimit <= RtxLimit
    /\ MaxSessions \in Nat \ {0} /\ MaxToManager \in Nat \ {0} /\ MaxToDisplay \in Nat \ {0}
    /\ IsFiniteSet(Sockets) /\ Cardinality(Sockets) >= 2

VARIABLES
    state,         \* of the protocol
    timeOutRtx,    \* transmissions since the last datagram came in
    sessionID,     \* the session the manager accepted last
    sessionSocket, \* the connection whose end is the end of the session
    conns,         \* descriptors of open connections
    exception,     \* dispatchException: "none", "reset", "terminate"
    oneSession,    \* OneSession, from the command line
    running,       \* the server has not ended
    toManager,     \* datagrams on their way
    toDisplay,     \* datagrams on their way
    granted,       \* manager: the session it accepted last, 0: none
    managed,       \* manager: the session it runs, 0: none
    calm           \* environment: datagrams get through, answers come before
                   \* time-outs, and clients do not make the server reset

displayVars == <<state, timeOutRtx, sessionID>>
serverVars == <<sessionSocket, conns, exception, oneSession, running>>
managerVars == <<granted, managed>>
xdmcpVars == <<displayVars, serverVars, managerVars, toManager, toDisplay, calm>>

Sessions == 1..MaxSessions
InSession == state \in {"RUN_SESSION", "AWAIT_ALIVE_RESPONSE"}

Packet(op, id) == [op |-> op, id |-> id]

\* A datagram on its way; what is too much is lost.
Put(channel, p, max) == IF Cardinality(channel \cup {p}) <= max THEN channel \cup {p} ELSE channel

----------------------------------------------------------------------------
(* Sending.                                                                *)

\* What send_packet sends in a state, with the ID of a session.
PacketOf(s, id) == CASE s = "QUERY" -> Packet("QUERY", 0)
                    [] s = "START_CONNECTION" -> Packet("REQUEST", 0)
                    [] s = "MANAGE" -> Packet("MANAGE", id)
                    [] s = "KEEPALIVE" -> Packet("KEEPALIVE", id)

\* The state after that.  A request that could not be sent is tried again.
Awaiting(s, sent) == CASE s = "QUERY" -> "COLLECT_QUERY"
                       [] s = "START_CONNECTION" -> IF sent THEN "AWAIT_REQUEST_RESPONSE" ELSE s
                       [] s = "MANAGE" -> "AWAIT_MANAGE_RESPONSE"
                       [] s = "KEEPALIVE" -> "AWAIT_ALIVE_RESPONSE"

\* send_packet in state s.  sent: the operating system took the datagram.
SendPacket(s, id, sent) ==
    /\ state' = Awaiting(s, sent)
    /\ toManager' = IF sent THEN Put(toManager, PacketOf(s, id), MaxToManager) ELSE toManager

\* XdmcpDeadSession: the server will be reset, and the query starts already.
DeadSession(sent) == /\ exception' = "reset"
                     /\ timeOutRtx' = 0
                     /\ SendPacket("QUERY", sessionID, sent)
                     /\ UNCHANGED <<sessionSocket, conns, oneSession, running>>

----------------------------------------------------------------------------
(* XdmcpWakeupHandler with a datagram.                                     *)

\* XdmcpFatal.
Fatal == /\ running' = FALSE
         /\ UNCHANGED <<state, sessionID, sessionSocket, conns, exception, oneSession, toManager>>

Ignored == UNCHANGED <<state, sessionID, serverVars, toManager>>

RecvWilling(sent) ==
    IF state = "COLLECT_QUERY"
    THEN SendPacket("START_CONNECTION", sessionID, sent) /\ UNCHANGED <<sessionID, serverVars>>
    ELSE Ignored

RecvAccept(id, sent) ==
    IF state = "AWAIT_REQUEST_RESPONSE"
    THEN /\ sessionID' = id
         /\ SendPacket("MANAGE", id, sent) /\ UNCHANGED serverVars
    ELSE Ignored

\* Mutant: a session that was refused is asked for again.
RecvRefuseAsksAgain(id, sent) ==
    IF state = "AWAIT_MANAGE_RESPONSE" /\ id = sessionID
    THEN SendPacket("MANAGE", id, sent) /\ UNCHANGED <<sessionID, serverVars>>
    ELSE Ignored

RecvRefuse(id, sent) ==
    IF state = "AWAIT_MANAGE_RESPONSE" /\ id = sessionID
    THEN SendPacket("START_CONNECTION", id, sent) /\ UNCHANGED <<sessionID, serverVars>>
    ELSE Ignored

RecvFailed(id) == IF state = "AWAIT_MANAGE_RESPONSE" /\ id = sessionID THEN Fatal ELSE Ignored

\* The answer to a keepalive: the session runs, or not, or it is another one.
RecvAlive(runs, id, sent) ==
    \/ /\ state = "AWAIT_ALIVE_RESPONSE" /\ runs /\ id = sessionID
       /\ state' = "RUN_SESSION"
       /\ UNCHANGED <<sessionID, serverVars, toManager>>
    \/ /\ state = "AWAIT_ALIVE_RESPONSE" /\ ~(runs /\ id = sessionID)
       /\ DeadSession(sent) /\ UNCHANGED sessionID
    \/ state # "AWAIT_ALIVE_RESPONSE" /\ Ignored

(***************************************************************************)
(* receive_packet: whatever it is, the retransmissions are counted anew.    *)
(* A datagram of another kind, or malformed, would do no more than that.    *)
(***************************************************************************)
ReceivePacket(p, sent) ==
    /\ running /\ exception = "none"
    /\ timeOutRtx' = 0
    /\ CASE p.op = "WILLING" -> RecvWilling(sent)
         [] p.op = "ACCEPT" -> RecvAccept(p.id, sent)
         [] p.op = "REFUSE" -> RecvRefuse(p.id, sent)
         [] p.op = "FAILED" -> RecvFailed(p.id)
         [] p.op = "ALIVE" -> RecvAlive(TRUE, p.id, sent)
         [] p.op = "DEAD" -> RecvAlive(FALSE, p.id, sent)
    /\ UNCHANGED <<managerVars, calm>>

\* It arrives; it may arrive again.
PacketArrives(p, sent, again) == /\ ReceivePacket(p, sent)
                           /\ toDisplay' = IF again THEN toDisplay ELSE toDisplay \ {p}

----------------------------------------------------------------------------
(* XdmcpWakeupHandler after a time-out.                                    *)

\* The session has been quiet: ask whether it is alive.
KeepAlive(sent) ==
    /\ state = "RUN_SESSION"
    /\ SendPacket("KEEPALIVE", sessionID, sent)
    /\ UNCHANGED <<timeOutRtx, sessionID, serverVars>>

\* From which state timeout() sends again.
Again == [s \in {"COLLECT_QUERY", "START_CONNECTION", "AWAIT_REQUEST_RESPONSE",
                 "AWAIT_MANAGE_RESPONSE", "AWAIT_ALIVE_RESPONSE"} |->
              CASE s = "COLLECT_QUERY" -> "QUERY"
                [] s = "AWAIT_REQUEST_RESPONSE" -> "START_CONNECTION"
                [] s = "AWAIT_MANAGE_RESPONSE" -> "MANAGE"
                [] s = "AWAIT_ALIVE_RESPONSE" -> "KEEPALIVE"
                [] OTHER -> s]

\* The limit for the state.
RetransmissionLimit == IF state = "AWAIT_ALIVE_RESPONSE" THEN KaLimit ELSE RtxLimit

Timeout(sent) ==
    /\ state \in DOMAIN Again
    /\ UNCHANGED sessionID
    /\ \/ /\ timeOutRtx + 1 < RetransmissionLimit
          /\ timeOutRtx' = timeOutRtx + 1
          /\ SendPacket(Again[state], sessionID, sent)
          /\ UNCHANGED serverVars
       \/ /\ timeOutRtx + 1 >= RetransmissionLimit
          /\ state = "AWAIT_ALIVE_RESPONSE" \/ ~oneSession
          /\ DeadSession(sent)
       \/ /\ timeOutRtx + 1 >= RtxLimit
          /\ state # "AWAIT_ALIVE_RESPONSE" /\ oneSession
          /\ exception' = "terminate" /\ timeOutRtx' = timeOutRtx + 1
          /\ UNCHANGED <<state, sessionSocket, conns, oneSession, running, toManager>>

\* While all is calm answers, and the manager's connection, are in time.
InTime == calm => /\ toManager = {} /\ toDisplay = {}
                  /\ ~(state = "AWAIT_MANAGE_RESPONSE" /\ managed # 0)

TimeOut(sent) == /\ running /\ exception = "none"
                 /\ InTime
                 /\ KeepAlive(sent) \/ Timeout(sent)
                 /\ UNCHANGED <<toDisplay, managerVars, calm>>

----------------------------------------------------------------------------
(* The rest of the server.                                                 *)

\* XdmcpOpenDisplay, called for every connection that is accepted.
OpenDisplay(sock) ==
    IF state = "AWAIT_MANAGE_RESPONSE"
    THEN state' = "RUN_SESSION" /\ sessionSocket' = sock
    ELSE UNCHANGED <<state, sessionSocket>>

AcceptConnection(sock) == /\ running /\ exception = "none"
                /\ sock \notin conns
                /\ conns' = conns \cup {sock}
                /\ OpenDisplay(sock)
                /\ UNCHANGED <<timeOutRtx, sessionID, exception, oneSession, running,
                               managerVars, toManager, toDisplay, calm>>

\* A client of this host; one descriptor is left to the manager.
LocalConnects(sock) == Cardinality(conns) + 1 < Cardinality(Sockets) /\ AcceptConnection(sock)

\* The first client of the session the manager runs.
ManagerConnects(sock) == managed # 0 /\ state = "AWAIT_MANAGE_RESPONSE" /\ AcceptConnection(sock)

\* Mutant: a session that is asked whether it is alive does not end.
EndsRunningSession(sock) == state = "RUN_SESSION" /\ sessionSocket = sock

\* XdmcpCloseDisplay: whether the end of a connection is the end of the session.
EndsSession(sock) == InSession /\ sessionSocket = sock

(***************************************************************************)
(* A connection is closed.  The last client's end resets the server; one    *)
(* that was not connected fully (~client) does not.                        *)
(***************************************************************************)
Disconnect(sock, client) ==
    /\ running /\ exception = "none" /\ ~calm
    /\ sock \in conns
    /\ conns' = conns \ {sock}
    /\ IF EndsSession(sock)
       THEN /\ state' = "QUERY"
            /\ exception' = IF oneSession THEN "terminate" ELSE "reset"
       ELSE /\ UNCHANGED state
            /\ exception' = IF client /\ conns' = {} THEN "reset" ELSE "none"
    /\ UNCHANGED <<timeOutRtx, sessionID, sessionSocket, oneSession, running, managerVars,
                   toManager, toDisplay, calm>>

\* The signal that resets the server.
HangUp == /\ running /\ exception = "none" /\ ~calm
          /\ exception' = "reset"
          /\ UNCHANGED <<displayVars, sessionSocket, conns, oneSession, running, managerVars,
                         toManager, toDisplay, calm>>

(***************************************************************************)
(* The dispatch loop ends: every client is killed, and the server ends or   *)
(* XdmcpReset starts again.  With -once it ends with the session.           *)
(***************************************************************************)
Ends == exception = "terminate" \/ (oneSession /\ \E sock \in conns : EndsSession(sock))

XdmcpReset(sent) ==
    /\ running /\ exception # "none"
    /\ conns' = {} /\ exception' = "none"
    /\ running' = ~Ends
    /\ IF Ends THEN UNCHANGED <<displayVars, toManager>>
       ELSE /\ timeOutRtx' = 0
            /\ SendPacket("QUERY", sessionID, sent)
            /\ UNCHANGED sessionID
    /\ UNCHANGED <<sessionSocket, oneSession, managerVars, toDisplay, calm>>

----------------------------------------------------------------------------
(* The manager.                                                            *)

\* Its answers to a datagram, with what becomes of its sessions.
Answers(p) ==
    CASE p.op = "QUERY" -> [op : {"WILLING"}, id : {0}]
      [] p.op = "REQUEST" -> [op : {"ACCEPT"}, id : (Sessions \cap {granted, granted + 1})]
      [] p.op = "MANAGE" -> IF p.id = granted THEN {Packet("CONNECTS", p.id), Packet("FAILED", p.id)}
                            ELSE {Packet("REFUSE", p.id)}
      [] p.op = "KEEPALIVE" -> {Packet(IF managed # 0 THEN "ALIVE" ELSE "DEAD", managed)}

ManagerAnswers(p, answer, again) ==
    /\ running /\ exception = "none" /\ answer \in Answers(p)
    /\ granted' = IF answer.op = "ACCEPT" THEN answer.id ELSE granted
    /\ managed' = CASE answer.op = "CONNECTS" -> answer.id
                    [] answer.op = "ACCEPT" -> 0
                    [] OTHER -> managed
    /\ toDisplay' = IF answer.op = "CONNECTS" THEN toDisplay ELSE Put(toDisplay, answer, MaxToDisplay)
    /\ toManager' = IF again THEN toManager ELSE toManager \ {p}
    /\ UNCHANGED <<displayVars, serverVars, calm>>

(***************************************************************************)
(* The manager answers UNWILLING or DECLINE.  They act in any state: when   *)
(* they arrive makes no difference.                                        *)
(***************************************************************************)
ManagerDeclines(p) ==
    /\ running /\ exception = "none"
    /\ p.op \in {"QUERY", "REQUEST"}
    /\ Fatal /\ timeOutRtx' = 0
    /\ UNCHANGED <<managerVars, toDisplay, calm>>

\* A session ends without a word.
ManagerCrashes == /\ running /\ exception = "none" /\ managed # 0 /\ InSession
                  /\ managed' = 0
                  /\ UNCHANGED <<displayVars, serverVars, granted, toManager, toDisplay, calm>>

----------------------------------------------------------------------------
(* The network.                                                            *)

Lose(p) == /\ running /\ exception = "none" /\ ~calm
           /\ p \in toManager \cup toDisplay
           /\ toManager' = toManager \ {p} /\ toDisplay' = toDisplay \ {p}
           /\ UNCHANGED <<displayVars, serverVars, managerVars, calm>>

\* From now on there is no trouble.  What is on its way still arrives.
CalmDown == /\ running /\ exception = "none" /\ ~calm /\ calm' = TRUE
            /\ UNCHANGED <<displayVars, serverVars, managerVars, toManager, toDisplay>>

\* The server has ended.
Over == ~running /\ UNCHANGED xdmcpVars

XdmcpInit ==
    /\ timeOutRtx = 0 /\ sessionID = 0
    /\ state = "COLLECT_QUERY" /\ toManager \in {{}, {Packet("QUERY", 0)}}
    /\ sessionSocket = 0 /\ conns = {}
    /\ exception = "none" /\ running = TRUE /\ oneSession \in BOOLEAN
    /\ granted = 0 /\ managed = 0
    /\ toDisplay = {}
    /\ calm = FALSE

Receives(p) == \E sent, again \in BOOLEAN : (calm => sent /\ ~again) /\ PacketArrives(p, sent, again)
ManagerServes(p) == \E again \in BOOLEAN, answer \in Answers(p) : (calm => ~again) /\ ManagerAnswers(p, answer, again)

XdmcpNext ==
    \/ \E p \in toDisplay : Receives(p)
    \/ \E p \in toManager : ManagerServes(p) \/ ManagerDeclines(p)
    \/ \E sent \in BOOLEAN : (calm => sent) /\ TimeOut(sent)
    \/ \E sent \in BOOLEAN : (calm => sent) /\ XdmcpReset(sent)
    \/ \E sock \in Sockets : LocalConnects(sock) \/ ManagerConnects(sock)
    \/ \E sock \in Sockets, client \in BOOLEAN : Disconnect(sock, client)
    \/ HangUp
    \/ ManagerCrashes
    \/ \E p \in toManager \cup toDisplay : Lose(p)
    \/ CalmDown
    \/ Over

(***************************************************************************)
(* What is on its way arrives, the manager answers and connects, time       *)
(* passes and the dispatch loop looks at dispatchException.                 *)
(***************************************************************************)
XdmcpFairness ==
    /\ WF_xdmcpVars(\E p \in toDisplay : Receives(p))
    /\ WF_xdmcpVars(\E p \in toManager : ManagerServes(p))
    /\ WF_xdmcpVars(\E sent \in BOOLEAN : (calm => sent) /\ (TimeOut(sent) \/ XdmcpReset(sent)))
    /\ WF_xdmcpVars(\E sock \in Sockets : ManagerConnects(sock))

XdmcpSpec == XdmcpInit /\ [][XdmcpNext]_xdmcpVars /\ XdmcpFairness

----------------------------------------------------------------------------
(* Properties.                                                             *)

XdmcpStates == {"QUERY", "COLLECT_QUERY", "START_CONNECTION", "AWAIT_REQUEST_RESPONSE",
           "AWAIT_MANAGE_RESPONSE", "RUN_SESSION", "AWAIT_ALIVE_RESPONSE"}

\* Types of the variables.
XdmcpTypeOK ==
    /\ state \in XdmcpStates /\ timeOutRtx \in 0..RtxLimit /\ sessionID \in {0} \cup Sessions
    /\ sessionSocket \in Sockets \cup {0} /\ conns \subseteq Sockets
    /\ exception \in {"none", "reset", "terminate"}
    /\ oneSession \in BOOLEAN /\ running \in BOOLEAN /\ calm \in BOOLEAN
    /\ granted \in {0} \cup Sessions /\ managed \in {0, granted}

(***************************************************************************)
(* While a session runs the connection whose end is to end it is open; and  *)
(* the state from which nothing more is sent is left by a reset at once.    *)
(***************************************************************************)
XdmcpSessionHasItsClient ==
    running => /\ InSession => sessionSocket \in conns
               /\ state = "QUERY" => exception # "none"

(***************************************************************************)
(* However many datagrams were lost, duplicated or late, and whatever of    *)
(* sessions given up is still on its way: once datagrams get through, again *)
(* and again a session runs, or the server ends.                           *)
(***************************************************************************)
XdmcpGetsASession == []<>(calm => InSession \/ ~running)
=============================================================================
