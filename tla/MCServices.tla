------------------------------ MODULE MCServices ------------------------------
(***************************************************************************)
(* What the server owes the outside, checked in one run: events of devices *)
(* are taken from the event queue, timers are called, output gets to the   *)
(* clients, the display gets an XDMCP session, and the screen shows what   *)
(* the windows are to show (clips, on regions).                            *)
(*                                                                         *)
(* These components share no variable.  A behaviour of this module is one  *)
(* of a single component, part, chosen at the start, with that component's *)
(* fairness; the others keep an initial value (the windows', of which      *)
(* there are none then, are empty).  The states of the run are the sum of  *)
(* the components'.                                                        *)
(***************************************************************************)
EXTENDS EventQueue, Timers, Output, Xdmcp, Regions, MCWindowClips

VARIABLE part

serviceVars == <<vars, timersVars, outputVars, xdmcpVars, regionVars, clipVars>>

ServicesInit ==
  /\ part \in {"queue", "timers", "output", "xdmcp", "regions", "clips"}
  /\ Init /\ TimersInit /\ OutputInit /\ XdmcpInit /\ RegionInit
  /\ part # "queue" => /\ pEnqueueScreen = CHOOSE s \in Screens : TRUE
                      /\ lastEventTime = CHOOSE t \in Times : TRUE
  /\ part # "xdmcp" => toManager = {} /\ oneSession
  /\ IF part = "clips" THEN WindowInit
     ELSE /\ win = <<>> /\ children = <<>> /\ valdata = <<>> /\ screen = <<>>
          /\ windowRequests = 0

\* Only the variables of the part change.
Except(others) == UNCHANGED <<part, others>>
InQueue   == part = "queue"   /\ Except(<<timersVars, outputVars, xdmcpVars, regionVars, clipVars>>)
InTimers  == part = "timers"  /\ Except(<<vars, outputVars, xdmcpVars, regionVars, clipVars>>)
InOutput  == part = "output"  /\ Except(<<vars, timersVars, xdmcpVars, regionVars, clipVars>>)
InXdmcp   == part = "xdmcp"   /\ Except(<<vars, timersVars, outputVars, regionVars, clipVars>>)
InRegions == part = "regions" /\ Except(<<vars, timersVars, outputVars, xdmcpVars, clipVars>>)
InClips   == part = "clips"   /\ Except(<<vars, timersVars, outputVars, xdmcpVars, regionVars>>)

\* The devices have produced what they will, and it was taken.
QueueEnds == /\ part = "queue" /\ arrivals = MaxArrivals /\ head = tail /\ pc = "test"
             /\ UNCHANGED <<part, serviceVars>>

ServicesNext ==
  \/ InQueue /\ Next
  \/ QueueEnds
  \/ InTimers /\ TimersNext
  \/ InOutput /\ OutputNext
  \/ InXdmcp /\ XdmcpNext
  \/ InRegions /\ RegionNext
  \/ InClips /\ WindowNext

-----------------------------------------------------------------------------
(* Instances. *)

Rect(x1, y1, x2, y2) == (x1 .. x2 - 1) \X (y1 .. y2 - 1)
SomeRegions ==
  {{}, Rect(1, 1, 2, 2), Rect(0, 0, 1, 3), Rect(0, 0, 2, 2), Rect(1, 1, 3, 3), Rect(0, 1, 3, 2), Rect(0, 0, 3, 3),
   Rect(0, 0, 1, 1) \cup Rect(2, 2, 3, 3), Rect(0, 0, 1, 2) \cup Rect(2, 0, 3, 2), Rect(0, 0, 3, 1) \cup Rect(0, 2, 3, 3)}
XRectangle(x, y, w, h) == [x |-> x, y |-> y, width |-> w, height |-> h]
SomeRectLists ==
  {<<>>, <<XRectangle(1, 1, 5, 1)>>, <<XRectangle(0, 0, 0, 2)>>,
   <<XRectangle(1, 1, 2, 2), XRectangle(0, 0, 2, 1), XRectangle(1, 0, 9, 9)>>,
   <<XRectangle(2, 0, 1, 3), XRectangle(0, 1, 3, 1), XRectangle(0, 0, 1, 3)>>}
SomeShifts == {<<1, 0>>, <<0, 1>>, <<-1, -1>>, <<2, -1>>}

-----------------------------------------------------------------------------
(***************************************************************************)
(* The fairness that each component states for itself (FairSpec of         *)
(* EventQueue, TimersFairness, OutputFairness, XdmcpFairness).  As part is *)
(* constant, fairness of a disjunction over the parts is that of each, and *)
(* TLC has fewer formulas to evaluate.                                     *)
(***************************************************************************)
Works ==
  \/ InQueue /\ ProcessInputEvents
  \/ InTimers /\ (CheckAllTimers \/ FireNext \/ FiringEnds)
  \/ InOutput /\ LoopStep
  \/ InXdmcp /\ \E p \in toDisplay : Receives(p)
Goes ==
  \/ InTimers /\ Tick
  \/ InOutput /\ \E c \in OClients : opc = "select" /\ CloseDownConnection(c)
  \/ InXdmcp /\ \E p \in toManager : ManagerServes(p)
GoesOn ==
  \/ InOutput /\ \E c \in OClients \ broken : Reads(c)
  \/ InXdmcp /\ \E sent \in BOOLEAN : (calm => sent) /\ (TimeOut(sent) \/ XdmcpReset(sent))
Waits ==
  \/ InTimers /\ WaitForSomething(FALSE)
  \/ InOutput /\ SelectReports(TRUE)
LooksAround ==
  \/ InTimers /\ LooksAtTimers
  \/ InOutput /\ \E c \in OClients : Served(c)

ServicesFairness ==
  /\ WF_serviceVars(Works)
  /\ WF_serviceVars(Goes)
  /\ WF_serviceVars(GoesOn)
  /\ WF_serviceVars(InXdmcp /\ \E sock \in Sockets : ManagerConnects(sock))
  /\ SF_serviceVars(Waits)
  /\ SF_serviceVars(LooksAround)

ServicesSpec == ServicesInit /\ [][ServicesNext]_<<part, serviceVars>> /\ ServicesFairness

-----------------------------------------------------------------------------
(* Every variable of every component has its type. *)
ServicesTypeOK ==
  TypeOK /\ TimersTypeOK /\ OutputTypeOK /\ XdmcpTypeOK /\ RegionTypeOK /\ WindowTypeOK
=============================================================================
