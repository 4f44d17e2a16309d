SPECIFICATION ServicesSpec
CONSTANTS
    QUEUE_SIZE = 3
    Screens = {s1, s2}
    Times = {1, 3}
    TimeSlack = 3
    Variant = "mieq"
    MaxArrivals = 4
    Timers = {t1, t2}
    Delays = {1, 2}
    ClockSize = 16
    Slack = 1
    Setbacks = {2}
    MaxSetbacks = 1
    MaxLate = 1
    OClients = {1, 2}
    Align = 2
    Sizes = {3}
    BufSize = 4
    Room = 3
    MaxRequests = 3
    RtxLimit = 2
    KaLimit = 1
    Sockets = {1, 2}
    MaxSessions = 2
    MaxToManager = 1
    MaxToDisplay = 1
    Operands <- SomeRegions
    MinShort = 0
    MaxShort = 3
    Shifts <- SomeShifts
    RectLists <- SomeRectLists
    MaxAppends = 3
    A = A
    B = B
    C = C
    RootWin = R
    Wins = {A, B, C}
    ScreenSize <- Screen43
    InitialTrees <- SomeTrees
    SomeRequests <- Configurations
    SomePlaces <- Places
    MaxWindowRequests = 1
INVARIANTS
    ServicesTypeOK
    RingHoldsTheQueue
    KeyIsNeverTorn
    TimersInTime
    NoOutputIsStuck
    XdmcpSessionHasItsClient
    RegionsAreTheirPixels
    ClipsAreVisible
    ScreenIsRight
PROPERTIES
    QueuedKeysAreStable
    TimesDontGoBackwards
    EveryEventIsTaken
    TimersAreServed
    OutputIsAStream
    XdmcpGetsASession
