SPECIFICATION Spec
CONSTANTS
    MaxClients = 3
    WordSize = 2
    MaxRequests = 2
    MaxPending = 3
    Requests <- SmartRequests
    Dumb = FALSE
    Breaks = FALSE
    Retains = TRUE
INVARIANTS
    TypeOK
    GrabExcludesOthers
    GrabsAgree
    MasksHoldConnections
    EveryRequestIsRemembered
