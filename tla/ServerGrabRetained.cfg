SPECIFICATION Spec
CONSTANTS
    MaxClients = 3
    WordSize = 2
    MaxRequests = 1
    MaxPending = 3
    Requests <- KillRequests
    Dumb = TRUE
    Breaks = FALSE
    Retains = TRUE
INVARIANTS
    SlicesHaveConnections
