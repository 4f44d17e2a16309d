SPECIFICATION FairSpec
CONSTANTS
    MaxClients = 3
    WordSize = 2
    MaxRequests = 1
    MaxPending = 6
    Requests <- DumbRequests
    Dumb = TRUE
    Breaks = TRUE
    Retains = FALSE
INVARIANTS
    SleepersAreIgnored
PROPERTIES
    RequestsAreServed
