SPECIFICATION Spec
CONSTANTS
    MaxClients = 3
    WordSize = 2
    MaxRequests = 1
    MaxPending = 3
    Requests <- WaitRequests
    Dumb = FALSE
    Breaks = FALSE
    Retains = FALSE
INVARIANTS
    PutOffGrabsGoOn
