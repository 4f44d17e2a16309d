SPECIFICATION WindowSpec
CONSTANTS
    A = A
    B = B
    C = C
    RootWin = R
    Wins = {A, B, C}
    ScreenSize <- Screen43
    InitialTrees <- MistakenTrees
    SomeRequests <- Configurations
    SomePlaces <- Places
    MaxWindowRequests = 1
CHECK_DEADLOCK FALSE
INVARIANTS
    ScreenIsRight
