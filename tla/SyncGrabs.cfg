SPECIFICATION FairSpec
CONSTANTS
  a = a
  b = b
  Clients = {a, b}
  None = None
  Depth = 2
  Owner <- OwnedByA
  PassiveGrabs <- MCPassive
  RequestedGrabs <- MCRequested
  KeyIsModifier = FALSE
  MaxEvents = 2
CHECK_DEADLOCK FALSE
INVARIANTS
  TypeOK
  FrozenForAReason
  FreezesComeFromGrabs
  NoStrandedEvents
  EventsAreKept
  ReplayIsOfTheLast
PROPERTIES
  GrabIsNeverStolen
  OnlyTheOwnerThaws
  CallsReturn
