SPECIFICATION Spec
CONSTANTS
  a = a
  b = b
  Clients = {a, b}
  None = None
  Depth = 2
  Owner <- OwnedByA
  PassiveGrabs <- MCKeyGrab
  RequestedGrabs <- MCOnInner
  KeyIsModifier = FALSE
  MaxEvents = 2
CHECK_DEADLOCK FALSE
INVARIANT DeadClientsHoldNothing
