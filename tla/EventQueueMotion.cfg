SPECIFICATION Spec
CONSTANTS
  QUEUE_SIZE = 3
  Screens = {s1}
  Times = {1, 3}
  TimeSlack = 3
  Variant = "mieq"
  MaxArrivals = 3
CHECK_DEADLOCK FALSE
INVARIANT PointerIsWhereItWasMoved
