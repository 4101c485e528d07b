CONSTANTS
  Requests = {r1, r2, r3, r4}
  Window = 4
  MaxRequests = 2
  Grace = 1
  MaxDelay = 2
  MaxTime = 8
SPECIFICATION Spec
SYMMETRY Symmetry
CHECK_DEADLOCK FALSE
INVARIANTS
  TypeOK
  RateWithinDelay
  LogIsComplete
PROPERTIES
  DenialsAreJustified
