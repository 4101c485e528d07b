CONSTANTS
  inv = inv
  Calls = {c1, c2}
  MaxVersion = 6
  Ahead = 2
  Created = Created
  NoCall = NoCall
  Asked <- AskedHere
  Keys = {k1, k2}
  Requests = {r1, r2}
  Versions = {2, 3}
  MaxCrashes = 0
  NoRow = NoRow
SPECIFICATION Spec
SYMMETRY Symmetry
CHECK_DEADLOCK FALSE
INVARIANTS
  FinalizedBeforePaid
  PaymentsStaySafe
PROPERTIES
  ImplementsLifecycle
