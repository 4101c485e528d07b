CONSTANTS
  Invoices = {i1}
  Requests = {r1, r2, r3}
  Keys = {k1, k2, k3}
  Versions = {2, 4, 5}
  OpenVersion = 2
  MaxCrashes = 0
  NoRow = NoRow
SPECIFICATION Spec
SYMMETRY Symmetry
CHECK_DEADLOCK FALSE
INVARIANTS
  AtMostOneCharge
