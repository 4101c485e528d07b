CONSTANTS
  Invoices = {i1}
  Requests = {r1, r2}
  Keys = {k1, k2}
  Versions = {2, 3}
  OpenVersion = 2
  MaxCrashes = 0
  NoRow = NoRow
SPECIFICATION Spec
SYMMETRY Symmetry
CHECK_DEADLOCK FALSE
PROPERTIES
  PaidIsTerminal
