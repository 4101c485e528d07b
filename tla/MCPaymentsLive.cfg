CONSTANTS
  Invoices = {i1}
  Requests = {r1, r2}
  Keys = {k1, k2}
  Versions = {2, 3, 4}
  OpenVersion = 2
  MaxCrashes = 1
  NoRow = NoRow
SPECIFICATION FairSpecInOrder
CHECK_DEADLOCK FALSE
INVARIANTS
  RecordsTellTheVerdict
  AnnouncedOnce
PROPERTIES
  SettledForGood
  PendingResolved
  ProcessingReleased
  ImplementsLedger
