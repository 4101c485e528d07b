CONSTANTS
  Invoices = {i1}
  Requests = {r1, r2, r3}
  Keys = {k1, k2}
  Versions = {2, 3, 4}
  OpenVersion = 2
  MaxCrashes = 1
  NoRow = NoRow
SPECIFICATION SpecMostlyFirstKey
SYMMETRY RequestSymmetry
CHECK_DEADLOCK FALSE
INVARIANTS
  TypeOK
  OneAttemptPerKey
  OneClaimPerVersion
  ProcessingHasPending
  PaidIsCharged
  AnswersAgree
  CleanInvoiceIsExact
