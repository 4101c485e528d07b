CONSTANTS
  Events = {e1}
  Endpoints = {p1, p2}
  BatchSize = 1
  LastRetry = 4
  MaxLost = 1
  Nothing = Nothing
SPECIFICATION FairSpec
CHECK_DEADLOCK FALSE
INVARIANTS
  TypeOK
  DeliveredIsReceived
  RetryBudget
PROPERTIES
  EndedIsNotPosted
  DeliveriesEnd
