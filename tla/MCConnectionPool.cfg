CONSTANTS
  Tasks = {t1, t2, t3}
  Connections = 2
SPECIFICATION FairSpec
CHECK_DEADLOCK FALSE
INVARIANTS
  TypeOK
  DeadlocksAreEdits
PROPERTIES
  SilenceHoldsUpNobody
