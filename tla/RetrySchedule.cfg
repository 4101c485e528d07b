\* The values of the code.
CONSTANTS
  Width = 64
  Cap = 4
  Day = 1440

SPECIFICATION Spec
CHECK_DEADLOCK FALSE
PROPERTY DelaysAsDocumented
