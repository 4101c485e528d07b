CONSTANTS
  Calls = {c1, c2}
  MaxVersion = 5
  Ahead = 0
  Created = Created
  NoCall = NoCall
SPECIFICATION Spec
SYMMETRY Symmetry
CHECK_DEADLOCK FALSE
INVARIANTS
  ItemsMatchTotal
