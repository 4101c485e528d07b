CONSTANTS
  Half = 8
  Quantities <- QuantitiesHere
  Amounts <- AmountsHere
  MaxItems = 3
  MaxVersion = 3
SPECIFICATION Spec
INVARIANTS
  TypeOK
  StoredIsSound
  TotalIsTheSum
PROPERTIES
  SpentInVain
