SPECIFICATION Spec
CONSTANTS
  KeyBytes = 3
  Chunks = 6
  Size4 = 2
  Size16 = 3
  Size48 = 4
  Families <- KeyFamilies
  MaxChanges = 4
  CursorChanges = 1
  ShrinkEmpty = FALSE
INVARIANTS HoldsMap SlotsAccounted ShrinkPacks
PROPERTY RefinesOrderedMap
CHECK_DEADLOCK FALSE
