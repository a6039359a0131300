SPECIFICATION Spec
CONSTANTS
  Blocks = {b1, b2}
  None = None
  Width = 1
  Height = 2
  Types = {"normal", "strict"}
  Directions = {"DOWN", "LEFT"}
  Inserts <- SomeInserts
  Shifts <- SomeShifts
  Bodies <- SomeBodies
  MaxDepth = 2
  MaxDrift = 1
SYMMETRY Symmetric
INVARIANTS
  TypeOK
  OwnersMatch
  StrictCellsEmpty
  OperationsFit
  OneScroll
CHECK_DEADLOCK FALSE
