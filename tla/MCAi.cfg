SPECIFICATION AiSpec
CONSTANTS
  NumSlots = 2
  Hubs = {1, 2}
  MaxFallback = 1
  ClearAfterEmpty = 2
  MaxFrame = 3
  Ids = {1, 2}
  MAX_LOST = 1
  MaxDets = 2
  Best = 2
  Enough = 1
  MaxCalls = 4
  Cells <- ThreeInARow
  Scales = 2
  MaxOut = 3
  Confident = 2
  Surest = 3
INVARIANTS OsdInv TableInv DetInv
PROPERTIES SlotsComeBack
CHECK_DEADLOCK FALSE
