SPECIFICATION AiSpec
CONSTANTS
  NumSlots = 2
  Hubs = {1, 2}
  MaxFallback = 1
  ClearAfterEmpty = 2
  MaxFrame = 3
  Ids = {1}
  MAX_LOST = 1
  MaxDets = 1
  Best = 1
  Enough = 1
  MaxCalls = 1
  Cells <- ThreeInARow
  Scales = 2
  MaxOut = 3
  Confident = 1
  Surest = 1
INVARIANTS ExactIsExact
CHECK_DEADLOCK FALSE
