SPECIFICATION Spec
CONSTANTS
  Feeds <- BothFeeds
  Recorded = {1}
  Gaps = {1, 2, 6}
  MaxJoins = 1
INVARIANTS HubInv
PROPERTIES PtsSound
CHECK_DEADLOCK FALSE
