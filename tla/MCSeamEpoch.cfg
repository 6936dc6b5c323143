SPECIFICATION MCSpec
CONSTANTS
  Cams = {c0, c1}
  Lead = c0
  SeamRates = {0, 1}
  BaseCap = 2
  SmallBase = 1
  KeepFor = 2
  MaxEpoch = 4
  MaxCount = 4
INVARIANTS SeamInv ReaderIsSafe
PROPERTIES EpochsAreSearched
CHECK_DEADLOCK FALSE
