CONSTANTS
  Slots = {s1, s2, s3, s4}
  Keepers = {"seam"}
  MaxFrame = 4
  MaxBacklog = 2
SPECIFICATION Spec
INVARIANTS TypeOK PoolNeverExhausted FramesKeepTheirImage ViewersSeeTheirFrame
SYMMETRY SlotSymmetry
CHECK_DEADLOCK FALSE
