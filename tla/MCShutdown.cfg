SPECIFICATION FairSpec
CONSTANTS
  Cams <- MCCams
  TunerCam = 1
  Teams <- Sides
INVARIANTS ShutdownInv
PROPERTIES EndsUnlessMissed
CHECK_DEADLOCK FALSE
