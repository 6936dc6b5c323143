SPECIFICATION FairSpec
CONSTANTS
  Cams <- MCCams
  TunerCam = 1
  Teams <- Two
PROPERTIES ShutdownEnds
CHECK_DEADLOCK FALSE
