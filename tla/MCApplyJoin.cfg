CONSTANTS
  NumCams = 2
  BLENDER_POOL_SIZE = 2
  MaxSeq = 4
SPECIFICATION FairSpec
INVARIANTS TypeOK BlendersConserved BlendsOnClean NeverOlderThanSignalled NoCameraMissesThrice
PROPERTIES EveryCameraAdvances RoundsGoOn
CHECK_DEADLOCK FALSE
