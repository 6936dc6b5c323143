SPECIFICATION ControlSpec
CONSTANTS
  Clients = {c1, c2}
  Streams = {s1, s2}
  None = None
  SeamRates <- AnyRate
  BaseCap = 4
  MaxEpoch = 8
  MaxCount = 10
  CAM_EXPO_MIN = 1
  CAM_EXPO_MID = 5
  CAM_EXPO_MAX = 10
  CAM_EXPO_TUNE_STEP <- TuneSteps
  CAM_GAIN_MIN = 1
  CAM_GAIN_MID = 2
  CAM_GAIN_MAX = 6
  CAM_GAIN_TUNE_STEP <- TuneSteps
  MIN_STEP = 1
  MaxExpoStep = 4
  MaxGainStep = 3
  Snap = 2
  Edge = 1
  EdgeStep = 1
  Cooldown = 1
  StableOkRequired = 2
  ErrorLevels = {0, 1, 4, 8}
  NumCams = 2
  Exposures = {1, 3}
  Interval = 2
  MaxTime = 7
  Bases <- TwoFamilies
  Sizes <- TwoAndOne
  UDP_STEP = 2
  UDP_MAX_TRIES = 3
  MaxTaken = 3
INVARIANTS ViewersInv LeadInv PortsInv
PROPERTIES ImplementsDemand TunerGetsThere MailboxWorks
CHECK_DEADLOCK FALSE
