SPECIFICATION ServicesSpec
CONSTANTS
  Pages = {p1}
  Streams = {"s1", "s2", "bad"}
  Networks = {"n1", "bad"}
  FirstConfig <- First
  StartLimitBurst = 2
  MaxRequests = 1
  MaxCrashes = 0
  Segment = 2
  MinAge = 3
  HighWater = 3
  MaxTime = 1
  MaxRestarts = 0
  Tokens = {}
  Expiry = 1
  Sweep = 2
  Updates = {}
  MaxFaults = 0
PROPERTIES PutStoresConfig
CHECK_DEADLOCK FALSE
