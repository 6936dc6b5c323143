SPECIFICATION ServicesSpec
CONSTANTS
  Pages = {p1, p2}
  Streams = {"s1", "odd", "bad"}
  Networks = {"n1", "n2", "bad"}
  FirstConfig <- First
  StartLimitBurst = 2
  MaxRequests = 1
  MaxCrashes = 1
  Segment = 2
  MinAge = 3
  HighWater = 3
  MaxTime = 7
  MaxRestarts = 1
  Tokens = {t1, t2, t3, t4}
  Expiry = 1
  Sweep = 2
  Updates = {"a", "b"}
  MaxFaults = 2
INVARIANTS ConfigInv
PROPERTIES SavesTakeEffect RecordingsAreKept SessionsGo UpdatesAreSound
CHECK_DEADLOCK FALSE
