\* No fault: the clock alone separates the two records of a request.
SPECIFICATION Spec
CONSTANTS
  r1 = r1
  r2 = r2
  r3 = r3
  r4 = r4
  k1 = k1
  k2 = k2
  k3 = k3
  Requests = {r1, r2, r3, r4}
  Key <- KeyOfRequest
  Score <- ScoreOfRequest
  Topic <- Log
  Configured <- Configuration
  NoThreshold = NoThreshold
  Cooldown = 2
  HistoryCap = 2
  MaxTime = 3
  MaxFaults = 0
INVARIANTS OneEmailPerRequest
CHECK_DEADLOCK FALSE
