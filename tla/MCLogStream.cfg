\* Three valid lines of two clients, room for one counter, two instants, one fault.
SPECIFICATION Spec
CONSTANTS
  a1 = a1
  a2 = a2
  shop = shop
  Malformed = Malformed
  NoTime = NoTime
  Clients = {a1, a2}
  Domains = {shop}
  DomainOf <- Owner
  Raw <- Log
  RateWindow = 1
  MaxTracked = 1
  MaxPerClient = 2
  WindowSeconds = 3
  RequestThreshold = 3
  UniqueIpThreshold = 2
  Cooldown = 1
  MaxTrackedDomains = 1
  FutureSkew = 0
  CleanupEvery = 2
  Instants = {2, 4}
  MaxPoll = 1
  MaxFaults = 1
INVARIANTS TypeOK NothingLost ClientOrderKept RepeatsBounded AlertIsJustified CountsAreExact BurstIsAlerted
CHECK_DEADLOCK FALSE
