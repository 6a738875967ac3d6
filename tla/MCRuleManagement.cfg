\* Two concurrent clients, two rules, one detector, two requests, one fault.
SPECIFICATION FairSpec
CONSTANTS
  c1 = c1
  c2 = c2
  d1 = d1
  r1 = r1
  r2 = r2
  Clients = {c1, c2}
  Ids = {r1, r2}
  DefaultIds = {r1}
  Detectors = {d1}
  MaxRequests = 2
  MaxFaults = 1
  NoClient = NoClient
INVARIANTS TypeOK NothingTakenBack ServesNewestAtStart
PROPERTIES RulesNeverGoBack AcknowledgedIsEnforced
CHECK_DEADLOCK FALSE
