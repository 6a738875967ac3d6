\* Five requests of three clients, two rule sets, windows of two seconds, room for two
\* clients.
SPECIFICATION Spec
CONSTANTS
  c1 = c1
  c2 = c2
  c3 = c3
  page = page
  form = form
  asset = asset
  Asset = asset
  union = union
  scanner = scanner
  browser = browser
  Percent = Percent
  Entity = Entity
  Comment = Comment
  RuleSets <- Snapshots
  Inputs <- Requests
  WindowSeconds = 2
  Cooldown = 2
  FutureSkew = 2
  RequestThreshold = 2
  FloodThreshold = 3
  ErrorThreshold = 2
  PathThreshold = 2
  AlertThreshold = 70
  MaxTracked = 2
  MaxPoll = 2
  CleanupEvery = 3
  MaxRecords = 4
  Instants = {1, 6}
  MaxFaults = 1
INVARIANTS TypeOK WindowIsExact AlertsSpaced EveryAttackAnswered
PROPERTIES ActiveIsRemembered
CHECK_DEADLOCK FALSE
