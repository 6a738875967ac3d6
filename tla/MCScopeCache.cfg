\* One client and one seeded domain, over two TTLs; its clock is set back once.
SPECIFICATION ScopeSpec
CONSTANTS
  c1 = c1
  d1 = d1
  Clients = {c1}
  Domains = {d1}
  Seed = {d1}
  Ttl = 4
  FailureTtl = 2
  Timeout = 1
  MaxTime = 9
  MaxBehind = 1
INVARIANTS ScopeTypeOK NoStaleVerdict
CHECK_DEADLOCK FALSE
