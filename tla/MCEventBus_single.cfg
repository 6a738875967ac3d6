\* One process per group, as deployed: two partitions, five records in batches of two.
SPECIFICATION FairSpec
CONSTANTS
  m1 = m1
  m2 = m2
  p1 = p1
  p2 = p2
  Members = {m1}
  Partitions = {p1, p2}
  LogEnd <- MixedLog
  Malformed <- TailMalformed
  MaxBatch = 2
  MaxFaults = 2
  NoMember = NoMember
INVARIANTS ReplayBounded
PROPERTIES EventuallySettled
CHECK_DEADLOCK FALSE
