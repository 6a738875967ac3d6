\* Two members of one group over one partition of two records, one of them malformed.
SPECIFICATION Spec
CONSTANTS
  m1 = m1
  m2 = m2
  p1 = p1
  p2 = p2
  Members = {m1, m2}
  Partitions = {p1}
  LogEnd <- TwoRecords
  Malformed <- SecondMalformed
  MaxBatch = 2
  MaxFaults = 2
  NoMember = NoMember
INVARIANTS TypeOK CommittedIsSettled
PROPERTIES ImplementsLedger
SYMMETRY MemberSymmetry
CHECK_DEADLOCK FALSE
