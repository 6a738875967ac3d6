\* Two pairs, six records with two repeated ids, a cap of two ids, two faults.
SPECIFICATION FairSpec
CONSTANTS
  k1 = k1
  k2 = k2
  Pairs = {k1, k2}
  Log <- Records
  SeenCap = 2
  MaxFaults = 2
INVARIANTS TypeOK WindowsAddUp
PROPERTIES EveryEventReported
CHECK_DEADLOCK FALSE
