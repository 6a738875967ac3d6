\* Three lines in half lines, two rotations, one truncation, one fault; C1 starts at the end.
SPECIFICATION FairSpec
CONSTANTS
  ReadExisting = FALSE
  MaxBytes = 6
  MaxFiles = 3
  MaxCuts = 1
  MaxFaults = 1
INVARIANTS TypeOK LinesAreTheLog
PROPERTIES EveryLinePublished
CHECK_DEADLOCK FALSE
