SPECIFICATION FairSpec
CHECK_DEADLOCK FALSE
CONSTANTS
  PipeSize = 2
  MaxInt = 3
  MaxNow = 5
  MaxCalls = 4
INVARIANTS
  NoSleepOwed
PROPERTIES
  Paced
  WokenUp
