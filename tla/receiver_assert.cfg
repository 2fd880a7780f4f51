SPECIFICATION Spec
CHECK_DEADLOCK FALSE
CONSTANTS
  HdrLen = 2
  LogMax = 3
  OutLen = 6
  Timeout = 2
  Lengths <- SmallLengths
  MaxSent = 14
INVARIANT OutBufEmpty
