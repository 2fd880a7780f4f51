SPECIFICATION TFairSpec
CHECK_DEADLOCK FALSE
CONSTANTS
  HdrLen = 2
  LogMax = 5
  OutLen = 6
  Timeout = 2
  Lengths <- TheLength
  MaxSent = 7
  MsgLen = 5
  Window = 5
INVARIANTS
  TransferInv
PROPERTIES
  KeepsPromise
  KeepsPromiseFairly
