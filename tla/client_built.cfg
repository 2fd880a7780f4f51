SPECIFICATION Spec
CHECK_DEADLOCK FALSE
CONSTANTS
  NULL = NULL
  Fds = {f1, f2, f3}
  Conns = {j1, j2, j3}
  MaxEvents = 2
  Timeout = 2
  MsgLen = 2
  CounterMod = 2
  KeepAlive = FALSE
SYMMETRY Symmetry
INVARIANTS
  TypeOK
  StreamOwned
  BatchFresh
  OverflowGenuine
  LoopInv
PROPERTY ExpiryExact
