SPECIFICATION Spec
CHECK_DEADLOCK FALSE
CONSTANTS
  NULL = NULL
  Fds = {f1, f2}
  Conns = {j1, j2, j3}
  MaxEvents = 2
  Timeout = 2
  MsgLen = 1
  CounterMod = 2
  KeepAlive = TRUE
SYMMETRY Symmetry
INVARIANTS
  PoolSound
  ReuseFindsSlot
  PointersValid
  FdAccounting
