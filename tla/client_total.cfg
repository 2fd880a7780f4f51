SPECIFICATION Spec
CONSTANTS
  NULL = NULL
  Fds = {f1, f2}
  Conns = {j1, j2, j3}
  MaxEvents = 2
  Timeout = 2
  MsgLen = 2
  CounterMod = 4
  KeepAlive = FALSE
INVARIANT TotalIsPoolLength
