SPECIFICATION FairSpec
CONSTANTS
  NULL = NULL
  Fds = {f1, f2}
  Conns = {j1, j2}
  MaxEvents = 2
  Timeout = 1
  MsgLen = 2
  CounterMod = 2
  KeepAlive = FALSE
INVARIANT NoNullSlot
PROPERTY TransactionsEnd
