SPECIFICATION FairSpec
CHECK_DEADLOCK FALSE
CONSTANTS
  NULL = NULL
  Fds = {f1, f2, f3}
  Conns = {s1, s2}
  MaxEvents = 2
  Timeout = 1
  Backlog = 2
INVARIANTS
  Owned
  BatchFresh
PROPERTIES
  AcceptsAgain
  SilentEnd
