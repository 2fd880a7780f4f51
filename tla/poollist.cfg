SPECIFICATION Spec
CHECK_DEADLOCK FALSE
CONSTANTS
  NULL = NULL
  Pool = Pool
  Invalid = Invalid
  Nodes = {Pool, Invalid, c1, c2, c3}
INVARIANTS RingsAreSequences OnePlace CountRight
PROPERTY IsPoolSeq
