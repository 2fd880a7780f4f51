SPECIFICATION RSpec
CONSTANTS
  NULL = NULL
  Threads = {t1, t2}
  Blocks = {b1, b2, b3}
  Classes <- SmallClasses
  MinBlock = 2
  Sizes <- SmallSizes
SYMMETRY Symmetry
INVARIANTS
  Partition
  Exclusive
  AssertionsHold
  StatsExact
  FootprintIsPeak
  ReportWithin
  NoResidue
PROPERTY IsPrivateMemory
