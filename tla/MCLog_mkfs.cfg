SPECIFICATION Spec
CONSTANTS
  Procs = {p1, p2, p3}
  Blocks = {b1, b2, b3}
  Vals = {0, 1}
  NotCached = NotCached
  NoBuf = NoBuf
  MAXOPBLOCKS = 1
  LOGSIZE = 3
  NLOG = 3
  MaxWrites = 1
INVARIANT NoPanic
