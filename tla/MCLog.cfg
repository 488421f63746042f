\* Two processes compete for a log laid out as mkfs lays it out (NLOG = LOGSIZE);
\* the power may fail at any time.
SPECIFICATION FairSpec
CONSTANTS
  Procs = {p1, p2}
  Blocks = {b1, b2, b3}
  Vals = {0, 1}
  NotCached = NotCached
  NoBuf = NoBuf
  MAXOPBLOCKS = 2
  LOGSIZE = 4
  NLOG = 4
  MaxWrites = 1
INVARIANTS LogInv NoPanic PinsMatchLog QuiescentDurable
PROPERTIES ImplementsTransDisk WaitsEnd
