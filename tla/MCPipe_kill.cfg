\* A writer may be killed in the middle of a write().
SPECIFICATION Spec
CONSTANTS
  Readers = {r1}
  Writers = {w1, w2}
  Bytes = {0}
  PIPESIZE = 2
  UINT_MOD = 4
  NoProc = NoProc
  Lengths = {0, 3}
  Victims = {w1}
INVARIANT ReaderSleepsOnlyIfEmpty
