\* A reader and two writers; the reader and one writer may be killed.
SPECIFICATION FairSpec
CONSTANTS
  Readers = {r1}
  Writers = {w1, w2}
  Bytes = {0, 1}
  PIPESIZE = 2
  UINT_MOD = 4
  NoProc = NoProc
  Lengths = {0, 3}
  Victims = {r1, w1}
INVARIANTS NoUseAfterFree SleepersAreTold
PROPERTIES ImplementsByteStream CloseEndsCalls
