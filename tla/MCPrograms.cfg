\* Console: a ring of three and two readers;
\* PingPong: both processes may be killed; ShRun: two pipes of one item, processes
\* for a pipeline of three; Grep: lines longer than the buffer; Malloc: eight units.
SPECIFICATION MCSpec
CHECK_DEADLOCK FALSE
CONSTANTS
  Readers = {q1, q2}
  NoProc = NoProc
  INPUT_BUF_SIZE = 3
  IDX_MOD = 6
  Counts = {0, 2}
  RADIX = 3
  INT_MAX = 15
  Victims = {"parent", "child"}
  NPROC = 6
  NPIPE = 2
  PIPESIZE = 1
  Sessions <- MCSessions
  MAXARGS = 3
  MaxLine = 4
  BUFSIZE = 4
  HDR = 2
  MINCORE = 3
  MAXBRK = 8
  Sizes = {1, 3}
INVARIANTS SleepsOnlyWithoutLine SleepsForOperand ParsesAsWritten GrepExact HeapSound
PROPERTIES ImplementsLineBuffer PongIsAReply Terminates ShellReturns
