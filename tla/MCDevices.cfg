\* Bio: two buffers for three blocks, one of them pinned at times; Virtio: three
\* callers and descriptors for two requests, with one to spare; Uart: a ring of two.
SPECIFICATION MCSpec
CONSTANTS
  Procs = {p1, p2, p3}
  Bufs = {u1, u2}
  Blocks = {n1, n2, n3}
  NoProc = NoProc
  NoBuf = NoBuf
  NoBlock = NoBlock
  MaxPins = 1
  DiskProcs = {p1, p2, p3}
  NUM = 7
  IDX_MOD = 7
  Writers = {p1, p2}
  Intr = Intr
  Printer = Printer
  UART_TX_BUF_SIZE = 2
  MaxChars = 2
INVARIANT CacheSound
PROPERTIES ImplementsDisk OutputComplete
