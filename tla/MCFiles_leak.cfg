\* Files that are created and unlinked, and open files.
SPECIFICATION MCSpec
CONSTANTS
  Parts = {"fs"}
  Procs = {p1, p2}
  NoCall = NoCall
  NoProc = NoProc
  InitProc = p1
  NINODES = 3
  Names = {"x", "y"}
  NFILE = 1
  NOFILE = 2
  MaxLinks = 2
  Workloads <- MCCreat
  Inodes = {f1, f2}
  NBLOCKS = 3
  BSIZE = 2
  NDIRECT = 1
  MAXOPBLOCKS = 8
  UINT = 16
  ReadCounts = {1, 15}
  WriteCounts = {5}
  FSSIZE = 24
  DISKINODES = 4
  IPB = 2
  BPB = 24
  LOGSIZE = 1
  MkfsSizes = {0, 1, 2, 4, 5, 7}
  DIRSIZ = 2
INVARIANT FreedWhenUnlinked
