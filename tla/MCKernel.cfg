\* Sched: two processes on three CPUs; Vm: two processes, page tables of three levels and two entries to a table;
\* UserMem: three pages of two bytes.
SPECIFICATION MCSpec
CONSTANTS
  NPROC = 2
  NCPU = 3
  MaxItems = 1
  VMPROCS = 2
  NPAGES = 18
  PGSIZE = 2
  FAN = 2
  NFILE = 13
  Deltas <- MCDeltas
  Programs <- MCPrograms
  MAXVA = 6
  UINT = 8
  WORD = 3
INVARIANTS
  OneCpuPerProcess SchedNeverPanics NoLostWakeup
  MemoryAccounted CopiesExact
PROPERTIES
  ImplementsMonitor FailureChangesNothing
