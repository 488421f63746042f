\* Proc: init, a child, its child and a grandchild; SysSleep: two sleepers,
\* `ticks' wraps around within a sleep.
SPECIFICATION MCSpec
CONSTANTS
  Parts = {"proc", "sleep"}
  NPROC = 4
  KillPids = {2}
  MaxPid = 4
  Sleepers = {1, 2}
  NoProc = NoProc
  TICK_MOD = 5
  Args <- MCArgs
  MaxLag = 1
INVARIANTS FamilyInOrder SleepsAsAsked
PROPERTIES ReapedAfterSwtch OrphansReaped SleepEnds
