SPECIFICATION MCSpec
CONSTANTS
  Parts = {"proc"}
  NPROC = 3
  KillPids = {0, 2}
  MaxPid = 3
  Sleepers = {1}
  NoProc = NoProc
  TICK_MOD = 5
  Args <- MCArgs
  MaxLag = 1
PROPERTY NotKilledAtBirth
