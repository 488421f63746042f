SPECIFICATION FairSpec
CONSTANTS
  NPROC = 2
  NCPU = 2
  MaxItems = 1
PROPERTY KilledWakesUp
