\* The worker dies under a running program.
SPECIFICATION FairSpec
CONSTANTS
  Cap = 1
  MaxIn = 0
  MaxOut = 1
  WorkerMayDie = TRUE
PROPERTIES WorkerDeathNoticed
CHECK_DEADLOCK FALSE
