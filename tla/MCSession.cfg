\* Two executions, the second replacing the first, and one place for a running
\* task, so that a new execution waits for the aborted one.
SPECIFICATION FairSpec
CONSTANTS
  MaxJobs = 2
  StdinUsed = TRUE
  Faults = TRUE
  RxCap = 2
  StdinCap = 1
  NParallel = 1
INVARIANTS OneExecution ParallelismConserved Killable  NeverOutstanding
PROPERTIES ClosedReleases SessionReleases
CHECK_DEADLOCK FALSE
