\* Stdin and more output than the channels hold; the worker may die at any time.
SPECIFICATION FairSpec
CONSTANTS
  Cap = 1
  MaxIn = 2
  MaxOut = 2
  WorkerMayDie = TRUE
INVARIANTS StdinInOrder OutputBeforeEnd
PROPERTIES CancelEnds
CHECK_DEADLOCK FALSE
