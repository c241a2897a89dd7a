\* One program, more stdin and output than the channels and the limit hold; any
\* of its processes may keep a pipe open.
SPECIFICATION FairSpec
CONSTANTS
  j1 = j1
  Job = {j1}
  Cap = 1
  MaxIn = 2
  MaxOut = 2
  OutLimit = 1
INVARIANTS OutputComplete AnsweredJobInert
PROPERTIES KillStops EndReported
CHECK_DEADLOCK FALSE
