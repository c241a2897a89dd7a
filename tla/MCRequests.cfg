\* Two requests and a database channel of one message, so that starts and ends
\* wait for one another.
SPECIFICATION FairSpec
CONSTANTS
  r1 = r1
  r2 = r2
  Req = {r1, r2}
  Cap = 1
INVARIANTS RowHonest OpenRowExplained
PROPERTIES HandlerReturns
CHECK_DEADLOCK FALSE
