\* A single call beside a streaming one whose caller sends stdin, its end and
\* kills over the same queue, to a program that need not read; every channel holds
\* one message, so that senders and the demultiplexer block.
SPECIFICATION FairSpec
CONSTANTS
  o1 = o1
  m1 = m1
  One = {o1}
  Many = {m1}
  Cap = 1
  MaxReplies = 3
  MaxInput = 3
INVARIANTS NothingLost OwnAnswer
PROPERTIES OneReturns ListenersCollected
CHECK_DEADLOCK FALSE
