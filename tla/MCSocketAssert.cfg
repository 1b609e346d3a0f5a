SPECIFICATION Spec
CONSTANTS
  Worker = {w1, w2}
  Size = 2
  MaxSend = 3
  MaxClose = 1
  Poll = Poll
  Free = Free
CHECK_DEADLOCK FALSE
INVARIANT
  WriterFindsSocket
