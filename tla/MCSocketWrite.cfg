SPECIFICATION FairSpec
CONSTANTS
  Worker = {w1, w2}
  Size = 2
  MaxSend = 3
  MaxClose = 2
  Poll = Poll
  Free = Free
CHECK_DEADLOCK FALSE
INVARIANTS
  BytesOnce
  InOrder
  NoStall
  ClosedOnce
PROPERTY
  Flushed
