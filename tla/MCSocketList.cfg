SPECIFICATION Spec
CONSTANTS
  Worker = {w1, w2}
  Size = 2
  MaxSend = 2
  MaxClose = 0
  Poll = Poll
  Free = Free
CHECK_DEADLOCK FALSE
PROPERTY
  ListLeftAlone
