SPECIFICATION Spec
CONSTANTS
  Queue = {c1, c2, c3}
  Null = Null
  Sender = {s1}
  Worker = {w1, w2}
  MayFail = {c2}
  MayLose = {c1}
  MaxPush = 2
CHECK_DEADLOCK FALSE
INVARIANT
  LinkedIsAlive
