SPECIFICATION Spec
CONSTANTS
  Slots = 2
  MaxId = 4
  MaxStart = 1
  MaxPosted = 2
  Service = {s1, s2}
  Poll = Poll
  NoOne = NoOne
CHECK_DEADLOCK FALSE
INVARIANT
  KeepsSlot
