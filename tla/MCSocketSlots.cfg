SPECIFICATION Spec
CONSTANTS
  Slots = 1
  MaxId = 2
  MaxStart = 2
  MaxPosted = 2
  Service = {s1, s2}
  Poll = Poll
  NoOne = NoOne
SYMMETRY Symmetry
CHECK_DEADLOCK FALSE
INVARIANTS
  ToldOnce
  OwnData
