SPECIFICATION Spec
CONSTANTS
  Slots = 2
  MaxId = 2
  MaxStart = 2
  MaxPosted = 2
  Service = {s1, s2}
  Poll = Poll
  NoOne = NoOne
CHECK_DEADLOCK FALSE
PROPERTY
  DataToOwner
