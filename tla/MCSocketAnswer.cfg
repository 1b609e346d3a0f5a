SPECIFICATION FairSpec
CONSTANTS
  Slots = 2
  MaxId = 2
  MaxStart = 2
  MaxPosted = 2
  Service = {s1}
  Poll = Poll
  NoOne = NoOne
CHECK_DEADLOCK FALSE
INVARIANT KeepsSlotFirstRound
PROPERTIES
  Answered
  ReaderEnds
