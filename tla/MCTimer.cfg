SPECIFICATION TimerSpec
CONSTANTS
  TIME_NEAR = 16
  TIME_LEVEL = 4
  TimerId = {t1, t2}
  Timeouts = {1, 40}
  MaxTicks = 82
SYMMETRY Symmetry
CHECK_DEADLOCK FALSE
INVARIANTS
  InOneList
  Punctual
  OnTime
