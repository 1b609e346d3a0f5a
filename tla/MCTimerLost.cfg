SPECIFICATION TimerSpec
CONSTANTS
  TIME_NEAR = 16
  TIME_LEVEL = 4
  TimerId = {t1}
  Timeouts = {1, 40}
  MaxTicks = 82
CHECK_DEADLOCK FALSE
INVARIANT
  NonePassedOver
