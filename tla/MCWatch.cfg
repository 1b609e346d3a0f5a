SPECIFICATION WatchSpec
CONSTANTS
  U = 3
  MaxTimeout = 3
  MaxForward = 11
  MaxBack = 3
  None = None
  Workers = 2
  MaxMessage = 3
CHECK_DEADLOCK FALSE
INVARIANTS
  NotTooEarly
  DriftBounded
PROPERTIES
  AlarmInTime
  NotBlamed
