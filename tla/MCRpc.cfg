SPECIFICATION FairSpec
CONSTANTS
  Service = {s1, s2}
  Rpc = {s2}
  Kind = {"value", "void", "unknown", "params"}
  MAX_SESSION = 2
  MayLose = {s2}
  MaxCall = 3
  Late = {2}
CHECK_DEADLOCK FALSE
INVARIANTS
  OwnAnswer
  ErrorIffNotRun
  WaitsForSomething
PROPERTY
  Answered
