SPECIFICATION FairSpec
CONSTANTS
  DEFAULT_QUEUE_SIZE = 2
  MQ_OVERLOAD = 1
  NoMsg = NoMsg
  None = None
  s1 = s1
  s2 = s2
  s3 = s3
  w1 = w1
  w2 = w2
  Service = {s1, s2, s3}
  Worker = {w1, w2}
  Weight <- MCWeight
  Stuck = {s1}
  MaxSend = 3
INVARIANTS
  ExclusiveOwner
  InGlobalMeansOwned
  NotBeforeInit
  NothingStranded
PROPERTIES
  ImplementsMailboxes
  Delivered
