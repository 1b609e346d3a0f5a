SPECIFICATION Spec
CONSTANTS
  DEFAULT_QUEUE_SIZE = 3
  MQ_OVERLOAD = 1
  MaxPush = 14
  NoMsg = NoMsg
PROPERTIES
  Fifo
