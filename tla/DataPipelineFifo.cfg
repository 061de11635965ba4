\* The unlocked ring against the comment "data_buffer is a FIFO data queue".
CONSTANTS
  QUEUE_BUFFER_MAX = 4
  MaxReadings = 4
  Garbage = Garbage
SPECIFICATION Spec
INVARIANT SentInOrder
CHECK_DEADLOCK FALSE
