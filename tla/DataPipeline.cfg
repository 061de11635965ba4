\* Six readings through four slots fill the ring, overflow it and take both
\* indices around it.  The tasks stop when the bounded readings are used up,
\* hence no deadlock check.
CONSTANTS
  QUEUE_BUFFER_MAX = 4
  MaxReadings = 6
  Garbage = Garbage
SPECIFICATION Spec
INVARIANTS TypeOK RestHoldsLatest CallsKeepOrder
PROPERTIES LossOnlyWhenFull LatestIsSent
CHECK_DEADLOCK FALSE
