SPECIFICATION Spec
CONSTANTS
  TIMER_EL_TEST_TIMEOUT_SEC = 2
  TIMER_INTERVAL0_SEC = 1
  QueueLength = 1
  MaxCommands = 3
  MaxCount = 9
INVARIANTS TypeOK OffInTime
PROPERTIES TestEnds  EndedMeansOff
\* The counter stops at MaxCount and the cloud after MaxCommands.
CHECK_DEADLOCK FALSE
