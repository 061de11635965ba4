SPECIFICATION Spec
CONSTANTS
  TIMER_EL_TEST_TIMEOUT_SEC = 1
  TIMER_INTERVAL0_SEC = 1
  QueueLength = 1
  MaxCommands = 2
  MaxCount = 6
PROPERTIES EveryTestEnds
\* The counter stops at MaxCount and the cloud after MaxCommands.
CHECK_DEADLOCK FALSE
