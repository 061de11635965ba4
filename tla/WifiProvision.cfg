\* Two losses of the access point and two phones, one of them answered by a
\* restart.
SPECIFICATION Spec
CONSTANTS
  MaxEvents = 3
  MaxDrops = 2
  MaxLinks = 2
INVARIANTS TypeOK BitIsCurrent 
PROPERTIES WaitersProceed WaitersRecover
\* At the bounds nothing is left to do but wait.
CHECK_DEADLOCK FALSE
