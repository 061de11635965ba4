\* Two profiles and two sensors, an advertiser nobody looks for, and callbacks
\* that wait for one another.
SPECIFICATION Spec
CONSTANTS
  PROFILE_NUM = 2
  Device = {d1, d2}
  Stranger = stranger
  NoAddr = none
  Service = {}
  MaxEvents = 2
  MaxOpens = 4
INVARIANTS TypeOK NoSlotLost
 
\* After a failed open nothing is left to happen.
CHECK_DEADLOCK FALSE
