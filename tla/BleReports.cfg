\* Two profiles and two sensors: a slot passes from one sensor to the other,
\* and two slots come to have the same sensor's address.  The word has bits set
\* on both sides of both masks.
SPECIFICATION SpecReports
CONSTANTS
  PROFILE_NUM = 2
  Device = {d1, d2}
  Stranger = stranger
  NoAddr = none
  Service = {"temperature", "vdd"}
  Word = {54783}
  Malformed = malformed
  MaxEvents = 2
  MaxOpens = 2
SYMMETRY DeviceSymmetry
INVARIANTS TypeOKReports FaultIsWhole
 
\* After a failed open nothing is left to happen.
CHECK_DEADLOCK FALSE
