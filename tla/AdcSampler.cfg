\* Deadbands one and two apart and a heartbeat of four passes: values inside,
\* at and beyond both deadbands, reports between and at heartbeats.
CONSTANTS
  MaxMv = 4
  Deadband1 = 1
  Deadband2 = 2
  Heartbeat = 4
SPECIFICATION Spec
INVARIANTS TypeOK ReportIsClose
PROPERTIES HeartbeatOnTime StatusArrives
