\* One voltage, so that only the status and the heartbeat make a reading; two
\* messages and two entries: messages[] starts over, the ring overflows, and a
\* handle is destroyed with a message in flight and a full ring.
CONSTANTS
  MaxMv = 0
  Deadband1 = 0
  Deadband2 = 0
  Heartbeat = 3
  MESSAGE_COUNT = 3
  Capacity = 2
  NoReport = NoReport
SPECIFICATION SpecTelemetry
INVARIANT TypeOKTelemetry
PROPERTIES  HubLearnsStatus
