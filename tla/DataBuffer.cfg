\* Four slots: full, empty and wrapped rings in every rotation.
CONSTANTS
  Data = {d1, d2, d3}
  ZeroData = ZeroData
  QUEUE_BUFFER_MAX = 4
SPECIFICATION Spec
INVARIANTS TypeOK CountAgrees
PROPERTY ImplementsFifo
