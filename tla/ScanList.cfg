\* Four slots and six addresses, so that the list comes round and an address
\* that was overwritten is discovered again.
SPECIFICATION Spec
CONSTANTS
  Addr = {a1, a2, a3, a4, a5, a6}
  NoAddr = none
  SCAN_LIST_LENGTH = 4
INVARIANTS TypeOK Distinct
PROPERTIES RecordsLatest
