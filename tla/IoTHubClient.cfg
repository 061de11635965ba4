CONSTANTS
  MESSAGE_COUNT = 3
  Capacity = 2
SPECIFICATION Spec
INVARIANTS TypeOK CountersAgree SlotIsFree
PROPERTIES RefusalIsFinal GiveUpOnlyAtBoundary KeepsSending
