CONSTANTS
  PAGE_SIZE = 2
  Workers = {"w1", "w2"}
  Loads <- Commands
  Sectors <- Storage
  Addrs <- Memory
SPECIFICATION Spec
INVARIANTS TransferExact WalkStaysInList
CHECK_DEADLOCK FALSE
