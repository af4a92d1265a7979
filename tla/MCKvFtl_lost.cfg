SPECIFICATION Spec
CONSTANTS
  Workers = {"w1"}
  Keys = {"k1", "k2", "k3"}
  Data = {d1}
  LengthsOf <- UnitLengths
  BatchLengths <- NoBatches
  Ops = {"store"}
  HashSlots = 4
  Hash <- OneHome
  Allocator = "bitmap"
  SMALL_LENGTH = 2
  LARGE_LENGTH = 4
  SmallBits = 6
  LargeBits = 3
  MaxInserts = 6
  NrIters = 0
  Prefixes = {}
  KeysPerRead = 1
  NULL = NULL
  GARBAGE = GARBAGE
INVARIANT ExistingKeyFound
CHECK_DEADLOCK FALSE
