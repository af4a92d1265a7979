SPECIFICATION Spec
CONSTANTS
  Workers = {"w1"}
  Keys = {"k1", "k2", "k3"}
  Data = {d1}
  LengthsOf <- OneLengthEach
  BatchLengths <- NoBatches
  Ops = {"store", "delete"}
  HashSlots = 4
  Hash <- TwoHomes
  Allocator = "append_only"
  SMALL_LENGTH = 2
  LARGE_LENGTH = 4
  SmallBits = 4
  LargeBits = 2
  MaxInserts = 5
  NrIters = 1
  Prefixes <- TwoPrefixes
  KeysPerRead = 1
  NULL = NULL
  GARBAGE = GARBAGE
INVARIANTS ChainsLeadForward IterationMissesNothing CellsDisjoint
CHECK_DEADLOCK FALSE
