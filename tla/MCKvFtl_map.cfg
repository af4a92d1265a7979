SPECIFICATION Spec
CONSTANTS
  Workers = {"w1"}
  Keys = {"k1", "k2", "k3"}
  Data = {d1, d2}
  LengthsOf <- MixedLengths
  BatchLengths <- MixedBatches
  Ops = {"store", "batch", "retrieve", "exist", "delete"}
  HashSlots = 3
  Hash <- TwoHomes
  Allocator = "bitmap"
  SMALL_LENGTH = 2
  LARGE_LENGTH = 4
  SmallBits = 2
  LargeBits = 1
  MaxInserts = 4
  NrIters = 0
  Prefixes = {}
  KeysPerRead = 1
  NULL = NULL
  GARBAGE = GARBAGE
PROPERTIES ImplementsMap
CHECK_DEADLOCK FALSE
CONSTRAINT NoMishapYet
SYMMETRY DataSymmetry
