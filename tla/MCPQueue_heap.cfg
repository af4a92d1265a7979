SPECIFICATION PQueueSpec
SYMMETRY LinesAlike
CONSTANTS
  Items = {a, b, c, d1, e, f}
  Priorities = {0, 1, 2}
  None = None
  pgs_per_line = 8
INVARIANT PosTellsMembership
PROPERTY ImplementsPriorityQueue
