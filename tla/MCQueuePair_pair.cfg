CONSTANTS
  nr_sq = 2
  nr_io_cpu = 2
  sq_size = 3
  cq_size = 5
  cq_start = 4
  NrTags = 2
  MaxCmds = 3
SPECIFICATION SmallestIdSpec
INVARIANTS EveryCommandInOnePlace PhaseTellsNewEntries InterruptNotLost InFlightCounted
PROPERTY EveryCommandReceived
