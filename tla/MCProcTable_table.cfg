CONSTANTS
  NR_MAX_PARALLEL_IO = 3
  NrReqs = 4
  MaxWriteback = 1
  MaxTime = 2
SPECIFICATION FairSpec
INVARIANTS ListsPartitionTable CopiedBeforeCompleted CompletedAtMostOnce FreeEntriesAreOver IoListAscending
PROPERTY AcceptedIsCompleted
