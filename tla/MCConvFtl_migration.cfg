SPECIFICATION Spec
CONSTANTS
  Builds = {TRUE}
  NLpns = 4
  secs_per_pg = 2
  SecsPerCmd = 4
  HostLpns <- FewOrAll
  nchs = 2
  luns_per_ch = 2
  blks_per_pl = 3
  pgs_per_blk = 4
  pgs_per_oneshotpg = 2
  slc_channels = 1
  slc_luns_per_ch = 2
  slc_pgs_per_blk = 3
  LunWps <- ZeroWps
  HotnessSize = 3
  ColdThreshold = 1
  MaxAccesses = 4
  MigrationInterval = 2
  AgingInterval = 2
  MaxTime = 4
  CH_RANGE = 8
  LUN_RANGE = 8
  PL_RANGE = 8
  BLK_RANGE = 16
  PG_RANGE = 8
  BufferSecs <- LineOrSeven
  UNMAPPED = UNMAPPED
  INVALID_LPN = INVALID_LPN
INVARIANT MigratedPageIsValid
CHECK_DEADLOCK FALSE
