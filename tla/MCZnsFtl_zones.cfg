CONSTANTS
  nr_zones = 2
  ZoneLbas = 3
  write_unit_size = 1
  secs_per_pg = 1
  PgsPerOneshot = 2
  zone_wb_size = 0
  global_wb_size = 4
  lbas_per_zrwa = 1
  lbas_per_zrwafg = 1
  zrwa_buffer_size = 2
  CntMod = 8
  ZrwaOptions = {TRUE, FALSE}
  MaxPending = 2
CONSTRAINT Explored
SPECIFICATION Spec
INVARIANTS ResourcesMatchStates ZrwaResourcesCovered WritePointerMatchesState ZoneLimitsNeverHit WriteBufferNotOverCommitted
PROPERTIES OnlyResetRewinds RefusalChangesNoZone
CHECK_DEADLOCK FALSE
