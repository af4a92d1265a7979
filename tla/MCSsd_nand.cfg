CONSTANTS
  NR_CREDIT_ENTRIES = 3
  UNIT_TIME_INTERVAL = 1
  max_credits = 6
  xfer_lat = 1
  LastTime = 4
  MaxUnits = 3
  UintRange = 4
  CREDIT_RANGE = 4
  Luns = {l1, l2}
  NandLatencies = {1}
  max_ch_xfer_size = 2
  MaxAvail = 3
  MaxOps = 3
SYMMETRY Dies
SPECIFICATION SsdSpec
INVARIANTS TypeOK RingShowsTime UnusedBehindWindow LunsServeInTurn FlushCoversMedia
CHECK_DEADLOCK FALSE
