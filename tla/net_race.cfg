SPECIFICATION RaceSpec
CONSTANTS
  Task = {t1, t2}
  W5500_NET_BINS = 3
  W5500_NET_BIN_US = 2
  US_RANGE = 64
  MaxHeld = 3
  MaxQuiet = 8
  MaxTime = 16
INVARIANT
  RacingFrameLandsNearby
CHECK_DEADLOCK FALSE
