SPECIFICATION MCSpec
CONSTANTS
  SEC = 3
  BootSec = 2
  Horizon = 24
  EPOCH_FIX_STREAK = 3
  PPS_PERIOD_BAD_STREAK = 2
  PPS_PERIOD_GOOD_STREAK = 3
  PPS_PERIOD_TOLERANCE = 0
  PPS_TIMEOUT = 7
  LoopDelay = 0
  NmeaDelay = 1
  CoastSlip = 1
  Glitches <- MCGlitches
  FaultPlans <- MCServePlans
  Client = {c1, c2}
  Nobody = nobody
  RING_SIZE = 1
  MAX_AGE = 2
  ANCHOR_SPAN = 6
  Mailbox = 1
  MaxRequests = 2
  US_MIN = 2
  US_MAX = 26
  STEP_MAX_US = 4
  WEIGHT = 4
  RESEED_AFTER = 4
  RESEED_MIN_SPAN_US = 3
  RUN_MAX = 4
  PATCH_MIN = 2
  PATCH_MAX = 6
  PATCH_INITIAL = 3
  Paths = {6, 12}
  Jitter = 1
  Stalls = {21, 25}
  NoSends = {2, 3, 26}
  PatchDelays = {2, 7}
  MaxChanges = 1
  MaxStalls = 2
  MaxNoSends = 1
  MaxNow = 8
SYMMETRY Symmetry
INVARIANTS
  ReceiveStampBelongs
  ServesTrueTime
  PatchedTimeIsTrue
  WrongEstimateIsRepaired
PROPERTIES
  StallsMoveNothing
