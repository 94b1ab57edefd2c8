SPECIFICATION ServeSpec
CONSTANTS
  SEC = 4
  BootSec = 2
  Horizon = 30
  EPOCH_FIX_STREAK = 3
  PPS_PERIOD_BAD_STREAK = 2
  PPS_PERIOD_GOOD_STREAK = 3
  PPS_PERIOD_TOLERANCE = 0
  PPS_TIMEOUT = 10
  LoopDelay = 0
  NmeaDelay = 1
  CoastSlip = 1
  Glitches <- MCGlitches
  FaultPlans <- MCNoPlans
  Client = {c1}
  Nobody = nobody
  RING_SIZE = 2
  MAX_AGE = 4
  ANCHOR_SPAN = 8
  Mailbox = 2
  MaxRequests = 1
INVARIANTS
  TimestampsInOrder
