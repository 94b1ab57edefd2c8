SPECIFICATION Spec
CONSTANTS
  SEC = 10
  BootSec = 2
  Horizon = 130
  EPOCH_FIX_STREAK = 3
  PPS_PERIOD_BAD_STREAK = 3
  PPS_PERIOD_GOOD_STREAK = 4
  PPS_PERIOD_TOLERANCE = 0
  PPS_TIMEOUT = 30
  LoopDelay = 0
  NmeaDelay = 2
  CoastSlip = 1
  Glitches <- MCGlitches
  FaultPlans <- MCCoastPlans
INVARIANTS
  CoastIsRefused
