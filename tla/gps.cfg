SPECIFICATION RepairSpec
CONSTANTS
  SEC = 4
  BootSec = 2
  Horizon = 42
  EPOCH_FIX_STREAK = 3
  PPS_PERIOD_BAD_STREAK = 2
  PPS_PERIOD_GOOD_STREAK = 3
  PPS_PERIOD_TOLERANCE = 0
  PPS_TIMEOUT = 10
  LoopDelay = 0
  NmeaDelay = 1
  CoastSlip = 1
  Glitches <- MCGlitches
  FaultPlans <- MCPlans
INVARIANTS
  TypeOK
  EpochStaysTrue
  AnchorStaysTrue
  WrongEpochIsRepaired
  AnchorKeepsDistance
  ResetIsComplete
  ServesWhilePulsing
