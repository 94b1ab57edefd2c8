SPECIFICATION Spec
CONSTANTS
  BURST_GAP_US = 3
  LEAD_MAX = 6
  GAP_MAX = 30
  STRICT_US = 2
  STALL_MAX_US = 6
  EDGE_MAX_AGE_US = 12
  FRESH_GAP_US = 4
  LEVEL_SHORT = 1
  LEVEL_DEFAULT = 8
  WAKE = 1
  IR_TO_SIZE = 2
  SIZE_TO_PAYLOAD = 1
  PAYLOAD_TO_HOOK = {1, 2}
  NEXT_SIZE = 1
  STALL = 4
  StallsAt = {"ir"}
  Switches <- MCShipped
  MaxFrames = 3
  MaxStalls = 1
  MaxSends = 1
  Horizon = 22
INVARIANT StallIsRefused
CHECK_DEADLOCK FALSE
