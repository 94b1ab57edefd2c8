SPECIFICATION MCSpec
CONSTANTS
  RANGE = 12
  BOOT_DELAY = 3
  RECHECK = 3
  MaxLag = 1
  MaxTurns = 2
  MaxResets = 2
  MaxFails = 2
  Local = {a}
  Remote = {x, y}
  Gateway = g
  Nobody = nobody
  SLOTS = 2
  WAIT_MAX = 2
  REFRESH = 2
  MAXAGE = 3
  MaxSlip = 1
INVARIANTS
  FlagOutlivesLittle
  BootWindow
  LeavesAtOnce
  ColdNotLong
PROPERTIES
  OffStaysOff
  ShortAgain
  RequestEnds
