SPECIFICATION MCSpec
CONSTANTS
  Configs <- MCConfigs
  COUNT_MOD = 2
  MaxQueue = 2
  MaxFlaps = 1
  MaxToggles = 2
  MaxFails = 1
  MaxIp6 = 2
  Mode = {"10M", "100M"}
  PowerTries = 2
  ResetTries = 2
  NegoTries = 2
  MaxBreaks = 2
  MaxStops = 2
  MaxErrors = 3
  RANGE = 4
  LINK_CHECK_INTERVAL = 1
  CONNECT_TIMEOUT = 1
  MaxLag = 2
  MaxDowns = 1
INVARIANTS
  TypeOK
  SleepsOnlyWhenSettled
  ConnectionHasLink
  DriverKnowsLink
  AnswersForLink
  FollowsInterface
PROPERTIES
  Settles
  StopIsNoticed
CHECK_DEADLOCK FALSE
