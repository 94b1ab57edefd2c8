SPECIFICATION PathSpec
CONSTANTS
  Cuts = {"none"}
  FailAt = {"payload"}
  MaxReplies = 1
  MaxOthers = 1
  MaxFails = 1
  MaxToggles = 0
INVARIANT
  FramesIntact
CHECK_DEADLOCK FALSE
