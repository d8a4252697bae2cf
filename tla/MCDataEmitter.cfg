CONSTANTS
  NVata = 2
  EventIds = {1, 2, 3}
  MaxMap = 1
  MaxFrames = 2
  MaxMsgs = 2
SPECIFICATION FairSpec
INVARIANT CompleteGoesOut
PROPERTIES BuildsEvents FifoDrained
CHECK_DEADLOCK FALSE
