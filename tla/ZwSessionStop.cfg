SPECIFICATION FairSpec
CONSTANTS
  MaxCalls = 1
CHECK_DEADLOCK FALSE
PROPERTIES StopEndsSession
