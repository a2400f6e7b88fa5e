SPECIFICATION FairSpec
CONSTANTS
  MaxCalls = 2
CHECK_DEADLOCK FALSE
PROPERTIES SessionEnds
INVARIANTS LockHasReleaser HolderKeepsLock ReportInSession
