SPECIFICATION FairSpec
CONSTANTS
  Callers = {t1, t2}
  Handler = handler
  NoThread = NoThread
  MaxCalls = 2
INVARIANTS OwnWhenClean SignalKept
PROPERTIES CallReturns
CHECK_DEADLOCK FALSE
