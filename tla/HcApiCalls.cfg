SPECIFICATION CallsSpec
CONSTANTS
  MaxCalls = 3
  MaxRequests = 3
  Devices = {light, handset}
  Handsets = {handset}
  Nobody = nobody
  Capacity = 2
  MaxMessages = 3
  MaxReports = 2
INVARIANTS OwnAnswerWhenClean CompletionKept LostOnlyToAnotherCall OwnAnswerWhenAlone StuckOnlyBySlip ClearsItsDevice LeftOnlyByMissedSignal
PROPERTIES CallReturns
CHECK_DEADLOCK FALSE
