SPECIFICATION Spec
CONSTANTS
  Apps = {app1}
  NoApp = NoApp
  NoTask = NoTask
  d1 = d1
  Devices = {d1}
  AppRequests <- MCDuplicateRequests
  MaxFail = 2
  MaxRetry = 2
  MaxStart = 1
  MaxQueue = 3
INVARIANTS NoDuplicateQueued
