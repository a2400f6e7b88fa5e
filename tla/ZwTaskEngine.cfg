SPECIFICATION FairSpec
CONSTANTS
  Apps = {app1}
  NoApp = NoApp
  NoTask = NoTask
  d1 = d1
  Devices = {d1, d2}
  AppRequests <- MCEngineRequests
  MaxFail = 2
  MaxRetry = 2
  MaxStart = 1
  MaxQueue = 2
INVARIANTS ModeMatchesTask AnsweredWhenDone QueueInOrder NeverStops StrandedOnlyByMissedSignal OneDetectQueued
PROPERTIES QueueIsServed
