SPECIFICATION TablesSpec
CONSTANTS
  battery = battery
  switch = switch
  lamp = lamp
  n1 = n1
  n2 = n2
  VirtualDevices = {battery, switch, lamp}
  Devices = {d}
  Radios = {n1, n2}
  RadioOf <- MCRadioOf
  Absent = absent
  SlotCount = 2
  MaxChanges = 3
  MaxFailures = 1
  MaxCrashes = 1
  Nodes = {n1, n2}
  NoNode = none
  MaxQueries = 2
  MaxNews = 1
  Units = {u1, u2, u3, u4}
  Null = Null
  Priorities = {1, 2}
  Payloads = {a}
  Cameras = {c1, c2}
  Addresses = {a1, a2}
  Searches = {t1, t2}
  CameraCount = 2
  FeedCount = 2
  MaxNumber = 2
  MaxAnswers = 2
  MaxOrders = 2
  Nothing = nothing
  Callers = {p, q}
  ColumnCount = 2
  Attributes = {attr}
  Configurations = {conf}
  Values = {one, zero}
  Counting = {one}
  MaxLog = 1
  MaxTries = 1
  MaxCalls = 3
  MaxBusy = 2
  Gone = gone
  Unknown = unknown
INVARIANTS TablesTypeOK LinkedBothWays FoundOnlyWhenAlone  OneRowPerColumn StoredAsSet LogBounded StatusIsOwn AnswerIsTaken NodesAreWatched 
PROPERTIES ImplementsTaskQueue
CHECK_DEADLOCK FALSE
