SPECIFICATION FairSpec
CONSTANTS
  zwave = zwave
  app1 = app1
  app2 = app2
  event = event
  Conns = {zwave, app1}
  Daemons = {"DAEMON_ZWAVE"}
  ClientType <- MCClientType
  SocketType <- MCSocketType
  MaxClients = 2
  Fds = {1, 2}
  ListenBacklog = 1
  BufMax = 1
  MaxSend = 2
  TornKinds = {"head", "data"}
PROPERTIES InputIsRead ClosedIsReleased
CHECK_DEADLOCK FALSE
