SPECIFICATION Spec
CONSTANTS
  zwave = zwave
  app1 = app1
  app2 = app2
  event = event
  Conns = {zwave, app1, app2}
  Daemons = {"DAEMON_ZWAVE"}
  ClientType <- MCClientType
  SocketType <- MCSocketType
  MaxClients = 2
  Fds = {1, 2, 3}
  ListenBacklog = 1
  BufMax = 1
  MaxSend = 1
  TornKinds = {}
INVARIANTS ReplyToSender
CHECK_DEADLOCK FALSE
