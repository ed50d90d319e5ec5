SPECIFICATION FairSpec
CONSTANTS
  c1 = c1
  c2 = c2
  none = none
  Conn = {c1, c2}
  Player = {1}
  SessionId = {1, 2}
  HostOf <- OneHost
  MaxConnections = 2
  MaxConnectionsPerIP = 2
  MaxHandshakes = 1
  QueueSize = 1
  None = none
INVARIANTS Bookkeeping StopComplete
PROPERTIES PresenceConverges
CHECK_DEADLOCK FALSE
