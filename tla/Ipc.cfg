SPECIFICATION FairSpec
CONSTANTS
  Clients = {c1, c2}
  Eof = Eof
  None = None
  MaxClients = 1
  QueueCap = 1
  UpdatesCap = 1
  MaxSnapshot = 3
  SpawnFails = FALSE
  AcceptFails = TRUE
CHECK_DEADLOCK FALSE
INVARIANTS
  ActiveIsServed
PROPERTIES
  ImplementsFeed
  ConnectionEnds
