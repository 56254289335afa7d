SPECIFICATION Spec
CONSTANTS
  NoOne = NoOne
  Processes = {p1, p2}
  Stale = Stale
  Unfit = TRUE
  Self = cli
  s1 = s1
  Servers = {s1}
  NoPeer = NoPeer
  MaxAdapters = 2
  Frames <- Exchanges
  QueueCap = 1
  None = None
  Faults = TRUE
  Shared <- Probing
CHECK_DEADLOCK FALSE
INVARIANTS
  OneCapture
  OwnProbeOnly
  InterruptIsPrompt
  EndpointIsFree
PROPERTIES
  Ends
  StopIsHonoured
