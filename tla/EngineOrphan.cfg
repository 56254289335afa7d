\* Captures that deliver frames before their first send fails: the session that is missed.
SPECIFICATION Spec
CONSTANTS
  a1 = a1
  a2 = a2
  s1 = s1
  s2 = s2
  None = None
  NoPeer = NoPeer
  Servers = {s1}
  Adapters = {a1}
  Rank <- MCRank
  Configs <- AutoAny
  Calls <- UserCalls
  Frames <- Exchanges
  Powers <- NoPowers
  Faults = TRUE
  SpillMax = 2
  QueueCap = 2
  MaxAttempt = 0
  MaxGen = 1
INVARIANTS
  OnlineHasSession
