\* One adapter and two authenticators; captures that deliver frames before their first
\* send fails; the growth of the retry delay.
SPECIFICATION Spec
CONSTANTS
  a1 = a1
  a2 = a2
  s1 = s1
  s2 = s2
  None = None
  NoPeer = NoPeer
  Servers = {s1, s2}
  Adapters = {a1}
  Rank <- MCRank
  Configs <- Chosen
  Calls <- UserCalls
  Frames <- AllFrames
  Powers <- AllPowers
  Faults = TRUE
  SpillMax = 1
  QueueCap = 1
  MaxAttempt = 2
  MaxGen = 3
PROPERTIES
  PeerIsPinned
  OnlineByOwnProbe
  BackoffIsKept
  SessionKept
