\* Liveness, with system calls that fail.
SPECIFICATION FairSpec
CONSTANTS
  a1 = a1
  a2 = a2
  s1 = s1
  s2 = s2
  None = None
  NoPeer = NoPeer
  Servers = {s1}
  Adapters = {a1}
  Rank <- MCRank
  Configs <- AutoOn
  Calls <- Reconnects
  Frames <- Exchanges
  Powers <- AllPowers
  Faults = TRUE
  SpillMax = 1
  QueueCap = 1
  MaxAttempt = 0
  MaxGen = 3
PROPERTIES
  AttemptEnds
  LatchesAreServed
  NoForgottenLink
