\* Two adapters; connect and disconnect, suspend and resume, cables, configurations that
\* change under a session, failing calls, and captures that say something before their
\* first send fails.
SPECIFICATION Spec
CONSTANTS
  a1 = a1
  a2 = a2
  s1 = s1
  s2 = s2
  None = None
  NoPeer = NoPeer
  Servers = {s1}
  Adapters = {a1, a2}
  Rank <- MCRank
  Configs <- Several
  Calls <- LifeCalls
  Frames <- Accepted
  Powers <- AllPowers
  Faults = TRUE
  SpillMax = 1
  QueueCap = 1
  MaxAttempt = 0
  MaxGen = 3
INVARIANTS
  ManualStaysOff
  SuspendedIsQuiet
  NeverStuckAuthenticating
  OnlineIsSettled
  SessionIsCurrent
PROPERTIES
  OpenedOnlyIfWanted
