\* One request, one release, a queue that overflows.
SPECIFICATION FairSpec
CONSTANTS
  OutageDelay = 2
  None = None
  Unavailable = Unavailable
  QueueCap = 1
  WireCap = 1
  MaxRequest = 1
  MaxRelease = 1
  Faults = TRUE
INVARIANTS
  ConnectIsAnswered
  ReleaseIsToldOnce
PROPERTIES
  WarningIsFollowedUp
  OutageIsToldOf
