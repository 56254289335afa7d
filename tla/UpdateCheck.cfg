SPECIFICATION FairSpec
CONSTANTS
  MaxVersion = 3
  Sources = {gitee, github}
  FailureDelays <- MCDelays
  SuccessDelay = 2
  InitialDelay = 1
  Cooldown = 1
  None = None
  SaveFails = TRUE
  SpawnFails = FALSE
PROPERTIES
  ReleaseIsKept
  BackoffHolds
  AutoHappens
