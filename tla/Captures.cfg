\* Up to three records of any length; requests that are refused or never answered.
SPECIFICATION FairSpec
CONSTANTS
  Headers = {18, 20}
  Lengths = {1, 2, 5, 7}
  MaxFrame = 6
  BufferSize = 56
  MaxArrived = 3
  Faults = TRUE
CHECK_DEADLOCK FALSE
INVARIANTS
  FramesInOrder
  FailsOnCutFrame
  RequestsAreJoined
PROPERTIES
  StopEndsReader
