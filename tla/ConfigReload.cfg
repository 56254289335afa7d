\* Clients, other programs, also in place, failing steps and crashes.
SPECIFICATION FairSpec
CONSTANTS
  Values = {a, b}
  Default = Default
  Broken = Broken
  Edits = {a, Broken}
  None = None
  ReadFails = TRUE
  MaxStamp = 4
INVARIANTS
  AckedSurvives
  VersionIsRead
PROPERTIES
  OthersBreakIt
  FileIsFollowed
