\* One adapter that is unplugged, one request at a time, one box, one change at the service.
CHECK_DEADLOCK FALSE
SPECIFICATION Spec
CONSTANTS
  a1 = a1
  a2 = a2
  None = None
  Adapters = {a1}
  TaskCap = 1
  EventCap = 3
  MaxNest = 1
  MaxNews = 1
  Saved <- ManualOff
  Snapshots <- Cables
  Prefs = {FALSE}
  Edits <- AllEdits
  StartFails = TRUE
INVARIANTS
  LockedForAReason
  ShowsNewestInOrder
PROPERTIES
  ChoiceKept
