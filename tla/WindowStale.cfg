\* A box that holds back the end of a subscription while a later one is shown.
CHECK_DEADLOCK FALSE
SPECIFICATION Spec
CONSTANTS
  a1 = a1
  a2 = a2
  None = None
  Adapters = {a1}
  TaskCap = 1
  EventCap = 3
  MaxNest = 1
  MaxNews = 1
  Saved <- ManualOff
  Snapshots <- Cables
  Prefs = {FALSE}
  Edits <- AllEdits
  StartFails = FALSE
INVARIANT ShowsNewest
