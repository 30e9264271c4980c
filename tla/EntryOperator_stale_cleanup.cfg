SPECIFICATION SafetySpec
CONSTANTS
  None = None
  Configs = {1}
  Images = {1}
  Specs <- OneSpec
  Edits <- NoEdits
  PodIds = {p1, p2}
  Faults = {}
  MaxFaults = 0
  MaxUid = 1
  MaxRv = 1
  MaxClock = 0
  MaxLag = 1
PROPERTY NoPodLeftBehind
CHECK_DEADLOCK FALSE
