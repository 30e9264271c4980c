SPECIFICATION Spec
CONSTANTS
  None = None
  Configs = {1}
  Images = {1}
  Specs <- TwoScales
  Edits <- Reverts
  PodIds = {p1, p2}
  Faults = {"apiError", "crash", "podFailure", "restart", "drift"}
  MaxFaults = 1
  MaxUid = 1
  MaxRv = 3
  MaxClock = 0
  MaxLag = 1
PROPERTIES
  ImplementsManagedEntry
  Settles
CHECK_DEADLOCK FALSE
