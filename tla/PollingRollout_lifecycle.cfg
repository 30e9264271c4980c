SPECIFICATION RolloutSpec
CONSTANTS
  None = None
  Configs = {1, 2, 3}
  Images = {1}
  Specs <- ThreeSpecs
  Edits <- Onwards
  Malformed <- Refused
  PodIds = {p1, p2}
  Faults = {"apiError", "podFailure", "restart", "drift"}
  MaxFaults = 1
  MaxUid = 1
  MaxRv = 3
  MaxClock = 0
  MaxOverlap = 1
INVARIANTS
  RolloutTypeOK
  AloneChildrenOwned
  AloneEnvMatchesHash
PROPERTIES
  AloneLeavesNoPod
  AloneNoSurplus
  AloneManages
  Settles
CHECK_DEADLOCK FALSE
