SPECIFICATION Spec
CONSTANTS
  None = None
  Configs = {1, 2}
  Images = {1}
  Specs <- TwoConfigs
  Edits <- Reverts
  PodIds = {p1}
  Faults = {"crash"}
  MaxFaults = 1
  MaxUid = 1
  MaxRv = 4
  MaxClock = 0
  MaxLag = 1
PROPERTY EnvSettles
CHECK_DEADLOCK FALSE
