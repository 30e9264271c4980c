SPECIFICATION SafetySpec
CONSTANTS
  None = None
  Configs = {1, 2}
  Images = {1}
  Specs <- TwoConfigs
  Edits <- Upwards
  PodIds = {p1}
  Faults = {"apiError", "restart"}
  MaxFaults = 1
  MaxUid = 2
  MaxRv = 3
  MaxClock = 1
  MaxLag = 2
INVARIANTS
  TypeOK
  EnvMatchesHash
  ChildrenOwned
  CurrentPodsKept
PROPERTY
  CreatesForLiveEntry
CHECK_DEADLOCK FALSE
