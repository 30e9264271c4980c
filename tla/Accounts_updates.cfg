SPECIFICATION Spec
CONSTANTS
  Count = 5
  NoUser = NoUser
  Workers = {w1}
  BatchSize = 2
  MaxRuns = 2
  MaxSeedFaults = 1
  Requests = {r1, r2}
  Self = 5
  Names = {n1}
  Blank = Blank
  Wide = Wide
  MaxUpdateFaults = 1
INVARIANTS
  TypeOK
  SeedComplete
  LatestUpdateWins
  RefusedNeverStored
PROPERTY SeedEnds
CHECK_DEADLOCK FALSE
