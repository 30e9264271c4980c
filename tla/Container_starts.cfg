SPECIFICATION Spec
CONSTANTS
  Absent = Absent
  Unset = Unset
  Malformed = Malformed
  Unreadable = Unreadable
  Refused = Refused
  StrongSecrets = {"strong"}
  Files <- Images
  Envs <- ConfigMaps
  MaxFaults = 2
INVARIANTS
  TypeOK
  LoadsByPrecedence
  OperatorDecides
  ServesMigrated
PROPERTY Heals
