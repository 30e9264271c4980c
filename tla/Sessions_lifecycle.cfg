SPECIFICATION Spec
CONSTANTS
  Pods = {p1, p2}
  Tokens = {t1, t2}
  Second = 2
  SessionTTL = 4
  MaxClock = 4
  MaxFaults = 2
SYMMETRY SessionSymmetry
INVARIANTS
  TypeOK
  BackedUntilExpiry
  RefusedForCause
PROPERTY LogoutHolds
CHECK_DEADLOCK FALSE
