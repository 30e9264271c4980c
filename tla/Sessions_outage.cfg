SPECIFICATION Spec
CONSTANTS
  Pods = {p1, p2}
  Tokens = {t1, t2}
  Second = 2
  SessionTTL = 4
  MaxClock = 1
  MaxFaults = 1
SYMMETRY SessionSymmetry
INVARIANT RedisOptional
CHECK_DEADLOCK FALSE
