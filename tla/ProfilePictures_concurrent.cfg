SPECIFICATION Spec
CONSTANTS
  Pods = {p1, p2}
  Uploaders = {u1, u2}
  Readers = {r1}
  NoPicture = NoPicture
  MaxUploads = 2
  MaxFaults = 0
SYMMETRY PictureSymmetry
INVARIANT CacheAgrees
CHECK_DEADLOCK FALSE
