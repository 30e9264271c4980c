SPECIFICATION Spec
CONSTANTS
  Pods = {p1, p2}
  Uploaders = {u1, u2}
  Readers = {r1}
  NoPicture = NoPicture
  MaxUploads = 2
  MaxFaults = 3
SYMMETRY PictureSymmetry
INVARIANTS
  TypeOK
  ServesRow
  AgreesUncrossed
  AckedKept
CHECK_DEADLOCK FALSE
