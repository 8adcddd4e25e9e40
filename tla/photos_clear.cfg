SPECIFICATION Spec
CONSTANTS
  Request = {r1, r2}
  None = None
  MaxPhotos = 1
  MaxFaults = 0
SYMMETRY Symmetry
INVARIANT ClearedIsDeleted
CHECK_DEADLOCK FALSE
