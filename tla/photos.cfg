SPECIFICATION Spec
CONSTANTS
  Request = {r1, r2, r3, r4, r5}
  None = None
  MaxPhotos = 2
  MaxFaults = 1
SYMMETRY Symmetry
INVARIANTS
  NoBrokenPhoto
  NothingLostUnlessCancelled
  WorkOrphansLogged
CHECK_DEADLOCK FALSE
