SPECIFICATION Spec
CONSTANTS
  Homeowners = {h1, h2}
  Contractors = {c1}
  Listings = {l1}
  Jobs = {j1}
  Requests = {r1, r2, r3}
  None = None
  MaxPage = 2
  MaxBlocks = 1
SYMMETRY Symmetry
INVARIANTS
  OneThreadPerPair
  AnswerIsUsable
  GaplessSequence
  NothingSkipped
  UnreadExact
  BlockStopsLaterRequests
PROPERTIES
  EvidenceKept
CHECK_DEADLOCK FALSE
