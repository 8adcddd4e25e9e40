SPECIFICATION FairSpec
CONSTANTS
  Address = {"here", "next", "far"}
  FirstAddress = {"here"}
  OwnAddress = {"next"}
  None = None
  ZipOf <- Zips
  Located = {"known"}
  Job = {1, 2}
  Worker = {w1, w2}
  MaxAttempts = 2
  MaxStops = 1
  MaxEdits = 2
INVARIANTS
  PublishedIsTheRule
PROPERTIES
  PreciseNeverLost
  JobSettles
CHECK_DEADLOCK FALSE
