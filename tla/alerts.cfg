SPECIFICATION FairSpec
CONSTANTS
  User = {u1}
  Poster = {u1, c1}
  Search = {"all", "late"}
  Job = {1, 2}
  Pass = {p1, p2}
  None = None
  Wanted <- Filters
  MaxPerUser = 1
  Batch = 1
  MaxBatches = 2
  MaxChanges = 2
  MaxDeaths = 1
INVARIANTS
  ToldOnce
  ToldWhoWasOwed
PROPERTIES
  OnlyOpenAnnounced
  EveryJobConsidered
CHECK_DEADLOCK FALSE
