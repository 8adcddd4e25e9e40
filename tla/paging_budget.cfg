SPECIFICATION PagingSpec
CONSTANTS
  Row = {1, 2, 3}
  Null = Null
  MaxKey = 1
  MaxAt = 2
  FirstAt <- FirstTimes
  Queries <- ByBudget
  MaxPage = 2
  DefaultPage = 1
  MaxChanges = 0
INVARIANT EveryRowShown
CHECK_DEADLOCK FALSE
