SPECIFICATION PagingSpec
CONSTANTS
  Row = {1, 2, 3}
  Null = Null
  MaxKey = 1
  MaxAt = 2
  FirstAt <- FirstTimes
  Queries <- OneOfEach
  MaxPage = 2
  DefaultPage = 1
  MaxChanges = 2
INVARIANTS
  NothingDropped
  NothingRepeated
PROPERTIES
  CursorAdvances
CHECK_DEADLOCK FALSE
