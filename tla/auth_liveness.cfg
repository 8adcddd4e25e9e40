SPECIFICATION FairSpec
CONSTANTS
  Request = {r0, r1, r2}
  NoRequest = NoRequest
  FirstRequest = r0
  Password = {p1, p2}
  NoPassword = NoPassword
  MaxFailedAttempts = 2
  MaxCodeAttempts = 2
PROPERTIES
  EveryRequestAnswered
CHECK_DEADLOCK FALSE
