SPECIFICATION Spec
CONSTANTS
  Request = {r0, r1, r2, r3}
  NoRequest = NoRequest
  FirstRequest = r0
  Password = {p1, p2}
  NoPassword = NoPassword
  MaxFailedAttempts = 2
  MaxCodeAttempts = 2
SYMMETRY Symmetry
INVARIANTS
  PasswordSessionsCurrent
  ChangeWinsOnce
  LockIffExhausted
  TokenSpentOnce
  CodeGuessesBounded
PROPERTIES
  ImplementsAuthority
CHECK_DEADLOCK FALSE
