SPECIFICATION FairSpec
CONSTANTS
  Listings = {1, 2}
  Users = {u1}
  Requests = {r1, r2}
  Waiting = {k1}
  Imports = {i1}
  Nightly = nightly
  None = None
  Register <- FirstRegister
  Files <- DatedFile
  BatchSize = 1
  PageSize = 1
  MaxFailures = 1
INVARIANTS
  OwnershipMatchesClaims
  NeverVerifiedUnowned
  ChangersLeaveBadgeRight
PROPERTIES
  DecisionsFinal
  BadgesSettle
CHECK_DEADLOCK FALSE
