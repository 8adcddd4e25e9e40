SPECIFICATION FairSpec
CONSTANTS
  Request = {1, 2, 3}
  Person = {"ann", "bob"}
  First = {"ann"}
  Address = {"a", "b"}
  Inbox <- Inboxes
  Subject = {"s"}
  ProviderOf <- Providers
  OwnerOf <- Owners
  None = None
  PoolSize = 3
INVARIANTS
  VerifiedWasProved
  EveryAccountReachable
PROPERTIES
  EveryRequestAnswered
CHECK_DEADLOCK FALSE
