SPECIFICATION FairSpec
CONSTANTS
  Message = {m1, m2}
  NoMessage = NoMessage
  Worker = {w1, w2}
  NoWorker = NoWorker
  Batch = 2
  MaxAttempts = 2
  MaxStops = 1
INVARIANTS
  SentWasDelivered
  GivenUpWhenExhausted
  AttemptsBounded
PROPERTIES
  SettledStays
  MailSettles
CHECK_DEADLOCK FALSE
