SPECIFICATION FairSpec
CONSTANTS
  k1 = k1
  k2 = k2
  p1 = p1
  p2 = p2
  NoMark = NoMark
  EventIds <- MCEventIds
  Keys = {k1, k2}
  KeyOf <- MCKeyOf
  Publishers = {p1, p2}
  BatchSize = 2
  MaxAttempts = 2
  ReturningSorted = FALSE
  Faults = {"publish", "timeout", "db", "crash"}
INVARIANTS TypeOK ClaimedOnce BoundedCopies PublishedWasAccepted DeadLetterAfterLastAttempt
PROPERTIES PromiseKept EveryEventSettles
CHECK_DEADLOCK FALSE
