SPECIFICATION MCSpec
CONSTANTS
  c1 = c1
  Checkouts = {c1}
  RetrySchedule <- MCRetrySchedule
  GracePeriod = 1
  Period = 4
  Terms = {0, 5}
  LockTimeout = 1
  KeyLife = 3
  MaxPayments = 3
  MaxFaults = 1
  MaxTime = 9
  Horizon = 8
INVARIANTS TypeOK SomeWorkerPicksIt OneRenewalAPeriod
PROPERTIES PaidIsReported RenewalEnds
CHECK_DEADLOCK FALSE
