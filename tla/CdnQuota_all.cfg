SPECIFICATION MCSpec
CONSTANTS
  n1 = n1
  pay1 = pay1
  Nodes = {n1}
  Payments = {pay1}
  Limit = 2
  Enforce = TRUE
  Reordering = FALSE
  MaxMonth = 2
  MaxBytes = 3
  MaxRev = 2
  MaxFaults = 1
  MaxInFlight = 1
INVARIANTS TypeOK NoByteChargedTwice ActiveHasQuotaLeft BaselineWithinTotal
PROPERTIES OnlyPeriodReopens MonthCaughtUp DesiredFollowsQuota
CHECK_DEADLOCK FALSE
