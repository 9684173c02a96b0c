SPECIFICATION FairSpec
CONSTANTS
  n1 = n1
  pay1 = pay1
  Nodes = {n1}
  Payments = {pay1}
  Limit = 1
  Enforce = TRUE
  Reordering = FALSE
  MaxMonth = 1
  MaxBytes = 1
  MaxRev = 2
  MaxFaults = 0
  MaxInFlight = 1
PROPERTIES ResetRestoresCdn
CHECK_DEADLOCK FALSE
