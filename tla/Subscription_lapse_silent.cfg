SPECIFICATION FairSpec
CONSTANTS
  pay1 = pay1
  pay2 = pay2
  Messages = {1, 2}
  Op <- ReadOps
  After <- MCNoOrder
  Payments = {pay1, pay2}
  Duration <- MCDuration
  TrialDays = 1
  MonthDays = 1
  UsersPerMonth = 1
  PlainMargin = 1
  RenewMargin = 3
  MaxReferees = 0
  MaxCrashes = 0
  LastMessage = 6
  MaxTime = 9
PROPERTIES LapseAnnounced
CHECK_DEADLOCK FALSE
