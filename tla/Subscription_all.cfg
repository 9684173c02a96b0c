SPECIFICATION MCSpec
CONSTANTS
  pay1 = pay1
  pay2 = pay2
  Messages = {1, 2, 3, 4, 5, 6, 7, 8, 9, 10, 11, 12}
  Op <- MCOps
  After <- MCOrder
  Payments = {pay1, pay2}
  Duration <- MCDuration
  TrialDays = 1
  MonthDays = 1
  UsersPerMonth = 1
  PlainMargin = 1
  RenewMargin = 3
  MaxReferees = 2
  MaxCrashes = 1
  LastMessage = 5
  MaxTime = 13
INVARIANTS TypeOK NoFreeTime RenewsOrEnds TermAnnounced
PROPERTIES TermNeverShortened PaidNotDemoted AccessPromiseKept LapsedEnds
CHECK_DEADLOCK FALSE
