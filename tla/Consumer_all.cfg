SPECIFICATION FairSpec
CONSTANTS
  w1 = w1
  w2 = w2
  Workers = {w1, w2}
  LastOffset = 2
  Outcomes <- MCOutcomes
  MaxAttempts = 2
  MaxFaults = 3
INVARIANTS TypeOK NothingPassedOver AllAttemptsSpent
PROPERTIES OrderKept EveryMessageSettles
CHECK_DEADLOCK FALSE
