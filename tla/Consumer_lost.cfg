SPECIFICATION Spec
CONSTANTS
  w1 = w1
  w2 = w2
  Workers = {w1}
  LastOffset = 2
  Outcomes <- PoisonOutcomes
  MaxAttempts = 2
  MaxFaults = 0
INVARIANTS NothingLost
CHECK_DEADLOCK FALSE
