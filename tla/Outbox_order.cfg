SPECIFICATION Spec
CONSTANTS
  k1 = k1
  k2 = k2
  p1 = p1
  p2 = p2
  NoMark = NoMark
  EventIds <- MCEventIds
  Keys = {k1, k2}
  KeyOf <- MCKeyOf
  Publishers = {p1, p2}
  BatchSize = 1
  MaxAttempts = 2
  ReturningSorted = TRUE
  Faults = {}
PROPERTIES KeyOrder
CHECK_DEADLOCK FALSE
