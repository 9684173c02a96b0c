SPECIFICATION MCSpec
CONSTANTS
  n1 = n1
  n2 = n2
  i1 = i1
  i2 = i2
  None = None
  Nodes = {n1, n2}
  Items = {i1, i2}
  HomeNode <- MCHomeNode
  Country <- MCCountry
  Position <- MCPosition
  MaxUsers <- MCMaxUsers
  Weight <- MCWeight
  SoftOverflow = FALSE
  Loads <- MCLoads
  Kinds <- MCKinds
  Reordering = TRUE
  MovesItems = FALSE
  MaxOthers = 1
  MaxRev = 2
  MaxUpsets = 1
  MaxUnrevised = 2
  MaxEvents = 2
INVARIANTS TypeOK EndTakesEffect
PROPERTIES ProvisionedWhileLive
CHECK_DEADLOCK FALSE
