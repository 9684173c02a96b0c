SPECIFICATION FairSpec
CONSTANTS
  c1 = c1
  Commands = {c1}
  Assets = {"BTC", "TON"}
  AssetOf <- MCAssetOf
  Static = {}
  Fiat = FALSE
  Slow = TRUE
  MaxAttempts = 2
  MaxBodies = 3
  MaxFaults = 2
INVARIANTS TypeOK ActivatedOnceForMoney OneAnswer
PROPERTIES EveryCheckoutAnswered PaidIsActivated
CHECK_DEADLOCK FALSE
