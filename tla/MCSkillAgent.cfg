SPECIFICATION FairSpec
CONSTANTS
  Ids = {i1, i2}
  QueueMax = 1
  MaxFaults = 1
  Coins = {btc}
  MaxFills = 1
  FillsCeiling = 2
  MaxConcurrent = 1
  DetMax = 2
  Regimes = {"neutral", "bearish"}
  MaxClears = 1
INVARIANTS
  FillsBounded
PROPERTIES
  ImplementsOnceOnly
  QueuedAreTried
