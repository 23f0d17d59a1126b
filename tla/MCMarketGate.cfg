SPECIFICATION MarketFairSpec
CONSTANTS
  c1 = c1
  c2 = c2
  Coins = {c1, c2}
  CoinRank <- Ranks
  Engines = {"acevault", "btc"}
  Continuing = {"btc"}
  Readings <- SampleReadings
  VolExpanding = 1
  VolYellow = 1
  VolHigh = 2
  VolShock = 3
  VolRed = 3
  MovePost = 2
  MoveRevert = 2
  MoveShock = 3
  RegimeMult <- Mults
  RedMult = 50
  HighVolMult = 100
  ConflictMult <- Conflict
  SkipShock = {"btc"}
  SkipConflict = {"btc"}
  CoinWeight <- NoCoins
  EngineWeight <- Tiers
  MediumWeight = 2
  BetaCap <- Caps
  RegimeGross <- Gross
  EarlyGross = 50
  GrossFloor = 6
  TopN = 1
  RefreshGap = 2
  StrictList = TRUE
  Bases = {4}
  Safeties = {50}
  MinMult = 50
  MaxMult = 150
  RawMults = {0, 200}
  MaxOpen = 2
  MaxBatch = 2
  GrossCap = 12
  MinTrade = 1
  MinAvailable = 1
  MaxLongs = 3
  MaxShorts = 3
INVARIANTS
  BetaHeld
PROPERTIES
  DarkEntriesAreExempt
  Unblocked
