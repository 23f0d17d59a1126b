SPECIFICATION LanesFairSpec
CONSTANTS
  Engines = {btc}
  Btc = btc
  Cooldown = 2
  Threshold = 2
  Losses = {1}
  ManualResets = TRUE
  Readings <- SampleReadings
  TrendMin = 4
  VolTrend = 4
  ExtendedMin = 1
  SwingBars = 3
  RangeBars = 3
  RsiExtreme = 72
  MinConfidence = 7
  HysteresisTicks = 2
  MaxOpensPerDay <- PerDay
  MaxOpensPerSession <- PerSession
  PositionSize <- Sizes
  GrossCap = 2
  DayLength = 1
  MaxPositions = 2
INVARIANTS
  TradingBelowThreshold
PROPERTIES
  TripLastsCooldown
  DebouncesRegime
  LastingMarketIsCommitted
