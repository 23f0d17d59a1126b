SPECIFICATION CyclesSpec
CONSTANTS
  Markets = {c1, c2, btc}
  Excluded = {btc}
  Disabled = {}
  Rows <- SampleRows
  Readings <- SampleReadings
  Weaknesses <- Weak
  Regimes <- AllRegimes
  Allowed <- TradesIn
  MinVolume = 2
  MinOpenInterest = 1
  MaxImpact = 2
  MaxFunding = 3
  MaxPremium = 2
  RejectIsolated = FALSE
  LiqRange <- Liqs
  CostRange <- Costs
  RawRange <- Raw
  AlphaScale = 4
  RegimeByEngine <- Mult
  DefaultMult = 1
  MinSubmitBase = 1
  MinSubmitByRegime <- Submit
  Tier1Liq = 2
  Tier2Liq = 1
  MediumScore = 4
  StrongScore = 8
  EliteScore = 16
  BandLeverage <- Table
  TopTarget = 10
  HighLeverage = 5
  HighBase = 3
  GrossBase = 2
  CapMult <- Overrides
  CapClamps <- Clamps
  Size <- SizeOf
  MaxConcurrent <- Concurrent
  MaxCandidates <- Candidates
  MaxEval <- Cut
  AcePool = 2
  Oversold = 30
  Overbought = 70
  MinDrop = 3
  RsiMax = 38
  MinVolRatio = 1
  RefreshEvery = 1
INVARIANTS
  HighLeverageOvershootBounded
  CapacityOvershootBounded
SYMMETRY Symmetry
