SPECIFICATION DexFairSpec
CONSTANTS
  Pairs = {p1}
  Onchain <- MCOnchain
  Gains <- MCGains
  EntryMin = 600
  MaxConcurrent = 3
  ExposureCap = 25
  Perps = 10
  NansenOn = TRUE
  MaxPositions = 1
  MaxQueue = 3
  MaxUpsets = 1
  p1 = p1
INVARIANTS OneBuyPerPair SoldInFullOnce
PROPERTY HitStopsAreSold
