SPECIFICATION Spec
CONSTANTS
  Coins = {c1, c2}
  Ids = {i1, i2, i3}
  TrackA <- OneTrackA
  ExecutionOrder <- Order
  Priority <- Prio
  GrossCap = 21
  MinTrade = 2
  MinAvailable = 1
  MaxLongs = 2
  MaxShorts = 4
  AceSizes = {6}
  TrackASize = 5
  ReducedPct = 50
  FathomPcts = {150}
  AceCap0 = 2
  AceCaps = {2}
  TrackACap = 1
  MaxCandidates = 2
  MaxIntents = 1
  Dollar = 2
  MaxNotional = 8
  Faults = {"refused", "unfilled", "lost", "raised", "cut"}
  Events = {"external", "crash"}
  SyncOnStartup = TRUE
  KillCallers = {}
INVARIANTS
  AceMirrorsPortfolio
  AceOnePerCoin
  BookMatchesVenue
SYMMETRY Symmetry
