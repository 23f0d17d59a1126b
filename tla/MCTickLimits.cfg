SPECIFICATION Spec
CONSTANTS
  Coins = {c1, c2, c3}
  Ids = {i1, i2, i3}
  TrackA <- TwoTrackA
  ExecutionOrder <- Order
  Priority <- Prio
  GrossCap = 9
  MinTrade = 2
  MinAvailable = 1
  MaxLongs = 1
  MaxShorts = 2
  AceSizes = {4}
  TrackASize = 4
  ReducedPct = 100
  FathomPcts = {100}
  AceCap0 = 1
  AceCaps = {1, 2}
  TrackACap = 1
  MaxCandidates = 2
  MaxIntents = 2
  Dollar = 1
  MaxNotional = 8
  Faults = {"raised"}
  Events = {"reload"}
  SyncOnStartup = FALSE
  KillCallers = {"acevault", "growi"}
INVARIANTS
  AceOvershootBounded
  ContestedCoinsSitOut
PROPERTIES
  TickAdvances
  TrackAOpensWithinLimits
SYMMETRY Symmetry
