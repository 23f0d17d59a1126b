SPECIFICATION FairSpec
CONSTANTS
  Coins = {"BTC"}
  Strategies = {"acevault", "mc_recovery"}
  Factory <- DeployedSettings
  Proposed = {"reduce_position_size", "raise_min_signal_score", "reduce_fathom_acevault_max_mult"}
  Deltas <- Down
  ScoreRange <- Scores
  MultFloor = 0
  DeepEvery = 2
  ShallowEvery = 1
  InitialDelay = 1
  CatchUp = 0
  Cooldown = 1
  MinTrades = 1
  WindowRows = 1
  MinCheckpoint = 1
  MaxCheckpoint = 2
  Timeout = 1
  HotReloads = TRUE
  Faults = TRUE
  Crashes = TRUE
  MaxTrades = 1
  MaxChanges = 2
INVARIANTS
  StampsAreCurrent
PROPERTIES
  ImplementsSteppedSettings
  DeepRunsRecur
