SPECIFICATION Spec
CONSTANTS
  Prices <- FourPrices
  Looks <- SomeLooks
  MinWeakness = 1
  RangingMinWeakness = 2
  MinVolumeRatio = 1
  DeadZone = 35
  EdgeDistance = 15
  Buffer = 2
  MinMoveToCost = 2
  RoundTripCost = 13
  HardTarget = 0
  Profitability = FALSE
  BlockLow = 1
  BlockHigh = 2
  BlockAbove = 2
  LossCooldown = 3
  StopCooldown = 2
  Restarts = TRUE
PROPERTIES
  LossesWaitOut
  EdgeEarned
