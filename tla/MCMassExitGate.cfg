SPECIFICATION GateFairSpec
CONSTANTS
  Markets <- EightMarkets
  RegimeCooldown = 2
  StrictConfidence = 72
  DemotedConfidence = 65
  UnstructuredConfidence = 60
  MinSeconds = 2
  MinConsecutive = 3
  MinConfidence = 75
  Cooldown = 6
INVARIANTS
  NeverUndercounts
PROPERTIES
  ExitsSpaced
  HeldExitsAreRecent
  StayingUpExits
