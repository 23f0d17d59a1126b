SPECIFICATION FairSpec
CONSTANTS
  Prices <- PriceRange
  Policies <- DeployedPolicies
  AgeLimit = 4
INVARIANTS
  SurvivorsEarnTheirPlace
  AceProfitLockedIn
  AceGiveBackBounded
PROPERTIES
  StopRatchets
  LossesCoolDown
  StopLossRetried
