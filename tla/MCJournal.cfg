SPECIFICATION FairSpec
CONSTANTS
  a1 = a1
  a2 = a2
  s1 = s1
  Ace <- MCAce
  TrackA <- MCTrackA
  Pnls <- MCPnls
  None = None
  Open = Open
  MinClosed = 1
  MinFactor = 108
  MinRatio = 110
  MaxFaults = 2
INVARIANTS
  RecordsAgree
  OpenRowsAreHeld
PROPERTIES
  PoorRecordReducesSize
