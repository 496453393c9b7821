SPECIFICATION BundleSpec
CONSTANTS
  HeaderChars = 3
  TailChars = 3
  Radius = 1
  MaxWindows = 3
  MaxChars = 16
  Mark = 1
  Note = 1
  Slack = 1
  Gap = 2
  Epsilon = 2
  Day = 10
  Offers <- MCOffers
  MaxFiles = 3
  MaxFileBytes = 9
  MaxTotalBytes = 15
  Chunk = 4
  ItemsPerFile = 2
  ItemsTotal = 4
  Artifacts <- MCArtifacts
  Anchors <- MCAnchors
  CodeOrder <- MCCodeOrder
CHECK_DEADLOCK FALSE
INVARIANTS LimitsHold VerdictFounded OrderOfUploadIrrelevant ChronologySound
