SPECIFICATION SolutionSpec
CONSTANTS
  HeaderChars = 3
  TailChars = 3
  Radius = 1
  MaxWindows = 3
  MaxChars = 40
  Mark = 1
  Note = 1
  Slack = 1
  Gap = 2
  Epsilon = 2
  Day = 10
  Requests <- MCRequests
  Anchors <- MCAnchors
  Pages <- MCPages
  Starting <- MCStarting
  Tiers <- MCTiers
  WebLimit = 3
  HitLimit = 2
  ResultLimit = 3
CHECK_DEADLOCK FALSE
INVARIANTS CitationsFounded
