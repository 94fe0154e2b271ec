SPECIFICATION MCSpec
CONSTANTS
  Calls <- MCCalls
  NodeGap = 4
  Budget <- MCBudget
  Radius <- MCRadius
  MaxMembers = 2
  MaxGroups = 2
  MaxGroupMembers = 3
  None = None
  Pitch <- MCPitch
  RailDepth <- MCRailDepth
  Reserve <- MCReserve
  MaxCollectorBundles = 2
  MaxPromotions = 2
  MaxSegments = 12
  Nothing = Nothing
  Jobs <- MCJobs
INVARIANTS
  AcceptsQuotients
  CorridorsMakeRoom
  SearchIsBestAffordable
  SegmentsCounted
  TapsMeetRoutes
  LanesApart
\* The calls end.
CHECK_DEADLOCK FALSE
