SPECIFICATION MCSpec
CONSTANTS
  Nodes <- FourNodes
  Graphs <- MCGraphs
  SmallGraph = 5
  WideNet = 2
  None = None
  Indices <- FourNodes
  Unassigned = Unassigned
  Submitted <- MCSubmitted
  NotFinite = NotFinite
  MaxOption = 8
  One = 2
  MaxSweeps = 8
  MaxDimension = 9
  MaxBundleWidth = 8
  MaxBundleWork = 18
INVARIANTS
  AcceptedIsConsistent
  ComponentsAreMutual
  EveryComponentOrdered
  RanksAreTight
  BoundariesOutermost
  BreakersOpenCycles
  LatestKeepsOrder
