SPECIFICATION Spec
CONSTANTS
  Nodes <- SevenNodes
  Graphs <- MCGraphs
  Passes = 2
  MediumFanout = 2
  WideFanout = 3
  BroadFanout = 3
  WidestFanout = 4
  ManyNodes = 7
  SiftLayerItems = 4
  SiftWorkLimit = 80
  CrossingsPerEdge = 0
  None = None
INVARIANTS
  RecordsMatchLayers
  SiftedIsBetter
PROPERTIES
  MovesReduceCrossings
\* The call ends.
CHECK_DEADLOCK FALSE
